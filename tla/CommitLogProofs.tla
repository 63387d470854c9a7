-------------------------- MODULE CommitLogProofs --------------------------
(***************************************************************************)
(* What the commit log keeps, for every bound and every choice of faults.  *)
(***************************************************************************)
EXTENDS CommitLog, TLAPS, SequenceTheorems, FiniteSetTheorems,
        WellFoundedInduction

-----------------------------------------------------------------------------
(* Sequences of sequences *)

\* A set of numbers has a least element.
LEMMA LeastNat ==
  ASSUME NEW T, T \subseteq Nat, T # {}
  PROVE  \E d \in T : \A e \in T : d <= e
<1>1. PICK d \in T : \A y \in T : ~ (<<y, d>> \in OpToRel(<, Nat))
  BY NatLessThanWellFounded, WFMin, Zenon
<1>2. \A y \in T : ~ (y < d)
  BY <1>1 DEF OpToRel
<1> QED BY <1>2

\* g[i] is the first i members of q, one after the other.
Joins(S, q, g, n) ==
  /\ g \in [1..n -> Seq(S)]
  /\ \A i \in 1..n : g[i] = IF i = 1 THEN q[i] ELSE g[i - 1] \o q[i]

LEMMA JoinsExist ==
  ASSUME NEW S, NEW q \in Seq(Seq(S)), NEW n \in 1..Len(q)
  PROVE  \E g : Joins(S, q, g, n)
<1>0. Len(q) \in Nat /\ \A i \in 1..Len(q) : q[i] \in Seq(S)
  BY LenProperties, ElementOfSeq
<1> DEFINE T == {m \in 1..Len(q) : ~ \E g : Joins(S, q, g, m)}
<1>1. ASSUME T # {} PROVE FALSE
  <2>1. PICK m \in T : \A e \in T : m <= e
    <3>1. T \subseteq Nat
      OBVIOUS
    <3> HIDE DEF T
    <3> QED BY <1>1, <3>1, LeastNat
  <2>2. m \in 1..Len(q) /\ ~ \E g : Joins(S, q, g, m)
    BY <2>1
  <2>3. CASE m = 1
    <3> DEFINE g == [i \in 1..1 |-> q[1]]
    <3>1. g \in [1..1 -> Seq(S)] /\ \A i \in 1..1 : i = 1 /\ g[i] = q[i]
      BY <1>0, <2>2
    <3> HIDE DEF g
    <3>2. Joins(S, q, g, 1)
      BY <3>1 DEF Joins
    <3> QED BY <2>2, <2>3, <3>2
  <2>4. CASE m # 1
    <3>1. m - 1 \in 1..Len(q) /\ m - 1 \in 1..m /\ m \in Nat
      BY <1>0, <2>2, <2>4
    <3>2. m - 1 \notin T
      <4> HIDE DEF T
      <4>1. ~(m <= m - 1)
        BY <3>1
      <4> QED BY <2>1, <4>1
    <3>3. PICK h : Joins(S, q, h, m - 1)
      BY <3>1, <3>2
    <3>4. h \in [1..(m - 1) -> Seq(S)] /\ h[m - 1] \in Seq(S) /\ q[m] \in Seq(S)
      BY <1>0, <2>2, <3>1, <3>3 DEF Joins
    <3> DEFINE g == [i \in 1..m |-> IF i = m THEN h[m - 1] \o q[m] ELSE h[i]]
    <3>5. h[m - 1] \o q[m] \in Seq(S)
      BY <3>4
    <3>6. g \in [1..m -> Seq(S)]
      BY <3>1, <3>4, <3>5
    <3>7. \A i \in 1..m : g[i] = IF i = 1 THEN q[i] ELSE g[i - 1] \o q[i]
      <4> TAKE i \in 1..m
      <4>1. CASE i = m
        <5>1. m - 1 # m /\ m - 1 \in 1..m /\ m \in 1..m
          BY <3>1
        <5>2. g[m] = h[m - 1] \o q[m] /\ g[m - 1] = h[m - 1]
          BY <5>1
        <5> HIDE DEF g
        <5> QED BY <5>2, <4>1, <2>4
      <4>2. CASE i # m
        <5>1. i \in 1..(m - 1)
          BY <3>1, <4>2
        <5>2. h[i] = IF i = 1 THEN q[i] ELSE h[i - 1] \o q[i]
          BY <3>3, <5>1 DEF Joins
        <5>3. g[i] = h[i] /\ (i # 1 => g[i - 1] = h[i - 1])
          BY <3>1, <4>2, <5>1
        <5> HIDE DEF g
        <5> QED BY <5>2, <5>3
      <4> QED BY <4>1, <4>2
    <3> HIDE DEF g
    <3>8. Joins(S, q, g, m)
      BY <3>6, <3>7 DEF Joins
    <3> QED BY <2>2, <3>8
  <2> QED BY <2>3, <2>4
<1>2. n \notin T
  <2> HIDE DEF T
  <2> QED BY <1>1
<1> QED BY <1>2

LEMMA FlattenUnfolds ==
  ASSUME NEW S, NEW q \in Seq(Seq(S)), Len(q) > 0
  PROVE  \E g : Joins(S, q, g, Len(q)) /\ FlattenSeq(q) = g[Len(q)]
<1> DEFINE n == Len(q)
<1>1. n \in Nat /\ n \in 1..n
  BY LenProperties
<1>2. PICK g : Joins(S, q, g, n)
  BY <1>1, JoinsExist
<1> DEFINE Solves(f) == f = [i \in 1..n |-> IF i = 1 THEN q[i] ELSE f[i - 1] \o q[i]]
           f == CHOOSE x : Solves(x)
<1>3. Solves(g)
  BY <1>2 DEF Joins
<1>4. Solves(f)
  <2> HIDE DEF Solves
  <2> QED BY <1>3
<1>5. FlattenSeq(q) = f[n]
  BY <1>1 DEF FlattenSeq
<1> HIDE DEF f
<1>6. \A i \in 1..n : q[i] \in Seq(S) /\ g[i] \in Seq(S)
  BY <1>1, <1>2, ElementOfSeq DEF Joins
<1>7. DOMAIN f = 1..n /\ \A i \in 1..n : f[i] = IF i = 1 THEN q[i] ELSE f[i - 1] \o q[i]
  BY <1>4
<1>8. \A i \in 1..n : f[i] = g[i]
  <2> DEFINE T == {i \in 1..n : f[i] # g[i]}
  <2>1. ASSUME T # {} PROVE FALSE
    <3>1. PICK m \in T : \A e \in T : m <= e
      <4>1. T \subseteq Nat
        OBVIOUS
      <4> HIDE DEF T
      <4> QED BY <2>1, <4>1, LeastNat
    <3>2. m \in 1..n /\ f[m] # g[m]
      OBVIOUS
    <3>3. m = 1 \/ (m - 1 \in 1..n /\ m - 1 \notin T)
      <4>1. m \in Nat /\ m >= 1 /\ m <= n /\ ~(m <= m - 1)
        BY <3>2, <1>1
      <4>2. m # 1 => m - 1 \in 1..n
        BY <4>1, <1>1
      <4> HIDE DEF T
      <4> QED BY <3>1, <4>1, <4>2
    <3>4. m = 1 \/ f[m - 1] = g[m - 1]
      BY <3>3
    <3>5. f[m] = IF m = 1 THEN q[m] ELSE f[m - 1] \o q[m]
      BY <3>2, <1>7
    <3>6. g[m] = IF m = 1 THEN q[m] ELSE g[m - 1] \o q[m]
      BY <3>2, <1>2 DEF Joins
    <3> QED BY <3>2, <3>4, <3>5, <3>6
  <2> QED BY <2>1
<1> QED BY <1>1, <1>2, <1>5, <1>8

\* The i-th sequence of q stands in s, in one piece, behind its first p members.
Piece(s, q, i, p) ==
  /\ p \in Nat /\ p + Len(q[i]) <= Len(s)
  /\ \A j \in 1..Len(q[i]) : s[p + j] = q[i][j]

\* s holds the first m sequences of q in one piece each, and nothing else.
Pieces(S, q, s, m) ==
  /\ s \in Seq(S)
  /\ \A k \in 1..Len(s) : \E i \in 1..m, p \in Nat :
       Piece(s, q, i, p) /\ p < k /\ k <= p + Len(q[i])
  /\ \A i \in 1..m : \E p \in Nat : Piece(s, q, i, p)

LEMMA PieceAdded ==
  ASSUME NEW S, NEW q \in Seq(Seq(S)), NEW m \in 1..Len(q), m # 1,
         NEW s, Pieces(S, q, s, m - 1)
  PROVE  Pieces(S, q, s \o q[m], m)
<1>1. m \in Nat /\ m - 1 \in Nat /\ Len(q) \in Nat /\ q[m] \in Seq(S) /\ s \in Seq(S)
  BY LenProperties, ElementOfSeq DEF Pieces
<1> DEFINE r == q[m]
           u == s \o r
<1>2. r \in Seq(S)
  BY <1>1
<1>3. /\ u \in Seq(S) /\ Len(u) = Len(s) + Len(r)
      /\ \A k \in 1..Len(s) : u[k] = s[k]
      /\ \A j \in 1..Len(r) : u[Len(s) + j] = r[j]
  <2> HIDE DEF r
  <2> QED BY <1>1, <1>2
<1>4. Len(s) \in Nat /\ Len(r) \in Nat /\ Len(u) \in Nat
  <2> HIDE DEF r, u
  <2> QED BY <1>1, <1>2, <1>3, LenProperties
<1>5. /\ \A k \in 1..Len(s) : \E i \in 1..(m - 1), p \in Nat :
           Piece(s, q, i, p) /\ p < k /\ k <= p + Len(q[i])
      /\ \A i \in 1..(m - 1) : \E p \in Nat : Piece(s, q, i, p)
  BY DEF Pieces
<1>6. r = q[m]
  OBVIOUS
<1>7. \A i \in 1..Len(q) : Len(q[i]) \in Nat
  BY LenProperties, ElementOfSeq
<1> HIDE DEF r, u
<1>8. ASSUME NEW i \in 1..(m - 1), NEW p \in Nat, Piece(s, q, i, p)
      PROVE  Piece(u, q, i, p)
  <2>1. i \in 1..Len(q) /\ p + Len(q[i]) <= Len(s) /\ \A j \in 1..Len(q[i]) : s[p + j] = q[i][j]
    BY <1>1, <1>8 DEF Piece
  <2>2. p + Len(q[i]) <= Len(u)
    BY <2>1, <1>3, <1>4, <1>7
  <2>3. \A j \in 1..Len(q[i]) : p + j \in 1..Len(s)
    BY <2>1, <1>4, <1>7
  <2>4. \A j \in 1..Len(q[i]) : u[p + j] = q[i][j]
    BY <2>1, <2>3, <1>3
  <2> QED BY <2>2, <2>4 DEF Piece
<1>9. Piece(u, q, m, Len(s))
  BY <1>3, <1>4, <1>6 DEF Piece
<1>10. \A i \in 1..m : i = m \/ i \in 1..(m - 1)
  BY <1>1
<1>11. m \in 1..m /\ \A i \in 1..(m - 1) : i \in 1..m
  BY <1>1
<1>12. ASSUME NEW k \in 1..Len(u)
       PROVE  \E i \in 1..m, p \in Nat : Piece(u, q, i, p) /\ p < k /\ k <= p + Len(q[i])
  <2>1. CASE k <= Len(s)
    <3>1. k \in 1..Len(s)
      BY <2>1, <1>4
    <3>2. PICK i \in 1..(m - 1), p \in Nat : Piece(s, q, i, p) /\ p < k /\ k <= p + Len(q[i])
      BY <3>1, <1>5
    <3> QED BY <3>2, <1>8, <1>11
  <2>2. CASE ~(k <= Len(s))
    <3>1. Len(s) < k /\ k <= Len(s) + Len(q[m])
      BY <2>2, <1>3, <1>4, <1>6
    <3> QED BY <3>1, <1>4, <1>9, <1>11
  <2> QED BY <2>1, <2>2
<1>13. \A i \in 1..m : \E p \in Nat : Piece(u, q, i, p)
  BY <1>4, <1>5, <1>8, <1>9, <1>10
<1>14. Pieces(S, q, u, m)
  BY <1>3, <1>12, <1>13 DEF Pieces
<1> QED BY <1>14 DEF u, r

\* FlattenSeq puts the sequences one behind the other.
LEMMA FlattenPieces ==
  ASSUME NEW S, NEW q \in Seq(Seq(S))
  PROVE  Pieces(S, q, FlattenSeq(q), Len(q))
<1>0. Len(q) \in Nat /\ \A i \in 1..Len(q) : q[i] \in Seq(S) /\ Len(q[i]) \in Nat
  BY LenProperties, ElementOfSeq
<1>1. CASE Len(q) = 0
  <2>1. q = << >> /\ FlattenSeq(q) = q
    BY <1>1 DEF FlattenSeq
  <2>2. << >> \in Seq(S) /\ Len(<< >>) = 0 /\ 1..0 = {}
    OBVIOUS
  <2>3. Pieces(S, q, << >>, 0)
    BY <2>2 DEF Pieces
  <2> QED BY <1>1, <2>1, <2>3
<1>2. CASE Len(q) # 0
  <2>0. Len(q) > 0
    BY <1>0, <1>2
  <2>1. PICK g : Joins(S, q, g, Len(q)) /\ FlattenSeq(q) = g[Len(q)]
    BY <2>0, FlattenUnfolds
  <2> DEFINE T == {m \in 1..Len(q) : ~Pieces(S, q, g[m], m)}
  <2>2. ASSUME T # {} PROVE FALSE
    <3>1. PICK m \in T : \A e \in T : m <= e
      <4>1. T \subseteq Nat
        OBVIOUS
      <4> HIDE DEF T
      <4> QED BY <2>2, <4>1, LeastNat
    <3>2. m \in 1..Len(q) /\ ~Pieces(S, q, g[m], m)
      OBVIOUS
    <3>3. g[m] = IF m = 1 THEN q[m] ELSE g[m - 1] \o q[m]
      BY <3>2, <2>1 DEF Joins
    <3>4. CASE m = 1
      <4>1. g[1] = q[1] /\ q[1] \in Seq(S) /\ Len(q[1]) \in Nat
        BY <1>0, <3>2, <3>3, <3>4
      <4>2. Piece(q[1], q, 1, 0)
        BY <4>1 DEF Piece
      <4>3. \A k \in 1..Len(q[1]) : 0 < k /\ k <= 0 + Len(q[1])
        BY <4>1
      <4>4. 0 \in Nat /\ 1 \in 1..1 /\ \A i \in 1..1 : i = 1
        OBVIOUS
      <4>5. Pieces(S, q, q[1], 1)
        BY <4>1, <4>2, <4>3, <4>4 DEF Pieces
      <4> QED BY <4>1, <4>5, <3>2, <3>4
    <3>5. CASE m # 1
      <4>1. m \in Nat /\ m - 1 \in 1..Len(q) /\ ~(m <= m - 1)
        BY <1>0, <3>2, <3>5
      <4>2. m - 1 \notin T
        <5> HIDE DEF T
        <5> QED BY <3>1, <4>1
      <4>3. Pieces(S, q, g[m - 1], m - 1)
        BY <4>1, <4>2
      <4>4. Pieces(S, q, g[m - 1] \o q[m], m)
        BY <4>3, <3>2, <3>5, PieceAdded
      <4> QED BY <4>4, <3>2, <3>3, <3>5
    <3> QED BY <3>4, <3>5
  <2>3. Pieces(S, q, g[Len(q)], Len(q))
    <3>1. Len(q) \in 1..Len(q) /\ Len(q) \notin T
      <4> HIDE DEF T
      <4> QED BY <1>0, <2>0, <2>2
    <3> QED BY <3>1
  <2> QED BY <2>1, <2>3
<1> QED BY <1>1, <1>2

\* SetToSeq lists a finite set.
LEMMA SetListed ==
  ASSUME NEW S, NEW A, A \subseteq S, IsFiniteSet(A)
  PROVE  /\ SetToSeq(A) \in Seq(S) /\ Len(SetToSeq(A)) = Cardinality(A)
         /\ \A a \in A : \E i \in 1..Len(SetToSeq(A)) : SetToSeq(A)[i] = a
         /\ \A i \in 1..Len(SetToSeq(A)) : SetToSeq(A)[i] \in A
<1> DEFINE n == Cardinality(A)
           P(h) == h \in [1..n -> A] /\ IsInjective(h)
           f == CHOOSE h \in [1..n -> A] : IsInjective(h)
<1>1. n \in Nat /\ ExistsBijection(1..n, A)
  BY FS_CardinalityType
<1>2. PICK g : g \in Bijection(1..n, A)
  BY <1>1 DEF ExistsBijection
<1>3. g \in [1..n -> A] /\ IsInjective(g)
  BY <1>2 DEF Bijection, Injection
<1>4. f \in [1..n -> A] /\ IsInjective(f)
  <2> HIDE DEF n
  <2> QED BY <1>3
<1>5. SetToSeq(A) = f
  BY DEF SetToSeq
<1> HIDE DEF f, n
<1>6. f \in Seq(S) /\ Len(f) = n /\ \A i \in 1..n : f[i] \in A
  <2>1. \A i \in 1..n : f[i] \in A /\ f[i] \in S
    BY <1>4
  <2> QED BY <2>1, <1>1, <1>4
<1>7. f \in Surjection(1..n, A)
  <2>1. IsFiniteSet(1..n) /\ Cardinality(1..n) = n
    BY <1>1, FS_Interval
  <2>2. f \in Injection(1..n, A)
    BY <1>4 DEF Injection
  <2>3. Cardinality(A) = n
    BY DEF n
  <2> QED BY <2>1, <2>2, <2>3, FS_Injection
<1> QED BY <1>5, <1>6, <1>7 DEF Surjection, n

-----------------------------------------------------------------------------
(* Commits and what is below them *)

\* Chain, of any list of parents.
ChainOf(p, c) ==
  LET below[n \in 0..Len(p)] == IF n = 0 THEN {} ELSE {n} \cup below[p[n]]
  IN below[c]

\* A commit is made on top of an earlier one.
Falls(p) == p \in Seq(Nat) /\ \A n \in 1..Len(p) : p[n] < n

Below(p, g, m) ==
  /\ g \in [0..m -> SUBSET Nat]
  /\ \A n \in 0..m : g[n] = IF n = 0 THEN {} ELSE {n} \cup g[p[n]]

LEMMA BelowExists ==
  ASSUME NEW p, Falls(p), NEW m \in 0..Len(p)
  PROVE  \E g : Below(p, g, m)
<1>0. Len(p) \in Nat /\ \A n \in 1..Len(p) : p[n] \in Nat /\ p[n] < n
  BY LenProperties, ElementOfSeq DEF Falls
<1> DEFINE T == {k \in 0..Len(p) : ~ \E g : Below(p, g, k)}
<1>1. ASSUME T # {} PROVE FALSE
  <2>1. PICK k \in T : \A e \in T : k <= e
    <3>1. T \subseteq Nat
      OBVIOUS
    <3> HIDE DEF T
    <3> QED BY <1>1, <3>1, LeastNat
  <2>2. k \in 0..Len(p) /\ ~ \E g : Below(p, g, k)
    OBVIOUS
  <2>3. CASE k = 0
    <3> DEFINE g == [n \in 0..0 |-> {}]
    <3>1. g \in [0..0 -> SUBSET Nat] /\ \A n \in 0..0 : n = 0 /\ g[n] = {}
      OBVIOUS
    <3> HIDE DEF g
    <3>2. Below(p, g, 0)
      BY <3>1 DEF Below
    <3> QED BY <2>2, <2>3, <3>2
  <2>4. CASE k # 0
    <3>1. k \in 1..Len(p) /\ k - 1 \in 0..Len(p) /\ ~(k <= k - 1)
      BY <1>0, <2>2, <2>4
    <3>2. k - 1 \notin T
      <4> HIDE DEF T
      <4> QED BY <2>1, <3>1
    <3>3. PICK h : Below(p, h, k - 1)
      BY <3>1, <3>2
    <3> DEFINE g == [n \in 0..k |-> IF n = k THEN {k} \cup h[p[k]] ELSE h[n]]
    <3>4. p[k] \in 0..(k - 1)
      BY <1>0, <3>1
    <3>5. h \in [0..(k - 1) -> SUBSET Nat] /\ h[p[k]] \in SUBSET Nat
      BY <3>3, <3>4 DEF Below
    <3>6. {k} \cup h[p[k]] \in SUBSET Nat
      BY <3>1, <3>5
    <3>7. \A n \in 0..k : n = k \/ n \in 0..(k - 1)
      BY <3>1
    <3>8. g \in [0..k -> SUBSET Nat]
      <4>1. \A n \in 0..k : (IF n = k THEN {k} \cup h[p[k]] ELSE h[n]) \in SUBSET Nat
        BY <3>5, <3>6, <3>7
      <4> QED BY <4>1
    <3>9. \A n \in 0..k : g[n] = IF n = 0 THEN {} ELSE {n} \cup g[p[n]]
      <4> TAKE n \in 0..k
      <4>1. CASE n = k
        <5>1. p[k] # k /\ p[k] \in 0..k /\ k \in 0..k
          BY <3>1, <3>4
        <5>2. g[k] = {k} \cup h[p[k]] /\ g[p[k]] = h[p[k]]
          BY <5>1
        <5> HIDE DEF g
        <5> QED BY <5>2, <4>1, <2>4
      <4>2. CASE n # k
        <5>1. n \in 0..(k - 1)
          BY <3>7, <4>2
        <5>2. h[n] = IF n = 0 THEN {} ELSE {n} \cup h[p[n]]
          BY <3>3, <5>1 DEF Below
        <5>3. g[n] = h[n]
          BY <4>2
        <5>4. n # 0 => g[p[n]] = h[p[n]]
          <6> SUFFICES ASSUME n # 0 PROVE g[p[n]] = h[p[n]]
            OBVIOUS
          <6>1. n \in 1..Len(p) /\ n < k
            BY <3>1, <5>1
          <6>2. p[n] \in 0..k /\ p[n] # k
            BY <1>0, <3>1, <6>1
          <6> QED BY <6>2
        <5> HIDE DEF g
        <5> QED BY <5>2, <5>3, <5>4
      <4> QED BY <4>1, <4>2
    <3> HIDE DEF g
    <3>10. Below(p, g, k)
      BY <3>8, <3>9 DEF Below
    <3> QED BY <2>2, <3>10
  <2> QED BY <2>3, <2>4
<1>2. m \notin T
  <2> HIDE DEF T
  <2> QED BY <1>1
<1> QED BY <1>2

LEMMA ChainUnfolds ==
  ASSUME NEW p, Falls(p)
  PROVE  /\ ChainOf(p, 0) = {}
         /\ \A c \in 1..Len(p) : ChainOf(p, c) = {c} \cup ChainOf(p, p[c])
         /\ \A c \in 0..Len(p) : ChainOf(p, c) \in SUBSET Nat
<1> DEFINE N == Len(p)
<1>0. N \in Nat /\ N \in 0..N /\ 0 \in 0..N /\ \A n \in 1..N : p[n] \in 0..N /\ n \in 0..N /\ n # 0
  <2>1. N \in Nat /\ \A n \in 1..N : p[n] \in Nat /\ p[n] < n
    BY LenProperties, ElementOfSeq DEF Falls
  <2> HIDE DEF N
  <2> QED BY <2>1
<1>1. PICK g : Below(p, g, N)
  BY <1>0, BelowExists
<1> DEFINE Solves(x) == x = [n \in 0..N |-> IF n = 0 THEN {} ELSE {n} \cup x[p[n]]]
           f == CHOOSE x : Solves(x)
<1>2. Solves(g)
  BY <1>1 DEF Below
<1>3. Solves(f)
  <2> HIDE DEF Solves
  <2> QED BY <1>2
<1>4. \A c : ChainOf(p, c) = f[c]
  BY DEF ChainOf
<1> HIDE DEF f
<1>5. \A n \in 0..N : f[n] = IF n = 0 THEN {} ELSE {n} \cup f[p[n]]
  BY <1>3
<1> HIDE DEF N
<1>6. f[0] = {} /\ \A c \in 1..N : f[c] = {c} \cup f[p[c]]
  BY <1>0, <1>5
<1>7. \A c \in 0..N : f[c] \in SUBSET Nat
  <2> DEFINE T == {n \in 0..N : f[n] \notin SUBSET Nat}
  <2>1. ASSUME T # {} PROVE FALSE
    <3>1. PICK k \in T : \A e \in T : k <= e
      <4>1. T \subseteq Nat
        OBVIOUS
      <4> HIDE DEF T
      <4> QED BY <2>1, <4>1, LeastNat
    <3>2. k \in 0..N /\ f[k] \notin SUBSET Nat
      OBVIOUS
    <3>3. k # 0
      BY <3>2, <1>6
    <3>4. k \in 1..N /\ p[k] \in Nat /\ p[k] < k
      BY <3>2, <3>3, <1>0, ElementOfSeq DEF Falls, N
    <3>5. p[k] \in 0..N /\ p[k] \notin T
      <4>1. ~(k <= p[k])
        BY <3>4
      <4> HIDE DEF T
      <4> QED BY <3>1, <3>4, <4>1, <1>0
    <3> QED BY <3>2, <3>4, <3>5, <1>6
  <2> QED BY <2>1
<1> QED BY <1>4, <1>6, <1>7 DEF N

\* A commit stays below itself when more are made.
LEMMA ChainGrows ==
  ASSUME NEW p, Falls(p), NEW x \in 0..Len(p), NEW q, q = Append(p, x)
  PROVE  /\ Falls(q) /\ Len(q) = Len(p) + 1 /\ q[Len(p) + 1] = x
         /\ \A n \in 1..Len(p) : q[n] = p[n]
         /\ \A c \in 0..Len(p) : ChainOf(q, c) = ChainOf(p, c)
<1> DEFINE N == Len(p)
<1>0. p \in Seq(Nat) /\ N \in Nat /\ \A n \in 1..N : p[n] \in Nat /\ p[n] < n
  BY LenProperties, ElementOfSeq DEF Falls
<1>1. x \in Nat /\ x <= N
  BY <1>0
<1>2. q \in Seq(Nat) /\ Len(q) = N + 1 /\ q[N + 1] = x /\ \A n \in 1..N : q[n] = p[n]
  BY <1>0, <1>1
<1> HIDE DEF N
<1>3. Falls(q)
  <2>1. \A n \in 1..Len(q) : q[n] < n
    <3> TAKE n \in 1..Len(q)
    <3>1. n = N + 1 \/ n \in 1..N
      BY <1>0, <1>2
    <3> QED BY <3>1, <1>0, <1>1, <1>2
  <2> QED BY <2>1, <1>2 DEF Falls
<1>4. /\ ChainOf(p, 0) = {} /\ ChainOf(q, 0) = {}
      /\ \A c \in 1..N : ChainOf(p, c) = {c} \cup ChainOf(p, p[c])
      /\ \A c \in 1..N : ChainOf(q, c) = {c} \cup ChainOf(q, p[c])
  <2>1. ChainOf(p, 0) = {} /\ \A c \in 1..N : ChainOf(p, c) = {c} \cup ChainOf(p, p[c])
    BY ChainUnfolds DEF N
  <2>2. ChainOf(q, 0) = {} /\ \A c \in 1..Len(q) : ChainOf(q, c) = {c} \cup ChainOf(q, q[c])
    BY <1>3, ChainUnfolds
  <2>3. \A c \in 1..N : c \in 1..Len(q) /\ q[c] = p[c]
    BY <1>0, <1>2
  <2> QED BY <2>1, <2>2, <2>3
<1> DEFINE T == {c \in 0..N : ChainOf(q, c) # ChainOf(p, c)}
<1>5. ASSUME T # {} PROVE FALSE
  <2>1. PICK k \in T : \A e \in T : k <= e
    <3>1. T \subseteq Nat
      OBVIOUS
    <3> HIDE DEF T
    <3> QED BY <1>5, <3>1, LeastNat
  <2>2. k \in 0..N /\ ChainOf(q, k) # ChainOf(p, k)
    OBVIOUS
  <2>3. k \in 1..N
    <3>1. k # 0
      BY <2>2, <1>4
    <3> QED BY <3>1, <2>2, <1>0
  <2>4. p[k] \in 0..N /\ p[k] \notin T
    <3>1. p[k] \in 0..N /\ ~(k <= p[k])
      BY <2>3, <1>0
    <3> HIDE DEF T
    <3> QED BY <2>1, <3>1
  <2>5. ChainOf(q, p[k]) = ChainOf(p, p[k])
    BY <2>4
  <2> QED BY <2>2, <2>3, <2>5, <1>4
<1>6. \A c \in 0..N : ChainOf(q, c) = ChainOf(p, c)
  BY <1>5
<1> QED BY <1>2, <1>3, <1>6 DEF N

LEMMA ChainIsOf == ASSUME NEW c PROVE Chain(c) = ChainOf(prior, c)
BY DEF Chain, ChainOf

-----------------------------------------------------------------------------
(* Scripts: the disk operations a call makes, in order *)

Has(s, x) == \E i \in 1..Len(s) : s[i] = x
Before(s, x, y) == \E i, j \in 1..Len(s) : i < j /\ s[i] = x /\ s[j] = y

LEMMA CatFacts ==
  ASSUME NEW S, NEW s \in Seq(S), NEW t \in Seq(S)
  PROVE  /\ s \o t \in Seq(S) /\ Len(s \o t) = Len(s) + Len(t)
         /\ Len(s) \in Nat /\ Len(t) \in Nat
         /\ \A i \in 1..Len(s) : i \in 1..Len(s \o t) /\ (s \o t)[i] = s[i]
         /\ \A i \in 1..Len(t) : Len(s) + i \in 1..Len(s \o t)
                                 /\ (s \o t)[Len(s) + i] = t[i]
         /\ \A k \in 1..Len(s \o t) :
              \/ k \in 1..Len(s) /\ (s \o t)[k] = s[k]
              \/ k - Len(s) \in 1..Len(t) /\ (s \o t)[k] = t[k - Len(s)]
OBVIOUS

LEMMA CatHas ==
  ASSUME NEW S, NEW s \in Seq(S), NEW t \in Seq(S), NEW x
  PROVE  Has(s \o t, x) <=> Has(s, x) \/ Has(t, x)
<1> DEFINE u == s \o t
<1>1. /\ \A i \in 1..Len(s) : i \in 1..Len(u) /\ u[i] = s[i]
      /\ \A i \in 1..Len(t) : Len(s) + i \in 1..Len(u) /\ u[Len(s) + i] = t[i]
      /\ \A k \in 1..Len(u) : \/ k \in 1..Len(s) /\ u[k] = s[k]
                              \/ k - Len(s) \in 1..Len(t) /\ u[k] = t[k - Len(s)]
  BY CatFacts
<1> HIDE DEF u
<1>2. Has(u, x) <=> Has(s, x) \/ Has(t, x)
  BY <1>1 DEF Has
<1> QED BY <1>2 DEF u

LEMMA CatBefore ==
  ASSUME NEW S, NEW s \in Seq(S), NEW t \in Seq(S), NEW x, NEW y
  PROVE  /\ Before(s, x, y) => Before(s \o t, x, y)
         /\ Before(t, x, y) => Before(s \o t, x, y)
         /\ Has(s, x) /\ Has(t, y) => Before(s \o t, x, y)
<1> DEFINE u == s \o t
<1>1. /\ Len(s) \in Nat /\ Len(t) \in Nat
      /\ \A i \in 1..Len(s) : i \in 1..Len(u) /\ u[i] = s[i]
      /\ \A i \in 1..Len(t) : Len(s) + i \in 1..Len(u) /\ u[Len(s) + i] = t[i]
  BY CatFacts
<1> HIDE DEF u
<1>2. Before(s, x, y) => Before(u, x, y)
  BY <1>1 DEF Before
<1>3. ASSUME Before(t, x, y) PROVE Before(u, x, y)
  <2>1. PICK i \in 1..Len(t), j \in 1..Len(t) : i < j /\ t[i] = x /\ t[j] = y
    BY <1>3 DEF Before
  <2>2. Len(s) + i < Len(s) + j
    BY <1>1, <2>1
  <2> QED BY <1>1, <2>1, <2>2 DEF Before
<1>4. ASSUME Has(s, x), Has(t, y) PROVE Before(u, x, y)
  <2>1. PICK i \in 1..Len(s) : s[i] = x
    BY <1>4 DEF Has
  <2>2. PICK j \in 1..Len(t) : t[j] = y
    BY <1>4 DEF Has
  <2>3. i < Len(s) + j
    BY <1>1
  <2> QED BY <1>1, <2>1, <2>2, <2>3 DEF Before
<1> QED BY <1>2, <1>3, <1>4 DEF u

LEMMA BeforeHas ==
  ASSUME NEW s, NEW x, NEW y, Before(s, x, y)
  PROVE  Has(s, x) /\ Has(s, y)
BY DEF Has, Before

LEMMA FlattenHas ==
  ASSUME NEW S, NEW q \in Seq(Seq(S)), NEW x
  PROVE  Has(FlattenSeq(q), x) <=> \E i \in 1..Len(q) : Has(q[i], x)
<1> DEFINE u == FlattenSeq(q)
<1>1. Pieces(S, q, u, Len(q)) /\ \A i \in 1..Len(q) : Len(q[i]) \in Nat
  BY FlattenPieces, LenProperties, ElementOfSeq
<1> HIDE DEF u
<1>2. u \in Seq(S) /\ Len(u) \in Nat
  BY <1>1, LenProperties DEF Pieces
<1>3. ASSUME Has(u, x) PROVE \E i \in 1..Len(q) : Has(q[i], x)
  <2>1. PICK k \in 1..Len(u) : u[k] = x
    BY <1>3 DEF Has
  <2>2. PICK i \in 1..Len(q), p \in Nat : Piece(u, q, i, p) /\ p < k /\ k <= p + Len(q[i])
    BY <1>1 DEF Pieces
  <2>3. k - p \in 1..Len(q[i]) /\ p + (k - p) = k
    BY <2>2, <1>1, <1>2
  <2>4. q[i][k - p] = u[k]
    BY <2>2, <2>3 DEF Piece
  <2> QED BY <2>1, <2>3, <2>4 DEF Has
<1>4. ASSUME NEW i \in 1..Len(q), Has(q[i], x) PROVE Has(u, x)
  <2>1. PICK j \in 1..Len(q[i]) : q[i][j] = x
    BY <1>4 DEF Has
  <2>2. PICK p \in Nat : Piece(u, q, i, p)
    BY <1>1 DEF Pieces
  <2>3. p + j \in 1..Len(u) /\ u[p + j] = x
    BY <2>1, <2>2, <1>1, <1>2 DEF Piece
  <2> QED BY <2>3 DEF Has
<1> QED BY <1>3, <1>4 DEF u

LEMMA FlattenBefore ==
  ASSUME NEW S, NEW q \in Seq(Seq(S)), NEW i \in 1..Len(q), NEW x, NEW y,
         Before(q[i], x, y)
  PROVE  Before(FlattenSeq(q), x, y)
<1> DEFINE u == FlattenSeq(q)
<1>1. Pieces(S, q, u, Len(q)) /\ Len(q[i]) \in Nat
  BY FlattenPieces, LenProperties, ElementOfSeq
<1> HIDE DEF u
<1>2. u \in Seq(S) /\ Len(u) \in Nat
  BY <1>1, LenProperties DEF Pieces
<1>3. PICK p \in Nat : Piece(u, q, i, p)
  BY <1>1 DEF Pieces
<1>4. PICK a \in 1..Len(q[i]), b \in 1..Len(q[i]) : a < b /\ q[i][a] = x /\ q[i][b] = y
  BY DEF Before
<1>5. p + a \in 1..Len(u) /\ p + b \in 1..Len(u) /\ p + a < p + b /\ u[p + a] = x /\ u[p + b] = y
  BY <1>1, <1>2, <1>3, <1>4 DEF Piece
<1> QED BY <1>5 DEF Before, u

LEMMA FlattenType ==
  ASSUME NEW S, NEW q \in Seq(Seq(S))
  PROVE  FlattenSeq(q) \in Seq(S)
BY FlattenPieces DEF Pieces

LEMMA OneHas ==
  ASSUME NEW S, NEW a \in S, NEW x
  PROVE  <<a>> \in Seq(S) /\ (Has(<<a>>, x) <=> x = a)
<1>1. <<a>> \in Seq(S) /\ Len(<<a>>) = 1 /\ <<a>>[1] = a /\ 1..1 = {1}
  OBVIOUS
<1> QED BY <1>1 DEF Has

LEMMA TwoHave ==
  ASSUME NEW S, NEW a \in S, NEW b \in S, NEW x
  PROVE  /\ <<a, b>> \in Seq(S) /\ (Has(<<a, b>>, x) <=> x = a \/ x = b)
         /\ Before(<<a, b>>, a, b)
<1>1. /\ <<a, b>> \in Seq(S) /\ Len(<<a, b>>) = 2
      /\ <<a, b>>[1] = a /\ <<a, b>>[2] = b
  OBVIOUS
<1>2. 1 \in 1..2 /\ 2 \in 1..2 /\ 1 < 2 /\ \A i \in 1..2 : i = 1 \/ i = 2
  OBVIOUS
<1> QED BY <1>1, <1>2 DEF Has, Before

LEMMA NoneHas ==
  ASSUME NEW S, NEW x
  PROVE  << >> \in Seq(S) /\ ~Has(<< >>, x)
BY DEF Has

LEMMA TailHas ==
  ASSUME NEW S, NEW s \in Seq(S), s # << >>, NEW x
  PROVE  /\ Has(Tail(s), x) => Has(s, x)
         /\ Has(s, x) => x = Head(s) \/ Has(Tail(s), x)
         /\ Has(s, Head(s))
<1>1. /\ Len(s) \in Nat /\ Len(s) >= 1 /\ Head(s) = s[1] /\ Len(Tail(s)) = Len(s) - 1
      /\ \A i \in 1..Len(Tail(s)) : Tail(s)[i] = s[i + 1]
  OBVIOUS
<1>2. \A i \in 1..Len(Tail(s)) : i + 1 \in 1..Len(s)
  BY <1>1
<1>3. \A i \in 1..Len(s) : i = 1 \/ (i - 1 \in 1..Len(Tail(s)) /\ (i - 1) + 1 = i)
  BY <1>1
<1>4. 1 \in 1..Len(s)
  BY <1>1
<1> QED BY <1>1, <1>2, <1>3, <1>4 DEF Has

-----------------------------------------------------------------------------
(* What files hold, and what one operation does to them *)

\* The events a log may hold: the genesis quartet, then commits and identities.
Entered ==
  {e \in Event : /\ IF e[2] <= 4 THEN e[1] = Genesis[e[2]]
                                 ELSE e[1] \in {"commit", "identity"}
                 /\ e[2] = 1 => e[4] = 0}

Folders == {f \in File : f[1] \in {"blocks", "blockStaging", "shard", "events",
                                   "eventStaging", "entries"}}
Logged == {f \in File : f[1] = "entry"}

\* What may be put on a file: only pending events and entries are removed.
Puttable(f) ==
  CASE f \in Folders -> {Folder}
    [] f[1] = "root" -> {}
    [] f[1] = "block" -> {Bytes}
    [] f[1] = "head" -> {Cid(c) : c \in Commits}
    [] f[1] = "staged" -> {Nothing} \cup Entered
    [] f[1] = "last" -> {Pointer(s) : s \in 1..MaxSeq}
    [] f[1] = "entry" -> {Nothing} \cup {e \in Entered : Entry(e) = f}

Holds(f) == IF f = Root THEN {Folder} ELSE {Nothing} \cup Puttable(f)

Step == {Sync(d) : d \in File}
          \cup {x \in [op : {"put"}, file : File, content : Content] :
                  x.content \in Puttable(x.file)}

DiskOK ==
  /\ cache \in [File -> Content] /\ media \in [File -> SUBSET Content]
  /\ \A f \in File : cache[f] \in media[f] /\ media[f] \subseteq Holds(f)
  /\ todo \in Seq(Step)

\* The versions of a file that this behaviour may come to show.
Ver(f) == IF "power" \in Faults THEN media[f] ELSE {cache[f]}

\* One operation, as the proofs use it.
Effects(x) ==
  /\ \A f \in File : cache'[f] = IF x.op = "put" /\ x.file = f THEN x.content
                                                              ELSE cache[f]
  /\ \A f \in File : \A v \in Ver(f)' :
       v \in Ver(f) \/ (x.op = "put" /\ x.file = f /\ v = x.content)
  /\ \A f \in File : x = Sync(Home(f)) => Ver(f)' = {cache[f]}
  /\ \A f \in File : cache'[f] \in Ver(f)'

LEMMA FileNames ==
  /\ {Root, HeadFile, BlocksDir, BlockStaging, Events, EventStaging, Staged,
      LastFile, Entries} \subseteq File
  /\ {BlocksDir, BlockStaging, Events, EventStaging, Entries} \subseteq Folders
  /\ Home(HeadFile) = Root /\ Home(BlocksDir) = Root /\ Home(Events) = Root
  /\ Home(BlockStaging) = BlocksDir /\ Home(EventStaging) = Events
  /\ Home(Staged) = Events /\ Home(LastFile) = Events /\ Home(Entries) = Events
  /\ Home(Root) = Root
BY DEF File, Folders, Home, Root, HeadFile, BlocksDir, BlockStaging, Events,
       EventStaging, Staged, LastFile, Entries

LEMMA Mod == ASSUME NEW a \in Int, NEW b \in Nat \ {0} PROVE a % b \in 0..(b - 1)
OBVIOUS

LEMMA BlockNames ==
  ASSUME NEW c \in Commits, NEW i \in 1..BlocksPerCommit
  PROVE  /\ Block(c, i) \in File /\ Home(Block(c, i)) = Shard(ShardOf(c, i))
         /\ Home(Block(c, i)) \in Folders /\ Home(Home(Block(c, i))) = BlocksDir
         /\ Block(c, i) \notin Folders
         /\ Puttable(Block(c, i)) = {Bytes}
<1>1. ShardOf(c, i) \in 0..(ShardCount - 1)
  <2>1. c + i \in Int /\ ShardCount \in Nat \ {0}
    BY BoundsAreNumbers DEF Commits
  <2> QED BY <2>1, Mod DEF ShardOf
<1>2. Block(c, i) \in File /\ Shard(ShardOf(c, i)) \in File
  BY <1>1 DEF File
<1>3. /\ Home(Block(c, i)) = Shard(ShardOf(c, i))
      /\ \A s : Home(Shard(s)) = BlocksDir
  BY DEF Home, Block, Shard, BlocksDir
<1>4. Shard(ShardOf(c, i)) \in Folders
  BY <1>2 DEF Folders, Shard
<1>5. Block(c, i) \notin Folders
  BY DEF Folders, Block
<1>6. Puttable(Block(c, i)) = {Bytes}
  BY <1>5 DEF Puttable, Block
<1> QED BY <1>2, <1>3, <1>4, <1>5, <1>6

LEMMA EventNames ==
  ASSUME NEW e \in Entered
  PROVE  /\ e \in Event /\ e \in Content /\ e # Nothing
         /\ Entry(e) \in Logged /\ Entry(e) \in File
         /\ Home(Entry(e)) = Entries /\ e \in Puttable(Entry(e))
         /\ e[2] \in 1..MaxSeq /\ e[3] \in 0..MaxTime /\ e[4] \in {0} \cup Commits
<1>1. e \in Event /\ e \in Content
  BY DEF Entered, Content
<1>2. /\ e[1] \in Kinds /\ e[2] \in 1..MaxSeq /\ e[3] \in 0..MaxTime
      /\ e[4] \in {0} \cup Commits /\ e = <<e[1], e[2], e[3], e[4]>>
  BY <1>1 DEF Event
<1>3. e # Nothing
  BY <1>2 DEF Nothing, Kinds, Genesis
<1>4. Entry(e) \in File /\ Entry(e)[1] = "entry"
  BY <1>2 DEF File, Entry
<1>5. Entry(e) \in Logged /\ Entry(e) \notin Folders
  BY <1>4 DEF Logged, Folders
<1>6. Home(Entry(e)) = Entries
  BY DEF Home, Entry, Entries
<1>7. e \in Puttable(Entry(e))
  BY <1>4, <1>5 DEF Puttable
<1> QED BY <1>1, <1>2, <1>3, <1>4, <1>5, <1>6, <1>7

LEMMA PutsAre ==
  /\ \A f \in Folders : f # Root /\ Puttable(f) = {Folder} /\ Holds(f) = {Nothing, Folder}
  /\ Puttable(Root) = {} /\ Holds(Root) = {Folder}
  /\ Puttable(HeadFile) = {Cid(c) : c \in Commits}
  /\ Holds(HeadFile) = {Nothing} \cup {Cid(c) : c \in Commits}
  /\ Puttable(Staged) = {Nothing} \cup Entered
  /\ Holds(Staged) = {Nothing} \cup Entered
  /\ Puttable(LastFile) = {Pointer(s) : s \in 1..MaxSeq}
  /\ Holds(LastFile) = {Nothing} \cup {Pointer(s) : s \in 1..MaxSeq}
  /\ \A f \in Logged : /\ Puttable(f) = {Nothing} \cup {e \in Entered : Entry(e) = f}
                       /\ Holds(f) = Puttable(f)
<1>1. \A f \in Folders : f # Root /\ Puttable(f) = {Folder} /\ Holds(f) = {Nothing, Folder}
  BY DEF Folders, Puttable, Holds, Root
<1>2. {Root, HeadFile, Staged, LastFile} \cap Folders = {}
  BY DEF Folders, Root, HeadFile, Staged, LastFile
<1>3. Puttable(Root) = {} /\ Holds(Root) = {Folder}
  BY <1>2 DEF Puttable, Holds, Root
<1>4. HeadFile # Root /\ Puttable(HeadFile) = {Cid(c) : c \in Commits}
  BY <1>2 DEF Puttable, HeadFile, Root
<1>5. Staged # Root /\ Puttable(Staged) = {Nothing} \cup Entered
  BY <1>2 DEF Puttable, Staged, Root
<1>6. LastFile # Root /\ Puttable(LastFile) = {Pointer(s) : s \in 1..MaxSeq}
  BY <1>2 DEF Puttable, LastFile, Root
<1>7. \A f \in Logged : f # Root /\ f \notin Folders /\ f[1] = "entry"
  BY DEF Logged, Folders, Root
<1>8. \A f \in Logged : Puttable(f) = {Nothing} \cup {e \in Entered : Entry(e) = f}
  BY <1>7 DEF Puttable
<1> QED BY <1>1, <1>3, <1>4, <1>5, <1>6, <1>7, <1>8 DEF Holds

LEMMA SyncIsStep == \A d \in File : Sync(d) \in Step
BY DEF Step

LEMMA PutIsStep ==
  ASSUME NEW f \in File, NEW v \in Content, v \in Puttable(f)
  PROVE  Put(f, v) \in Step
BY DEF Step, Put

LEMMA StepFacts ==
  /\ \A x \in Step : /\ x.op \in {"put", "sync"} /\ x.file \in File /\ x.content \in Content
                     /\ x.op = "put" => x = Put(x.file, x.content)
                                        /\ x.content \in Puttable(x.file)
                     /\ x.op = "sync" => x = Sync(x.file)
  /\ \A f, v : Put(f, v).op = "put" /\ Put(f, v).file = f /\ Put(f, v).content = v
  /\ \A d : Sync(d).op = "sync" /\ Sync(d).file = d
  /\ \A f, v, d : Put(f, v) # Sync(d)
  /\ \A f, v, g, w : Put(f, v) = Put(g, w) <=> f = g /\ v = w
  /\ \A d, b : Sync(d) = Sync(b) <=> d = b
<1>1. Nothing \in Content
  BY DEF Content
<1> QED BY <1>1 DEF Step, Put, Sync

LEMMA HomeType == \A f \in File : Home(f) \in File
<1> TAKE f \in File
<1>1. CASE f[1] = "block"
  <2>1. PICK c \in Commits, i \in 1..BlocksPerCommit : f = Block(c, i)
    BY <1>1 DEF File, Root, HeadFile, BlocksDir, BlockStaging, Events,
       EventStaging, Staged, LastFile, Entries, Shard
  <2> QED BY <2>1, BlockNames DEF Folders
<1>2. CASE f[1] # "block"
  BY <1>2 DEF File, Home, Root, HeadFile, BlocksDir, BlockStaging, Events,
       EventStaging, Staged, LastFile, Entries, Shard, Block
<1> QED BY <1>1, <1>2

LEMMA Applied ==
  ASSUME DiskOK, NEW x \in Step, Apply(x)
  PROVE  /\ Effects(x)
         /\ cache' \in [File -> Content] /\ media' \in [File -> SUBSET Content]
         /\ \A f \in File : cache'[f] \in media'[f] /\ media'[f] \subseteq Holds(f)
<1>0. /\ cache \in [File -> Content] /\ media \in [File -> SUBSET Content]
      /\ \A f \in File : cache[f] \in media[f] /\ media[f] \subseteq Holds(f)
  BY DEF DiskOK
<1>1. CASE x.op = "put"
  <2>1. x.file \in File /\ x.content \in Content /\ x.content \in Puttable(x.file)
    BY <1>1, StepFacts
  <2>2. /\ cache' = [cache EXCEPT ![x.file] = x.content]
        /\ media' = [media EXCEPT ![x.file] = @ \cup {x.content}]
    BY <1>1 DEF Apply
  <2>3. cache' \in [File -> Content] /\ media' \in [File -> SUBSET Content]
    BY <1>0, <2>1, <2>2
  <2>4. \A f \in File : /\ cache'[f] = IF x.file = f THEN x.content ELSE cache[f]
                        /\ media'[f] = IF x.file = f THEN media[f] \cup {x.content} ELSE media[f]
    BY <1>0, <2>1, <2>2
  <2>5. x.content \in Holds(x.file)
    BY <2>1, PutsAre DEF Holds
  <2>6. \A f \in File : cache'[f] \in media'[f] /\ media'[f] \subseteq Holds(f)
    BY <1>0, <2>4, <2>5
  <2>7. \A f : x # Sync(Home(f))
    BY <1>1, StepFacts
  <2>8. Effects(x)
    BY <1>1, <2>4, <2>6, <2>7 DEF Effects, Ver
  <2> QED BY <2>3, <2>6, <2>8
<1>2. CASE x.op # "put"
  <2>1. x.op = "sync" /\ x = Sync(x.file)
    BY <1>2, StepFacts
  <2>2. /\ media' = [f \in File |-> IF Home(f) = x.file THEN {cache[f]} ELSE media[f]]
        /\ cache' = cache
    BY <1>2 DEF Apply
  <2>3. cache' \in [File -> Content] /\ media' \in [File -> SUBSET Content]
    BY <1>0, <2>2
  <2>4. \A f \in File : media'[f] = IF Home(f) = x.file THEN {cache[f]} ELSE media[f]
    BY <2>2
  <2>5. \A f \in File : cache'[f] \in media'[f] /\ media'[f] \subseteq Holds(f)
    BY <1>0, <2>2, <2>4
  <2>6. \A f : x = Sync(Home(f)) => Home(f) = x.file
    BY <2>1, StepFacts
  <2>7. Effects(x)
    BY <1>0, <1>2, <2>2, <2>4, <2>5, <2>6 DEF Effects, Ver
  <2> QED BY <2>3, <2>5, <2>7
<1> QED BY <1>1, <1>2

-----------------------------------------------------------------------------
(* What each call's script does *)

\* The files whose changes are always flushed by the call that makes them.
Kept == Folders \cup {HeadFile, LastFile}

\* Every change of such a file is flushed later on.
Tidy(s) ==
  \A i \in 1..Len(s), f \in Kept : s[i].op = "put" /\ s[i].file = f =>
    \E j \in 1..Len(s) : i < j /\ s[j] = Sync(Home(f))

Script(s, X) == s \in Seq(Step) /\ (\A x : Has(s, x) => x \in X) /\ Tidy(s)

Flushes == {Sync(d) : d \in File}
Foldings == {Put(d, Folder) : d \in Folders}
Sweeps == {Unlink(f) : f \in Logged}

LEMMA ScriptCat ==
  ASSUME NEW s, NEW t, NEW X, NEW Y, Script(s, X), Script(t, Y)
  PROVE  Script(s \o t, X \cup Y)
<1>0. s \in Seq(Step) /\ t \in Seq(Step)
  BY DEF Script
<1> DEFINE u == s \o t
<1>1. /\ u \in Seq(Step) /\ Len(s) \in Nat /\ Len(t) \in Nat
      /\ \A i \in 1..Len(s) : i \in 1..Len(u) /\ u[i] = s[i]
      /\ \A i \in 1..Len(t) : Len(s) + i \in 1..Len(u) /\ u[Len(s) + i] = t[i]
      /\ \A k \in 1..Len(u) : \/ k \in 1..Len(s) /\ u[k] = s[k]
                              \/ k - Len(s) \in 1..Len(t) /\ u[k] = t[k - Len(s)]
  BY <1>0, CatFacts
<1>2. \A x : Has(u, x) => Has(s, x) \/ Has(t, x)
  BY <1>0, CatHas
<1> HIDE DEF u
<1>3. ASSUME NEW k \in 1..Len(u), NEW f \in Kept, u[k].op = "put", u[k].file = f
      PROVE  \E j \in 1..Len(u) : k < j /\ u[j] = Sync(Home(f))
  <2>1. CASE k \in 1..Len(s) /\ u[k] = s[k]
    <3>1. PICK j \in 1..Len(s) : k < j /\ s[j] = Sync(Home(f))
      BY <1>3, <2>1 DEF Script, Tidy
    <3> QED BY <3>1, <1>1
  <2>2. CASE k - Len(s) \in 1..Len(t) /\ u[k] = t[k - Len(s)]
    <3> DEFINE i == k - Len(s)
    <3>1. i \in 1..Len(t) /\ t[i].op = "put" /\ t[i].file = f
      BY <1>3, <2>2
    <3> HIDE DEF i
    <3>2. PICK j \in 1..Len(t) : i < j /\ t[j] = Sync(Home(f))
      BY <3>1 DEF Script, Tidy
    <3>3. k < Len(s) + j
      BY <3>1, <3>2, <1>1 DEF i
    <3> QED BY <3>2, <3>3, <1>1
  <2> QED BY <1>1, <2>1, <2>2
<1>4. Tidy(u)
  BY <1>3 DEF Tidy
<1>5. Script(u, X \cup Y)
  BY <1>1, <1>2, <1>4 DEF Script
<1> QED BY <1>5 DEF u

LEMMA ScriptWiden ==
  ASSUME NEW s, NEW X, NEW Y, Script(s, X), X \subseteq Y
  PROVE  Script(s, Y)
BY DEF Script

LEMMA ScriptFlatten ==
  ASSUME NEW n \in Nat, NEW q, q = [i \in 1..n |-> q[i]], NEW X,
         \A i \in 1..n : Script(q[i], X)
  PROVE  Script(FlattenSeq(q), X) /\ q \in Seq(Seq(Step)) /\ Len(q) = n
<1>1. q \in Seq(Seq(Step)) /\ Len(q) = n
  BY DEF Script
<1> DEFINE u == FlattenSeq(q)
<1>2. Pieces(Step, q, u, Len(q)) /\ \A i \in 1..Len(q) : Len(q[i]) \in Nat
  BY <1>1, FlattenPieces, LenProperties, ElementOfSeq
<1>3. \A x : Has(u, x) => \E i \in 1..Len(q) : Has(q[i], x)
  BY <1>1, FlattenHas
<1> HIDE DEF u
<1>4. u \in Seq(Step) /\ Len(u) \in Nat
  BY <1>2, LenProperties DEF Pieces
<1>5. ASSUME NEW k \in 1..Len(u), NEW f \in Kept, u[k].op = "put", u[k].file = f
      PROVE  \E j \in 1..Len(u) : k < j /\ u[j] = Sync(Home(f))
  <2>1. PICK i \in 1..Len(q), p \in Nat : Piece(u, q, i, p) /\ p < k /\ k <= p + Len(q[i])
    BY <1>2 DEF Pieces
  <2> DEFINE m == k - p
  <2>2. m \in 1..Len(q[i]) /\ p + m = k
    BY <2>1, <1>2, <1>4
  <2> HIDE DEF m
  <2>3. q[i][m] = u[k]
    BY <2>1, <2>2 DEF Piece
  <2>4. Tidy(q[i])
    BY <1>1 DEF Script
  <2>5. PICK j \in 1..Len(q[i]) : m < j /\ q[i][j] = Sync(Home(f))
    BY <1>5, <2>2, <2>3, <2>4 DEF Tidy
  <2>6. p + j \in 1..Len(u) /\ u[p + j] = q[i][j] /\ k < p + j
    BY <2>1, <2>2, <2>5, <1>2, <1>4 DEF Piece
  <2> QED BY <2>5, <2>6
<1>6. Tidy(u)
  BY <1>5 DEF Tidy
<1>7. Script(u, X)
  BY <1>1, <1>3, <1>4, <1>6 DEF Script
<1> QED BY <1>1, <1>7 DEF u

\* A script that changes no kept file.
LEMMA ScriptPlain ==
  ASSUME NEW s \in Seq(Step), NEW X, \A i \in 1..Len(s) : s[i] \in X,
         \A i \in 1..Len(s) : s[i].op = "put" => s[i].file \notin Kept
  PROVE  Script(s, X)
BY DEF Script, Has, Tidy

LEMMA ScriptNone == ASSUME NEW X PROVE Script(<< >>, X)
BY DEF Script, Has, Tidy

LEMMA ReplaceDoes ==
  ASSUME NEW f \in File, NEW v \in Content, v \in Puttable(f)
  PROVE  /\ Script(Replace(f, v), {Put(f, v)} \cup Flushes)
         /\ Before(Replace(f, v), Put(f, v), Sync(Home(f)))
<1> DEFINE a == Put(f, v)
           b == Sync(Home(f))
           s == <<a, b>>
<1>1. a \in Step /\ b \in Step /\ b \in Flushes
  BY PutIsStep, SyncIsStep, HomeType DEF Flushes
<1>2. a.file = f /\ b.op = "sync"
  BY StepFacts
<1> HIDE DEF a, b
<1>3. /\ s \in Seq(Step) /\ Before(s, a, b)
      /\ \A x : Has(s, x) <=> x = a \/ x = b
  BY <1>1, TwoHave
<1>4. Len(s) = 2 /\ s[1] = a /\ s[2] = b /\ (\A i \in 1..2 : i = 1 \/ i = 2) /\ 2 \in 1..2
  OBVIOUS
<1> HIDE DEF s
<1>5. Tidy(s)
  BY <1>2, <1>4 DEF Tidy, b
<1>6. Script(s, {a} \cup Flushes)
  BY <1>1, <1>3, <1>5 DEF Script
<1> QED BY <1>3, <1>6 DEF Replace, s, a, b

LEMMA EnsureDirDoes ==
  ASSUME NEW d \in Folders
  PROVE  /\ Script(EnsureDir(d), Foldings \cup Flushes)
         /\ Exists(d) \/ Before(EnsureDir(d), Put(d, Folder), Sync(Home(d)))
<1>1. CASE Exists(d)
  BY <1>1, ScriptNone DEF EnsureDir
<1>2. CASE ~Exists(d)
  <2>1. d \in File /\ Folder \in Puttable(d) /\ Folder \in Content
    BY PutsAre DEF Folders, Content
  <2>2. EnsureDir(d) = Replace(d, Folder)
    BY <1>2 DEF EnsureDir, Replace
  <2>3. /\ Script(Replace(d, Folder), {Put(d, Folder)} \cup Flushes)
        /\ Before(Replace(d, Folder), Put(d, Folder), Sync(Home(d)))
    BY <2>1, ReplaceDoes
  <2>4. {Put(d, Folder)} \cup Flushes \subseteq Foldings \cup Flushes
    BY DEF Foldings
  <2> QED BY <2>2, <2>3, <2>4, ScriptWiden
<1> QED BY <1>1, <1>2

\* Steps of a concatenation and where they stand.
Behind(s, k, x, y) == \E i, j \in 1..Len(s) : i < j /\ j < k /\ s[i] = x /\ s[j] = y

LEMMA CatBehind ==
  ASSUME NEW S, NEW s \in Seq(S), NEW t \in Seq(S), NEW x, NEW y,
         NEW k \in 1..Len(s \o t)
  PROVE  /\ Before(s, x, y) /\ ~Has(s, (s \o t)[k]) => Behind(s \o t, k, x, y)
         /\ ~Has(t, (s \o t)[k]) => k \in 1..Len(s) /\ (s \o t)[k] = s[k]
         /\ Behind(s, k, x, y) => Behind(s \o t, k, x, y)
<1> DEFINE u == s \o t
<1>1. /\ u \in Seq(S) /\ Len(s) \in Nat /\ Len(t) \in Nat
      /\ \A i \in 1..Len(s) : i \in 1..Len(u) /\ u[i] = s[i]
      /\ \A i \in 1..Len(t) : Len(s) + i \in 1..Len(u) /\ u[Len(s) + i] = t[i]
      /\ \A m \in 1..Len(u) : \/ m \in 1..Len(s) /\ u[m] = s[m]
                              \/ m - Len(s) \in 1..Len(t) /\ u[m] = t[m - Len(s)]
  BY CatFacts
<1>2. k \in 1..Len(u)
  OBVIOUS
<1> HIDE DEF u
<1>3. ASSUME Before(s, x, y), ~Has(s, u[k]) PROVE Behind(u, k, x, y)
  <2>1. PICK i \in 1..Len(s), j \in 1..Len(s) : i < j /\ s[i] = x /\ s[j] = y
    BY <1>3 DEF Before
  <2>2. k - Len(s) \in 1..Len(t)
    BY <1>1, <1>2, <1>3 DEF Has
  <2>3. j < k
    BY <2>1, <2>2, <1>1, <1>2
  <2> QED BY <2>1, <2>3, <1>1 DEF Behind
<1>4. ASSUME ~Has(t, u[k]) PROVE k \in 1..Len(s) /\ u[k] = s[k]
  BY <1>1, <1>2, <1>4 DEF Has
<1>5. Behind(s, k, x, y) => Behind(u, k, x, y)
  BY <1>1 DEF Behind
<1> QED BY <1>3, <1>4, <1>5 DEF u

LEMMA StageDoes ==
  ASSUME NEW e \in Entered
  PROVE  /\ Script(Stage(e), {Put(Staged, e)} \cup Foldings \cup Flushes)
         /\ Before(Stage(e), Put(Staged, e), Sync(Events))
<1> DEFINE a == EnsureDir(Events)
           b == EnsureDir(EventStaging)
           r == Replace(Staged, e)
           X == Foldings \cup Flushes
           Y == {Put(Staged, e)} \cup Flushes
<1>1. Script(a, X) /\ Script(b, X)
  BY FileNames, EnsureDirDoes
<1>2. Script(r, Y) /\ Before(r, Put(Staged, e), Sync(Events))
  BY FileNames, EventNames, PutsAre, ReplaceDoes
<1>3. Stage(e) = (a \o b) \o r
  BY DEF Stage
<1>4. X \cup X \cup Y \subseteq {Put(Staged, e)} \cup Foldings \cup Flushes
  OBVIOUS
<1> HIDE DEF a, b, r, X, Y
<1>5. Script(a \o b, X \cup X)
  BY <1>1, ScriptCat
<1>6. Script((a \o b) \o r, X \cup X \cup Y)
  BY <1>2, <1>5, ScriptCat
<1>7. Before((a \o b) \o r, Put(Staged, e), Sync(Events))
  BY <1>2, <1>5, CatBefore DEF Script
<1> QED BY <1>3, <1>4, <1>6, <1>7, ScriptWiden

LEMMA FilesDiffer ==
  /\ {HeadFile, Staged, LastFile, Root} \cap Folders = {}
  /\ {HeadFile, Staged, LastFile, Root} \cap Logged = {}
  /\ Folders \cap Logged = {}
  /\ HeadFile # Staged /\ HeadFile # LastFile /\ Staged # LastFile
  /\ Root # HeadFile /\ Root # Staged /\ Root # LastFile
  /\ Staged \notin Kept /\ Kept \cap Logged = {} /\ Kept \subseteq File
  /\ Logged \subseteq File /\ Root \notin Kept
  /\ \A c, i : Block(c, i) \notin Kept \cup Logged \cup {Staged, Root}
  /\ \A c, i, d, j : Block(c, i) = Block(d, j) => c = d /\ i = j
BY FileNames DEF Folders, Logged, Kept, HeadFile, Staged, LastFile, Root, Block

LEMMA SweepDoes ==
  ASSUME NEW E, E \subseteq Entered, IsFiniteSet(E)
  PROVE  Script(Sweep(E), Sweeps)
<1> DEFINE D == {e \in E : Expired(e)}
           part(s) == {e \in D : e[2] = s}
           q == [s \in 1..MaxSeq |-> SetToSeq(part(s))]
           dropped == InSeqOrder(D)
           w == [i \in DOMAIN dropped |-> Unlink(Entry(dropped[i]))]
<1>1. \A s \in 1..MaxSeq : SetToSeq(part(s)) \in Seq(Entered)
  <2> TAKE s \in 1..MaxSeq
  <2>1. part(s) \subseteq Entered /\ IsFiniteSet(part(s))
    BY FS_Subset
  <2> HIDE DEF part
  <2> QED BY <2>1, SetListed
<1>2. q \in Seq(Seq(Entered))
  <2>1. MaxSeq \in Nat
    BY BoundsAreNumbers
  <2> HIDE DEF part
  <2> QED BY <1>1, <2>1
<1>3. dropped = FlattenSeq(q)
  BY DEF InSeqOrder
<1>4. dropped \in Seq(Entered)
  <2> HIDE DEF q, dropped
  <2> QED BY <1>2, <1>3, FlattenType
<1>5. Sweep(E) = w
  BY DEF Sweep
<1> HIDE DEF dropped
<1>6. /\ Len(dropped) \in Nat /\ DOMAIN dropped = 1..Len(dropped)
      /\ \A i \in 1..Len(dropped) : dropped[i] \in Entered
  BY <1>4, LenProperties, ElementOfSeq
<1>7. \A i \in 1..Len(dropped) : /\ Unlink(Entry(dropped[i])) \in Step
                                 /\ Unlink(Entry(dropped[i])) \in Sweeps
                                 /\ Unlink(Entry(dropped[i])).file \notin Kept
  <2> TAKE i \in 1..Len(dropped)
  <2>1. PICK e \in Entered : e = dropped[i]
    BY <1>6
  <2>2. Entry(e) \in File /\ Entry(e) \in Logged /\ Nothing \in Content
    BY EventNames DEF Content
  <2>3. Nothing \in Puttable(Entry(e))
    BY <2>2, PutsAre
  <2>4. Unlink(Entry(e)) \in Step /\ Unlink(Entry(e)) \in Sweeps
    BY <2>2, <2>3, PutIsStep DEF Unlink, Sweeps
  <2>5. Unlink(Entry(e)).file = Entry(e)
    BY StepFacts DEF Unlink
  <2> QED BY <2>1, <2>2, <2>4, <2>5, FilesDiffer
<1>8. w \in Seq(Step) /\ Len(w) = Len(dropped) /\ \A i \in 1..Len(w) : w[i] = Unlink(Entry(dropped[i]))
  BY <1>6, <1>7
<1> HIDE DEF w
<1> QED BY <1>5, <1>7, <1>8, ScriptPlain

LEMMA ImageFinite ==
  ASSUME NEW S, IsFiniteSet(S), NEW g, g = [x \in S |-> g[x]]
  PROVE  IsFiniteSet({g[x] : x \in S})
<1> DEFINE T == {g[x] : x \in S}
<1>1. g \in [S -> T] /\ \A t \in T : \E x \in S : g[x] = t
  OBVIOUS
<1> HIDE DEF T
<1>2. g \in Surjection(S, T)
  BY <1>1 DEF Surjection
<1>3. IsFiniteSet(T)
  BY <1>2, FS_Surjection
<1> QED BY <1>3 DEF T

LEMMA LogIsFinite ==
  ASSUME DiskOK
  PROVE  LogEntries \subseteq Entered /\ IsFiniteSet(LogEntries)
<1>1. \A f \in EntryFiles : f \in Logged /\ cache[f] \in {e \in Entered : Entry(e) = f}
  <2> TAKE f \in EntryFiles
  <2>1. f \in File /\ f \in Logged /\ cache[f] # Nothing
    BY DEF EntryFiles, Exists, Logged
  <2>2. cache[f] \in Holds(f)
    BY <2>1 DEF DiskOK
  <2> QED BY <2>1, <2>2, PutsAre
<1>2. LogEntries \subseteq Entered
  BY <1>1 DEF LogEntries
<1> DEFINE P == (1..MaxSeq) \X (0..MaxTime)
           T == {<<"entry", x[1], x[2]>> : x \in P}
<1>3. IsFiniteSet(P)
  <2>1. MaxSeq \in Nat /\ MaxTime \in Nat
    BY BoundsAreNumbers
  <2>2. IsFiniteSet(1..MaxSeq) /\ IsFiniteSet(0..MaxTime)
    BY <2>1, FS_Interval
  <2> QED BY <2>2, FS_Product
<1>4. IsFiniteSet(T)
  <2> DEFINE g == [x \in P |-> <<"entry", x[1], x[2]>>]
             U == {g[x] : x \in P}
  <2>1. U = T
    OBVIOUS
  <2>2. g = [x \in P |-> g[x]]
    OBVIOUS
  <2> HIDE DEF P, g
  <2>3. IsFiniteSet(U)
    BY <1>3, <2>2, ImageFinite
  <2> HIDE DEF U, T
  <2> QED BY <2>1, <2>3
<1>5. EntryFiles \subseteq T
  <2> SUFFICES ASSUME NEW f \in EntryFiles PROVE f \in T
    OBVIOUS
  <2>1. f \in File /\ f[1] = "entry"
    BY DEF EntryFiles
  <2>2. PICK s \in 1..MaxSeq, t \in 0..MaxTime : f = <<"entry", s, t>>
    BY <2>1 DEF File, Root, HeadFile, BlocksDir, BlockStaging, Events, EventStaging,
       Staged, LastFile, Entries, Shard, Block
  <2>3. <<s, t>> \in P /\ <<s, t>>[1] = s /\ <<s, t>>[2] = t
    OBVIOUS
  <2> QED BY <2>2, <2>3
<1>6. IsFiniteSet(EntryFiles)
  <2> HIDE DEF T
  <2>1. EntryFiles \in SUBSET T
    BY <1>5
  <2> QED BY <2>1, <1>4, FS_Subset
<1>7. IsFiniteSet(LogEntries)
  <2> DEFINE g == [f \in EntryFiles |-> cache[f]]
             U == {g[f] : f \in EntryFiles}
  <2>1. U = LogEntries
    BY DEF LogEntries
  <2>2. g = [f \in EntryFiles |-> g[f]]
    OBVIOUS
  <2> HIDE DEF g
  <2>3. IsFiniteSet(U)
    BY <1>6, <2>2, ImageFinite
  <2> HIDE DEF U
  <2> QED BY <2>1, <2>3
<1> QED BY <1>2, <1>7

PromoteSteps(e) ==
  {Put(Entry(e), e), Put(LastFile, Pointer(e[2])), Unlink(Staged)}
    \cup Sweeps \cup Foldings \cup Flushes

LEMMA StepsDiffer ==
  /\ \A f \in Folders : /\ Put(f, Folder) # Unlink(Staged)
                        /\ \A g \in Logged : \A v : Put(f, Folder) # Put(g, v)
  /\ \A f \in Logged : Unlink(f) # Unlink(Staged)
  /\ \A v : Put(LastFile, v) # Unlink(Staged)
  /\ \A g \in Logged : \A v : Put(g, v) # Unlink(Staged)
  /\ \A g \in Logged : \A v, w : Put(LastFile, v) # Put(g, w)
  /\ \A e \in Entered, g \in Logged : Put(g, e) \notin Sweeps
  /\ \A x \in Foldings \cup Flushes :
       /\ x # Unlink(Staged)
       /\ \A g \in Logged : \A v : x # Put(g, v)
       /\ \A v : x # Put(HeadFile, v) /\ x # Put(LastFile, v) /\ x # Put(Staged, v)
  /\ \A x \in Sweeps : x # Unlink(Staged)
BY StepFacts, FilesDiffer, EventNames DEF Foldings, Flushes, Sweeps, Unlink

LEMMA PromoteDoes ==
  ASSUME DiskOK, NEW e \in Entered, NEW p, p = Promote(e)
  PROVE  /\ Script(p, PromoteSteps(e))
         /\ Has(p, Unlink(Staged))
         /\ \A k \in 1..Len(p) : p[k] = Unlink(Staged) =>
              /\ Behind(p, k, Put(LastFile, Pointer(e[2])), Sync(Events))
              /\ \A m \in 1..Len(p) : k < m => p[m] \in Sweeps
         /\ \A k \in 1..Len(p) : p[k] = Put(Entry(e), e) =>
              Exists(Events) \/ Behind(p, k, Put(Events, Folder), Sync(Root))
<1> DEFINE ea == EnsureDir(Events)
           eb == EnsureDir(Entries)
           ec == EnsureDir(EventStaging)
           X == Foldings \cup Flushes
           r1 == Replace(Entry(e), e)
           Y1 == {Put(Entry(e), e)} \cup Flushes
           r2 == Replace(LastFile, Pointer(e[2]))
           Y2 == {Put(LastFile, Pointer(e[2]))} \cup Flushes
           u == <<Unlink(Staged)>>
           w == SweepIfDue(e)
<1>0. e[2] \in 1..MaxSeq /\ Pointer(e[2]) \in Content /\ Entry(e) \in Logged
  BY EventNames DEF Content
<1>1. Script(ea, X) /\ Script(eb, X) /\ Script(ec, X)
  BY FileNames, EnsureDirDoes
<1>2. Exists(Events) \/ Before(ea, Put(Events, Folder), Sync(Root))
  BY FileNames, EnsureDirDoes
<1>3. Script(r1, Y1)
  BY EventNames, ReplaceDoes
<1>4. Script(r2, Y2) /\ Before(r2, Put(LastFile, Pointer(e[2])), Sync(Events))
  <2>1. Pointer(e[2]) \in Puttable(LastFile)
    BY <1>0, PutsAre
  <2> QED BY <1>0, <2>1, FileNames, ReplaceDoes
<1>5. Script(u, {Unlink(Staged)}) /\ \A x : Has(u, x) <=> x = Unlink(Staged)
  <2>1. Nothing \in Content /\ Nothing \in Puttable(Staged) /\ Staged \in File
    BY PutsAre, FileNames DEF Content
  <2>2. Unlink(Staged) \in Step /\ Unlink(Staged).file = Staged
    BY <2>1, PutIsStep, StepFacts DEF Unlink
  <2>3. u \in Seq(Step) /\ \A x : Has(u, x) <=> x = Unlink(Staged)
    BY <2>2, OneHas
  <2>4. Len(u) = 1 /\ \A i \in 1..1 : i = 1 /\ u[i] = Unlink(Staged)
    OBVIOUS
  <2> HIDE DEF u
  <2> QED BY <2>2, <2>3, <2>4, ScriptPlain, FilesDiffer
<1>6. Script(w, Sweeps)
  <2>1. CASE (e[2] % SweepInterval) = 0
    <3>1. LogEntries \cup {e} \subseteq Entered /\ IsFiniteSet(LogEntries \cup {e})
      BY LogIsFinite, FS_AddElement
    <3>2. Script(Sweep(LogEntries \cup {e}), Sweeps)
      BY <3>1, SweepDoes
    <3> QED BY <2>1, <3>2 DEF SweepIfDue
  <2>2. CASE ~((e[2] % SweepInterval) = 0)
    BY <2>2, ScriptNone DEF SweepIfDue
  <2> QED BY <2>1, <2>2
<1>7. p = (((((ea \o eb) \o ec) \o r1) \o r2) \o u) \o w
  BY DEF Promote, LogDirs
<1>8. /\ \A x \in X \cup Y1 \cup Y2 \cup Sweeps : x # Unlink(Staged)
      /\ \A x \in X \cup Y2 \cup {Unlink(Staged)} \cup Sweeps : x # Put(Entry(e), e)
  BY StepsDiffer, <1>0
<1>9. X \cup X \cup X \cup Y1 \cup Y2 \cup {Unlink(Staged)} \cup Sweeps \subseteq PromoteSteps(e)
  BY DEF PromoteSteps
<1> HIDE DEF ea, eb, ec, X, r1, Y1, r2, Y2, u, w
<1> DEFINE s1 == ea \o eb
<1>10. Script(s1, X \cup X)
  BY <1>1, ScriptCat
<1>11. Before(ea, Put(Events, Folder), Sync(Root)) => Before(s1, Put(Events, Folder), Sync(Root))
  BY <1>1, CatBefore DEF Script
<1> HIDE DEF s1
<1> DEFINE s2 == s1 \o ec
<1>12. Script(s2, X \cup X \cup X)
  BY <1>1, <1>10, ScriptCat
<1>13. Exists(Events) \/ Before(s2, Put(Events, Folder), Sync(Root))
  BY <1>1, <1>2, <1>10, <1>11, CatBefore DEF Script
<1> HIDE DEF s2
<1> DEFINE s3 == s2 \o r1
<1>14. Script(s3, X \cup X \cup X \cup Y1)
  BY <1>3, <1>12, ScriptCat
<1>15. \A k \in 1..Len(s3) : s3[k] = Put(Entry(e), e) =>
         Exists(Events) \/ Behind(s3, k, Put(Events, Folder), Sync(Root))
  <2>1. ~Has(s2, Put(Entry(e), e))
    BY <1>8, <1>12 DEF Script
  <2> QED BY <2>1, <1>3, <1>12, <1>13, CatBehind DEF Script
<1> HIDE DEF s3
<1> DEFINE s4 == s3 \o r2
<1>16. Script(s4, X \cup X \cup X \cup Y1 \cup Y2)
  BY <1>4, <1>14, ScriptCat
<1>17. Before(s4, Put(LastFile, Pointer(e[2])), Sync(Events))
  BY <1>4, <1>14, CatBefore DEF Script
<1>18. \A k \in 1..Len(s4) : s4[k] = Put(Entry(e), e) =>
         Exists(Events) \/ Behind(s4, k, Put(Events, Folder), Sync(Root))
  <2>1. ~Has(r2, Put(Entry(e), e))
    BY <1>4, <1>8 DEF Script
  <2> QED BY <2>1, <1>4, <1>14, <1>15, CatBehind DEF Script
<1> HIDE DEF s4
<1> DEFINE s5 == s4 \o u
<1>19. Script(s5, X \cup X \cup X \cup Y1 \cup Y2 \cup {Unlink(Staged)})
  BY <1>5, <1>16, ScriptCat
<1>20. ~Has(s4, Unlink(Staged))
  BY <1>8, <1>16 DEF Script
<1>21. \A k \in 1..Len(s5) : s5[k] = Unlink(Staged) =>
         Behind(s5, k, Put(LastFile, Pointer(e[2])), Sync(Events))
  BY <1>5, <1>16, <1>17, <1>20, CatBehind DEF Script
<1>22. \A k \in 1..Len(s5) : s5[k] = Put(Entry(e), e) =>
         Exists(Events) \/ Behind(s5, k, Put(Events, Folder), Sync(Root))
  <2>1. ~Has(u, Put(Entry(e), e))
    BY <1>5, <1>8
  <2> QED BY <2>1, <1>5, <1>16, <1>18, CatBehind DEF Script
<1>23. Has(s5, Unlink(Staged))
  BY <1>5, <1>16, CatHas DEF Script
<1>24. \A k \in 1..Len(s5) : s5[k] = Unlink(Staged) => k = Len(s5)
  <2>1. /\ Len(s4) \in Nat /\ Len(u) = 1 /\ Len(s5) = Len(s4) + Len(u)
        /\ \A k \in 1..Len(s5) : \/ k \in 1..Len(s4) /\ s5[k] = s4[k]
                                 \/ k - Len(s4) \in 1..Len(u)
    <3>1. Len(u) = 1
      BY DEF u
    <3> QED BY <3>1, <1>5, <1>16, CatFacts DEF Script
  <2> QED BY <2>1, <1>20 DEF Has
<1> HIDE DEF s5
<1>25. p = s5 \o w
  BY <1>7 DEF s5, s4, s3, s2, s1
<1>26. Script(p, PromoteSteps(e))
  <2>1. Script(s5 \o w, X \cup X \cup X \cup Y1 \cup Y2 \cup {Unlink(Staged)} \cup Sweeps)
    BY <1>6, <1>19, ScriptCat
  <2> QED BY <2>1, <1>9, <1>25, ScriptWiden
<1>27. Has(p, Unlink(Staged))
  BY <1>6, <1>19, <1>23, <1>25, CatHas DEF Script
<1>28. ~Has(w, Unlink(Staged)) /\ ~Has(w, Put(Entry(e), e))
  BY <1>6, <1>8 DEF Script
<1>29. /\ \A k \in 1..Len(p) : p[k] = Unlink(Staged) =>
            Behind(p, k, Put(LastFile, Pointer(e[2])), Sync(Events))
       /\ \A k \in 1..Len(p) : p[k] = Put(Entry(e), e) =>
            Exists(Events) \/ Behind(p, k, Put(Events, Folder), Sync(Root))
  BY <1>6, <1>19, <1>21, <1>22, <1>25, <1>28, CatBehind DEF Script
<1>30. ASSUME NEW k \in 1..Len(p), p[k] = Unlink(Staged), NEW m \in 1..Len(p), k < m
       PROVE  p[m] \in Sweeps
  <2>1. k \in 1..Len(s5) /\ s5[k] = Unlink(Staged)
    <3>1. s5 \in Seq(Step) /\ w \in Seq(Step)
      BY <1>6, <1>19 DEF Script
    <3>2. \A n \in 1..Len(s5 \o w) : ~Has(w, (s5 \o w)[n]) => n \in 1..Len(s5) /\ (s5 \o w)[n] = s5[n]
      BY <3>1, CatBehind
    <3> QED BY <3>2, <1>25, <1>28, <1>30
  <2>2. k = Len(s5)
    BY <2>1, <1>24
  <2>3. \/ m \in 1..Len(s5)
        \/ m - Len(s5) \in 1..Len(w) /\ p[m] = w[m - Len(s5)]
    BY <1>6, <1>19, <1>25, CatFacts DEF Script
  <2>4. Len(s5) \in Nat
    BY <1>6, <1>19, CatFacts DEF Script
  <2>5. m - Len(s5) \in 1..Len(w) /\ p[m] = w[m - Len(s5)]
    BY <2>2, <2>3, <2>4, <1>30
  <2> QED BY <2>5, <1>6 DEF Script, Has
<1> QED BY <1>26, <1>27, <1>29, <1>30

LEMMA DiscardDoes ==
  /\ Script(DiscardStaged, {Unlink(Staged)})
  /\ Exists(Staged) => Has(DiscardStaged, Unlink(Staged))
<1>1. Nothing \in Content /\ Nothing \in Puttable(Staged) /\ Staged \in File
  BY PutsAre, FileNames DEF Content
<1>2. Unlink(Staged) \in Step /\ Unlink(Staged).file = Staged
  BY <1>1, PutIsStep, StepFacts DEF Unlink
<1> DEFINE u == <<Unlink(Staged)>>
<1>3. u \in Seq(Step) /\ \A x : Has(u, x) <=> x = Unlink(Staged)
  BY <1>2, OneHas
<1>4. Len(u) = 1 /\ \A i \in 1..1 : i = 1 /\ u[i] = Unlink(Staged)
  OBVIOUS
<1> HIDE DEF u
<1>5. Script(u, {Unlink(Staged)})
  BY <1>2, <1>3, <1>4, ScriptPlain, FilesDiffer
<1>6. CASE Exists(Staged)
  BY <1>3, <1>5, <1>6 DEF DiscardStaged, u
<1>7. CASE ~Exists(Staged)
  BY <1>7, ScriptNone DEF DiscardStaged
<1> QED BY <1>6, <1>7

Rowed(c) == {Put(Block(c, i), Bytes) : i \in 1..BlocksPerCommit}

LEMMA WriteOneDoes ==
  ASSUME NEW c \in Commits, NEW i \in 1..BlocksPerCommit,
         NEW h, h = Home(Block(c, i)), NEW s, s = WriteOne(c, i)
  PROVE  /\ Script(s, Foldings \cup Flushes \cup Rowed(c))
         /\ Has(s, Put(Block(c, i), Bytes))
         /\ \/ \E j \in 1..(i - 1) : ShardOf(c, j) = ShardOf(c, i)
            \/ Exists(h)
            \/ Before(s, Put(h, Folder), Sync(BlocksDir))
<1> DEFINE a == IF \E j \in 1..(i - 1) : ShardOf(c, j) = ShardOf(c, i)
                  THEN <<>> ELSE EnsureDir(h)
           X == Foldings \cup Flushes
           b == <<Put(Block(c, i), Bytes)>>
<1>1. Block(c, i) \in File /\ h \in Folders /\ Home(h) = BlocksDir /\ Bytes \in Puttable(Block(c, i))
  BY BlockNames
<1>2. /\ Script(EnsureDir(h), X)
      /\ Exists(h) \/ Before(EnsureDir(h), Put(h, Folder), Sync(BlocksDir))
  BY <1>1, EnsureDirDoes
<1>3. Script(a, X)
  BY <1>2, ScriptNone
<1>4. \/ \E j \in 1..(i - 1) : ShardOf(c, j) = ShardOf(c, i)
      \/ Exists(h)
      \/ Before(a, Put(h, Folder), Sync(BlocksDir))
  BY <1>2
<1>5. Script(b, Rowed(c)) /\ Has(b, Put(Block(c, i), Bytes))
  <2>1. Bytes \in Content
    BY DEF Content
  <2>2. Put(Block(c, i), Bytes) \in Step /\ Put(Block(c, i), Bytes).file = Block(c, i)
    BY <1>1, <2>1, PutIsStep, StepFacts
  <2>3. b \in Seq(Step) /\ Has(b, Put(Block(c, i), Bytes))
    BY <2>2, OneHas
  <2>4. Len(b) = 1 /\ \A j \in 1..1 : j = 1 /\ b[j] = Put(Block(c, i), Bytes)
    OBVIOUS
  <2>5. Put(Block(c, i), Bytes) \in Rowed(c)
    BY DEF Rowed
  <2> HIDE DEF b
  <2> QED BY <2>2, <2>3, <2>4, <2>5, ScriptPlain, FilesDiffer
<1>6. s = a \o b
  BY DEF WriteOne, Rows
<1> HIDE DEF a, b, X
<1>7. Script(a \o b, X \cup Rowed(c))
  BY <1>3, <1>5, ScriptCat
<1>8. Has(a \o b, Put(Block(c, i), Bytes))
  BY <1>3, <1>5, CatHas DEF Script
<1>9. Before(a, Put(h, Folder), Sync(BlocksDir)) => Before(a \o b, Put(h, Folder), Sync(BlocksDir))
  BY <1>3, <1>5, CatBefore DEF Script
<1> QED BY <1>4, <1>6, <1>7, <1>8, <1>9 DEF X

LEMMA BlockFileWriteDoes ==
  ASSUME NEW c \in Commits, NEW b, b = BlockFileWrite(c)
  PROVE  /\ Script(b, Foldings \cup Flushes \cup Rowed(c))
         /\ Exists(BlocksDir) \/ Before(b, Put(BlocksDir, Folder), Sync(Root))
         /\ \A i \in 1..BlocksPerCommit :
              LET h == Home(Block(c, i))
              IN /\ Before(b, Put(Block(c, i), Bytes), Sync(h))
                 /\ Exists(h) \/ Before(b, Put(h, Folder), Sync(BlocksDir))
<1> DEFINE N == BlocksPerCommit
           X == Foldings \cup Flushes
           Z == X \cup Rowed(c)
           ea == EnsureDir(BlocksDir)
           eb == EnsureDir(BlockStaging)
           q == [i \in 1..N |-> WriteOne(c, i)]
           m == FlattenSeq(q)
           H == {Sync(Home(Rows(c)[i])) : i \in 1..N}
           z == SetToSeq(H)
<1>0. N \in Nat
  BY BoundsAreNumbers
<1>1. Script(ea, X) /\ Script(eb, X)
  BY FileNames, EnsureDirDoes
<1>2. Exists(BlocksDir) \/ Before(ea, Put(BlocksDir, Folder), Sync(Root))
  BY FileNames, EnsureDirDoes
<1>3. \A i \in 1..N : Script(q[i], Z) /\ Has(q[i], Put(Block(c, i), Bytes))
  BY WriteOneDoes
<1>4. ASSUME NEW i \in 1..N
      PROVE  \/ \E j \in 1..(i - 1) : ShardOf(c, j) = ShardOf(c, i)
             \/ Exists(Home(Block(c, i)))
             \/ Before(q[i], Put(Home(Block(c, i)), Folder), Sync(BlocksDir))
  BY WriteOneDoes
<1>5. q = [i \in 1..N |-> q[i]]
  OBVIOUS
<1>6. /\ H \subseteq Flushes /\ IsFiniteSet(H)
      /\ \A i \in 1..N : Sync(Home(Block(c, i))) \in H
  <2> DEFINE g == [i \in 1..N |-> Sync(Home(Block(c, i)))]
             U == {g[i] : i \in 1..N}
  <2>1. H = U
    BY DEF Rows
  <2>2. \A i \in 1..N : g[i] \in Flushes /\ g[i] = Sync(Home(Block(c, i)))
    BY BlockNames DEF Folders, Flushes
  <2>3. g = [i \in 1..N |-> g[i]] /\ IsFiniteSet(1..N)
    BY <1>0, FS_Interval
  <2> HIDE DEF g, N
  <2>4. IsFiniteSet(U)
    BY <2>3, ImageFinite
  <2> HIDE DEF H
  <2> QED BY <2>1, <2>2, <2>4
<1>7. b = ((ea \o eb) \o m) \o z
  BY DEF BlockFileWrite
<1> HIDE DEF N, X, ea, eb, q, m, H, z
<1>8. Script(m, Z) /\ q \in Seq(Seq(Step)) /\ Len(q) = N
  <2> HIDE DEF Z
  <2> QED BY <1>0, <1>3, <1>5, ScriptFlatten DEF m
<1>9. Script(z, Flushes) /\ \A i \in 1..N : Has(z, Sync(Home(Block(c, i))))
  <2>1. Flushes \subseteq Step
    BY DEF Flushes, Step
  <2>2. H \subseteq Step
    BY <1>6, <2>1
  <2>3. /\ z \in Seq(Step)
        /\ \A a \in H : \E i \in 1..Len(z) : z[i] = a
        /\ \A i \in 1..Len(z) : z[i] \in H
    BY <1>6, <2>2, SetListed DEF z
  <2>4. \A i \in 1..Len(z) : z[i] \in Flushes /\ z[i].op = "sync"
    BY <1>6, <2>3, StepFacts DEF Flushes
  <2>5. Script(z, Flushes)
    BY <2>3, <2>4, ScriptPlain
  <2> QED BY <1>6, <2>3, <2>5 DEF Has
<1>10. \A i \in 1..N : Has(m, Put(Block(c, i), Bytes))
  BY <1>3, <1>8, FlattenHas DEF m
<1>11. ASSUME NEW i \in 1..N
       PROVE  \/ Exists(Home(Block(c, i)))
              \/ Before(m, Put(Home(Block(c, i)), Folder), Sync(BlocksDir))
  <2> DEFINE T == {j \in 1..N : ShardOf(c, j) = ShardOf(c, i)}
  <2>1. i \in T /\ T \subseteq Nat
    OBVIOUS
  <2>2. PICK j \in T : \A k \in T : j <= k
    <3> HIDE DEF T
    <3> QED BY <2>1, LeastNat
  <2>3. j \in 1..N /\ ShardOf(c, j) = ShardOf(c, i)
    BY <2>2
  <2>4. ~ \E k \in 1..(j - 1) : ShardOf(c, k) = ShardOf(c, j)
    <3> SUFFICES ASSUME NEW k \in 1..(j - 1), ShardOf(c, k) = ShardOf(c, j) PROVE FALSE
      OBVIOUS
    <3>1. k \in 1..N /\ ~(j <= k)
      BY <1>0, <2>3
    <3>2. k \in T
      BY <2>3, <3>1
    <3> HIDE DEF T
    <3> QED BY <2>2, <3>1, <3>2
  <2>5. Home(Block(c, j)) = Home(Block(c, i))
    <3>1. j \in 1..BlocksPerCommit /\ i \in 1..BlocksPerCommit
      BY <2>3 DEF N
    <3> QED BY <2>3, <3>1, BlockNames
  <2>6. \/ Exists(Home(Block(c, i)))
        \/ Before(q[j], Put(Home(Block(c, i)), Folder), Sync(BlocksDir))
    BY <1>4, <2>3, <2>4, <2>5
  <2> QED BY <2>3, <2>6, <1>8, FlattenBefore DEF m
<1> DEFINE s1 == ea \o eb
<1>12. Script(s1, X \cup X)
  BY <1>1, ScriptCat
<1>13. Exists(BlocksDir) \/ Before(s1, Put(BlocksDir, Folder), Sync(Root))
  BY <1>1, <1>2, CatBefore DEF Script
<1> HIDE DEF s1
<1> DEFINE s2 == s1 \o m
<1>14. Script(s2, X \cup X \cup Z)
  <2> HIDE DEF Z
  <2> QED BY <1>8, <1>12, ScriptCat
<1>15. Exists(BlocksDir) \/ Before(s2, Put(BlocksDir, Folder), Sync(Root))
  BY <1>8, <1>12, <1>13, CatBefore DEF Script
<1>16. ASSUME NEW i \in 1..N
       PROVE  /\ Has(s2, Put(Block(c, i), Bytes))
              /\ \/ Exists(Home(Block(c, i)))
                 \/ Before(s2, Put(Home(Block(c, i)), Folder), Sync(BlocksDir))
  BY <1>8, <1>10, <1>11, <1>12, CatHas, CatBefore DEF Script
<1> HIDE DEF s2
<1>17. b = s2 \o z
  BY <1>7 DEF s2, s1
<1>18. Script(b, X \cup X \cup Z \cup Flushes)
  <2> HIDE DEF Z
  <2> QED BY <1>9, <1>14, <1>17, ScriptCat
<1>19. X \cup X \cup Z \cup Flushes \subseteq Foldings \cup Flushes \cup Rowed(c)
  BY DEF X
<1>20. Script(b, Foldings \cup Flushes \cup Rowed(c))
  <2> HIDE DEF Z
  <2> QED BY <1>18, <1>19, ScriptWiden
<1>21. Exists(BlocksDir) \/ Before(b, Put(BlocksDir, Folder), Sync(Root))
  BY <1>9, <1>14, <1>15, <1>17, CatBefore DEF Script
<1>22. ASSUME NEW i \in 1..N, NEW h, h = Home(Block(c, i))
       PROVE  /\ Before(b, Put(Block(c, i), Bytes), Sync(h))
              /\ Exists(h) \/ Before(b, Put(h, Folder), Sync(BlocksDir))
  BY <1>9, <1>14, <1>16, <1>17, <1>22, CatBefore DEF Script
<1> QED BY <1>20, <1>21, <1>22 DEF N

PersistSteps(c) == Foldings \cup Flushes \cup Rowed(c) \cup {Put(HeadFile, Cid(c))}

\* When the head is moved, what it needs has been written and flushed.
LEMMA PersistSaveDoes ==
  ASSUME NEW c \in Commits, NEW p, p = PersistSave(c)
  PROVE  /\ Script(p, PersistSteps(c))
         /\ Before(p, Put(HeadFile, Cid(c)), Sync(Root))
         /\ \A k \in 1..Len(p) : p[k] = Put(HeadFile, Cid(c)) =>
              /\ Exists(BlocksDir) \/ Behind(p, k, Put(BlocksDir, Folder), Sync(Root))
              /\ \A i \in 1..BlocksPerCommit :
                   LET h == Home(Block(c, i))
                   IN /\ Behind(p, k, Put(Block(c, i), Bytes), Sync(h))
                      /\ Exists(h) \/ Behind(p, k, Put(h, Folder), Sync(BlocksDir))
<1> DEFINE b == BlockFileWrite(c)
           r == Replace(HeadFile, Cid(c))
           X == Foldings \cup Flushes \cup Rowed(c)
<1>1. /\ Script(b, X)
      /\ Exists(BlocksDir) \/ Before(b, Put(BlocksDir, Folder), Sync(Root))
      /\ \A i \in 1..BlocksPerCommit :
           LET h == Home(Block(c, i))
           IN /\ Before(b, Put(Block(c, i), Bytes), Sync(h))
              /\ Exists(h) \/ Before(b, Put(h, Folder), Sync(BlocksDir))
  BY BlockFileWriteDoes
<1>2. /\ Script(r, {Put(HeadFile, Cid(c))} \cup Flushes)
      /\ Before(r, Put(HeadFile, Cid(c)), Sync(Root))
  <2>1. HeadFile \in File /\ Cid(c) \in Content /\ Cid(c) \in Puttable(HeadFile)
    BY PutsAre, FileNames DEF Content
  <2> QED BY <2>1, FileNames, ReplaceDoes
<1>3. p = b \o r
  BY DEF PersistSave
<1>4. ~Has(b, Put(HeadFile, Cid(c)))
  <2>1. Put(HeadFile, Cid(c)) \notin X
    BY StepsDiffer, StepFacts, FilesDiffer DEF Rowed, Kept
  <2> QED BY <1>1, <2>1 DEF Script
<1> HIDE DEF b, r, X
<1>5. Script(p, PersistSteps(c))
  <2>1. Script(p, X \cup ({Put(HeadFile, Cid(c))} \cup Flushes))
    BY <1>1, <1>2, <1>3, ScriptCat
  <2>2. X \cup ({Put(HeadFile, Cid(c))} \cup Flushes) \subseteq PersistSteps(c)
    BY DEF X, PersistSteps
  <2> QED BY <2>1, <2>2, ScriptWiden
<1>6. Before(p, Put(HeadFile, Cid(c)), Sync(Root))
  BY <1>1, <1>2, <1>3, CatBefore DEF Script
<1>7. ASSUME NEW k \in 1..Len(p), p[k] = Put(HeadFile, Cid(c)), NEW x, NEW y, Before(b, x, y)
      PROVE  Behind(p, k, x, y)
  <2>1. b \in Seq(Step) /\ r \in Seq(Step) /\ k \in 1..Len(b \o r) /\ ~Has(b, (b \o r)[k])
    BY <1>1, <1>2, <1>3, <1>4, <1>7 DEF Script
  <2>2. Behind(b \o r, k, x, y)
    BY <2>1, <1>7, CatBehind
  <2> QED BY <2>2, <1>3
<1> QED BY <1>1, <1>5, <1>6, <1>7

-----------------------------------------------------------------------------
(* The inductive invariant *)

\* What is still to be put on a file, by the call in progress.
Contents(s, f) ==
  {s[i].content : i \in {j \in 1..Len(s) : s[j].op = "put" /\ s[j].file = f}}
Coming(f) == Contents(todo, f)

\* The file holds v for good by the time the first k - 1 operations are done.
Lands(k, f, v) ==
  \/ Ver(f) = {v}
  \/ \E j \in 1..Len(todo) :
       /\ j < k /\ todo[j] = Sync(Home(f))
       /\ cache[f] = v \/ \E i \in 1..Len(todo) : i < j /\ todo[i] = Put(f, v)

Num(v) == IF v = Nothing THEN 0 ELSE v[2]

\* The store holds the head's commit.
InMemory == up = "serving" \/ (up = "starting" /\ at # "init")

CallsOK ==
  /\ Falls(prior) /\ faults \in 0..MaxFaults /\ clock \in 0..MaxTime
  /\ Len(prior) + (IF up = "down" THEN 1 ELSE 0) <= MaxCommits + faults
  /\ \/ up \in {"down", "refused"} /\ at = "idle"
     \/ up = "starting" /\ at \in {"init", "recover", "stage", "promote"}
     \/ up = "serving" /\ at \in {"idle", "stage", "persist", "promote", "discard"}
  /\ at = "idle" => todo = <<>>
  /\ commit \in 0..Len(prior) /\ store \in 0..Len(prior)
  /\ commit # 0 => /\ at \in {"stage", "persist", "promote", "discard"}
                   /\ up = "serving" /\ prior[commit] = store
  /\ at = "persist" => commit # 0
  /\ acked \subseteq Nat

HeadsOK ==
  /\ \A v \in Ver(HeadFile) : Num(v) <= Len(prior) /\ acked \subseteq ChainOf(prior, Num(v))
  /\ \A v \in Coming(HeadFile) :
       /\ at \in {"init", "persist"} /\ (at = "persist" => v = Cid(commit))
       /\ v[2] <= Len(prior) /\ acked \subseteq ChainOf(prior, v[2])
  /\ InMemory => acked \subseteq ChainOf(prior, store)
  /\ up = "starting" /\ at # "init" => store = Num(cache[HeadFile])
  /\ at = "persist" => Lands(Len(todo) + 1, HeadFile, Cid(commit))
  /\ at = "promote" /\ commit # 0 => Ver(HeadFile) = {Cid(commit)}

\* An event of the commit in hand, or of the head that is completing its quartet.
Fresh(e) ==
  /\ up = "serving" => e[2] >= 5
  /\ e[4] = 0 \/ e[4] = (IF up = "serving" THEN commit ELSE store)

StagedOK ==
  /\ \A v \in Coming(Staged) : v # Nothing => at = "stage"
  /\ at = "stage" => \E e \in Entered :
       Fresh(e) /\ Coming(Staged) \subseteq {e} /\ Lands(Len(todo) + 1, Staged, e)
  /\ at = "persist" => \E e \in Entered :
       Fresh(e) /\ Coming(Staged) = {} /\ Ver(Staged) = {e}
  /\ at \in {"recover", "promote"} => cache[Staged] = Nothing \/ Nothing \in Coming(Staged)
  /\ up = "serving" => Num(cache[LastFile]) >= 4
  /\ \A v \in Coming(LastFile) :
       at \in {"recover", "promote"} /\ (up = "serving" => v[2] >= 4)
  /\ \A f \in Logged : Coming(f) \subseteq {Nothing} \/ at \in {"recover", "promote"}

\* The blocks of a commit and of all below it, and the directories they are in.
Good(f) == IF f \in Folders THEN Folder ELSE Bytes
Needed(c) ==
  {f \in File : \/ f = BlocksDir
               \/ \E b \in ChainOf(prior, c), i \in 1..BlocksPerCommit :
                    f = Block(b, i) \/ f = Home(Block(b, i))}
Safe(c) == \A f \in Needed(c) : Ver(f) = {Good(f)}

WholeOK ==
  /\ \A v \in Ver(HeadFile) : v # Nothing => Safe(v[2])
  /\ InMemory /\ store # 0 => Safe(store)
  /\ \A k \in 1..Len(todo) : todo[k].op = "put" /\ todo[k].file = HeadFile =>
       \A f \in Needed(todo[k].content[2]) : Lands(k, f, Good(f))

FlushedOK ==
  /\ Tidy(todo)
  /\ \A f \in Kept : Ver(f) = {cache[f]} \/ Has(todo, Sync(Home(f)))
  /\ up = "down" => \A f \in File : Ver(f) = {cache[f]}
  /\ at = "init" => Ver(Staged) = {cache[Staged]} /\ Coming(Staged) = {}

\* The pointer's file stands before the pending copy goes.
OrderOK ==
  /\ \A v \in Ver(Staged) \cup Coming(Staged) :
       Nothing \in Ver(LastFile) /\ v # Nothing => v[2] = 1
  /\ Nothing \in Ver(LastFile) /\ (\E f \in Logged : Ver(f) # {Nothing}) =>
       Nothing \notin Ver(Staged)
  /\ \A f \in Logged : \A v \in Coming(f) : v # Nothing => Ver(Staged) = {v}
  /\ \A k \in 1..Len(todo) : todo[k] = Unlink(Staged) =>
       /\ \A m \in 1..Len(todo) : k < m => todo[m] \in Sweeps
       /\ \/ Nothing \notin Ver(LastFile)
          \/ \E s \in 1..MaxSeq : Coming(LastFile) \subseteq {Pointer(s)}
                                  /\ Lands(k, LastFile, Pointer(s))

\* An event in the log, or one that a subscriber was or is about to be sent.
Heard(e) == \E r \in Relay : e \in relay[r].got \/ Has(relay[r].batch, e)
Seen == {e \in Entered : Heard(e) \/ \E f \in Logged : e \in Ver(f)}

RelayOK ==
  relay \in [Relay -> [on : BOOLEAN, batch : Seq(Entered), cursor : Nat,
                      floor : Nat, got : SUBSET Entered]]

\* The pointer file counts every event that was seen.
Numbered == \A a \in Seen, v \in Ver(LastFile) : a[2] <= Num(v)

\* The event is in the log and no start will drop its pending copy.
Pending(a, v) ==
  /\ Ver(Staged) = {a} /\ a[2] = Num(v) + 1
  /\ a[4] = 0 \/ Ver(HeadFile) = {Cid(a[4])}

\* What the disk says of the numbers, whatever is left to do.
LogOK ==
  /\ \A a, b \in Seen : a[2] = b[2] => a = b
  /\ \A a \in Seen, v \in Ver(LastFile) : a[2] <= Num(v) \/ Pending(a, v)
  /\ \A w \in Ver(Staged), v \in Ver(LastFile) :
       w # Nothing => w[2] \in {Num(v), Num(v) + 1}
  /\ \A w \in Ver(Staged), a \in Seen : w # Nothing /\ w[2] = a[2] => w = a
  /\ Seen # {} => Ver(Events) = {Folder}
  /\ Nothing \in Ver(HeadFile) => Seen = {}

\* An event that is owed to the head that is going to be there.
Anchored(e) == e[4] = 0 \/ Ver(HeadFile) = {Cid(e[4])}

\* The last number that is safely counted before the pending copy goes.
Counts(k, n) ==
  /\ Coming(LastFile) \subseteq {Pointer(n)} /\ Lands(k, LastFile, Pointer(n))
  /\ \A w \in Ver(Staged) : w # Nothing /\ w[2] = n

\* What the call in progress is going to do to the numbers.
TurnOK ==
  /\ Coming(HeadFile) # {} \/ at \in {"stage", "persist"}
       \/ (up = "serving" /\ at = "idle") => Numbered
  /\ \A v \in Coming(Staged), u \in Ver(LastFile) : v # Nothing => v[2] = Num(u) + 1
  /\ \A f \in Logged : \A v \in Coming(f) : v # Nothing => Anchored(v)
  /\ \A v \in Coming(LastFile), w \in Ver(Staged) : w # Nothing /\ w[2] = v[2]
  /\ \A k \in 1..Len(todo) : todo[k] = Unlink(Staged) =>
       \/ Numbered /\ Coming(LastFile) = {}
          /\ \A f \in Logged : Coming(f) \subseteq {Nothing}
       \/ \E n \in 1..MaxSeq : Counts(k, n)
  /\ \A k \in 1..Len(todo), f \in Logged, v \in Entered :
       todo[k] = Put(f, v) => Lands(k, Events, Folder)
  /\ InMemory => Nothing \notin Ver(HeadFile)
  /\ at = "init" => cache[HeadFile] # Nothing \/ Coming(HeadFile) # {}
  /\ at # "discard"

NumbersOK == RelayOK /\ LogOK /\ TurnOK

-----------------------------------------------------------------------------
(* One operation and the calls' scripts, against the invariant *)

LEMMA ContentsAre ==
  ASSUME NEW s \in Seq(Step), NEW f, NEW v
  PROVE  v \in Contents(s, f) <=> Has(s, Put(f, v))
<1>1. \A i \in 1..Len(s) : s[i] \in Step
  BY ElementOfSeq
<1>2. \A i \in 1..Len(s) : s[i].op = "put" /\ s[i].file = f /\ s[i].content = v <=> s[i] = Put(f, v)
  <2> TAKE i \in 1..Len(s)
  <2>1. PICK x \in Step : x = s[i]
    BY <1>1
  <2>2. x.op = "put" => x = Put(x.file, x.content)
    BY StepFacts
  <2>3. Put(f, v).op = "put" /\ Put(f, v).file = f /\ Put(f, v).content = v
    BY StepFacts
  <2> QED BY <2>1, <2>2, <2>3
<1> QED BY <1>2 DEF Contents, Has

LEMMA ContentsMove ==
  ASSUME NEW s \in Seq(Step), s # << >>, NEW f
  PROVE  /\ Contents(Tail(s), f) \subseteq Contents(s, f)
         /\ \A v \in Contents(s, f) : Head(s) = Put(f, v) \/ v \in Contents(Tail(s), f)
         /\ \A v : Head(s) = Put(f, v) => v \in Contents(s, f)
<1>1. Tail(s) \in Seq(Step)
  OBVIOUS
<1>2. \A v : (v \in Contents(s, f) <=> Has(s, Put(f, v)))
             /\ (v \in Contents(Tail(s), f) <=> Has(Tail(s), Put(f, v)))
  BY <1>1, ContentsAre
<1>3. \A v : /\ Has(Tail(s), Put(f, v)) => Has(s, Put(f, v))
             /\ Has(s, Put(f, v)) => Put(f, v) = Head(s) \/ Has(Tail(s), Put(f, v))
             /\ Has(s, Head(s))
  BY TailHas
<1> QED BY <1>2, <1>3

LEMMA ContentsNone == ASSUME NEW f PROVE Contents(<< >>, f) = {}
BY DEF Contents

LEMMA ContentsOf ==
  ASSUME NEW s, NEW X, Script(s, X), NEW f
  PROVE  \A v \in Contents(s, f) : Put(f, v) \in X
BY ContentsAre DEF Script

\* The first operation of todo has been done.
Moved(x) ==
  /\ x \in Step /\ todo \in Seq(Step) /\ todo # << >> /\ x = Head(todo)
  /\ todo' = Tail(todo) /\ Effects(x)
  /\ Len(todo) \in Nat /\ Len(todo') = Len(todo) - 1 /\ todo[1] = x /\ 1 \in 1..Len(todo)
  /\ \A k \in 1..Len(todo') : k + 1 \in 1..Len(todo) /\ todo'[k] = todo[k + 1]
  /\ \A k \in 1..Len(todo) : k # 1 => k - 1 \in 1..Len(todo') /\ todo'[k - 1] = todo[k]

LEMMA WorkMoves ==
  ASSUME DiskOK, Work
  PROVE  DiskOK' /\ \E x \in Step : Moved(x)
<1>1. todo \in Seq(Step) /\ todo # << >> /\ todo' = Tail(todo) /\ Apply(Head(todo))
  BY DEF DiskOK, Work
<1>2. /\ Head(todo) \in Step /\ todo' \in Seq(Step) /\ Len(todo) \in Nat /\ Len(todo) >= 1
      /\ Len(todo') = Len(todo) - 1 /\ todo[1] = Head(todo)
      /\ \A k \in 1..Len(todo') : todo'[k] = todo[k + 1]
  BY <1>1
<1>3. \A k \in 1..Len(todo) : k # 1 => k - 1 \in 1..Len(todo') /\ (k - 1) + 1 = k
  BY <1>2
<1>4. 1 \in 1..Len(todo) /\ \A k \in 1..Len(todo') : k + 1 \in 1..Len(todo)
  BY <1>2
<1>5. PICK x \in Step : x = Head(todo)
  BY <1>2
<1>6. /\ Effects(x)
      /\ cache' \in [File -> Content] /\ media' \in [File -> SUBSET Content]
      /\ \A f \in File : cache'[f] \in media'[f] /\ media'[f] \subseteq Holds(f)
  BY <1>1, <1>5, Applied
<1>7. DiskOK'
  BY <1>2, <1>6 DEF DiskOK, Holds, Puttable, Step
<1>8. \A k \in 1..Len(todo) : k # 1 => todo'[k - 1] = todo[k]
  BY <1>2, <1>3
<1>9. Moved(x)
  BY <1>1, <1>2, <1>3, <1>4, <1>5, <1>6, <1>8 DEF Moved
<1> QED BY <1>7, <1>9

LEMMA MovedComing ==
  ASSUME NEW x, Moved(x), NEW f
  PROVE  /\ Coming(f)' \subseteq Coming(f)
         /\ \A v \in Coming(f) : x = Put(f, v) \/ v \in Coming(f)'
         /\ \A v : x = Put(f, v) => v \in Coming(f)
BY ContentsMove DEF Moved, Coming

\* An operation that puts something new on a file puts what was to come.
LEMMA MovedVer ==
  ASSUME DiskOK, NEW x, Moved(x), NEW f \in File
  PROVE  /\ \A v \in Ver(f)' : v \in Ver(f) \/ (x = Put(f, v) /\ v \in Coming(f))
         /\ cache'[f] = cache[f] \/ (x = Put(f, cache'[f]) /\ cache'[f] \in Coming(f))
         /\ cache[f] \in Ver(f) /\ cache'[f] \in Ver(f)'
         /\ \A v : x = Put(f, v) => cache'[f] = v
<1>1. x \in Step /\ Effects(x)
  BY DEF Moved
<1>2. \A v : x.op = "put" /\ x.file = f /\ v = x.content => x = Put(f, v)
  BY <1>1, StepFacts
<1>3. \A v : x = Put(f, v) => x.op = "put" /\ x.file = f /\ x.content = v
  BY StepFacts
<1>4. \A v : x = Put(f, v) => v \in Coming(f)
  BY MovedComing
<1>5. cache[f] \in Ver(f)
  BY DEF DiskOK, Ver
<1> QED BY <1>1, <1>2, <1>3, <1>4, <1>5 DEF Effects

LEMMA LandsMove ==
  ASSUME DiskOK, NEW x, Moved(x), NEW f \in File, NEW v, NEW k \in Int,
         Coming(f) \subseteq {v}, Lands(k, f, v)
  PROVE  Lands(k - 1, f, v)'
<1>0. Home(f) \in File
  BY HomeType
<1>1. CASE Ver(f) = {v}
  <2>1. \A w \in Ver(f)' : w = v
    BY <1>1, MovedVer
  <2>2. Ver(f)' # {}
    BY MovedVer
  <2>3. Ver(f)' = {v}
    BY <2>1, <2>2
  <2> QED BY <2>3 DEF Lands
<1>2. CASE Ver(f) # {v}
  <2>1. PICK j \in 1..Len(todo) :
          /\ j < k /\ todo[j] = Sync(Home(f))
          /\ cache[f] = v \/ \E i \in 1..Len(todo) : i < j /\ todo[i] = Put(f, v)
    BY <1>2 DEF Lands
  <2>2. CASE j = 1
    <3>1. x = Sync(Home(f)) /\ Len(todo) \in Nat
      BY <2>1, <2>2 DEF Moved
    <3>2. cache[f] = v
      BY <2>1, <2>2, <3>1
    <3>3. Ver(f)' = {v}
      BY <3>1, <3>2 DEF Moved, Effects
    <3> QED BY <3>3 DEF Lands
  <2>3. CASE j # 1
    <3>1. j - 1 \in 1..Len(todo') /\ todo'[j - 1] = Sync(Home(f)) /\ j - 1 < k - 1
      BY <2>1, <2>3 DEF Moved
    <3>2. CASE cache[f] = v
      <4>1. cache'[f] = v
        BY <3>2, MovedVer
      <4> QED BY <3>1, <4>1 DEF Lands
    <3>3. CASE cache[f] # v
      <4>1. PICK i \in 1..Len(todo) : i < j /\ todo[i] = Put(f, v)
        BY <2>1, <3>3
      <4>2. CASE i = 1
        <5>1. x = Put(f, v)
          BY <4>1, <4>2 DEF Moved
        <5>2. cache'[f] = v
          BY <5>1, MovedVer
        <5> QED BY <3>1, <5>2 DEF Lands
      <4>3. CASE i # 1
        <5>1. i - 1 \in 1..Len(todo') /\ todo'[i - 1] = Put(f, v) /\ i - 1 < j - 1
          BY <4>1, <4>3, <2>1 DEF Moved
        <5> QED BY <3>1, <5>1 DEF Lands
      <4> QED BY <4>2, <4>3
    <3> QED BY <3>2, <3>3
  <2> QED BY <2>2, <2>3
<1> QED BY <1>1, <1>2

Base == DiskOK /\ CallsOK /\ HeadsOK /\ StagedOK

LEMMA NumFacts ==
  /\ Num(Nothing) = 0
  /\ \A c \in Commits : Cid(c) # Nothing /\ Num(Cid(c)) = c /\ Cid(c)[2] = c /\ c \in Nat
  /\ \A c, d : Cid(c) = Cid(d) => c = d
  /\ \A s \in 1..MaxSeq : Pointer(s) # Nothing /\ Num(Pointer(s)) = s /\ Pointer(s)[2] = s
  /\ \A e \in Entered : e # Nothing /\ Num(e) = e[2]
  /\ \A s, t : Pointer(s) = Pointer(t) => s = t
BY EventNames DEF Num, Nothing, Cid, Pointer, Commits

\* The contents of the three files the proofs are about.
LEMMA Shown ==
  ASSUME DiskOK
  PROVE  /\ \A v \in Ver(HeadFile) : v = Nothing \/ \E c \in Commits : v = Cid(c)
         /\ \A v \in Coming(HeadFile) : \E c \in Commits : v = Cid(c)
         /\ \A v \in Ver(Staged) \cup Coming(Staged) : v = Nothing \/ v \in Entered
         /\ \A v \in Ver(LastFile) : v = Nothing \/ \E s \in 1..MaxSeq : v = Pointer(s)
         /\ \A v \in Coming(LastFile) : \E s \in 1..MaxSeq : v = Pointer(s)
         /\ \A f \in Logged : \A v \in Ver(f) \cup Coming(f) :
              v = Nothing \/ (v \in Entered /\ Entry(v) = f)
         /\ \A f \in File : cache[f] \in Ver(f)
<1>1. \A f \in File : \A v \in Ver(f) : v \in Holds(f)
  BY DEF DiskOK, Ver
<1>2. \A f \in File : \A v \in Coming(f) : v \in Puttable(f)
  <2> SUFFICES ASSUME NEW f \in File, NEW v \in Coming(f) PROVE v \in Puttable(f)
    OBVIOUS
  <2>1. todo \in Seq(Step)
    BY DEF DiskOK
  <2>2. Has(todo, Put(f, v))
    BY <2>1, ContentsAre DEF Coming
  <2>3. Put(f, v) \in Step
    BY <2>1, <2>2, ElementOfSeq DEF Has
  <2> QED BY <2>3, StepFacts
<1>3. Logged \subseteq File /\ {HeadFile, Staged, LastFile} \subseteq File
  BY FilesDiffer, FileNames
<1>4. \A f \in File : cache[f] \in Ver(f)
  BY DEF DiskOK, Ver
<1>5. /\ \A v \in Ver(HeadFile) : v \in {Nothing} \cup {Cid(c) : c \in Commits}
      /\ \A v \in Coming(HeadFile) : v \in {Cid(c) : c \in Commits}
  BY <1>1, <1>2, <1>3, PutsAre
<1>6. \A v \in Ver(Staged) \cup Coming(Staged) : v \in {Nothing} \cup Entered
  BY <1>1, <1>2, <1>3, PutsAre
<1>7. /\ \A v \in Ver(LastFile) : v \in {Nothing} \cup {Pointer(s) : s \in 1..MaxSeq}
      /\ \A v \in Coming(LastFile) : v \in {Pointer(s) : s \in 1..MaxSeq}
  BY <1>1, <1>2, <1>3, PutsAre
<1>8. \A f \in Logged : \A v \in Ver(f) \cup Coming(f) : v \in {Nothing} \cup {e \in Entered : Entry(e) = f}
  <2> TAKE f \in Logged
  <2>1. f \in File /\ Holds(f) = Puttable(f) /\ Puttable(f) = {Nothing} \cup {e \in Entered : Entry(e) = f}
    BY <1>3, PutsAre
  <2> QED BY <1>1, <1>2, <2>1
<1>9. /\ \A v \in Ver(HeadFile) : v = Nothing \/ \E c \in Commits : v = Cid(c)
      /\ \A v \in Coming(HeadFile) : \E c \in Commits : v = Cid(c)
  BY <1>5
<1>10. \A v \in Ver(Staged) \cup Coming(Staged) : v = Nothing \/ v \in Entered
  BY <1>6
<1>11. /\ \A v \in Ver(LastFile) : v = Nothing \/ \E s \in 1..MaxSeq : v = Pointer(s)
       /\ \A v \in Coming(LastFile) : \E s \in 1..MaxSeq : v = Pointer(s)
  BY <1>7
<1>12. \A f \in Logged : \A v \in Ver(f) \cup Coming(f) : v = Nothing \/ (v \in Entered /\ Entry(v) = f)
  <2> TAKE f \in Logged
  <2>1. \A v \in Ver(f) \cup Coming(f) : v \in {Nothing} \cup {e \in Entered : Entry(e) = f}
    BY <1>8
  <2>2. \A v \in {Nothing} \cup {e \in Entered : Entry(e) = f} : v = Nothing \/ (v \in Entered /\ Entry(v) = f)
    OBVIOUS
  <2> QED BY <2>1, <2>2
<1> QED BY <1>4, <1>9, <1>10, <1>11, <1>12

LEMMA WorkKeepsBase ==
  ASSUME Base, Work
  PROVE  Base'
<1>0. DiskOK /\ CallsOK /\ HeadsOK /\ StagedOK
  BY DEF Base
<1>1. PICK x : Moved(x)
  BY <1>0, WorkMoves
<1>2. UNCHANGED <<prior, up, at, commit, store, clock, relay, acked, faults>>
  BY DEF Work
<1>3. DiskOK'
  BY <1>0, WorkMoves
<1>4. CallsOK'
  <2>1. at # "idle"
    BY <1>0 DEF CallsOK, Work
  <2> QED BY <1>0, <1>2, <2>1 DEF CallsOK
<1>5. {HeadFile, Staged, LastFile} \subseteq File /\ Logged \subseteq File
  BY FileNames, FilesDiffer
<1>6. \A f \in File : /\ Coming(f)' \subseteq Coming(f)
                      /\ \A v \in Ver(f)' : v \in Ver(f) \/ v \in Coming(f)
                      /\ cache'[f] = cache[f] \/ (x = Put(f, cache'[f]) /\ cache'[f] \in Coming(f))
                      /\ cache'[f] \in Ver(f)'
  BY <1>0, <1>1, MovedComing, MovedVer
<1>7. PICK n \in Int : n = Len(todo) + 1 /\ n - 1 = Len(todo') + 1
  BY <1>1 DEF Moved
<1>8. HeadsOK'
  <2>1. \A v \in Ver(HeadFile)' : Num(v) <= Len(prior) /\ acked \subseteq ChainOf(prior, Num(v))
    <3> TAKE v \in Ver(HeadFile)'
    <3>1. CASE v \in Ver(HeadFile)
      BY <1>0, <3>1 DEF HeadsOK
    <3>2. CASE v \in Coming(HeadFile)
      <4>1. v[2] <= Len(prior) /\ acked \subseteq ChainOf(prior, v[2])
        BY <1>0, <3>2 DEF HeadsOK
      <4>2. Num(v) = v[2]
        BY <1>0, <3>2, Shown, NumFacts
      <4> QED BY <4>1, <4>2
    <3> QED BY <1>5, <1>6, <3>1, <3>2
  <2>2. \A v \in Coming(HeadFile)' :
       /\ at \in {"init", "persist"} /\ (at = "persist" => v = Cid(commit))
       /\ v[2] <= Len(prior) /\ acked \subseteq ChainOf(prior, v[2])
    BY <1>0, <1>5, <1>6 DEF HeadsOK
  <2>3. InMemory => acked \subseteq ChainOf(prior, store)
    BY <1>0 DEF HeadsOK
  <2>4. up = "starting" /\ at # "init" => store = Num(cache'[HeadFile])
    <3>1. up = "starting" => at # "persist"
      BY <1>0 DEF CallsOK
    <3> QED BY <1>0, <1>5, <1>6, <3>1 DEF HeadsOK
  <2>5. ASSUME at = "persist" PROVE Lands(Len(todo) + 1, HeadFile, Cid(commit))'
    <3>1. PICK v : v = Cid(commit)
      OBVIOUS
    <3>2. Lands(n, HeadFile, v) /\ Coming(HeadFile) \subseteq {v}
      BY <1>0, <1>7, <2>5, <3>1 DEF HeadsOK
    <3>3. Lands(n - 1, HeadFile, v)'
      BY <1>0, <1>1, <1>5, <3>2, LandsMove
    <3> QED BY <1>2, <1>7, <3>1, <3>3
  <2>6. ASSUME at = "promote", commit # 0 PROVE Ver(HeadFile)' = {Cid(commit)}
    <3>1. Coming(HeadFile) = {} /\ Ver(HeadFile) = {Cid(commit)}
      BY <1>0, <2>6 DEF HeadsOK
    <3> QED BY <1>5, <1>6, <3>1
  <2> QED BY <1>2, <2>1, <2>2, <2>3, <2>4, <2>5, <2>6 DEF HeadsOK, InMemory
<1>9. StagedOK'
  <2>1. \A v \in Coming(Staged)' : v # Nothing => at = "stage"
    BY <1>0, <1>5, <1>6 DEF StagedOK
  <2>2. ASSUME at = "stage"
        PROVE  \E e \in Entered :
                 Fresh(e) /\ Coming(Staged)' \subseteq {e} /\ Lands(Len(todo) + 1, Staged, e)'
    <3>1. PICK e \in Entered :
            Fresh(e) /\ Coming(Staged) \subseteq {e} /\ Lands(n, Staged, e)
      BY <1>0, <1>7, <2>2 DEF StagedOK
    <3>2. Lands(n - 1, Staged, e)'
      BY <1>0, <1>1, <1>5, <3>1, LandsMove
    <3> QED BY <1>5, <1>6, <1>7, <3>1, <3>2
  <2>3. ASSUME at = "persist"
        PROVE  \E e \in Entered : Fresh(e) /\ Coming(Staged)' = {} /\ Ver(Staged)' = {e}
    <3>1. PICK e \in Entered : Fresh(e) /\ Coming(Staged) = {} /\ Ver(Staged) = {e}
      BY <1>0, <2>3 DEF StagedOK
    <3> QED BY <1>5, <1>6, <3>1
  <2>4. ASSUME at \in {"recover", "promote"}
        PROVE  cache'[Staged] = Nothing \/ Nothing \in Coming(Staged)'
    <3>1. \A v \in Coming(Staged) : v = Nothing
      BY <1>0, <2>4 DEF StagedOK
    <3>2. cache[Staged] = Nothing \/ Nothing \in Coming(Staged)
      BY <1>0, <2>4 DEF StagedOK
    <3>3. Nothing \in Coming(Staged) => x = Put(Staged, Nothing) \/ Nothing \in Coming(Staged)'
      BY <1>1, MovedComing
    <3>4. x = Put(Staged, Nothing) => cache'[Staged] = Nothing
      BY <1>0, <1>1, <1>5, MovedVer
    <3> QED BY <1>5, <1>6, <3>1, <3>2, <3>3, <3>4
  <2>5. ASSUME up = "serving" PROVE Num(cache'[LastFile]) >= 4
    <3>1. CASE cache'[LastFile] = cache[LastFile]
      BY <1>0, <2>5, <3>1 DEF StagedOK
    <3>2. CASE cache'[LastFile] \in Coming(LastFile)
      <4>1. PICK v : v = cache'[LastFile] /\ v \in Coming(LastFile)
        BY <3>2
      <4>2. v[2] >= 4
        BY <1>0, <2>5, <4>1 DEF StagedOK
      <4>3. Num(v) = v[2]
        BY <1>0, <4>1, Shown, NumFacts
      <4> QED BY <4>1, <4>2, <4>3
    <3> QED BY <1>5, <1>6, <3>1, <3>2
  <2>6. /\ \A v \in Coming(LastFile)' :
             at \in {"recover", "promote"} /\ (up = "serving" => v[2] >= 4)
        /\ \A f \in Logged : Coming(f)' \subseteq {Nothing} \/ at \in {"recover", "promote"}
    BY <1>0, <1>5, <1>6 DEF StagedOK
  <2> QED BY <1>2, <2>1, <2>2, <2>3, <2>4, <2>5, <2>6 DEF StagedOK, Fresh
<1> QED BY <1>3, <1>4, <1>8, <1>9 DEF Base

-----------------------------------------------------------------------------
(* A call begins: the disk is as it was, and todo is the call's script *)

Begins(s) == UNCHANGED <<cache, media>> /\ todo' = s /\ s \in Seq(Step)

LEMMA BeginsFacts ==
  ASSUME DiskOK, NEW s, Begins(s)
  PROVE  /\ DiskOK'
         /\ \A f : Ver(f)' = Ver(f) /\ Coming(f)' = Contents(s, f) /\ cache'[f] = cache[f]
BY DEF Begins, DiskOK, Ver, Coming, Holds, Puttable, Step

LEMMA BeginsLands ==
  ASSUME NEW s, Begins(s), NEW f, NEW v, NEW k \in Int
  PROVE  /\ Behind(s, k, Put(f, v), Sync(Home(f))) => Lands(k, f, v)'
         /\ Before(s, Put(f, v), Sync(Home(f))) => Lands(Len(s) + 1, f, v)'
         /\ Ver(f) = {v} => Lands(k, f, v)'
<1>1. Behind(s, k, Put(f, v), Sync(Home(f))) => Lands(k, f, v)'
  BY DEF Behind, Lands, Begins
<1>2. Before(s, Put(f, v), Sync(Home(f))) => Lands(Len(s) + 1, f, v)'
  <2>1. Len(s) \in Nat /\ \A j \in 1..Len(s) : j < Len(s) + 1
    BY LenProperties DEF Begins
  <2> QED BY <2>1 DEF Before, Lands, Begins
<1>3. Ver(f) = {v} => Lands(k, f, v)'
  BY DEF Lands, Begins, Ver
<1> QED BY <1>1, <1>2, <1>3

LEMMA LandsDone ==
  ASSUME todo = << >>, NEW f, NEW v, Lands(Len(todo) + 1, f, v)
  PROVE  Ver(f) = {v}
BY DEF Lands

LEMMA PersistComing ==
  ASSUME NEW c \in Commits, NEW p, p = PersistSave(c)
  PROVE  /\ p \in Seq(Step)
         /\ Contents(p, HeadFile) \subseteq {Cid(c)} /\ Contents(p, Staged) = {}
         /\ Contents(p, LastFile) = {} /\ \A f \in Logged : Contents(p, f) = {}
<1>1. Script(p, PersistSteps(c))
  BY PersistSaveDoes
<1>2. \A f : \A v \in Contents(p, f) : Put(f, v) \in PersistSteps(c)
  BY <1>1, ContentsOf
<1>3. \A f, v : Put(f, v) \in PersistSteps(c) =>
        \/ f \in Folders
        \/ \E i \in 1..BlocksPerCommit : f = Block(c, i)
        \/ f = HeadFile /\ v = Cid(c)
  BY StepFacts DEF PersistSteps, Foldings, Flushes, Rowed
<1> QED BY <1>1, <1>2, <1>3, FilesDiffer DEF Script, Kept

LEMMA StageComing ==
  ASSUME NEW e \in Entered, NEW p, p = Stage(e)
  PROVE  /\ p \in Seq(Step)
         /\ Contents(p, Staged) \subseteq {e} /\ Contents(p, HeadFile) = {}
         /\ Contents(p, LastFile) = {} /\ \A f \in Logged : Contents(p, f) = {}
<1> DEFINE X == {Put(Staged, e)} \cup Foldings \cup Flushes
<1>1. Script(p, X)
  BY StageDoes
<1>3. \A f, v : Put(f, v) \in X => f \in Folders \/ (f = Staged /\ v = e)
  BY StepFacts DEF Foldings, Flushes
<1> HIDE DEF X
<1>2. \A f : \A v \in Contents(p, f) : Put(f, v) \in X
  BY <1>1, ContentsOf
<1> QED BY <1>1, <1>2, <1>3, FilesDiffer DEF Script

LEMMA PromoteComing ==
  ASSUME DiskOK, NEW e \in Entered, NEW p, p = Promote(e)
  PROVE  /\ p \in Seq(Step)
         /\ Contents(p, Staged) = {Nothing} /\ Contents(p, HeadFile) = {}
         /\ Contents(p, LastFile) \subseteq {Pointer(e[2])}
         /\ \A f \in Logged : \A v \in Contents(p, f) :
              v = Nothing \/ (v = e /\ f = Entry(e))
<1>1. Script(p, PromoteSteps(e)) /\ Has(p, Unlink(Staged))
  BY PromoteDoes
<1>2. \A f : \A v \in Contents(p, f) : Put(f, v) \in PromoteSteps(e)
  BY <1>1, ContentsOf
<1>3. \A f, v : Put(f, v) \in PromoteSteps(e) =>
        \/ f \in Folders
        \/ f = Entry(e) /\ v = e
        \/ f = LastFile /\ v = Pointer(e[2])
        \/ f = Staged /\ v = Nothing
        \/ f \in Logged /\ v = Nothing
  BY StepFacts DEF PromoteSteps, Foldings, Flushes, Sweeps, Unlink
<1>4. Entry(e) \in Logged
  BY EventNames
<1>5. p \in Seq(Step)
  BY <1>1 DEF Script
<1>6. Nothing \in Contents(p, Staged)
  BY <1>1, <1>5, ContentsAre DEF Unlink
<1>7. /\ \A v \in Contents(p, Staged) : v = Nothing
      /\ Contents(p, HeadFile) = {}
      /\ \A v \in Contents(p, LastFile) : v = Pointer(e[2])
      /\ \A f \in Logged : \A v \in Contents(p, f) : v = Nothing \/ (v = e /\ f = Entry(e))
  BY <1>2, <1>3, <1>4, FilesDiffer
<1> QED BY <1>5, <1>6, <1>7

LEMMA DiscardComing ==
  ASSUME NEW p, p = DiscardStaged
  PROVE  /\ p \in Seq(Step)
         /\ Contents(p, Staged) \subseteq {Nothing} /\ Contents(p, HeadFile) = {}
         /\ Contents(p, LastFile) = {} /\ \A f \in Logged : Contents(p, f) = {}
         /\ Exists(Staged) => Nothing \in Contents(p, Staged)
<1>1. Script(p, {Unlink(Staged)}) /\ (Exists(Staged) => Has(p, Unlink(Staged)))
  BY DiscardDoes
<1>2. \A f : \A v \in Contents(p, f) : Put(f, v) = Put(Staged, Nothing)
  BY <1>1, ContentsOf DEF Unlink
<1>3. \A f : \A v \in Contents(p, f) : f = Staged /\ v = Nothing
  BY <1>2, StepFacts
<1>4. p \in Seq(Step)
  BY <1>1 DEF Script
<1> QED BY <1>1, <1>3, <1>4, FilesDiffer, ContentsAre DEF Unlink

LEMMA DiskHeadIs == DiskHead = Num(cache[HeadFile]) /\ LastSeq = Num(cache[LastFile])
BY DEF DiskHead, LastSeq, Exists, Num

\* The head in place, whatever version of it is.
LEMMA HeadNumbers ==
  ASSUME Base
  PROVE  /\ \A v \in Ver(HeadFile) : Num(v) \in 0..Len(prior)
         /\ Falls(prior) /\ Len(prior) \in Nat /\ 0..Len(prior) \subseteq {0} \cup Commits
         /\ store \in 0..Len(prior) /\ commit \in 0..Len(prior)
         /\ \A c \in 1..Len(prior) : c \in Commits /\ Cid(c) \in Content
<1>1. DiskOK /\ CallsOK /\ HeadsOK
  BY DEF Base
<1>2. Falls(prior) /\ Len(prior) \in Nat /\ store \in 0..Len(prior) /\ commit \in 0..Len(prior)
  BY <1>1, LenProperties DEF CallsOK, Falls
<1>3. MaxCommits \in Nat /\ MaxFaults \in Nat
  BY BoundsAreNumbers
<1>4. Len(prior) <= MaxCommits + MaxFaults
  <2>1. /\ Len(prior) + (IF up = "down" THEN 1 ELSE 0) <= MaxCommits + faults
        /\ faults \in 0..MaxFaults
    BY <1>1 DEF CallsOK
  <2> QED BY <2>1, <1>2, <1>3
<1>5. 1..Len(prior) \subseteq Commits
  BY <1>2, <1>3, <1>4 DEF Commits
<1>6. \A v \in Ver(HeadFile) : Num(v) \in 0..Len(prior)
  <2> TAKE v \in Ver(HeadFile)
  <2>1. Num(v) <= Len(prior) /\ Num(v) \in Nat
    <3>1. CASE v = Nothing
      BY <3>1, <1>2, NumFacts
    <3>2. CASE v # Nothing
      BY <3>2, <1>1, Shown, NumFacts DEF HeadsOK
    <3> QED BY <3>1, <3>2
  <2> QED BY <2>1, <1>2
<1> QED BY <1>2, <1>5, <1>6 DEF Content

-----------------------------------------------------------------------------
(* Each step keeps the base of the invariant *)

LEMMA InitBase == ASSUME Init PROVE Base
<1>1. /\ cache = [f \in File |-> IF f = Root THEN Folder ELSE Nothing]
      /\ media = [f \in File |-> {cache[f]}]
      /\ prior = <<>> /\ up = "down" /\ at = "idle" /\ todo = <<>> /\ commit = 0
      /\ store = 0 /\ clock = 0 /\ acked = {} /\ faults = 0
  BY DEF Init
<1>2. Folder \in Content /\ Nothing \in Content /\ << >> \in Seq(Step) /\ << >> \in Seq(Nat)
  BY DEF Content
<1>3. \A f \in File : /\ cache[f] \in Content /\ media[f] = {cache[f]}
                      /\ cache[f] \in Holds(f) /\ (f # Root => cache[f] = Nothing)
  BY <1>1, <1>2, PutsAre DEF Holds
<1>4. DiskOK
  BY <1>1, <1>2, <1>3 DEF DiskOK
<1>5. Ver(HeadFile) = {Nothing}
  BY <1>1, <1>3, FileNames, FilesDiffer DEF Ver
<1>6. \A f : Coming(f) = {}
  BY <1>1, ContentsNone DEF Coming
<1>7. Len(prior) = 0 /\ MaxCommits \in Nat /\ MaxCommits >= 1 /\ MaxFaults \in Nat /\ MaxTime \in Nat
  BY <1>1, BoundsAreNumbers
<1>8. CallsOK
  BY <1>1, <1>2, <1>7 DEF CallsOK, Falls
<1>9. HeadsOK
  BY <1>1, <1>5, <1>6, <1>7, NumFacts DEF HeadsOK, InMemory
<1>10. StagedOK
  BY <1>1, <1>6 DEF StagedOK
<1> QED BY <1>4, <1>8, <1>9, <1>10 DEF Base

LEMMA StartNewBase == ASSUME Base, StartNew PROVE Base'
<1>0. DiskOK /\ CallsOK /\ HeadsOK /\ StagedOK
  BY DEF Base
<1>1. /\ up = "down" /\ cache[HeadFile] = Nothing /\ up' = "starting" /\ at' = "init"
      /\ prior' = Append(prior, 0) /\ todo' = PersistSave(Len(prior) + 1)
      /\ UNCHANGED <<cache, media, commit, store, clock, acked, faults>>
  BY DEF StartNew, Call, Exists
<1>2. Falls(prior) /\ Len(prior) \in Nat
  BY HeadNumbers
<1>3. PICK q : q = prior'
  OBVIOUS
<1>4. 0 \in 0..Len(prior)
  BY <1>2
<1>5. /\ Falls(q) /\ Len(q) = Len(prior) + 1 /\ q[Len(prior) + 1] = 0
      /\ \A c \in 0..Len(prior) : ChainOf(q, c) = ChainOf(prior, c)
  BY <1>1, <1>2, <1>3, <1>4, ChainGrows
<1>6. PICK n : n = Len(prior) + 1
  OBVIOUS
<1>7. n \in Commits /\ n \in 1..Len(q) /\ n \in Nat /\ Len(q) <= MaxCommits + faults
  <2>1. Len(prior) + 1 <= MaxCommits + faults /\ faults \in 0..MaxFaults
    BY <1>0, <1>1 DEF CallsOK
  <2>2. MaxCommits \in Nat /\ MaxFaults \in Nat
    BY BoundsAreNumbers
  <2> QED BY <2>1, <2>2, <1>2, <1>5, <1>6 DEF Commits
<1>8. PICK p : p = PersistSave(n)
  OBVIOUS
<1>9. /\ p \in Seq(Step)
      /\ Contents(p, HeadFile) \subseteq {Cid(n)} /\ Contents(p, Staged) = {}
      /\ Contents(p, LastFile) = {} /\ \A f \in Logged : Contents(p, f) = {}
  BY <1>7, <1>8, PersistComing
<1>10. Begins(p)
  BY <1>1, <1>6, <1>8, <1>9 DEF Begins
<1>11. DiskOK' /\ \A f : Ver(f)' = Ver(f) /\ Coming(f)' = Contents(p, f)
  BY <1>0, <1>10, BeginsFacts
<1>12. CallsOK'
  BY <1>0, <1>1, <1>3, <1>5, <1>7 DEF CallsOK
<1>13. acked = {}
  <2>1. Nothing \in Ver(HeadFile)
    BY <1>0, <1>1, Shown, FileNames
  <2>2. acked \subseteq ChainOf(prior, 0)
    BY <1>0, <2>1, NumFacts DEF HeadsOK
  <2> QED BY <2>2, <1>2, ChainUnfolds
<1>14. HeadsOK'
  <2>1. \A v \in Ver(HeadFile) : Num(v) <= Len(q)
    BY <1>2, <1>5, HeadNumbers
  <2>2. Cid(n)[2] <= Len(q)
    BY <1>7, NumFacts
  <2> QED BY <2>1, <2>2, <1>1, <1>3, <1>9, <1>11, <1>13 DEF HeadsOK, InMemory
<1>15. StagedOK'
  BY <1>1, <1>9, <1>11 DEF StagedOK
<1> QED BY <1>11, <1>12, <1>14, <1>15 DEF Base

LEMMA StartAgainBase == ASSUME Base, StartAgain PROVE Base'
<1>0. DiskOK /\ CallsOK /\ HeadsOK /\ StagedOK
  BY DEF Base
<1>1. /\ up = "down" /\ up' = "starting" /\ at' = "init" /\ todo' = << >>
      /\ UNCHANGED <<cache, media, prior, commit, store, clock, acked, faults>>
  BY DEF StartAgain, Call
<1>2. Begins(<< >>)
  BY <1>1 DEF Begins
<1>3. DiskOK' /\ \A f : Ver(f)' = Ver(f) /\ Coming(f)' = {}
  BY <1>0, <1>2, BeginsFacts, ContentsNone
<1>4. CallsOK'
  BY <1>0, <1>1, HeadNumbers, BoundsAreNumbers DEF CallsOK
<1>5. HeadsOK'
  BY <1>0, <1>1, <1>3 DEF HeadsOK, InMemory
<1>6. StagedOK'
  BY <1>1, <1>3 DEF StagedOK
<1> QED BY <1>3, <1>4, <1>5, <1>6 DEF Base

LEMMA RefusedBase == ASSUME Base, StartRefused \/ RefuseLog PROVE Base'
<1>0. DiskOK /\ CallsOK /\ HeadsOK /\ StagedOK
  BY DEF Base
<1>1. /\ up' = "refused" /\ at' = "idle" /\ todo' = << >> /\ commit = 0
      /\ UNCHANGED <<cache, media, prior, commit, store, clock, acked, faults>>
  BY <1>0 DEF StartRefused, RefuseLog, Call, CallsOK
<1>2. Begins(<< >>)
  BY <1>1 DEF Begins
<1>3. DiskOK' /\ \A f : Ver(f)' = Ver(f) /\ Coming(f)' = {}
  BY <1>0, <1>2, BeginsFacts, ContentsNone
<1>4. CallsOK'
  BY <1>0, <1>1, HeadNumbers, BoundsAreNumbers DEF CallsOK
<1>5. HeadsOK'
  BY <1>0, <1>1, <1>3 DEF HeadsOK, InMemory
<1>6. StagedOK'
  BY <1>1, <1>3 DEF StagedOK
<1> QED BY <1>3, <1>4, <1>5, <1>6 DEF Base

LEMMA ServeBase == ASSUME Base, Serve PROVE Base'
<1>0. DiskOK /\ CallsOK /\ HeadsOK /\ StagedOK
  BY DEF Base
<1>1. /\ at = "recover" /\ todo = << >> /\ NextSequence > 4
      /\ up' = "serving" /\ at' = "idle" /\ todo' = << >>
      /\ UNCHANGED <<cache, media, prior, commit, store, clock, acked, faults>>
  BY DEF Serve, Call
<1>2. up = "starting" /\ commit = 0
  BY <1>0, <1>1 DEF CallsOK
<1>3. Begins(<< >>)
  BY <1>1 DEF Begins
<1>4. DiskOK' /\ \A f : Ver(f)' = Ver(f) /\ Coming(f)' = {}
  BY <1>0, <1>3, BeginsFacts, ContentsNone
<1>5. CallsOK'
  BY <1>0, <1>1, <1>2 DEF CallsOK
<1>6. HeadsOK'
  BY <1>0, <1>1, <1>2, <1>4 DEF HeadsOK, InMemory
<1>7. StagedOK'
  <2>1. Num(cache[LastFile]) >= 4
    <3>1. LastSeq \in Int
      <4>1. cache[LastFile] = Nothing \/ \E s \in 1..MaxSeq : cache[LastFile] = Pointer(s)
        BY <1>0, Shown, FileNames
      <4> QED BY <4>1, DiskHeadIs, NumFacts
    <3> QED BY <3>1, <1>1, DiskHeadIs DEF NextSequence
  <2> QED BY <2>1, <1>1, <1>4 DEF StagedOK
<1> QED BY <1>4, <1>5, <1>6, <1>7 DEF Base

LEMMA RecoverBase == ASSUME Base, Recover PROVE Base'
<1>0. DiskOK /\ CallsOK /\ HeadsOK /\ StagedOK
  BY DEF Base
<1>1. /\ at = "init" /\ todo = << >> /\ store' = Num(cache[HeadFile])
      /\ at' = "recover" /\ todo' = Recovery
      /\ UNCHANGED <<cache, media, prior, up, commit, clock, acked, faults>>
  BY DiskHeadIs DEF Recover, Call
<1>2. up = "starting" /\ commit = 0
  BY <1>0, <1>1 DEF CallsOK
<1>3. PICK s : s = Recovery
  OBVIOUS
<1>4. /\ s \in Seq(Step) /\ Contents(s, HeadFile) = {}
      /\ Contents(s, Staged) \subseteq {Nothing}
      /\ cache[Staged] = Nothing \/ Nothing \in Contents(s, Staged)
  <2>1. CASE ~Exists(Staged)
    <3>1. s = << >>
      BY <1>3, <2>1 DEF Recovery
    <3> QED BY <2>1, <3>1, ContentsNone DEF Exists
  <2>2. CASE Exists(Staged) /\ Owed(cache[Staged])
    <3>1. cache[Staged] \in Entered
      BY <1>0, <2>2, Shown, FileNames DEF Exists
    <3>2. PICK e \in Entered : e = cache[Staged]
      BY <3>1
    <3>3. s = Promote(e)
      BY <1>3, <2>2, <3>2 DEF Recovery
    <3> QED BY <1>0, <3>3, PromoteComing
  <2>3. CASE Exists(Staged) /\ ~Owed(cache[Staged])
    <3>1. s = DiscardStaged
      BY <1>3, <2>3 DEF Recovery
    <3> QED BY <2>3, <3>1, DiscardComing
  <2> QED BY <2>1, <2>2, <2>3
<1>5. Begins(s)
  BY <1>1, <1>3, <1>4 DEF Begins
<1>6. DiskOK' /\ \A f : Ver(f)' = Ver(f) /\ Coming(f)' = Contents(s, f) /\ cache'[f] = cache[f]
  BY <1>0, <1>5, BeginsFacts
<1>7. cache[HeadFile] \in Ver(HeadFile) /\ Num(cache[HeadFile]) \in 0..Len(prior)
  BY <1>0, Shown, FileNames, HeadNumbers
<1>8. CallsOK'
  BY <1>0, <1>1, <1>2, <1>7 DEF CallsOK
<1>9. HeadsOK'
  BY <1>0, <1>1, <1>2, <1>4, <1>6, <1>7 DEF HeadsOK, InMemory
<1>10. StagedOK'
  BY <1>0, <1>1, <1>2, <1>4, <1>6 DEF StagedOK
<1> QED BY <1>6, <1>8, <1>9, <1>10 DEF Base

LEMMA SeqNumbers ==
  ASSUME DiskOK
  PROVE  /\ LastSeq \in 0..MaxSeq /\ NextSequence = LastSeq + 1 /\ MaxSeq \in Nat
         /\ LastSeq = Num(cache[LastFile])
<1>1. cache[LastFile] = Nothing \/ \E s \in 1..MaxSeq : cache[LastFile] = Pointer(s)
  BY Shown, FileNames
<1>2. MaxSeq \in Nat
  BY BoundsAreNumbers
<1> QED BY <1>1, <1>2, DiskHeadIs, NumFacts DEF NextSequence

\* A request's event, and one of the quartet, may be entered.
LEMMA EventFits ==
  ASSUME Base, NEW kind \in Kinds, NEW anchor \in {0} \cup Commits,
         NextSequence \in 1..MaxSeq,
         IF NextSequence <= 4 THEN kind = Genesis[NextSequence] ELSE kind \in {"commit", "identity"},
         kind = "commit" \/ anchor = 0,
         NEW e, e = EventOf(kind, anchor)
  PROVE  e \in Entered /\ e[2] = NextSequence /\ e[4] = anchor
<1>1. clock \in 0..MaxTime
  BY DEF Base, CallsOK
<1>2. e = <<kind, NextSequence, clock, anchor>> /\ e \in Event
  BY <1>1 DEF EventOf, Event
<1>3. e[1] = kind /\ e[2] = NextSequence /\ e[4] = anchor
  BY <1>2
<1>4. Genesis[1] = "identity"
  BY DEF Genesis
<1>5. e[2] = 1 => e[4] = 0
  BY <1>3, <1>4
<1> QED BY <1>2, <1>3, <1>5 DEF Entered

LEMMA EmitGenesisBase ==
  ASSUME Base, EmitGenesis
  PROVE  Base' /\ \E e \in Entered : Begins(Stage(e)) /\ e[2] = NextSequence
<1>0. DiskOK /\ CallsOK /\ HeadsOK /\ StagedOK
  BY DEF Base
<1> DEFINE kind == Genesis[NextSequence]
           anchor == IF kind = "commit" THEN store ELSE 0
<1>1. /\ at = "recover" /\ todo = << >> /\ NextSequence \in 1..4
      /\ at' = "stage" /\ todo' = Stage(EventOf(kind, anchor))
      /\ UNCHANGED <<cache, media, prior, up, commit, store, clock, acked, faults>>
  BY DEF EmitGenesis, Call
<1>2. up = "starting" /\ commit = 0
  BY <1>0, <1>1 DEF CallsOK
<1>3. anchor \in {0} \cup Commits /\ (anchor = 0 \/ anchor = store) /\ kind \in Kinds
  <2>1. store \in {0} \cup Commits
    BY HeadNumbers
  <2>2. kind \in Kinds
    BY <1>1 DEF Kinds
  <2> HIDE DEF kind
  <2> QED BY <2>1, <2>2
<1>4. NextSequence \in 1..MaxSeq /\ NextSequence <= 4
  BY <1>1, BoundsAreNumbers
<1>5. kind = Genesis[NextSequence] /\ (kind = "commit" \/ anchor = 0)
  OBVIOUS
<1> HIDE DEF kind, anchor
<1>6. PICK e : e = EventOf(kind, anchor)
  OBVIOUS
<1>7. e \in Entered /\ e[2] = NextSequence /\ e[4] = anchor
  BY <1>3, <1>4, <1>5, <1>6, EventFits
<1>8. PICK p : p = Stage(e)
  OBVIOUS
<1>9. /\ p \in Seq(Step)
      /\ Contents(p, Staged) \subseteq {e} /\ Contents(p, HeadFile) = {}
      /\ Contents(p, LastFile) = {} /\ \A f \in Logged : Contents(p, f) = {}
      /\ Before(p, Put(Staged, e), Sync(Events))
  BY <1>7, <1>8, StageComing, StageDoes
<1>10. Begins(p)
  BY <1>1, <1>6, <1>8, <1>9 DEF Begins
<1>11. DiskOK' /\ \A f : Ver(f)' = Ver(f) /\ Coming(f)' = Contents(p, f) /\ cache'[f] = cache[f]
  BY <1>0, <1>10, BeginsFacts
<1>12. CallsOK'
  BY <1>0, <1>1, <1>2 DEF CallsOK
<1>13. HeadsOK'
  BY <1>0, <1>1, <1>2, <1>9, <1>11 DEF HeadsOK, InMemory
<1>14. StagedOK'
  <2>1. Lands(Len(todo) + 1, Staged, e)'
    BY <1>9, <1>10, BeginsLands, FileNames DEF Begins
  <2>2. Fresh(e)'
    BY <1>1, <1>2, <1>3, <1>7 DEF Fresh
  <2> QED BY <2>1, <2>2, <1>1, <1>2, <1>7, <1>9, <1>11 DEF StagedOK
<1> QED BY <1>7, <1>8, <1>10, <1>11, <1>12, <1>13, <1>14 DEF Base

LEMMA RequestCommitBase ==
  ASSUME Base, RequestCommit
  PROVE  Base' /\ \E e \in Entered : Begins(Stage(e)) /\ e[2] = NextSequence
<1>0. DiskOK /\ CallsOK /\ HeadsOK /\ StagedOK
  BY DEF Base
<1>1. /\ up = "serving" /\ at = "idle" /\ todo = << >>
      /\ Len(prior) < MaxCommits /\ NextSequence <= MaxSeq
      /\ prior' = Append(prior, store) /\ commit' = Len(prior) + 1
      /\ at' = "stage" /\ todo' = Stage(EventOf("commit", Len(prior) + 1))
      /\ UNCHANGED <<cache, media, up, store, clock, acked, faults>>
  BY <1>0 DEF RequestCommit, Free, Call, CallsOK
<1>2. commit = 0
  BY <1>0, <1>1 DEF CallsOK
<1>3. Falls(prior) /\ Len(prior) \in Nat /\ store \in 0..Len(prior)
  BY HeadNumbers
<1>4. PICK q : q = prior'
  OBVIOUS
<1>5. /\ Falls(q) /\ Len(q) = Len(prior) + 1 /\ q[Len(prior) + 1] = store
      /\ \A c \in 0..Len(prior) : ChainOf(q, c) = ChainOf(prior, c)
  BY <1>1, <1>3, <1>4, ChainGrows
<1>6. PICK n : n = Len(prior) + 1
  OBVIOUS
<1>7. n \in Commits /\ n \in 1..Len(q) /\ n \in Nat /\ Len(q) <= MaxCommits + faults
  <2>1. faults \in 0..MaxFaults
    BY <1>0, <1>1 DEF CallsOK
  <2>2. MaxCommits \in Nat /\ MaxFaults \in Nat
    BY BoundsAreNumbers
  <2> QED BY <2>1, <2>2, <1>1, <1>3, <1>5, <1>6 DEF Commits
<1>8. PICK e : e = EventOf("commit", n)
  OBVIOUS
<1>9. LastSeq >= 4 /\ NextSequence \in 1..MaxSeq /\ NextSequence >= 5
  BY <1>0, <1>1, SeqNumbers DEF StagedOK
<1>10. e \in Entered /\ e[2] = NextSequence /\ e[4] = n
  <2>1. "commit" \in Kinds /\ n \in {0} \cup Commits /\ ~(NextSequence <= 4)
    BY <1>7, <1>9 DEF Kinds, Genesis
  <2> QED BY <2>1, <1>8, <1>9, EventFits
<1>11. PICK p : p = Stage(e)
  OBVIOUS
<1>12. /\ p \in Seq(Step)
       /\ Contents(p, Staged) \subseteq {e} /\ Contents(p, HeadFile) = {}
       /\ Contents(p, LastFile) = {} /\ \A f \in Logged : Contents(p, f) = {}
       /\ Before(p, Put(Staged, e), Sync(Events))
  BY <1>10, <1>11, StageComing, StageDoes
<1>13. Begins(p)
  BY <1>1, <1>6, <1>8, <1>11, <1>12 DEF Begins
<1>14. DiskOK' /\ \A f : Ver(f)' = Ver(f) /\ Coming(f)' = Contents(p, f) /\ cache'[f] = cache[f]
  BY <1>0, <1>13, BeginsFacts
<1>15. CallsOK'
  <2>1. store \in 0..Len(q) /\ n # 0 /\ n \in 0..Len(q)
    BY <1>3, <1>5, <1>7
  <2> QED BY <2>1, <1>0, <1>1, <1>4, <1>5, <1>6, <1>7 DEF CallsOK
<1>16. HeadsOK'
  <2>1. \A v \in Ver(HeadFile) : /\ Num(v) <= Len(q) /\ Num(v) \in 0..Len(prior)
                                 /\ acked \subseteq ChainOf(q, Num(v))
    BY <1>0, <1>3, <1>5, HeadNumbers DEF HeadsOK
  <2>2. acked \subseteq ChainOf(q, store)
    BY <1>0, <1>1, <1>3, <1>5 DEF HeadsOK, InMemory
  <2> QED BY <2>1, <2>2, <1>1, <1>4, <1>12, <1>14 DEF HeadsOK
<1>17. StagedOK'
  <2>1. Lands(Len(todo) + 1, Staged, e)'
    BY <1>12, <1>13, BeginsLands, FileNames DEF Begins
  <2>2. Fresh(e)'
    BY <1>1, <1>6, <1>9, <1>10 DEF Fresh
  <2> QED BY <2>1, <2>2, <1>0, <1>1, <1>10, <1>12, <1>14 DEF StagedOK
<1> QED BY <1>10, <1>11, <1>13, <1>14, <1>15, <1>16, <1>17 DEF Base

LEMMA RequestIdentityBase ==
  ASSUME Base, RequestIdentity
  PROVE  Base' /\ \E e \in Entered : Begins(Stage(e)) /\ e[2] = NextSequence
<1>0. DiskOK /\ CallsOK /\ HeadsOK /\ StagedOK
  BY DEF Base
<1>1. /\ up = "serving" /\ at = "idle" /\ todo = << >> /\ NextSequence <= MaxSeq
      /\ at' = "stage" /\ todo' = Stage(EventOf("identity", 0))
      /\ UNCHANGED <<cache, media, prior, up, commit, store, clock, acked, faults>>
  BY <1>0 DEF RequestIdentity, Free, Call, CallsOK
<1>2. commit = 0
  BY <1>0, <1>1 DEF CallsOK
<1>3. LastSeq >= 4 /\ NextSequence \in 1..MaxSeq /\ NextSequence >= 5
  BY <1>0, <1>1, SeqNumbers DEF StagedOK
<1>4. PICK e : e = EventOf("identity", 0)
  OBVIOUS
<1>5. e \in Entered /\ e[2] = NextSequence /\ e[4] = 0
  <2>1. "identity" \in Kinds /\ 0 \in {0} \cup Commits /\ ~(NextSequence <= 4)
    BY <1>3 DEF Kinds, Genesis
  <2> QED BY <2>1, <1>3, <1>4, EventFits
<1>6. PICK p : p = Stage(e)
  OBVIOUS
<1>7. /\ p \in Seq(Step)
      /\ Contents(p, Staged) \subseteq {e} /\ Contents(p, HeadFile) = {}
      /\ Contents(p, LastFile) = {} /\ \A f \in Logged : Contents(p, f) = {}
      /\ Before(p, Put(Staged, e), Sync(Events))
  BY <1>5, <1>6, StageComing, StageDoes
<1>8. Begins(p)
  BY <1>1, <1>4, <1>6, <1>7 DEF Begins
<1>9. DiskOK' /\ \A f : Ver(f)' = Ver(f) /\ Coming(f)' = Contents(p, f) /\ cache'[f] = cache[f]
  BY <1>0, <1>8, BeginsFacts
<1>10. CallsOK'
  BY <1>0, <1>1, <1>2 DEF CallsOK
<1>11. HeadsOK'
  BY <1>0, <1>1, <1>7, <1>9 DEF HeadsOK, InMemory
<1>12. StagedOK'
  <2>1. Lands(Len(todo) + 1, Staged, e)'
    BY <1>7, <1>8, BeginsLands, FileNames DEF Begins
  <2>2. Fresh(e)'
    BY <1>3, <1>5 DEF Fresh
  <2> QED BY <2>1, <2>2, <1>0, <1>1, <1>5, <1>7, <1>9 DEF StagedOK
<1> QED BY <1>5, <1>6, <1>8, <1>9, <1>10, <1>11, <1>12 DEF Base

LEMMA PersistRepoBase == ASSUME Base, PersistRepo PROVE Base'
<1>0. DiskOK /\ CallsOK /\ HeadsOK /\ StagedOK
  BY DEF Base
<1>1. /\ at = "stage" /\ todo = << >> /\ commit # 0
      /\ at' = "persist" /\ todo' = PersistSave(commit)
      /\ UNCHANGED <<cache, media, prior, up, commit, store, clock, acked, faults>>
  BY DEF PersistRepo, Call
<1>2. up = "serving" /\ prior[commit] = store /\ InMemory
  BY <1>0, <1>1 DEF CallsOK, InMemory
<1>3. Falls(prior) /\ commit \in 1..Len(prior)
  BY <1>1, HeadNumbers
<1>4. PICK c : c = commit
  OBVIOUS
<1>5. c \in Commits /\ c \in 1..Len(prior)
  BY <1>3, <1>4, HeadNumbers
<1>6. PICK p : p = PersistSave(c)
  OBVIOUS
<1>7. /\ p \in Seq(Step)
      /\ Contents(p, HeadFile) \subseteq {Cid(c)} /\ Contents(p, Staged) = {}
      /\ Contents(p, LastFile) = {} /\ \A f \in Logged : Contents(p, f) = {}
      /\ Before(p, Put(HeadFile, Cid(c)), Sync(Root))
  BY <1>5, <1>6, PersistComing, PersistSaveDoes
<1>8. Begins(p)
  BY <1>1, <1>4, <1>6, <1>7 DEF Begins
<1>9. DiskOK' /\ \A f : Ver(f)' = Ver(f) /\ Coming(f)' = Contents(p, f) /\ cache'[f] = cache[f]
  BY <1>0, <1>8, BeginsFacts
<1>10. CallsOK'
  BY <1>0, <1>1, <1>2 DEF CallsOK
<1>11. HeadsOK'
  <2>1. acked \subseteq ChainOf(prior, c)
    BY <1>0, <1>2, <1>3, <1>4, ChainUnfolds DEF HeadsOK
  <2>2. Cid(c)[2] = c
    BY <1>5, NumFacts
  <2>3. Lands(Len(todo) + 1, HeadFile, Cid(c))'
    <3>1. PICK v : v = Cid(c)
      OBVIOUS
    <3>2. Lands(Len(p) + 1, HeadFile, v)'
      BY <1>7, <1>8, <3>1, BeginsLands, FileNames
    <3> QED BY <3>1, <3>2, <1>8 DEF Begins
  <2> QED BY <2>1, <2>2, <2>3, <1>0, <1>1, <1>2, <1>4, <1>5, <1>7, <1>9 DEF HeadsOK, InMemory
<1>12. StagedOK'
  <2>1. PICK e \in Entered : Fresh(e) /\ Lands(Len(todo) + 1, Staged, e)
    BY <1>0, <1>1 DEF StagedOK
  <2>2. Ver(Staged) = {e}
    BY <2>1, <1>1, LandsDone
  <2>3. Fresh(e)'
    BY <2>1, <1>1 DEF Fresh
  <2> QED BY <2>2, <2>3, <1>0, <1>1, <1>2, <1>7, <1>9 DEF StagedOK
<1> QED BY <1>9, <1>10, <1>11, <1>12 DEF Base

\* What a promotion finds staged.
LEMMA PromoteFinds ==
  ASSUME Base, PromoteEntry
  PROVE  \E e \in Entered : /\ e = cache[Staged] /\ Ver(Staged) = {e} /\ Fresh(e)
                            /\ Begins(Promote(e))
<1>0. DiskOK /\ CallsOK /\ HeadsOK /\ StagedOK
  BY DEF Base
<1>1. /\ at \in {"persist", "stage"} /\ todo = << >> /\ todo' = Promote(cache[Staged])
      /\ UNCHANGED <<cache, media>>
  BY DEF PromoteEntry, Call
<1>2. PICK e \in Entered : Fresh(e) /\ Ver(Staged) = {e}
  <2>1. CASE at = "persist"
    BY <1>0, <2>1 DEF StagedOK
  <2>2. CASE at = "stage"
    <3>1. PICK e \in Entered : Fresh(e) /\ Lands(Len(todo) + 1, Staged, e)
      BY <1>0, <2>2 DEF StagedOK
    <3> QED BY <3>1, <1>1, LandsDone
  <2> QED BY <1>1, <2>1, <2>2
<1>3. cache[Staged] = e
  BY <1>0, <1>2, Shown, FileNames
<1>4. PICK p : p = Promote(e)
  OBVIOUS
<1>5. p \in Seq(Step)
  BY <1>0, <1>4, PromoteComing
<1> QED BY <1>1, <1>2, <1>3, <1>4, <1>5 DEF Begins

LEMMA PromoteEntryBase == ASSUME Base, PromoteEntry PROVE Base'
<1>0. DiskOK /\ CallsOK /\ HeadsOK /\ StagedOK
  BY DEF Base
<1>1. /\ todo = << >> /\ (at = "persist" \/ (at = "stage" /\ commit = 0))
      /\ at' = "promote"
      /\ UNCHANGED <<cache, media, prior, up, commit, store, clock, acked, faults>>
  BY DEF PromoteEntry, Call
<1>2. PICK e \in Entered : e = cache[Staged] /\ Fresh(e) /\ Begins(Promote(e))
  BY PromoteFinds
<1>3. PICK p : p = Promote(e)
  OBVIOUS
<1>4. /\ p \in Seq(Step)
      /\ Contents(p, Staged) = {Nothing} /\ Contents(p, HeadFile) = {}
      /\ Contents(p, LastFile) \subseteq {Pointer(e[2])}
  BY <1>0, <1>3, PromoteComing
<1>5. Begins(p)
  BY <1>2, <1>3
<1>6. DiskOK' /\ \A f : Ver(f)' = Ver(f) /\ Coming(f)' = Contents(p, f) /\ cache'[f] = cache[f]
  BY <1>0, <1>5, BeginsFacts
<1>7. up \in {"starting", "serving"} /\ (at = "persist" => up = "serving")
  BY <1>0, <1>1 DEF CallsOK
<1>8. CallsOK'
  BY <1>0, <1>1, <1>7 DEF CallsOK
<1>9. HeadsOK'
  <2>1. commit # 0 => Ver(HeadFile) = {Cid(commit)}
    BY <1>0, <1>1, LandsDone DEF HeadsOK
  <2>2. InMemory
    BY <1>1, <1>7 DEF InMemory
  <2> QED BY <2>1, <2>2, <1>0, <1>1, <1>4, <1>6, <1>7 DEF HeadsOK, InMemory
<1>10. StagedOK'
  <2>1. \A v \in Contents(p, LastFile) : v[2] = e[2]
    BY <1>4, EventNames, NumFacts
  <2>2. up = "serving" => e[2] >= 4
    BY <1>2, EventNames DEF Fresh
  <2> QED BY <2>1, <2>2, <1>0, <1>1, <1>4, <1>6 DEF StagedOK
<1> QED BY <1>6, <1>8, <1>9, <1>10 DEF Base

LEMMA AnswerBase == ASSUME Base, Answer PROVE Base'
<1>0. DiskOK /\ CallsOK /\ HeadsOK /\ StagedOK
  BY DEF Base
<1>1. /\ at = "promote" /\ todo = << >> /\ todo' = << >>
      /\ UNCHANGED <<cache, media, prior, up, clock, faults>>
  BY DEF Answer, Call
<1>2. Begins(<< >>)
  BY <1>1 DEF Begins
<1>3. DiskOK' /\ \A f : Ver(f)' = Ver(f) /\ Coming(f)' = {} /\ cache'[f] = cache[f]
  BY <1>0, <1>2, BeginsFacts, ContentsNone
<1>4. cache[Staged] = Nothing
  BY <1>0, <1>1, ContentsNone DEF StagedOK, Coming
<1>5. CASE up = "starting"
  <2>1. at' = "recover" /\ UNCHANGED <<commit, store, acked>>
    BY <1>5 DEF Answer, Call
  <2>2. CallsOK'
    BY <1>0, <1>1, <1>5, <2>1 DEF CallsOK
  <2>3. HeadsOK'
    BY <1>0, <1>1, <1>3, <1>5, <2>1 DEF HeadsOK, InMemory
  <2>4. StagedOK'
    BY <1>1, <1>3, <1>4, <1>5, <2>1 DEF StagedOK
  <2> QED BY <1>3, <2>2, <2>3, <2>4 DEF Base
<1>6. CASE up # "starting"
  <2>1. /\ at' = "idle" /\ commit' = 0
        /\ store' = IF commit # 0 THEN commit ELSE store
        /\ acked' = IF commit # 0 THEN acked \cup {commit} ELSE acked
    BY <1>6 DEF Answer, Call
  <2>2. up = "serving" /\ commit \in 0..Len(prior) /\ acked \subseteq Nat
    BY <1>0, <1>1, <1>6 DEF CallsOK
  <2>3. acked' \subseteq Nat /\ store' \in 0..Len(prior)
    BY <1>0, <2>1, <2>2 DEF CallsOK
  <2>4. CallsOK'
    BY <1>0, <1>1, <2>1, <2>2, <2>3 DEF CallsOK
  <2>5. HeadsOK'
    <3>1. CASE commit = 0
      BY <1>0, <1>1, <1>3, <2>1, <2>2, <3>1 DEF HeadsOK, InMemory
    <3>2. CASE commit # 0
      <4>1. PICK c \in 1..Len(prior) : c = commit
        BY <2>2, <3>2
      <4>2. Ver(HeadFile) = {Cid(c)} /\ c \in Commits /\ Num(Cid(c)) = c
        BY <1>0, <1>1, <3>2, <4>1, HeadNumbers, NumFacts DEF HeadsOK
      <4>3. acked \subseteq ChainOf(prior, c)
        BY <1>0, <4>2 DEF HeadsOK
      <4>4. c \in ChainOf(prior, c)
        BY <4>1, HeadNumbers, ChainUnfolds
      <4>5. acked' \subseteq ChainOf(prior, c) /\ store' = c
        BY <2>1, <3>2, <4>1, <4>3, <4>4
      <4> QED BY <1>1, <1>3, <2>1, <2>2, <4>1, <4>2, <4>5 DEF HeadsOK, InMemory
    <3> QED BY <3>1, <3>2
  <2>7. StagedOK'
    BY <1>0, <1>1, <1>3, <2>1, <2>2 DEF StagedOK
  <2> QED BY <1>3, <2>4, <2>5, <2>7 DEF Base
<1> QED BY <1>5, <1>6

LEMMA DropStagedBase == ASSUME Base, DropStaged PROVE Base'
<1>0. DiskOK /\ CallsOK /\ HeadsOK /\ StagedOK
  BY DEF Base
<1>1. /\ at = "discard" /\ todo = << >> /\ todo' = << >> /\ at' = "idle" /\ commit' = 0
      /\ UNCHANGED <<cache, media, prior, up, store, clock, acked, faults>>
  BY DEF DropStaged, Call
<1>2. Begins(<< >>)
  BY <1>1 DEF Begins
<1>3. DiskOK' /\ \A f : Ver(f)' = Ver(f) /\ Coming(f)' = {} /\ cache'[f] = cache[f]
  BY <1>0, <1>2, BeginsFacts, ContentsNone
<1>4. up = "serving"
  BY <1>0, <1>1 DEF CallsOK
<1>5. CallsOK'
  BY <1>0, <1>1, <1>4 DEF CallsOK
<1>6. HeadsOK'
  BY <1>0, <1>1, <1>3, <1>4 DEF HeadsOK, InMemory
<1>7. StagedOK'
  BY <1>0, <1>1, <1>3, <1>4 DEF StagedOK
<1> QED BY <1>3, <1>5, <1>6, <1>7 DEF Base

LEMMA FaultCounts ==
  ASSUME CallsOK, NEW kind, Fault(kind)
  PROVE  /\ kind \in Faults /\ faults' \in 0..MaxFaults /\ faults' = faults + 1
         /\ Len(prior) + 1 <= MaxCommits + faults'
         /\ Len(prior) + (IF up = "down" THEN 1 ELSE 0) <= MaxCommits + faults'
<1>1. kind \in Faults /\ faults < MaxFaults /\ faults' = faults + 1
  BY DEF Fault
<1>2. /\ faults \in 0..MaxFaults /\ Len(prior) \in Nat /\ MaxFaults \in Nat /\ MaxCommits \in Nat
      /\ Len(prior) + (IF up = "down" THEN 1 ELSE 0) <= MaxCommits + faults
  BY LenProperties, BoundsAreNumbers DEF CallsOK, Falls
<1> QED BY <1>1, <1>2

\* The three ways a failed operation ends a call.
LEMMA DiskErrorDoes ==
  ASSUME DiskError, CallsOK
  PROVE  /\ Fault("error") /\ todo # << >>
         /\ UNCHANGED <<cache, media, prior, store, clock, acked>>
         /\ \/ up = "starting" /\ up' = "down" /\ at' = "idle" /\ todo' = << >>
               /\ commit = 0 /\ commit' = 0
            \/ up = "serving" /\ at = "persist" /\ at' = "discard" /\ todo' = DiscardStaged
               /\ UNCHANGED <<up, commit>>
            \/ up = "serving" /\ at # "persist" /\ at' = "idle" /\ todo' = << >>
               /\ commit' = 0 /\ up' = up
<1>1. /\ Fault("error") /\ todo # << >>
      /\ UNCHANGED <<cache, media, prior, store, clock, acked>>
  BY DEF DiskError
<1>2. up \in {"starting", "serving"}
  BY <1>1 DEF CallsOK
<1>3. CASE up = "starting"
  <2>1. up' = "down" /\ at' = "idle" /\ todo' = << >> /\ commit' = commit
    BY <1>3 DEF DiskError, Call
  <2>2. commit = 0
    BY <1>3 DEF CallsOK
  <2> QED BY <1>1, <1>3, <2>1, <2>2
<1>4. CASE up = "serving" /\ at = "persist"
  BY <1>1, <1>4 DEF DiskError, Call
<1>5. CASE up = "serving" /\ at # "persist"
  BY <1>1, <1>5 DEF DiskError, Call
<1> QED BY <1>2, <1>3, <1>4, <1>5

LEMMA DiskErrorBase == ASSUME Base, DiskError PROVE Base'
<1>0. DiskOK /\ CallsOK /\ HeadsOK /\ StagedOK
  BY DEF Base
<1>1. /\ Fault("error") /\ todo # << >>
      /\ UNCHANGED <<cache, media, prior, store, clock, acked>>
  BY <1>0, DiskErrorDoes
<1>2. /\ faults' \in 0..MaxFaults
      /\ Len(prior) + 1 <= MaxCommits + faults'
      /\ Len(prior) + (IF up = "down" THEN 1 ELSE 0) <= MaxCommits + faults'
  BY <1>0, <1>1, FaultCounts
<1>3. CASE up = "starting" /\ up' = "down" /\ at' = "idle" /\ todo' = << >>
           /\ commit = 0 /\ commit' = 0
  <2>1. Begins(<< >>)
    BY <1>1, <1>3 DEF Begins
  <2>2. DiskOK' /\ \A f : Ver(f)' = Ver(f) /\ Coming(f)' = {} /\ cache'[f] = cache[f]
    BY <1>0, <2>1, BeginsFacts, ContentsNone
  <2>3. CallsOK'
    BY <1>0, <1>1, <1>2, <1>3 DEF CallsOK
  <2>4. HeadsOK'
    BY <1>0, <1>1, <1>3, <2>2 DEF HeadsOK, InMemory
  <2>5. StagedOK'
    BY <1>3, <2>2 DEF StagedOK
  <2> QED BY <2>2, <2>3, <2>4, <2>5 DEF Base
<1>4. CASE up = "serving" /\ at = "persist" /\ at' = "discard" /\ todo' = DiscardStaged
           /\ UNCHANGED <<up, commit>>
  <2>1. PICK p : p = DiscardStaged
    OBVIOUS
  <2>2. /\ p \in Seq(Step)
        /\ Contents(p, Staged) \subseteq {Nothing} /\ Contents(p, HeadFile) = {}
        /\ Contents(p, LastFile) = {} /\ \A f \in Logged : Contents(p, f) = {}
    BY <2>1, DiscardComing
  <2>3. Begins(p)
    BY <1>1, <1>4, <2>1, <2>2 DEF Begins
  <2>4. DiskOK' /\ \A f : Ver(f)' = Ver(f) /\ Coming(f)' = Contents(p, f) /\ cache'[f] = cache[f]
    BY <1>0, <2>3, BeginsFacts
  <2>5. CallsOK'
    BY <1>0, <1>1, <1>2, <1>4 DEF CallsOK
  <2>6. HeadsOK'
    BY <1>0, <1>1, <1>4, <2>2, <2>4 DEF HeadsOK, InMemory
  <2>7. StagedOK'
    BY <1>0, <1>1, <1>4, <2>2, <2>4 DEF StagedOK
  <2> QED BY <2>4, <2>5, <2>6, <2>7 DEF Base
<1>5. CASE up = "serving" /\ at # "persist" /\ at' = "idle" /\ todo' = << >>
           /\ commit' = 0 /\ up' = up
  <2>1. Begins(<< >>)
    BY <1>1, <1>5 DEF Begins
  <2>2. DiskOK' /\ \A f : Ver(f)' = Ver(f) /\ Coming(f)' = {} /\ cache'[f] = cache[f]
    BY <1>0, <2>1, BeginsFacts, ContentsNone
  <2>3. CallsOK'
    BY <1>0, <1>1, <1>2, <1>5 DEF CallsOK
  <2>4. HeadsOK'
    BY <1>0, <1>1, <1>5, <2>2 DEF HeadsOK, InMemory
  <2>5. StagedOK'
    BY <1>0, <1>1, <1>5, <2>2 DEF StagedOK
  <2> QED BY <2>2, <2>3, <2>4, <2>5 DEF Base
<1> QED BY <1>0, <1>3, <1>4, <1>5, DiskErrorDoes

LEMMA CrashBase == ASSUME Base, Crash PROVE Base'
<1>0. DiskOK /\ CallsOK /\ HeadsOK /\ StagedOK
  BY DEF Base
<1>1. /\ Fault("crash") /\ up' = "down" /\ at' = "idle" /\ todo' = << >>
      /\ commit' = 0 /\ store' = 0 /\ UNCHANGED <<cache, media, prior, clock, acked>>
  BY DEF Crash, Die, Call
<1>2. faults' \in 0..MaxFaults /\ Len(prior) + 1 <= MaxCommits + faults'
  BY <1>0, <1>1, FaultCounts
<1>3. Begins(<< >>)
  BY <1>1 DEF Begins
<1>4. DiskOK' /\ \A f : Ver(f)' = Ver(f) /\ Coming(f)' = {}
  BY <1>0, <1>3, BeginsFacts, ContentsNone
<1>5. Len(prior) \in Nat
  BY HeadNumbers
<1>6. CallsOK'
  BY <1>0, <1>1, <1>2, <1>5 DEF CallsOK
<1>7. HeadsOK'
  BY <1>0, <1>1, <1>4 DEF HeadsOK, InMemory
<1>8. StagedOK'
  BY <1>1, <1>4 DEF StagedOK
<1> QED BY <1>4, <1>6, <1>7, <1>8 DEF Base

\* What is found after a power loss is one of the versions of each file, or
\* nothing where a directory above is gone.
Left(kept) ==
  /\ kept \in [File -> Content]
  /\ \A f \in File : /\ kept[f] \in Ver(f)
                     /\ cache'[f] = IF \A d \in {Home(f), Home(Home(f))} : kept[d] # Nothing
                                      THEN kept[f] ELSE Nothing

LEMMA PowerLossDoes ==
  ASSUME DiskOK, PowerLoss
  PROVE  /\ Fault("power") /\ Die /\ \E kept : Left(kept)
         /\ media' = [f \in File |-> {cache'[f]}] /\ cache' \in [File -> Content]
         /\ \A f \in File : Ver(f)' = {cache'[f]}
<1>1. Fault("power") /\ Die /\ media' = [f \in File |-> {cache'[f]}]
  BY DEF PowerLoss
<1>2. "power" \in Faults
  BY <1>1 DEF Fault
<1>3. PICK o \in {p \in [Loose -> Versions] : \A f \in Loose : p[f] \in media[f]} :
        LET kept == [f \in File |-> IF f \in Loose THEN o[f] ELSE CHOOSE v \in media[f] : TRUE]
        IN cache' = [f \in File |->
                      IF \A d \in {Home(f), Home(Home(f))} : kept[d] # Nothing
                        THEN kept[f] ELSE Nothing]
  BY DEF PowerLoss
<1> DEFINE kept == [f \in File |-> IF f \in Loose THEN o[f] ELSE CHOOSE v \in media[f] : TRUE]
<1>4. cache' = [f \in File |-> IF \A d \in {Home(f), Home(Home(f))} : kept[d] # Nothing
                                 THEN kept[f] ELSE Nothing]
  BY <1>3
<1>5. \A f \in File : cache[f] \in media[f] /\ media[f] \subseteq Content
  BY DEF DiskOK
<1>6. \A f \in File : kept[f] \in media[f]
  BY <1>3, <1>5
<1>7. kept \in [File -> Content]
  <2>1. kept = [f \in File |-> kept[f]]
    OBVIOUS
  <2> HIDE DEF kept
  <2> QED BY <1>5, <1>6, <2>1
<1> HIDE DEF kept
<1>8. cache' \in [File -> Content]
  BY <1>4, <1>7 DEF Content
<1>9. Left(kept)
  BY <1>2, <1>4, <1>6, <1>7 DEF Left, Ver
<1>10. \A f \in File : Ver(f)' = {cache'[f]}
  BY <1>1 DEF Ver
<1> QED BY <1>1, <1>8, <1>9, <1>10

LEMMA PowerLossBase == ASSUME Base, PowerLoss PROVE Base'
<1>0. DiskOK /\ CallsOK /\ HeadsOK /\ StagedOK
  BY DEF Base
<1>1. /\ Fault("power") /\ up' = "down" /\ at' = "idle" /\ todo' = << >>
      /\ commit' = 0 /\ store' = 0 /\ UNCHANGED <<prior, clock, acked>>
  BY <1>0, PowerLossDoes DEF Die, Call
<1>2. faults' \in 0..MaxFaults /\ Len(prior) + 1 <= MaxCommits + faults'
  BY <1>0, <1>1, FaultCounts
<1>3. PICK kept : Left(kept)
  BY <1>0, PowerLossDoes
<1>4. /\ media' = [f \in File |-> {cache'[f]}] /\ cache' \in [File -> Content]
      /\ \A f \in File : Ver(f)' = {cache'[f]}
  BY <1>0, PowerLossDoes
<1>5. \A f \in File : kept[f] \in Ver(f) /\ Ver(f) \subseteq Holds(f)
  BY <1>0, <1>3 DEF DiskOK, Ver, Left
<1>6. kept[Root] # Nothing
  BY <1>5, FileNames, PutsAre DEF Folder, Nothing
<1>7. \A f \in File : cache'[f] = kept[f] \/ (cache'[f] = Nothing /\ f # Root)
  BY <1>3, <1>6, FileNames DEF Left
<1>8. \A f \in File : cache'[f] \in Holds(f)
  BY <1>5, <1>7 DEF Holds
<1>9. DiskOK'
  <2>1. todo' \in Seq(Step)
    BY <1>1
  <2>2. media' \in [File -> SUBSET Content]
    BY <1>4
  <2>3. \A f \in File : cache'[f] \in media'[f] /\ media'[f] \subseteq Holds(f)
    BY <1>4, <1>8
  <2> QED BY <1>4, <2>1, <2>2, <2>3 DEF DiskOK, Holds, Puttable, Step
<1>10. cache'[HeadFile] = kept[HeadFile]
  BY <1>3, <1>6, FileNames DEF Left
<1>11. Ver(HeadFile)' \subseteq Ver(HeadFile) /\ \A f : Coming(f)' = {}
  BY <1>1, <1>4, <1>5, <1>10, FileNames, ContentsNone DEF Coming
<1>12. Len(prior) \in Nat
  BY HeadNumbers
<1>13. CallsOK'
  BY <1>0, <1>1, <1>2, <1>12 DEF CallsOK
<1>14. HeadsOK'
  BY <1>0, <1>1, <1>11 DEF HeadsOK, InMemory
<1>15. StagedOK'
  BY <1>1, <1>11 DEF StagedOK
<1> QED BY <1>9, <1>13, <1>14, <1>15 DEF Base

LEMMA FileDamagedBase == ASSUME Base, FileDamaged PROVE Base'
<1>0. DiskOK /\ CallsOK /\ HeadsOK /\ StagedOK
  BY DEF Base
<1>1. /\ Fault("damage") /\ up = "down"
      /\ UNCHANGED <<prior, up, at, todo, commit, store, clock, acked>>
  BY DEF FileDamaged
<1>2. PICK f \in {LastFile} \cup {Block(c, 1) : c \in Chain(DiskHead)} :
        /\ cache' = [cache EXCEPT ![f] = Nothing]
        /\ media' = [media EXCEPT ![f] = {Nothing}]
  BY DEF FileDamaged
<1>3. f # Root /\ f # HeadFile
  BY FilesDiffer DEF Kept
<1>4. /\ cache \in [File -> Content] /\ media \in [File -> SUBSET Content] /\ Nothing \in Content
      /\ \A g \in File : cache[g] \in media[g] /\ media[g] \subseteq Holds(g)
  BY <1>0 DEF DiskOK, Content
<1>5. /\ cache' \in [File -> Content] /\ media' \in [File -> SUBSET Content]
      /\ \A g \in File : /\ cache'[g] = IF g = f THEN Nothing ELSE cache[g]
                         /\ media'[g] = IF g = f THEN {Nothing} ELSE media[g]
  BY <1>2, <1>4
<1>6. \A g \in File : cache'[g] \in media'[g] /\ media'[g] \subseteq Holds(g)
  BY <1>3, <1>4, <1>5 DEF Holds
<1>7. DiskOK'
  BY <1>0, <1>1, <1>5, <1>6 DEF DiskOK, Holds, Puttable, Step
<1>8. Ver(HeadFile)' = Ver(HeadFile) /\ cache'[HeadFile] = cache[HeadFile]
  BY <1>3, <1>5, FileNames DEF Ver
<1>9. faults' \in 0..MaxFaults /\ Len(prior) + 1 <= MaxCommits + faults'
  BY <1>0, <1>1, FaultCounts
<1>10. at = "idle" /\ \A g : Coming(g)' = Coming(g)
  BY <1>0, <1>1 DEF CallsOK, Coming
<1>11. CallsOK'
  BY <1>0, <1>1, <1>9 DEF CallsOK
<1>12. HeadsOK'
  BY <1>0, <1>1, <1>8, <1>10 DEF HeadsOK, InMemory
<1>13. StagedOK'
  BY <1>0, <1>1, <1>10 DEF StagedOK
<1> QED BY <1>7, <1>11, <1>12, <1>13 DEF Base

\* Subscribers and the clock touch nothing of the writer's.
Quiet ==
  /\ UNCHANGED <<cache, media, prior, up, at, todo, commit, store, acked>>
  /\ \/ UNCHANGED <<clock, faults>> /\ \E r \in Relay : Subscriber(r)
     \/ UNCHANGED <<faults, relay>> /\ clock' \in 0..MaxTime
     \/ Fault("clock") /\ clock' \in 0..MaxTime /\ UNCHANGED relay

LEMMA QuietSteps ==
  ASSUME CallsOK, (\E r \in Relay : Subscriber(r)) \/ Tick \/ ClockStepsBack
  PROVE  Quiet
<1>1. clock \in 0..MaxTime /\ MaxTime \in Nat
  BY BoundsAreNumbers DEF CallsOK
<1>2. CASE \E r \in Relay : Subscriber(r)
  <2>1. PICK r \in Relay : Subscriber(r)
    BY <1>2
  <2>2. UNCHANGED <<cache, media, prior, up, at, todo, commit, store, acked, clock, faults>>
    BY <2>1 DEF Subscriber, Subscribe, SubscribeLive, Send, PollLog, Leave
  <2> QED BY <2>1, <2>2 DEF Quiet
<1>3. CASE Tick
  BY <1>1, <1>3 DEF Tick, Quiet
<1>4. CASE ClockStepsBack
  <2>1. clock' \in 0..MaxTime
    BY <1>1, <1>4 DEF ClockStepsBack
  <2> QED BY <1>4, <2>1 DEF ClockStepsBack, Quiet
<1> QED BY <1>2, <1>3, <1>4

LEMMA QuietBase == ASSUME Base, Quiet PROVE Base'
<1>0. DiskOK /\ CallsOK /\ HeadsOK /\ StagedOK
  BY DEF Base
<1>1. UNCHANGED <<cache, media, prior, up, at, todo, commit, store, acked>>
  BY DEF Quiet
<1>2. /\ clock' \in 0..MaxTime /\ faults' \in 0..MaxFaults
      /\ Len(prior) + (IF up = "down" THEN 1 ELSE 0) <= MaxCommits + faults'
  <2>1. CASE UNCHANGED faults
    BY <1>0, <2>1 DEF CallsOK, Quiet
  <2>2. CASE Fault("clock")
    BY <1>0, <2>2, FaultCounts DEF CallsOK, Quiet
  <2> QED BY <2>1, <2>2 DEF Quiet
<1>3. \A f : Ver(f)' = Ver(f) /\ Coming(f)' = Coming(f)
  BY <1>1 DEF Ver, Coming
<1>4. \A k, f, v : Lands(k, f, v)' <=> Lands(k, f, v)
  BY <1>1, <1>3 DEF Lands
<1>5. DiskOK'
  BY <1>0, <1>1 DEF DiskOK, Holds, Puttable, Step
<1>6. CallsOK'
  BY <1>0, <1>1, <1>2 DEF CallsOK
<1>7. HeadsOK'
  BY <1>0, <1>1, <1>3, <1>4 DEF HeadsOK, InMemory
<1>8. StagedOK'
  BY <1>0, <1>1, <1>3, <1>4 DEF StagedOK, Fresh
<1> QED BY <1>5, <1>6, <1>7, <1>8 DEF Base

LEMMA NextKeepsBase == ASSUME Base, [Next]_vars PROVE Base'
<1>0. CallsOK
  BY DEF Base
<1>1. CASE Work
  BY <1>1, WorkKeepsBase
<1>2. CASE Recover
  BY <1>2, RecoverBase
<1>3. CASE StartRefused \/ RefuseLog
  BY <1>3, RefusedBase
<1>4. CASE EmitGenesis
  BY <1>4, EmitGenesisBase
<1>5. CASE Serve
  BY <1>5, ServeBase
<1>6. CASE PersistRepo
  BY <1>6, PersistRepoBase
<1>7. CASE PromoteEntry
  BY <1>7, PromoteEntryBase
<1>8. CASE Answer
  BY <1>8, AnswerBase
<1>9. CASE DropStaged
  BY <1>9, DropStagedBase
<1>10. CASE StartNew
  BY <1>10, StartNewBase
<1>11. CASE StartAgain
  BY <1>11, StartAgainBase
<1>12. CASE RequestCommit
  BY <1>12, RequestCommitBase
<1>13. CASE RequestIdentity
  BY <1>13, RequestIdentityBase
<1>14. CASE (\E r \in Relay : Subscriber(r)) \/ Tick \/ ClockStepsBack
  BY <1>0, <1>14, QuietSteps, QuietBase
<1>15. CASE DiskError
  BY <1>15, DiskErrorBase
<1>16. CASE Crash
  BY <1>16, CrashBase
<1>17. CASE PowerLoss
  BY <1>17, PowerLossBase
<1>18. CASE FileDamaged
  BY <1>18, FileDamagedBase
<1>19. CASE UNCHANGED vars
  <2>1. /\ UNCHANGED <<cache, media, prior, up, at, todo, commit, store, acked>>
        /\ UNCHANGED <<faults, relay, clock>>
    BY <1>19 DEF vars
  <2>2. Quiet
    BY <1>0, <2>1 DEF CallsOK, Quiet
  <2> QED BY <2>2, QuietBase
<1> QED
  BY <1>1, <1>2, <1>3, <1>4, <1>5, <1>6, <1>7, <1>8, <1>9, <1>10, <1>11, <1>12,
     <1>13, <1>14, <1>15, <1>16, <1>17, <1>18, <1>19
  DEF Next, Process, Operator, Client, Environment

-----------------------------------------------------------------------------
(* Whatever fails, and in whatever order *)

\* The kinds of value, the calls in progress, the head and the pending entry
\* are as the writer's order leaves them, whichever faults occur.
THEOREM Invariance == Spec => []Base
<1>1. Init => Base
  BY InitBase
<1>2. Base /\ [Next]_vars => Base'
  BY NextKeepsBase
<1> QED BY <1>1, <1>2, PTL DEF Spec

LEMMA BaseKeepsAcked == ASSUME Base PROVE AckedIsKept
<1>1. cache[HeadFile] \in Ver(HeadFile)
  BY Shown, FileNames DEF Base
<1>2. acked \subseteq ChainOf(prior, Num(cache[HeadFile]))
  BY <1>1 DEF Base, HeadsOK
<1> QED BY <1>2, DiskHeadIs, ChainIsOf DEF AckedIsKept

\* applyRequest answers a commit once persistSave has moved the head, and no
\* crash, power loss, failed operation, clock or lost file takes it back.
THEOREM AckedIsKeptAlways == Spec => []AckedIsKept
BY Invariance, BaseKeepsAcked, PTL

LEMMA BaseHasQuartet == ASSUME Base PROVE QuartetOnce
<1>1. LogEntries \subseteq Entered
  BY LogIsFinite DEF Base
<1>2. up = "serving" => LastSeq >= 4
  BY DiskHeadIs DEF Base, StagedOK
<1> QED BY <1>1, <1>2 DEF QuartetOnce, Entered

\* Requests wait for the quartet: whatever interrupts it, the log opens with the
\* four genesis events, each at its number, before any other.
THEOREM QuartetOnceAlways == Spec => []QuartetOnce
BY Invariance, BaseHasQuartet, PTL

-----------------------------------------------------------------------------
(* Nothing is lost that the next step counts on, unless a process dies or   *)
(* goes on after a failed operation and the power fails after it            *)

FaultsApart ==
  /\ "damage" \notin Faults
  /\ "power" \in Faults => Faults \cap {"crash", "error"} = {}

LEMMA VersionsAre ==
  ASSUME DiskOK
  PROVE  /\ "power" \notin Faults => \A f \in File : Ver(f) = {cache[f]}
         /\ \A f \in File : cache[f] \in Ver(f)
BY DEF Ver, DiskOK

LEMMA ChainBelow ==
  ASSUME NEW p, Falls(p)
  PROVE  \A c \in 0..Len(p) : ChainOf(p, c) \subseteq 1..c
<1> DEFINE T == {c \in 0..Len(p) : ~ (ChainOf(p, c) \subseteq 1..c)}
<1>1. SUFFICES ASSUME T # {} PROVE FALSE
  OBVIOUS
<1>2. T \subseteq Nat
  OBVIOUS
<1>3. PICK c \in T : \A d \in T : c <= d
  <2> HIDE DEF T
  <2> QED BY <1>1, <1>2, LeastNat
<1>4. c # 0
  BY <1>3, ChainUnfolds
<1>5. c \in 1..Len(p) /\ Len(p) \in Nat /\ p[c] \in Nat /\ p[c] < c
  <2>1. c \in 1..Len(p) /\ Len(p) \in Nat
    BY <1>3, <1>4
  <2> QED BY <2>1, ElementOfSeq DEF Falls
<1>6. ChainOf(p, c) = {c} \cup ChainOf(p, p[c])
  BY <1>5, ChainUnfolds
<1>7. p[c] \in 0..Len(p) /\ p[c] \notin T
  BY <1>3, <1>5
<1>8. ChainOf(p, p[c]) \subseteq 1..p[c]
  BY <1>7
<1>9. ~ (ChainOf(p, c) \subseteq 1..c)
  BY <1>3
<1> HIDE DEF T
<1> QED BY <1>5, <1>6, <1>8, <1>9

LEMMA WorkFlushes == ASSUME Base, FlushedOK, Work PROVE FlushedOK'
<1>0. DiskOK /\ CallsOK /\ Tidy(todo)
  BY DEF Base, FlushedOK
<1>1. PICK x : Moved(x)
  BY <1>0, WorkMoves
<1>2. UNCHANGED <<up, at>> /\ at # "idle" /\ todo # << >>
  BY <1>0 DEF CallsOK, Work
<1>3. /\ Len(todo) \in Nat /\ Len(todo') = Len(todo) - 1 /\ todo[1] = x /\ 1 \in 1..Len(todo)
      /\ \A k \in 1..Len(todo') : k + 1 \in 1..Len(todo) /\ todo'[k] = todo[k + 1]
      /\ \A k \in 1..Len(todo) : k # 1 => k - 1 \in 1..Len(todo') /\ todo'[k - 1] = todo[k]
  BY <1>1 DEF Moved
<1>4. Tidy(todo')
  <2> SUFFICES ASSUME NEW i \in 1..Len(todo'), NEW f \in Kept, todo'[i].op = "put" /\ todo'[i].file = f
               PROVE  \E j \in 1..Len(todo') : i < j /\ todo'[j] = Sync(Home(f))
    BY DEF Tidy
  <2>1. i + 1 \in 1..Len(todo) /\ todo[i + 1].op = "put" /\ todo[i + 1].file = f
    BY <1>3
  <2>2. PICK j \in 1..Len(todo) : i + 1 < j /\ todo[j] = Sync(Home(f))
    BY <1>0, <2>1 DEF Tidy
  <2>3. j # 1 /\ i < j - 1
    BY <2>2, <1>3
  <2> QED BY <1>3, <2>2, <2>3
<1>5. \A f \in Kept : Ver(f)' = {cache'[f]} \/ Has(todo', Sync(Home(f)))
  <2> TAKE f \in Kept
  <2>1. f \in File
    BY FilesDiffer
  <2>2. CASE x = Sync(Home(f))
    <3>1. Ver(f)' = {cache[f]} /\ cache'[f] \in Ver(f)'
      BY <1>1, <2>1, <2>2 DEF Moved, Effects
    <3> QED BY <3>1
  <2>3. CASE x.op = "put" /\ x.file = f
    <3>1. PICK j \in 1..Len(todo) : 1 < j /\ todo[j] = Sync(Home(f))
      BY <1>0, <1>3, <2>3 DEF Tidy
    <3> QED BY <1>3, <3>1 DEF Has
  <2>4. CASE x # Sync(Home(f)) /\ ~ (x.op = "put" /\ x.file = f)
    <3>1. CASE Has(todo, Sync(Home(f)))
      BY <1>3, <2>4, <3>1 DEF Has
    <3>2. CASE Ver(f) = {cache[f]}
      BY <1>1, <2>1, <2>4, <3>2 DEF Moved, Effects
    <3> QED BY <3>1, <3>2 DEF FlushedOK
  <2> QED BY <2>2, <2>3, <2>4
<1>6. at = "init" => Ver(Staged)' = {cache'[Staged]} /\ Coming(Staged)' = {}
  <2>1. Staged \in File
    BY FileNames
  <2>2. Coming(Staged)' \subseteq Coming(Staged)
    BY <1>1, MovedComing
  <2>3. /\ \A v \in Ver(Staged)' : v \in Ver(Staged) \/ v \in Coming(Staged)
        /\ cache'[Staged] \in Ver(Staged)'
    BY <1>0, <1>1, <2>1, MovedVer
  <2> QED BY <2>2, <2>3 DEF FlushedOK
<1>7. up # "down"
  BY <1>0, <1>2 DEF CallsOK
<1> QED BY <1>2, <1>4, <1>5, <1>6, <1>7 DEF FlushedOK

\* A call that begins when the last one is done.
LEMMA BeginsFlushed ==
  ASSUME Base, FlushedOK, NEW s, Begins(s), Tidy(s),
         todo = << >> \/ "power" \notin Faults,
         up' = "down" => up = "down" \/ "power" \notin Faults,
         at' = "init" => up = "down" /\ Contents(s, Staged) = {}
  PROVE  FlushedOK'
<1>1. \A f \in File : "power" \notin Faults => Ver(f) = {cache[f]}
  BY VersionsAre DEF Base
<1>2. \A f : Ver(f)' = Ver(f) /\ Coming(f)' = Contents(s, f) /\ cache'[f] = cache[f]
  BY BeginsFacts DEF Base
<1>3. \A f \in Kept : Ver(f) = {cache[f]}
  <2> TAKE f \in Kept
  <2>1. CASE todo = << >>
    BY <2>1 DEF FlushedOK, Has
  <2>2. CASE "power" \notin Faults
    BY <1>1, <2>2, FilesDiffer
  <2> QED BY <2>1, <2>2
<1>4. up' = "down" \/ at' = "init" => \A f \in File : Ver(f) = {cache[f]}
  BY <1>1 DEF FlushedOK
<1>5. todo' = s
  BY DEF Begins
<1>6. Staged \in File
  BY FileNames
<1> QED BY <1>2, <1>3, <1>4, <1>5, <1>6 DEF FlushedOK

LEMMA NoneTidy == Tidy(<< >>)
BY DEF Tidy

\* What the calls begin with, at a glance.
LEMMA RecoveryIs ==
  ASSUME DiskOK
  PROVE  \/ ~Exists(Staged) /\ Recovery = << >>
         \/ \E e \in Entered : e = cache[Staged] /\ Owed(e) /\ Recovery = Promote(e)
         \/ \E e \in Entered : e = cache[Staged] /\ ~Owed(e) /\ Recovery = DiscardStaged
<1>1. CASE ~Exists(Staged)
  BY <1>1 DEF Recovery
<1>2. CASE Exists(Staged)
  <2>1. cache[Staged] \in Entered
    BY <1>2, Shown, FileNames DEF Exists
  <2>2. CASE Owed(cache[Staged])
    BY <1>2, <2>1, <2>2 DEF Recovery
  <2>3. CASE ~Owed(cache[Staged])
    BY <1>2, <2>1, <2>3 DEF Recovery
  <2> QED BY <2>2, <2>3
<1> QED BY <1>1, <1>2

LEMMA RecoveryTidy ==
  ASSUME DiskOK, NEW s, s = Recovery
  PROVE  Tidy(s) /\ s \in Seq(Step) /\ Contents(s, HeadFile) = {}
<1>1. CASE s = << >>
  BY <1>1, NoneTidy, ContentsNone
<1>2. CASE \E e \in Entered : s = Promote(e)
  BY <1>2, PromoteDoes, PromoteComing DEF Script
<1>3. CASE s = DiscardStaged
  BY <1>3, DiscardDoes, DiscardComing DEF Script
<1> QED BY <1>1, <1>2, <1>3, RecoveryIs

\* The shapes of a step.
Rests ==
  /\ Begins(<< >>) /\ (todo = << >> \/ "power" \notin Faults)
  /\ up' = "down" => up = "down" \/ "power" \notin Faults
  /\ at' = "init" => up = "down"
Stages ==
  \E e \in Entered :
    /\ Begins(Stage(e)) /\ e[2] = NextSequence
    /\ todo = << >> /\ up' = up /\ up # "down" /\ at' = "stage"
Persists ==
  \E c \in Commits :
    /\ StartNew \/ PersistRepo
    /\ Begins(PersistSave(c)) /\ todo = << >> /\ up' # "down"
    /\ at' \in {"init", "persist"} /\ (at' = "init" => up = "down")
Promotes ==
  \E e \in Entered :
    /\ Begins(Promote(e)) /\ e = cache[Staged] /\ Ver(Staged) = {e} /\ Fresh(e)
    /\ todo = << >> /\ up' = up /\ up # "down" /\ at' = "promote"
Recovers ==
  /\ Begins(Recovery) /\ todo = << >> /\ at = "init" /\ at' = "recover"
  /\ up = "starting" /\ up' = up
Discards ==
  /\ Begins(DiscardStaged) /\ "power" \notin Faults
  /\ up = "serving" /\ up' = up /\ at' = "discard"

LEMMA RestingSteps ==
  ASSUME Base, FaultsApart,
         StartAgain \/ StartRefused \/ RefuseLog \/ Serve \/ Answer \/ DropStaged \/ Crash
  PROVE  Rests
<1>0. CallsOK
  BY DEF Base
<1>1. CASE StartAgain
  <2>1. todo = << >>
    BY <1>0, <1>1 DEF CallsOK, StartAgain
  <2> QED BY <1>1, <2>1 DEF StartAgain, Call, Rests, Begins
<1>2. CASE StartRefused
  <2>1. todo = << >> /\ at = "idle"
    BY <1>0, <1>2 DEF CallsOK, StartRefused
  <2>2. todo' = << >> /\ up' = "refused" /\ at' = "idle" /\ UNCHANGED <<cache, media>>
    BY <1>2, <2>1 DEF StartRefused
  <2> QED BY <2>1, <2>2 DEF Rests, Begins
<1>3. CASE RefuseLog
  BY <1>3 DEF RefuseLog, Call, Rests, Begins
<1>4. CASE Serve
  BY <1>4 DEF Serve, Call, Rests, Begins
<1>5. CASE Answer
  <2>1. /\ todo = << >> /\ todo' = << >> /\ at' \in {"recover", "idle"} /\ up' = up
        /\ at = "promote" /\ UNCHANGED <<cache, media>>
    BY <1>5 DEF Answer, Call
  <2> QED BY <2>1 DEF Rests, Begins
<1>6. CASE DropStaged
  BY <1>6 DEF DropStaged, Call, Rests, Begins
<1>7. CASE Crash
  <2>1. "power" \notin Faults
    BY <1>7 DEF FaultsApart, Crash, Fault
  <2> QED BY <1>7, <2>1 DEF Crash, Die, Call, Rests, Begins
<1> QED BY <1>1, <1>2, <1>3, <1>4, <1>5, <1>6, <1>7

LEMMA StagingSteps ==
  ASSUME Base, EmitGenesis \/ RequestCommit \/ RequestIdentity
  PROVE  Stages
<1>0. CallsOK
  BY DEF Base
<1>1. PICK e \in Entered : Begins(Stage(e)) /\ e[2] = NextSequence
  BY EmitGenesisBase, RequestCommitBase, RequestIdentityBase
<1>2. todo = << >> /\ at' = "stage" /\ up' = up /\ (at = "recover" \/ up = "serving")
  BY <1>0 DEF CallsOK, EmitGenesis, RequestCommit, RequestIdentity, Free, Call
<1>3. up # "down"
  BY <1>0, <1>2 DEF CallsOK
<1> QED BY <1>1, <1>2, <1>3 DEF Stages

LEMMA PersistingSteps ==
  ASSUME Base, StartNew \/ PersistRepo
  PROVE  Persists /\ (StartNew => Begins(PersistSave(Len(prior) + 1)) /\ Len(prior) + 1 \in Commits)
<1>0. CallsOK
  BY DEF Base
<1>1. CASE StartNew
  <2>1. /\ up = "down" /\ up' = "starting" /\ at' = "init" /\ UNCHANGED <<cache, media>>
        /\ todo' = PersistSave(Len(prior) + 1)
    BY <1>1 DEF StartNew, Call
  <2>2. PICK n : n = Len(prior) + 1
    OBVIOUS
  <2>3. n \in Commits
    <3>1. Len(prior) + 1 <= MaxCommits + faults /\ faults \in 0..MaxFaults /\ Len(prior) \in Nat
      BY <1>0, <2>1, HeadNumbers DEF CallsOK
    <3>2. MaxCommits \in Nat /\ MaxFaults \in Nat
      BY BoundsAreNumbers
    <3> QED BY <2>2, <3>1, <3>2 DEF Commits
  <2>4. PICK p : p = PersistSave(n)
    OBVIOUS
  <2>5. p \in Seq(Step)
    BY <2>3, <2>4, PersistComing
  <2>6. Begins(PersistSave(n)) /\ todo = << >>
    BY <1>0, <2>1, <2>2, <2>4, <2>5 DEF Begins, CallsOK
  <2> QED BY <1>1, <2>1, <2>2, <2>3, <2>6 DEF Persists
<1>2. CASE PersistRepo
  <2>1. /\ todo = << >> /\ at = "stage" /\ commit # 0 /\ at' = "persist" /\ up' = up
        /\ UNCHANGED <<cache, media>> /\ todo' = PersistSave(commit)
    BY <1>2 DEF PersistRepo, Call
  <2>2. PICK c : c = commit
    OBVIOUS
  <2>3. c \in Commits
    BY <2>1, <2>2, HeadNumbers
  <2>4. PICK p : p = PersistSave(c)
    OBVIOUS
  <2>5. p \in Seq(Step)
    BY <2>3, <2>4, PersistComing
  <2>6. Begins(PersistSave(c)) /\ up # "down"
    BY <1>0, <2>1, <2>2, <2>4, <2>5 DEF Begins, CallsOK
  <2>7. ~ StartNew
    BY <2>6 DEF StartNew
  <2> QED BY <1>2, <2>1, <2>3, <2>6, <2>7 DEF Persists
<1> QED BY <1>1, <1>2

LEMMA PromotingStep == ASSUME Base, PromoteEntry PROVE Promotes
<1>0. CallsOK
  BY DEF Base
<1>1. /\ todo = << >> /\ at \in {"persist", "stage"} /\ at' = "promote" /\ up' = up
  BY DEF PromoteEntry, Call
<1>2. up # "down"
  BY <1>0, <1>1 DEF CallsOK
<1> QED BY <1>1, <1>2, PromoteFinds DEF Promotes

LEMMA RecoveringStep == ASSUME Base, Recover PROVE Recovers
<1>0. CallsOK /\ DiskOK
  BY DEF Base
<1>1. /\ todo = << >> /\ at = "init" /\ at' = "recover" /\ up' = up /\ UNCHANGED <<cache, media>>
      /\ todo' = Recovery
  BY DEF Recover, Call
<1>2. up = "starting"
  BY <1>0, <1>1 DEF CallsOK
<1>3. Recovery \in Seq(Step)
  BY <1>0, RecoveryTidy
<1> QED BY <1>1, <1>2, <1>3 DEF Recovers, Begins

LEMMA FailingStep == ASSUME Base, FaultsApart, DiskError PROVE Rests \/ Discards
<1>0. CallsOK
  BY DEF Base
<1>1. "power" \notin Faults
  BY DEF FaultsApart, DiskError, Fault
<1>2. UNCHANGED <<cache, media>>
  BY DEF DiskError
<1>3. DiscardStaged \in Seq(Step)
  BY DiscardComing
<1>4. \/ todo' = << >> /\ at' = "idle"
      \/ (up = "serving" /\ at' = "discard" /\ todo' = DiscardStaged /\ up' = up)
  BY <1>0, DiskErrorDoes
<1> QED BY <1>1, <1>2, <1>3, <1>4 DEF Rests, Discards, Begins

LEMMA Turns ==
  ASSUME Base, FaultsApart, [Next]_vars
  PROVE  Work \/ Rests \/ Stages \/ Persists \/ Promotes \/ Recovers \/ Discards
           \/ PowerLoss \/ Quiet
<1>0. CallsOK
  BY DEF Base
<1>1. CASE StartAgain \/ StartRefused \/ RefuseLog \/ Serve \/ Answer \/ DropStaged \/ Crash
  BY <1>1, RestingSteps
<1>2. CASE EmitGenesis \/ RequestCommit \/ RequestIdentity
  BY <1>2, StagingSteps
<1>3. CASE StartNew \/ PersistRepo
  BY <1>3, PersistingSteps
<1>4. CASE PromoteEntry
  BY <1>4, PromotingStep
<1>5. CASE Recover
  BY <1>5, RecoveringStep
<1>6. CASE DiskError
  BY <1>6, FailingStep
<1>7. CASE (\E r \in Relay : Subscriber(r)) \/ Tick \/ ClockStepsBack
  BY <1>0, <1>7, QuietSteps
<1>8. CASE FileDamaged
  BY <1>8 DEF FaultsApart, FileDamaged, Fault
<1>9. CASE UNCHANGED vars
  <2>1. /\ UNCHANGED <<cache, media, prior, up, at, todo, commit, store, acked>>
        /\ UNCHANGED <<faults, relay, clock>>
    BY <1>9 DEF vars
  <2> QED BY <1>0, <2>1 DEF CallsOK, Quiet
<1> QED BY <1>1, <1>2, <1>3, <1>4, <1>5, <1>6, <1>7, <1>8, <1>9
        DEF Next, Process, Operator, Client, Environment

LEMMA FlushedKept ==
  ASSUME Base, FaultsApart, FlushedOK, [Next]_vars
  PROVE  FlushedOK'
<1>0. DiskOK /\ CallsOK
  BY DEF Base
<1>1. CASE Work
  BY <1>1, WorkFlushes
<1>2. CASE Rests
  <2>1. Begins(<< >>) /\ Tidy(<< >>) /\ Contents(<< >>, Staged) = {}
    BY <1>2, NoneTidy, ContentsNone DEF Rests
  <2> QED BY <1>2, <2>1, BeginsFlushed DEF Rests
<1>3. CASE Stages
  <2>1. PICK e \in Entered : Begins(Stage(e))
    BY <1>3 DEF Stages
  <2>2. PICK s : s = Stage(e)
    OBVIOUS
  <2>3. Begins(s) /\ Tidy(s)
    BY <2>1, <2>2, StageDoes DEF Script
  <2> QED BY <1>3, <2>3, BeginsFlushed DEF Stages
<1>4. CASE Persists
  <2>1. PICK c \in Commits : Begins(PersistSave(c))
    BY <1>4 DEF Persists
  <2>2. PICK s : s = PersistSave(c)
    OBVIOUS
  <2>3. Begins(s) /\ Tidy(s) /\ Contents(s, Staged) = {}
    BY <2>1, <2>2, PersistSaveDoes, PersistComing DEF Script
  <2> QED BY <1>4, <2>3, BeginsFlushed DEF Persists
<1>5. CASE Promotes
  <2>1. PICK e \in Entered : Begins(Promote(e))
    BY <1>5 DEF Promotes
  <2>2. PICK s : s = Promote(e)
    OBVIOUS
  <2>3. Begins(s) /\ Tidy(s)
    BY <1>0, <2>1, <2>2, PromoteDoes DEF Script
  <2> QED BY <1>5, <2>3, BeginsFlushed DEF Promotes
<1>6. CASE Recovers
  <2>1. PICK s : s = Recovery
    OBVIOUS
  <2>2. Begins(s) /\ Tidy(s)
    BY <1>0, <1>6, <2>1, RecoveryTidy DEF Recovers
  <2> QED BY <1>6, <2>2, BeginsFlushed DEF Recovers
<1>7. CASE Discards
  <2>1. PICK s : s = DiscardStaged
    OBVIOUS
  <2>2. Begins(s) /\ Tidy(s)
    BY <1>7, <2>1, DiscardDoes DEF Discards, Script
  <2> QED BY <1>7, <2>2, BeginsFlushed DEF Discards
<1>8. CASE PowerLoss
  <2>1. at' = "idle" /\ todo' = << >> /\ \A f \in File : Ver(f)' = {cache'[f]}
    BY <1>0, <1>8, PowerLossDoes DEF Die, Call
  <2>2. \A f \in Kept : f \in File
    BY FilesDiffer
  <2> QED BY <2>1, <2>2, NoneTidy DEF FlushedOK
<1>9. CASE Quiet
  <2>1. UNCHANGED <<cache, media, up, at, todo>>
    BY <1>9 DEF Quiet
  <2>2. \A f : Ver(f)' = Ver(f) /\ Coming(f)' = Coming(f)
    BY <2>1 DEF Ver, Coming
  <2> QED BY <2>1, <2>2 DEF FlushedOK, Tidy, Has
<1> QED BY <1>1, <1>2, <1>3, <1>4, <1>5, <1>6, <1>7, <1>8, <1>9, Turns

-----------------------------------------------------------------------------
(* The head's graph *)

LEMMA ComingIs ==
  ASSUME DiskOK, NEW f \in File
  PROVE  Coming(f) \subseteq Puttable(f)
<1> SUFFICES ASSUME NEW v \in Coming(f) PROVE v \in Puttable(f)
  OBVIOUS
<1>1. todo \in Seq(Step)
  BY DEF DiskOK
<1>2. Has(todo, Put(f, v))
  BY <1>1, ContentsAre DEF Coming
<1>3. Put(f, v) \in Step
  BY <1>1, <1>2, ElementOfSeq DEF Has
<1> QED BY <1>3, StepFacts

LEMMA NeededFiles ==
  ASSUME Base, NEW c \in 0..Len(prior), NEW f \in Needed(c)
  PROVE  f \in File /\ Puttable(f) = {Good(f)}
<1>1. ChainOf(prior, c) \subseteq Commits
  <2>1. Falls(prior) /\ ChainOf(prior, c) \subseteq 1..c /\ Len(prior) \in Nat
    BY HeadNumbers, ChainBelow
  <2>2. \A b \in 1..c : b \in 1..Len(prior)
    BY <2>1
  <2> QED BY <2>1, <2>2, HeadNumbers
<1>2. CASE f = BlocksDir
  BY <1>2, FileNames, PutsAre DEF Good
<1>3. CASE f # BlocksDir
  <2>1. PICK b \in Commits, i \in 1..BlocksPerCommit : f = Block(b, i) \/ f = Home(Block(b, i))
    BY <1>1, <1>3 DEF Needed
  <2>2. Block(b, i) \in File /\ Block(b, i) \notin Folders /\ Puttable(Block(b, i)) = {Bytes}
        /\ Home(Block(b, i)) \in Folders
    BY BlockNames
  <2>3. \A d \in Folders : d \in File /\ Puttable(d) = {Folder}
    BY PutsAre DEF Folders
  <2> QED BY <2>1, <2>2, <2>3 DEF Good
<1> QED BY <1>2, <1>3

LEMMA SafeMoves ==
  ASSUME Base, NEW x, Moved(x), prior' = prior, NEW c \in 0..Len(prior), Safe(c)
  PROVE  Safe(c)'
<1>0. DiskOK
  BY DEF Base
<1>1. SUFFICES ASSUME NEW f \in Needed(c) PROVE Ver(f)' = {Good(f)}
  BY DEF Safe, Needed
<1>2. f \in File /\ Coming(f) \subseteq {Good(f)} /\ Ver(f) = {Good(f)}
  BY <1>0, <1>1, NeededFiles, ComingIs DEF Safe
<1>3. (\A v \in Ver(f)' : v \in Ver(f) \/ v \in Coming(f)) /\ cache'[f] \in Ver(f)'
  BY <1>0, <1>2, MovedVer
<1>4. \A v \in Ver(f)' : v = Good(f)
  BY <1>2, <1>3
<1> QED BY <1>3, <1>4

LEMMA WorkWhole == ASSUME Base, WholeOK, Work PROVE WholeOK'
<1>0. DiskOK /\ CallsOK /\ HeadsOK
  BY DEF Base
<1>1. PICK x : Moved(x)
  BY <1>0, WorkMoves
<1>2. UNCHANGED <<up, at, prior, store>>
  BY DEF Work
<1>3. /\ Len(todo) \in Nat /\ Len(todo') = Len(todo) - 1 /\ todo[1] = x /\ 1 \in 1..Len(todo)
      /\ \A k \in 1..Len(todo') : k + 1 \in 1..Len(todo) /\ todo'[k] = todo[k + 1]
  BY <1>1 DEF Moved
<1>4. HeadFile \in File
  BY FileNames
\* A commit about to be made the head is one of the commits.
<1>5. \A k \in 1..Len(todo) : todo[k].op = "put" /\ todo[k].file = HeadFile =>
        todo[k].content[2] \in 0..Len(prior) /\ todo[k].content \in Coming(HeadFile)
  <2> SUFFICES ASSUME NEW k \in 1..Len(todo), todo[k].op = "put" /\ todo[k].file = HeadFile
               PROVE  todo[k].content[2] \in 0..Len(prior) /\ todo[k].content \in Coming(HeadFile)
    OBVIOUS
  <2>1. PICK v : v = todo[k].content
    OBVIOUS
  <2>2. v \in Coming(HeadFile)
    BY <2>1 DEF Coming, Contents
  <2>3. v[2] <= Len(prior)
    BY <1>0, <2>2 DEF HeadsOK
  <2>4. v[2] \in Nat
    BY <1>0, <2>2, Shown, NumFacts
  <2> QED BY <2>1, <2>2, <2>3, <2>4, HeadNumbers
<1>6. \A v \in Ver(HeadFile)' : v # Nothing => Safe(v[2])'
  <2> SUFFICES ASSUME NEW v \in Ver(HeadFile)', v # Nothing PROVE Safe(v[2])'
    OBVIOUS
  <2>1. CASE v \in Ver(HeadFile)
    <3>1. PICK c : c = v[2]
      OBVIOUS
    <3>2. c \in 0..Len(prior)
      BY <1>0, <2>1, <3>1, HeadNumbers DEF Num
    <3>3. Safe(c)
      BY <2>1, <3>1 DEF WholeOK
    <3>4. Safe(c)'
      BY <1>1, <1>2, <3>2, <3>3, SafeMoves
    <3> QED BY <3>1, <3>4
  <2>2. CASE v \notin Ver(HeadFile)
    <3>1. x = Put(HeadFile, v)
      BY <1>0, <1>1, <1>4, <2>2, MovedVer
    <3>2. todo[1].op = "put" /\ todo[1].file = HeadFile /\ todo[1].content = v
      BY <1>3, <3>1, StepFacts
    <3>3. PICK c : c = v[2]
      OBVIOUS
    <3>4. c \in 0..Len(prior)
      BY <1>3, <1>5, <3>2, <3>3
    <3>5. \A f \in Needed(c) : Lands(1, f, Good(f))
      BY <1>3, <3>2, <3>3 DEF WholeOK
    <3>6. \A f \in Needed(c) : Ver(f) = {Good(f)}
      BY <3>5 DEF Lands
    <3>7. Safe(c)
      BY <3>6 DEF Safe
    <3>8. Safe(c)'
      BY <1>1, <1>2, <3>4, <3>7, SafeMoves
    <3> QED BY <3>3, <3>8
  <2> QED BY <2>1, <2>2
<1>7. (InMemory /\ store # 0 => Safe(store))'
  <2> SUFFICES ASSUME InMemory, store # 0 PROVE Safe(store)'
    BY <1>2 DEF InMemory
  <2>1. Safe(store) /\ store \in 0..Len(prior)
    BY HeadNumbers DEF WholeOK
  <2>2. PICK c : c = store
    OBVIOUS
  <2>3. Safe(c)' /\ c = store'
    BY <1>1, <1>2, <2>1, <2>2, SafeMoves
  <2> QED BY <2>3
<1>8. (\A k \in 1..Len(todo) : todo[k].op = "put" /\ todo[k].file = HeadFile =>
         \A f \in Needed(todo[k].content[2]) : Lands(k, f, Good(f)))'
  <2> SUFFICES ASSUME NEW k \in 1..Len(todo'), todo'[k].op = "put", todo'[k].file = HeadFile,
                      NEW c, c = todo'[k].content[2], NEW f \in Needed(c)
               PROVE  Lands(k, f, Good(f))'
    BY <1>2 DEF Needed
  <2>1. k + 1 \in 1..Len(todo) /\ todo[k + 1] = todo'[k]
    BY <1>3
  <2>2. PICK m : m = k + 1
    OBVIOUS
  <2>3. c \in 0..Len(prior) /\ Lands(m, f, Good(f))
    BY <1>5, <2>1, <2>2 DEF WholeOK
  <2>4. f \in File /\ Coming(f) \subseteq {Good(f)}
    BY <1>0, <2>3, NeededFiles, ComingIs
  <2>5. m \in Int /\ m - 1 = k
    BY <2>2
  <2>6. PICK g : g = Good(f)
    OBVIOUS
  <2>7. Lands(m - 1, f, g)'
    BY <1>0, <1>1, <2>3, <2>4, <2>5, <2>6, LandsMove
  <2> QED BY <2>5, <2>6, <2>7
<1> QED BY <1>6, <1>7, <1>8 DEF WholeOK

LEMMA PriorSteps ==
  ASSUME Base, [Next]_vars
  PROVE  /\ prior' = prior \/ StartNew \/ RequestCommit
         /\ \A c \in 0..Len(prior) : ChainOf(prior', c) = ChainOf(prior, c)
<1>1. prior' = prior \/ StartNew \/ RequestCommit
  BY DEF Next, Process, Operator, Client, Environment, Subscriber, Work, Recover, RefuseLog,
         EmitGenesis, Serve, PersistRepo, PromoteEntry, Answer, DropStaged, StartAgain,
         StartRefused, RequestIdentity, Subscribe, SubscribeLive, Send, PollLog, Leave,
         DiskError, Crash, PowerLoss, Die, FileDamaged, Tick, ClockStepsBack, vars
<1>2. PICK q : q = prior'
  OBVIOUS
<1>3. Falls(prior) /\ store \in 0..Len(prior) /\ 0 \in 0..Len(prior)
  BY HeadNumbers
<1>4. q = prior \/ q = Append(prior, 0) \/ q = Append(prior, store)
  BY <1>1, <1>2 DEF StartNew, RequestCommit
<1>5. \A c \in 0..Len(prior) : ChainOf(q, c) = ChainOf(prior, c)
  BY <1>3, <1>4, ChainGrows
<1> QED BY <1>1, <1>2, <1>5

LEMMA StoreSteps ==
  ASSUME Base, [Next]_vars, InMemory'
  PROVE  \/ InMemory /\ store' = store
         \/ Recover
         \/ Answer /\ commit # 0 /\ store' = commit
<1>0. CallsOK
  BY DEF Base
<1>1. CASE Work
  BY <1>1 DEF Work, InMemory
<1>2. CASE Recover
  BY <1>2
<1>3. CASE RefuseLog \/ StartNew \/ StartAgain \/ StartRefused \/ Crash \/ PowerLoss
  <2>1. up' \in {"refused", "down"} \/ (up' = "starting" /\ at' = "init")
    BY <1>3 DEF RefuseLog, StartNew, StartAgain, StartRefused, Crash, PowerLoss, Die, Call
  <2> QED BY <2>1 DEF InMemory
<1>4. CASE EmitGenesis \/ Serve
  <2>1. store' = store /\ at = "recover"
    BY <1>4 DEF EmitGenesis, Serve, Call
  <2> QED BY <1>0, <2>1 DEF CallsOK, InMemory
<1>5. CASE RequestCommit \/ RequestIdentity
  BY <1>5 DEF RequestCommit, RequestIdentity, Free, InMemory
<1>6. CASE PersistRepo \/ PromoteEntry \/ DropStaged
  <2>1. store' = store /\ at \in {"stage", "persist", "discard"}
    BY <1>6 DEF PersistRepo, PromoteEntry, DropStaged, Call
  <2> QED BY <1>0, <2>1 DEF CallsOK, InMemory
<1>7. CASE Answer
  <2>1. at = "promote" /\ (store' = store \/ (commit # 0 /\ store' = commit))
    BY <1>7 DEF Answer
  <2> QED BY <1>0, <1>7, <2>1 DEF CallsOK, InMemory
<1>8. CASE DiskError
  <2>1. store' = store /\ (up = "serving" \/ up' = "down")
    BY <1>0, <1>8, DiskErrorDoes
  <2> QED BY <2>1 DEF InMemory
<1>9. CASE FileDamaged \/ UNCHANGED vars
  BY <1>9 DEF FileDamaged, vars, InMemory
<1>10. CASE (\E r \in Relay : Subscriber(r)) \/ Tick \/ ClockStepsBack
  BY <1>0, <1>10, QuietSteps DEF Quiet, InMemory
<1> QED BY <1>1, <1>2, <1>3, <1>4, <1>5, <1>6, <1>7, <1>8, <1>9, <1>10
        DEF Next, Process, Operator, Client, Environment

\* Whatever the head in memory becomes, its graph is there.
LEMMA StoreSafe ==
  ASSUME Base, WholeOK, [Next]_vars, InMemory', NEW t, t = store', t # 0
  PROVE  t \in 0..Len(prior) /\ Safe(t)
<1>0. DiskOK /\ HeadsOK /\ HeadFile \in File
  BY FileNames DEF Base
<1>1. CASE InMemory /\ store' = store
  BY <1>1, HeadNumbers DEF WholeOK
<1>2. CASE Recover
  <2>1. PICK v : v = cache[HeadFile]
    OBVIOUS
  <2>2. t = Num(v) /\ v \in Ver(HeadFile)
    BY <1>0, <1>2, <2>1, DiskHeadIs, Shown DEF Recover
  <2>3. v # Nothing /\ t = v[2]
    BY <2>2 DEF Num
  <2> QED BY <2>2, <2>3, HeadNumbers DEF WholeOK
<1>3. CASE Answer /\ commit # 0 /\ store' = commit
  <2>1. at = "promote"
    BY <1>3 DEF Answer
  <2>2. PICK c \in 1..Len(prior) : c = commit
    BY <1>3, HeadNumbers
  <2>3. Ver(HeadFile) = {Cid(c)} /\ c \in Commits
    BY <1>0, <1>3, <2>1, <2>2, HeadNumbers DEF HeadsOK
  <2>4. Cid(c) # Nothing /\ Cid(c)[2] = c
    BY <2>3, NumFacts
  <2>5. Safe(c)
    BY <2>3, <2>4 DEF WholeOK
  <2> QED BY <1>3, <2>2, <2>5
<1> QED BY <1>1, <1>2, <1>3, StoreSteps

\* A call that begins, with what it will make the head.
LEMMA BeginsWhole ==
  ASSUME Base, WholeOK, [Next]_vars, NEW s, Begins(s),
         \A k \in 1..Len(s) : s[k].op = "put" /\ s[k].file = HeadFile =>
           \A f \in Needed(s[k].content[2])' : Lands(k, f, Good(f))'
  PROVE  WholeOK'
<1>1. \A f : Ver(f)' = Ver(f)
  BY BeginsFacts DEF Base
<1>2. \A c \in 0..Len(prior) : ChainOf(prior', c) = ChainOf(prior, c)
  BY PriorSteps
<1>3. \A c \in 0..Len(prior) : Safe(c) => Safe(c)'
  BY <1>1, <1>2 DEF Safe, Needed
<1>4. \A v \in Ver(HeadFile)' : v # Nothing => Safe(v[2])'
  <2> SUFFICES ASSUME NEW v \in Ver(HeadFile), v # Nothing PROVE Safe(v[2])'
    BY <1>1
  <2>1. PICK c : c = v[2]
    OBVIOUS
  <2>2. c \in 0..Len(prior) /\ Safe(c)
    BY <2>1, HeadNumbers DEF Num, WholeOK
  <2> QED BY <1>3, <2>1, <2>2
<1>5. (InMemory /\ store # 0 => Safe(store))'
  <2> SUFFICES ASSUME InMemory', NEW t, t = store', t # 0 PROVE Safe(t)'
    OBVIOUS
  <2> QED BY <1>3, StoreSafe
<1>6. todo' = s
  BY DEF Begins
<1> QED BY <1>4, <1>5, <1>6 DEF WholeOK

LEMMA BeginsElsewhere ==
  ASSUME Base, WholeOK, [Next]_vars, NEW s, Begins(s), Contents(s, HeadFile) = {}
  PROVE  WholeOK'
<1>1. \A k \in 1..Len(s) : ~ (s[k].op = "put" /\ s[k].file = HeadFile)
  BY DEF Contents
<1> QED BY <1>1, BeginsWhole

\* persistSave flushes a commit's blocks, and the directories they are in,
\* before it moves the head.
LEMMA PersistLands ==
  ASSUME Base, FlushedOK, todo = << >>, NEW c \in Commits, NEW p, p = PersistSave(c), Begins(p),
         NEW k \in 1..Len(p), p[k] = Put(HeadFile, Cid(c)), NEW i \in 1..BlocksPerCommit
  PROVE  /\ Lands(k, BlocksDir, Folder)'
         /\ Lands(k, Block(c, i), Bytes)'
         /\ Lands(k, Home(Block(c, i)), Folder)'
<1>0. DiskOK
  BY DEF Base
<1>1. \A d \in Folders : Exists(d) => Ver(d) = {Folder}
  <2> SUFFICES ASSUME NEW d \in Folders, Exists(d) PROVE Ver(d) = {Folder}
    OBVIOUS
  <2>1. Ver(d) = {cache[d]}
    BY DEF FlushedOK, Has, Kept
  <2>2. d \in File /\ cache[d] \in {Nothing, Folder}
    BY <1>0, PutsAre DEF DiskOK, Folders
  <2> QED BY <2>1, <2>2 DEF Exists
<1>2. k \in Int
  OBVIOUS
<1>3. PICK h : h = Home(Block(c, i))
  OBVIOUS
<1>4. h \in Folders /\ Home(h) = BlocksDir /\ BlocksDir \in Folders /\ Home(BlocksDir) = Root
  BY <1>3, BlockNames, FileNames
<1>5. /\ Exists(BlocksDir) \/ Behind(p, k, Put(BlocksDir, Folder), Sync(Root))
      /\ Behind(p, k, Put(Block(c, i), Bytes), Sync(h))
      /\ Exists(h) \/ Behind(p, k, Put(h, Folder), Sync(BlocksDir))
  BY <1>3, PersistSaveDoes
<1>6. Lands(k, BlocksDir, Folder)'
  <2>1. CASE Exists(BlocksDir)
    BY <1>1, <1>2, <1>4, <2>1, BeginsLands
  <2>2. CASE Behind(p, k, Put(BlocksDir, Folder), Sync(Root))
    BY <1>2, <1>4, <2>2, BeginsLands
  <2> QED BY <1>5, <2>1, <2>2
<1>7. Lands(k, Block(c, i), Bytes)'
  <2>1. PICK b : b = Block(c, i)
    OBVIOUS
  <2>2. Lands(k, b, Bytes)'
    BY <1>2, <1>3, <1>5, <2>1, BeginsLands
  <2> QED BY <2>1, <2>2
<1>8. Lands(k, h, Folder)'
  <2>1. CASE Exists(h)
    BY <1>1, <1>2, <1>4, <2>1, BeginsLands
  <2>2. CASE Behind(p, k, Put(h, Folder), Sync(BlocksDir))
    BY <1>2, <1>4, <2>2, BeginsLands
  <2> QED BY <1>5, <2>1, <2>2
<1> QED BY <1>3, <1>6, <1>7, <1>8

\* The graph of a commit made on top of a whole one, or of nothing.
LEMMA PersistWhole ==
  ASSUME Base, WholeOK, FlushedOK, [Next]_vars, todo = << >>,
         NEW c \in Commits, NEW p, p = PersistSave(c), Begins(p),
         NEW below \in 0..Len(prior), below = 0 \/ Safe(below),
         ChainOf(prior', c) = {c} \cup ChainOf(prior, below)
  PROVE  WholeOK'
<1>1. Contents(p, HeadFile) \subseteq {Cid(c)} /\ p \in Seq(Step)
  BY PersistComing
<1>2. Cid(c)[2] = c
  BY NumFacts
<1>3. ASSUME NEW k \in 1..Len(p), p[k].op = "put", p[k].file = HeadFile,
             NEW f \in Needed(c)'
      PROVE  Lands(k, f, Good(f))'
  <2>1. p[k] \in Step /\ p[k].content \in Contents(p, HeadFile)
    BY <1>1, <1>3, ElementOfSeq DEF Contents
  <2>2. p[k] = Put(HeadFile, Cid(c))
    BY <1>1, <1>3, <2>1, StepFacts
  <2>3. 1 \in 1..BlocksPerCommit
    BY BoundsAreNumbers
  <2>4. Good(BlocksDir) = Folder
    BY FileNames DEF Good
  <2>5. CASE f = BlocksDir
    BY <2>2, <2>3, <2>4, <2>5, PersistLands
  <2>6. CASE f # BlocksDir
    <3>1. PICK b \in ChainOf(prior', c), i \in 1..BlocksPerCommit :
            f = Block(b, i) \/ f = Home(Block(b, i))
      BY <1>3, <2>6 DEF Needed
    <3>2. CASE b = c
      <4>1. /\ Good(Block(c, i)) = Bytes
            /\ Good(Home(Block(c, i))) = Folder
        BY BlockNames DEF Good
      <4> QED BY <2>2, <3>1, <3>2, <4>1, PersistLands
    <3>3. CASE b # c
      <4>1. b \in ChainOf(prior, below)
        BY <3>1, <3>3
      <4>2. below # 0
        BY <4>1, HeadNumbers, ChainUnfolds
      <4>3. f \in Needed(below)
        BY <3>1, <4>1 DEF Needed
      <4>4. Ver(f) = {Good(f)}
        BY <4>2, <4>3 DEF Safe
      <4>5. PICK g : g = Good(f)
        OBVIOUS
      <4>6. k \in Int
        OBVIOUS
      <4>7. Lands(k, f, g)'
        BY <4>4, <4>5, <4>6, BeginsLands
      <4> QED BY <4>5, <4>7
    <3> QED BY <3>2, <3>3
  <2> QED BY <2>5, <2>6
<1>4. \A k \in 1..Len(p) : p[k].op = "put" /\ p[k].file = HeadFile =>
        \A f \in Needed(p[k].content[2])' : Lands(k, f, Good(f))'
  <2> SUFFICES ASSUME NEW k \in 1..Len(p), p[k].op = "put", p[k].file = HeadFile,
                      NEW f \in Needed(p[k].content[2])'
               PROVE  Lands(k, f, Good(f))'
    OBVIOUS
  <2>1. p[k].content \in Contents(p, HeadFile)
    BY DEF Contents
  <2>2. p[k].content[2] = c
    BY <1>1, <1>2, <2>1
  <2> QED BY <1>3, <2>2
<1> QED BY <1>4, BeginsWhole

LEMMA StartNewWhole == ASSUME Base, WholeOK, FlushedOK, StartNew, [Next]_vars PROVE WholeOK'
<1>0. CallsOK
  BY DEF Base
<1>1. PICK n : n = Len(prior) + 1
  OBVIOUS
<1>2. Begins(PersistSave(n)) /\ n \in Commits /\ todo = << >>
  BY <1>1, PersistingSteps DEF Persists
<1>3. PICK p : p = PersistSave(n)
  OBVIOUS
<1>4. PICK q : q = prior'
  OBVIOUS
<1>5. q = Append(prior, 0) /\ Falls(prior) /\ 0 \in 0..Len(prior) /\ Len(prior) \in Nat
  BY <1>4, HeadNumbers DEF StartNew
<1>6. Falls(q) /\ n \in 1..Len(q) /\ q[n] = 0
  <2>1. PICK x \in 0..Len(prior) : x = 0
    BY <1>5
  <2>2. Falls(q) /\ Len(q) = Len(prior) + 1 /\ q[Len(prior) + 1] = 0
    BY <1>5, <2>1, ChainGrows
  <2> QED BY <1>1, <1>5, <2>2
<1>7. ChainOf(q, n) = {n} \cup ChainOf(q, 0) /\ ChainOf(q, 0) = {} /\ ChainOf(prior, 0) = {}
  <2>1. ChainOf(prior, 0) = {}
    BY <1>5, ChainUnfolds
  <2>2. ChainOf(q, 0) = {} /\ ChainOf(q, n) = {n} \cup ChainOf(q, q[n])
    BY <1>6, ChainUnfolds
  <2> QED BY <1>6, <2>1, <2>2
<1>8. PICK below \in 0..Len(prior) : below = 0
  BY <1>5
<1>9. ChainOf(prior', n) = {n} \cup ChainOf(prior, below)
  BY <1>4, <1>7, <1>8
<1>10. Begins(p) /\ n \in Commits /\ todo = << >>
  BY <1>2, <1>3
<1> QED BY <1>3, <1>8, <1>9, <1>10, PersistWhole

LEMMA PersistRepoWhole == ASSUME Base, WholeOK, FlushedOK, PersistRepo, [Next]_vars PROVE WholeOK'
<1>0. CallsOK
  BY DEF Base
<1>1. PICK c : c = commit
  OBVIOUS
<1>2. /\ commit # 0 /\ at = "stage" /\ todo = << >> /\ prior' = prior
      /\ UNCHANGED <<cache, media>> /\ todo' = PersistSave(c)
  BY <1>1 DEF PersistRepo, Call
<1>3. c \in 1..Len(prior) /\ c \in Commits /\ Falls(prior) /\ store \in 0..Len(prior)
  BY <1>1, <1>2, HeadNumbers
<1>4. prior[c] = store /\ InMemory
  BY <1>0, <1>1, <1>2 DEF CallsOK, InMemory
<1>5. ChainOf(prior, c) = {c} \cup ChainOf(prior, store)
  BY <1>3, <1>4, ChainUnfolds
<1>6. PICK b : b = store
  OBVIOUS
<1>7. b \in 0..Len(prior) /\ (b = 0 \/ Safe(b))
  BY <1>3, <1>4, <1>6 DEF WholeOK
<1>8. PICK p : p = PersistSave(c)
  OBVIOUS
<1>9. p \in Seq(Step)
  BY <1>3, <1>8, PersistComing
<1>10. Begins(p)
  BY <1>2, <1>8, <1>9 DEF Begins
<1> QED BY <1>2, <1>3, <1>5, <1>6, <1>7, <1>8, <1>10, PersistWhole

LEMMA PowerLossWhole == ASSUME Base, WholeOK, PowerLoss PROVE WholeOK'
<1>0. DiskOK
  BY DEF Base
<1>1. /\ up' = "down" /\ todo' = << >> /\ prior' = prior
      /\ \A f \in File : Ver(f)' = {cache'[f]}
  BY <1>0, PowerLossDoes DEF Die, Call
<1>2. PICK kept : Left(kept)
  BY <1>0, PowerLossDoes
<1>3. \A f \in File : /\ kept[f] \in Ver(f)
                      /\ cache'[f] = IF \A d \in {Home(f), Home(Home(f))} : kept[d] # Nothing
                                       THEN kept[f] ELSE Nothing
  BY <1>2 DEF Left
<1>4. kept[Root] # Nothing
  <2>1. Ver(Root) \subseteq Holds(Root)
    BY <1>0, FileNames DEF DiskOK, Ver
  <2> QED BY <1>3, <2>1, FileNames, PutsAre DEF Folder, Nothing
<1>5. cache'[HeadFile] = kept[HeadFile]
  BY <1>3, <1>4, FileNames
<1>6. ASSUME NEW v \in Ver(HeadFile)', v # Nothing PROVE Safe(v[2])'
  <2>1. v \in Ver(HeadFile)
    BY <1>1, <1>3, <1>5, <1>6, FileNames
  <2>2. PICK c : c = v[2]
    OBVIOUS
  <2>3. c \in 0..Len(prior) /\ Safe(c)
    BY <1>6, <2>1, <2>2, HeadNumbers DEF Num, WholeOK
  <2>4. \A f \in Needed(c) : f \in File /\ kept[f] = Good(f)
    BY <1>3, <2>3, NeededFiles DEF Safe
  <2>5. Folder # Nothing
    BY DEF Folder, Nothing
  <2>6. BlocksDir \in Needed(c) /\ kept[BlocksDir] # Nothing
    <3>1. BlocksDir \in Needed(c) /\ Good(BlocksDir) = Folder
      BY FileNames DEF Good, Needed
    <3> QED BY <2>4, <2>5, <3>1
  <2>7. \A f \in Needed(c) : kept[Home(f)] # Nothing /\ kept[Home(Home(f))] # Nothing
    <3> SUFFICES ASSUME NEW f \in Needed(c)
                 PROVE  kept[Home(f)] # Nothing /\ kept[Home(Home(f))] # Nothing
      OBVIOUS
    <3>1. CASE f = BlocksDir
      BY <1>4, <3>1, FileNames
    <3>2. CASE f # BlocksDir
      <4>1. PICK b \in ChainOf(prior, c), i \in 1..BlocksPerCommit :
              f = Block(b, i) \/ f = Home(Block(b, i))
        BY <3>2 DEF Needed
      <4>2. b \in Commits
        <5>1. Falls(prior) /\ b \in 1..c /\ Len(prior) \in Nat
          BY <2>3, <4>1, HeadNumbers, ChainBelow
        <5>2. b \in 1..Len(prior)
          BY <2>3, <5>1
        <5> QED BY <5>2, HeadNumbers
      <4>3. PICK h : h = Home(Block(b, i))
        OBVIOUS
      <4>4. h \in Needed(c)
        BY <4>1, <4>2, <4>3, BlockNames DEF Needed, Folders
      <4>5. h \in Folders /\ Home(h) = BlocksDir /\ Home(BlocksDir) = Root
        BY <4>2, <4>3, BlockNames, FileNames
      <4>6. kept[h] # Nothing
        BY <2>4, <2>5, <4>4, <4>5 DEF Good
      <4> QED BY <1>4, <2>6, <4>1, <4>3, <4>5, <4>6
    <3> QED BY <3>1, <3>2
  <2>8. \A f \in Needed(c) : Ver(f)' = {Good(f)}
    BY <1>1, <1>3, <2>4, <2>7
  <2>9. Safe(c)'
    BY <1>1, <2>8 DEF Safe, Needed
  <2> QED BY <2>2, <2>9
<1>7. ~InMemory' /\ Len(todo') = 0
  BY <1>1 DEF InMemory
<1> QED BY <1>1, <1>6, <1>7 DEF WholeOK

LEMMA WholeKept ==
  ASSUME Base, FaultsApart, FlushedOK, WholeOK, [Next]_vars
  PROVE  WholeOK'
<1>0. DiskOK /\ CallsOK
  BY DEF Base
<1>1. CASE Work
  BY <1>1, WorkWhole
<1>2. CASE Rests
  BY <1>2, BeginsElsewhere, ContentsNone DEF Rests
<1>3. CASE Stages
  <2>1. PICK e \in Entered : Begins(Stage(e))
    BY <1>3 DEF Stages
  <2>2. PICK s : s = Stage(e)
    OBVIOUS
  <2>3. Begins(s) /\ Contents(s, HeadFile) = {}
    BY <2>1, <2>2, StageComing
  <2> QED BY <2>3, BeginsElsewhere
<1>4. CASE Promotes
  <2>1. PICK e \in Entered : Begins(Promote(e))
    BY <1>4 DEF Promotes
  <2>2. PICK s : s = Promote(e)
    OBVIOUS
  <2>3. Begins(s) /\ Contents(s, HeadFile) = {}
    BY <1>0, <2>1, <2>2, PromoteComing
  <2> QED BY <2>3, BeginsElsewhere
<1>5. CASE Recovers
  <2>1. PICK s : s = Recovery
    OBVIOUS
  <2>2. Begins(s) /\ Contents(s, HeadFile) = {}
    BY <1>0, <1>5, <2>1, RecoveryTidy DEF Recovers
  <2> QED BY <2>2, BeginsElsewhere
<1>6. CASE Discards
  <2>1. PICK s : s = DiscardStaged
    OBVIOUS
  <2>2. Begins(s) /\ Contents(s, HeadFile) = {}
    BY <1>6, <2>1, DiscardComing DEF Discards
  <2> QED BY <2>2, BeginsElsewhere
<1>7. CASE PowerLoss
  BY <1>7, PowerLossWhole
<1>8. CASE Quiet
  <2>1. UNCHANGED <<cache, media, up, at, todo, prior, store>>
    BY <1>8 DEF Quiet
  <2>2. \A f : Ver(f)' = Ver(f)
    BY <2>1 DEF Ver
  <2> QED BY <2>1, <2>2 DEF WholeOK, Safe, Needed, Lands, InMemory
<1>9. CASE Persists
  <2>1. CASE StartNew
    BY <2>1, StartNewWhole
  <2>2. CASE PersistRepo
    BY <2>2, PersistRepoWhole
  <2> QED BY <1>9, <2>1, <2>2 DEF Persists
<1> QED BY <1>1, <1>2, <1>3, <1>4, <1>5, <1>6, <1>7, <1>8, <1>9, Turns

-----------------------------------------------------------------------------
(* The log's order *)

LEMMA WorkOrder == ASSUME Base, OrderOK, Work PROVE OrderOK'
<1>0. DiskOK /\ CallsOK /\ StagedOK
  BY DEF Base
<1>1. PICK x : Moved(x)
  BY <1>0, WorkMoves
<1>2. at' = at
  BY DEF Work
<1>3. /\ Len(todo) \in Nat /\ Len(todo') = Len(todo) - 1 /\ todo[1] = x /\ 1 \in 1..Len(todo)
      /\ \A k \in 1..Len(todo') : k + 1 \in 1..Len(todo) /\ todo'[k] = todo[k + 1]
      /\ todo' \in Seq(Step)
  <2>1. todo' \in Seq(Step)
    BY <1>0, WorkMoves DEF DiskOK, Step
  <2> QED BY <1>1, <2>1 DEF Moved
<1>4. {Staged, LastFile} \subseteq File /\ Logged \subseteq File
  BY FileNames, FilesDiffer
<1>5. \A f \in File : /\ Coming(f)' \subseteq Coming(f)
                      /\ \A v \in Ver(f)' : v \in Ver(f) \/ (x = Put(f, v) /\ v \in Coming(f))
                      /\ Ver(f)' # {}
  BY <1>0, <1>1, MovedComing, MovedVer
<1>6. Nothing \in Ver(LastFile)' => Nothing \in Ver(LastFile)
  <2>1. \A v \in Coming(LastFile) : v # Nothing
    BY <1>0, Shown, NumFacts
  <2> QED BY <1>4, <1>5, <2>1
\* Once the pending copy goes, the pointer stands and only the sweep is left.
<1>7. ASSUME x = Unlink(Staged)
      PROVE  /\ Nothing \notin Ver(LastFile)
             /\ \A k \in 1..Len(todo') : todo'[k] \in Sweeps
  <2>1. Nothing \notin Ver(LastFile)
    <3>1. CASE \E s \in 1..MaxSeq : Lands(1, LastFile, Pointer(s))
      <4>1. PICK s \in 1..MaxSeq : Lands(1, LastFile, Pointer(s))
        BY <3>1
      <4>2. Ver(LastFile) = {Pointer(s)}
        BY <4>1 DEF Lands
      <4> QED BY <4>2, NumFacts
    <3> QED BY <1>3, <1>7, <3>1 DEF OrderOK
  <2>2. \A k \in 1..Len(todo') : todo'[k] \in Sweeps
    <3> TAKE k \in 1..Len(todo')
    <3>1. k + 1 \in 1..Len(todo) /\ 1 < k + 1
      BY <1>3
    <3> QED BY <1>3, <1>7, <3>1 DEF OrderOK
  <2> QED BY <2>1, <2>2
<1>8. \A v \in Ver(Staged)' \cup Coming(Staged)' :
        Nothing \in Ver(LastFile)' /\ v # Nothing => v[2] = 1
  BY <1>4, <1>5, <1>6 DEF OrderOK
<1>9. ASSUME Nothing \in Ver(LastFile)', NEW f \in Logged, Ver(f)' # {Nothing}
      PROVE  Nothing \notin Ver(Staged)'
  <2>1. Nothing \in Ver(LastFile) /\ x # Unlink(Staged)
    BY <1>6, <1>7, <1>9
  <2>2. Nothing \notin Ver(Staged)
    <3>1. CASE Ver(f) # {Nothing}
      BY <1>9, <2>1, <3>1 DEF OrderOK
    <3>2. CASE Ver(f) = {Nothing}
      <4>1. PICK v : v \in Ver(f)' /\ v # Nothing
        BY <1>4, <1>5, <1>9
      <4>2. v \in Coming(f)
        BY <1>4, <1>5, <1>9, <3>2, <4>1
      <4> QED BY <1>9, <4>1, <4>2 DEF OrderOK
    <3> QED BY <3>1, <3>2
  <2> QED BY <1>4, <1>5, <2>1, <2>2 DEF Unlink
<1>10. ASSUME NEW f \in Logged, NEW v \in Coming(f)', v # Nothing
       PROVE  Ver(Staged)' = {v}
  <2>1. v \in Coming(f) /\ Ver(Staged) = {v}
    BY <1>4, <1>5, <1>10 DEF OrderOK
  <2>2. ASSUME NEW w \in Ver(Staged)', w # v PROVE FALSE
    <3>1. x = Put(Staged, w) /\ w \in Coming(Staged)
      BY <1>4, <1>5, <2>1, <2>2
    <3>2. CASE w # Nothing
      BY <1>0, <1>10, <2>1, <3>1, <3>2 DEF StagedOK
    <3>3. CASE w = Nothing
      <4>1. \A k \in 1..Len(todo') : todo'[k] \in Sweeps
        BY <1>7, <3>1, <3>3 DEF Unlink
      <4>2. Has(todo', Put(f, v))
        BY <1>3, <1>10, ContentsAre DEF Coming
      <4>3. Put(f, v) \in Sweeps
        BY <4>1, <4>2 DEF Has
      <4> QED BY <1>10, <4>3, StepFacts DEF Sweeps, Unlink
    <3> QED BY <3>2, <3>3
  <2> QED BY <1>4, <1>5, <2>2
<1>11. ASSUME NEW k \in 1..Len(todo'), todo'[k] = Unlink(Staged)
       PROVE  /\ \A m \in 1..Len(todo') : k < m => todo'[m] \in Sweeps
              /\ \/ Nothing \notin Ver(LastFile)'
                 \/ \E s \in 1..MaxSeq : Coming(LastFile)' \subseteq {Pointer(s)}
                                         /\ Lands(k, LastFile, Pointer(s))'
  <2>1. k + 1 \in 1..Len(todo) /\ todo[k + 1] = Unlink(Staged)
    BY <1>3, <1>11
  <2>2. \A m \in 1..Len(todo') : k < m => todo'[m] \in Sweeps
    <3> SUFFICES ASSUME NEW m \in 1..Len(todo'), k < m PROVE todo'[m] \in Sweeps
      OBVIOUS
    <3>1. m + 1 \in 1..Len(todo) /\ k + 1 < m + 1 /\ todo'[m] = todo[m + 1]
      BY <1>3
    <3> QED BY <2>1, <3>1 DEF OrderOK
  <2>3. CASE Nothing \notin Ver(LastFile)
    BY <1>6, <2>2, <2>3
  <2>4. CASE Nothing \in Ver(LastFile)
    <3>1. PICK n : n = k + 1
      OBVIOUS
    <3>2. PICK s \in 1..MaxSeq : Coming(LastFile) \subseteq {Pointer(s)} /\ Lands(n, LastFile, Pointer(s))
      BY <2>1, <2>4, <3>1 DEF OrderOK
    <3>3. PICK v : v = Pointer(s)
      OBVIOUS
    <3>4. n \in Int /\ n - 1 = k
      BY <3>1
    <3>5. Lands(n - 1, LastFile, v)'
      BY <1>0, <1>1, <1>4, <3>2, <3>3, <3>4, LandsMove
    <3>6. Coming(LastFile)' \subseteq {Pointer(s)} /\ Lands(k, LastFile, Pointer(s))'
      BY <1>4, <1>5, <3>2, <3>3, <3>4, <3>5
    <3> QED BY <2>2, <3>6
  <2> QED BY <2>3, <2>4
<1> QED BY <1>8, <1>9, <1>10, <1>11 DEF OrderOK

\* A call that removes nothing staged and enters nothing in the log.
LEMMA BeginsOrder ==
  ASSUME Base, OrderOK, NEW s, Begins(s), Nothing \notin Contents(s, Staged),
         \A f \in Logged : \A v \in Contents(s, f) : v = Nothing,
         \A v \in Contents(s, Staged) : Nothing \in Ver(LastFile) => v[2] = 1
  PROVE  OrderOK'
<1>1. \A f : Ver(f)' = Ver(f) /\ Coming(f)' = Contents(s, f)
  BY BeginsFacts DEF Base
<1>2. \A k \in 1..Len(s) : s[k] # Unlink(Staged)
  BY ContentsAre DEF Begins, Has, Unlink
<1>3. todo' = s
  BY DEF Begins
<1> QED BY <1>1, <1>2, <1>3 DEF OrderOK

\* A pending entry that is known to be flushed is promoted.
LEMMA PromoteOrder ==
  ASSUME Base, OrderOK, NEW e \in Entered, Ver(Staged) = {e}, Begins(Promote(e))
  PROVE  OrderOK'
<1>0. DiskOK
  BY DEF Base
<1>1. PICK p : p = Promote(e)
  OBVIOUS
<1>2. /\ Contents(p, Staged) = {Nothing}
      /\ Contents(p, LastFile) \subseteq {Pointer(e[2])}
      /\ \A f \in Logged : \A v \in Contents(p, f) : v = Nothing \/ (v = e /\ f = Entry(e))
      /\ \A k \in 1..Len(p) : p[k] = Unlink(Staged) =>
           /\ Behind(p, k, Put(LastFile, Pointer(e[2])), Sync(Events))
           /\ \A m \in 1..Len(p) : k < m => p[m] \in Sweeps
  BY <1>0, <1>1, PromoteComing, PromoteDoes
<1>3. Begins(p)
  BY <1>1
<1>4. todo' = p /\ \A f : Ver(f)' = Ver(f) /\ Coming(f)' = Contents(p, f)
  BY <1>0, <1>3, BeginsFacts DEF Begins
<1>5. PICK s \in 1..MaxSeq : s = e[2]
  BY EventNames
<1>6. ASSUME NEW k \in 1..Len(p), p[k] = Unlink(Staged)
      PROVE  Lands(k, LastFile, Pointer(s))'
  <2>1. k \in Int /\ Home(LastFile) = Events
    BY FileNames
  <2>2. PICK v : v = Pointer(s)
    OBVIOUS
  <2>3. Behind(p, k, Put(LastFile, v), Sync(Home(LastFile)))
    BY <1>2, <1>5, <1>6, <2>1, <2>2
  <2>4. Lands(k, LastFile, v)'
    BY <1>3, <2>1, <2>3, BeginsLands
  <2> QED BY <2>2, <2>4
<1>7. \A v \in Ver(Staged)' \cup Coming(Staged)' : Nothing \in Ver(LastFile)' /\ v # Nothing => v[2] = 1
  BY <1>2, <1>4 DEF OrderOK
<1>8. Nothing \in Ver(LastFile)' /\ (\E f \in Logged : Ver(f)' # {Nothing}) => Nothing \notin Ver(Staged)'
  BY <1>4 DEF OrderOK
<1>9. \A f \in Logged : \A v \in Coming(f)' : v # Nothing => Ver(Staged)' = {v}
  BY <1>2, <1>4
<1>10. \A k \in 1..Len(p) : p[k] = Unlink(Staged) =>
         /\ \A m \in 1..Len(p) : k < m => p[m] \in Sweeps
         /\ \E n \in 1..MaxSeq : Coming(LastFile)' \subseteq {Pointer(n)}
                                 /\ Lands(k, LastFile, Pointer(n))'
  BY <1>2, <1>4, <1>5, <1>6
<1> QED BY <1>4, <1>7, <1>8, <1>9, <1>10 DEF OrderOK

LEMMA DiscardOrder ==
  ASSUME Base, OrderOK, Nothing \notin Ver(LastFile), Begins(DiscardStaged)
  PROVE  OrderOK'
<1>0. DiskOK
  BY DEF Base
<1>1. PICK p : p = DiscardStaged
  OBVIOUS
<1>2. /\ Contents(p, Staged) \subseteq {Nothing} /\ \A f \in Logged : Contents(p, f) = {}
      /\ Begins(p)
  BY <1>1, DiscardComing
<1>3. todo' = p /\ \A f : Ver(f)' = Ver(f) /\ Coming(f)' = Contents(p, f)
  BY <1>0, <1>2, BeginsFacts DEF Begins
<1>4. Len(p) \in {0, 1}
  <2>1. p = << >> \/ p = <<Unlink(Staged)>>
    BY <1>1 DEF DiscardStaged
  <2> QED BY <2>1
<1>5. \A k, m \in 1..Len(p) : ~ (k < m)
  <2>1. Len(p) <= 1
    BY <1>4
  <2>2. \A k \in 1..Len(p) : k = 1
    BY <1>4, <2>1
  <2> QED BY <2>2
<1> QED BY <1>2, <1>3, <1>5 DEF OrderOK

LEMMA StageOrder == ASSUME Base, FlushedOK, OrderOK, Stages PROVE OrderOK'
<1>0. DiskOK
  BY DEF Base
<1>1. PICK e \in Entered : Begins(Stage(e)) /\ e[2] = NextSequence /\ todo = << >>
  BY DEF Stages
<1>2. PICK s : s = Stage(e)
  OBVIOUS
<1>3. /\ Begins(s) /\ Contents(s, Staged) \subseteq {e}
      /\ \A f \in Logged : Contents(s, f) = {}
  BY <1>1, <1>2, StageComing
<1>4. Ver(LastFile) = {cache[LastFile]}
  BY <1>1 DEF FlushedOK, Has, Kept
<1>5. Nothing \in Ver(LastFile) => e[2] = 1
  BY <1>0, <1>1, <1>4, SeqNumbers, NumFacts
<1>6. e # Nothing
  BY EventNames
<1> QED BY <1>3, <1>5, <1>6, BeginsOrder

LEMMA RecoverOrder == ASSUME Base, FlushedOK, OrderOK, Recovers PROVE OrderOK'
<1>0. DiskOK /\ Staged \in File
  BY FileNames DEF Base
<1>1. Begins(Recovery) /\ todo = << >> /\ Ver(Staged) = {cache[Staged]}
  BY DEF Recovers, FlushedOK
<1>2. CASE ~Exists(Staged) /\ Recovery = << >>
  BY <1>1, <1>2, ContentsNone, BeginsOrder
<1>3. CASE \E e \in Entered : e = cache[Staged] /\ Owed(e) /\ Recovery = Promote(e)
  BY <1>1, <1>3, PromoteOrder
<1>4. CASE \E e \in Entered : e = cache[Staged] /\ ~Owed(e) /\ Recovery = DiscardStaged
  <2>1. PICK e \in Entered : e = cache[Staged] /\ ~Owed(e) /\ Recovery = DiscardStaged
    BY <1>4
  <2>2. e[2] # 1
    BY <2>1 DEF Owed, Entered
  <2>3. e \in Ver(Staged) /\ e # Nothing
    BY <1>1, <2>1, EventNames
  <2>4. Nothing \notin Ver(LastFile)
    BY <2>2, <2>3 DEF OrderOK
  <2> QED BY <1>1, <2>1, <2>4, DiscardOrder
<1> QED BY <1>0, <1>2, <1>3, <1>4, RecoveryIs

LEMMA PowerLossOrder == ASSUME Base, OrderOK, PowerLoss PROVE OrderOK'
<1>0. DiskOK
  BY DEF Base
<1>1. todo' = << >> /\ \A f \in File : Ver(f)' = {cache'[f]}
  BY <1>0, PowerLossDoes DEF Die, Call
<1>2. PICK kept : Left(kept)
  BY <1>0, PowerLossDoes
<1>3. \A f \in File : /\ kept[f] \in Ver(f)
                      /\ cache'[f] = IF \A d \in {Home(f), Home(Home(f))} : kept[d] # Nothing
                                       THEN kept[f] ELSE Nothing
  BY <1>2 DEF Left
<1>4. kept[Root] # Nothing
  <2>1. Ver(Root) \subseteq Holds(Root)
    BY <1>0, FileNames DEF DiskOK, Ver
  <2> QED BY <1>3, <2>1, FileNames, PutsAre DEF Folder, Nothing
<1>5. /\ cache'[Staged] = IF kept[Events] # Nothing THEN kept[Staged] ELSE Nothing
      /\ cache'[LastFile] = IF kept[Events] # Nothing THEN kept[LastFile] ELSE Nothing
      /\ kept[Staged] \in Ver(Staged) /\ kept[LastFile] \in Ver(LastFile)
      /\ Ver(Staged)' = {cache'[Staged]} /\ Ver(LastFile)' = {cache'[LastFile]}
  BY <1>1, <1>3, <1>4, FileNames
<1>6. \A f \in Logged : /\ Ver(f)' = {cache'[f]} /\ kept[f] \in Ver(f)
                        /\ cache'[f] # Nothing => kept[Events] # Nothing /\ kept[f] = cache'[f]
  <2> TAKE f \in Logged
  <2>1. f \in File /\ Home(f) = Entries /\ Home(Entries) = Events
    BY FileNames, FilesDiffer DEF Logged, Home, Entries
  <2> QED BY <1>1, <1>3, <2>1
<1>7. \A f : Coming(f)' = {}
  BY <1>1, ContentsNone DEF Coming
<1>8. \A v \in Ver(Staged)' \cup Coming(Staged)' :
        Nothing \in Ver(LastFile)' /\ v # Nothing => v[2] = 1
  BY <1>5, <1>7 DEF OrderOK
<1>9. ASSUME Nothing \in Ver(LastFile)', NEW f \in Logged, Ver(f)' # {Nothing}
      PROVE  Nothing \notin Ver(Staged)'
  <2>1. kept[Events] # Nothing /\ kept[f] # Nothing /\ kept[f] \in Ver(f)
    BY <1>6, <1>9
  <2>2. kept[LastFile] = Nothing /\ kept[LastFile] \in Ver(LastFile)
    BY <1>5, <1>9, <2>1
  <2>3. Nothing \notin Ver(Staged)
    BY <2>1, <2>2 DEF OrderOK
  <2> QED BY <1>5, <2>1, <2>3
<1>10. Len(todo') = 0
  BY <1>1
<1> QED BY <1>1, <1>7, <1>8, <1>9, <1>10 DEF OrderOK

LEMMA OrderKept ==
  ASSUME Base, FaultsApart, FlushedOK, OrderOK, [Next]_vars
  PROVE  OrderOK'
<1>0. DiskOK /\ CallsOK /\ StagedOK
  BY DEF Base
<1>1. CASE Work
  BY <1>1, WorkOrder
<1>2. CASE Rests
  BY <1>2, BeginsOrder, ContentsNone DEF Rests
<1>3. CASE Stages
  BY <1>3, StageOrder
<1>4. CASE Persists
  <2>1. PICK c \in Commits : Begins(PersistSave(c))
    BY <1>4 DEF Persists
  <2>2. PICK s : s = PersistSave(c)
    OBVIOUS
  <2>3. Begins(s) /\ Contents(s, Staged) = {} /\ \A f \in Logged : Contents(s, f) = {}
    BY <2>1, <2>2, PersistComing
  <2> QED BY <2>3, BeginsOrder
<1>5. CASE Promotes
  BY <1>5, PromoteOrder DEF Promotes
<1>6. CASE Recovers
  BY <1>6, RecoverOrder
<1>7. CASE Discards
  <2>1. up = "serving" /\ "power" \notin Faults /\ Begins(DiscardStaged)
    BY <1>7 DEF Discards
  <2>2. Ver(LastFile) = {cache[LastFile]} /\ cache[LastFile] # Nothing
    BY <1>0, <2>1, VersionsAre, FileNames, NumFacts DEF StagedOK
  <2> QED BY <2>1, <2>2, DiscardOrder
<1>8. CASE PowerLoss
  BY <1>8, PowerLossOrder
<1>9. CASE Quiet
  <2>1. UNCHANGED <<cache, media, todo>>
    BY <1>9 DEF Quiet
  <2>2. \A f : Ver(f)' = Ver(f) /\ Coming(f)' = Coming(f)
    BY <2>1 DEF Ver, Coming
  <2> QED BY <2>1, <2>2 DEF OrderOK, Lands
<1> QED BY <1>1, <1>2, <1>3, <1>4, <1>5, <1>6, <1>7, <1>8, <1>9, Turns

Sturdy == Base /\ FlushedOK /\ WholeOK /\ OrderOK /\ up # "refused"

LEMMA WholeIsWhole == ASSUME Base, WholeOK PROVE HeadIsWhole
<1> SUFFICES ASSUME Exists(HeadFile), NEW b \in Chain(DiskHead), NEW i \in 1..BlocksPerCommit
             PROVE  Exists(Block(b, i))
  BY DEF HeadIsWhole, GraphWhole
<1>0. DiskOK
  BY DEF Base
<1>1. PICK v : v = cache[HeadFile]
  OBVIOUS
<1>2. v \in Ver(HeadFile) /\ v # Nothing /\ DiskHead = v[2] /\ Num(v) = v[2]
  BY <1>0, <1>1, Shown, FileNames DEF Exists, DiskHead, Num
<1>3. PICK c : c = v[2]
  OBVIOUS
<1>4. c \in 0..Len(prior) /\ Safe(c) /\ b \in ChainOf(prior, c)
  BY <1>2, <1>3, HeadNumbers, ChainIsOf DEF WholeOK
<1>5. b \in Commits
  <2>1. Falls(prior) /\ b \in 1..c /\ Len(prior) \in Nat
    BY <1>4, HeadNumbers, ChainBelow
  <2>2. b \in 1..Len(prior)
    BY <1>4, <2>1
  <2> QED BY <2>2, HeadNumbers
<1>6. PICK f : f = Block(b, i)
  OBVIOUS
<1>7. f \in Needed(c) /\ f \in File /\ f \notin Folders
  BY <1>4, <1>5, <1>6, BlockNames DEF Needed
<1>8. Ver(f) = {Bytes} /\ cache[f] \in Ver(f)
  BY <1>0, <1>4, <1>7, Shown DEF Safe, Good
<1> QED BY <1>6, <1>8 DEF Exists, Bytes, Nothing

LEMMA NeverRefused ==
  ASSUME Sturdy, [Next]_vars
  PROVE  up' # "refused"
<1>0. Base /\ DiskOK /\ CallsOK /\ StagedOK /\ WholeOK /\ OrderOK
  BY DEF Sturdy, Base
<1>1. ~StartRefused
  BY <1>0, WholeIsWhole DEF StartRefused, HeadIsWhole
<1>2. ~RefuseLog
  <2> SUFFICES ASSUME RefuseLog PROVE FALSE
    OBVIOUS
  <2>1. at = "recover" /\ Coming(Staged) = {}
    BY ContentsNone DEF RefuseLog, Coming
  <2>2. cache[Staged] = Nothing /\ Nothing \in Ver(Staged)
    BY <1>0, <2>1, Shown, FileNames DEF StagedOK
  <2>3. LastSeq = 0 /\ EntryFiles # {}
    BY <2>2 DEF RefuseLog, LogContradicts, Exists
  <2>4. cache[LastFile] = Nothing /\ Nothing \in Ver(LastFile)
    <3>1. cache[LastFile] \in Ver(LastFile)
      BY <1>0, Shown, FileNames
    <3>2. cache[LastFile] = Nothing \/ \E s \in 1..MaxSeq : cache[LastFile] = Pointer(s)
      BY <1>0, <3>1, Shown
    <3> QED BY <2>3, <3>1, <3>2, DiskHeadIs, NumFacts
  <2>5. PICK f \in EntryFiles : TRUE
    BY <2>3
  <2>6. f \in Logged /\ cache[f] # Nothing /\ cache[f] \in Ver(f)
    BY <1>0, <2>5, Shown DEF EntryFiles, Logged, Exists
  <2> QED BY <1>0, <2>2, <2>4, <2>6 DEF OrderOK
<1>3. up # "refused"
  BY DEF Sturdy
<1>4. CASE Quiet
  BY <1>3, <1>4 DEF Quiet
<1>5. CASE Work
  BY <1>3, <1>5 DEF Work
<1>6. CASE Answer \/ DropStaged \/ Serve \/ StartAgain \/ Crash
  BY <1>3, <1>6 DEF Answer, DropStaged, Serve, StartAgain, Crash, Die
<1>7. CASE Recover \/ EmitGenesis \/ PersistRepo \/ PromoteEntry \/ StartNew \/ PowerLoss \/ FileDamaged
  BY <1>3, <1>7 DEF Recover, EmitGenesis, PersistRepo, PromoteEntry, StartNew, PowerLoss, Die, FileDamaged
<1>8. CASE RequestCommit \/ RequestIdentity \/ DiskError
  BY <1>0, <1>3, <1>8, DiskErrorDoes DEF RequestCommit, RequestIdentity
<1>9. CASE (\E r \in Relay : Subscriber(r)) \/ Tick \/ ClockStepsBack
  BY <1>0, <1>3, <1>9, QuietSteps DEF Quiet
<1>10. CASE UNCHANGED vars
  BY <1>3, <1>10 DEF vars
<1> QED BY <1>1, <1>2, <1>4, <1>5, <1>6, <1>7, <1>8, <1>9, <1>10
        DEF Next, Process, Operator, Client, Environment

LEMMA InitSturdy == ASSUME Init PROVE Sturdy
<1>0. Base /\ DiskOK
  BY InitBase DEF Base
<1>1. /\ todo = << >> /\ up = "down" /\ at = "idle"
      /\ cache = [f \in File |-> IF f = Root THEN Folder ELSE Nothing]
      /\ media = [f \in File |-> {cache[f]}]
  BY DEF Init
<1>2. \A f \in File : Ver(f) = {cache[f]} /\ (f # Root => Ver(f) = {Nothing})
  BY <1>1 DEF Ver
<1>3. Len(todo) = 0 /\ (\A f : Coming(f) = {}) /\ Tidy(todo)
  BY <1>1, ContentsNone, NoneTidy DEF Coming
<1>4. FlushedOK
  BY <1>1, <1>2, <1>3, FilesDiffer, FileNames DEF FlushedOK
<1>5. {HeadFile, Staged, LastFile} \subseteq File /\ Logged \subseteq File
  BY FileNames, FilesDiffer
<1>6. /\ Ver(HeadFile) = {Nothing} /\ Ver(Staged) = {Nothing} /\ Ver(LastFile) = {Nothing}
      /\ \A f \in Logged : Ver(f) = {Nothing}
  <2>1. Root \notin Logged /\ Root # HeadFile /\ Root # Staged /\ Root # LastFile
    BY FilesDiffer
  <2> QED BY <1>2, <1>5, <2>1
<1>7. WholeOK
  BY <1>1, <1>3, <1>6 DEF WholeOK, InMemory
<1>8. OrderOK
  BY <1>1, <1>3, <1>6 DEF OrderOK
<1> QED BY <1>0, <1>1, <1>4, <1>7, <1>8 DEF Sturdy

LEMMA NextKeepsSturdy == ASSUME FaultsApart, Sturdy, [Next]_vars PROVE Sturdy'
BY NextKeepsBase, FlushedKept, WholeKept, OrderKept, NeverRefused DEF Sturdy

\* A file that the next step counts on is flushed or will be before the call
\* ends, a head's graph is flushed before the head is moved, and the pointer
\* before the pending copy goes.
THEOREM SturdyInvariance == ASSUME FaultsApart PROVE Spec => []Sturdy
<1>1. Init => Sturdy
  BY InitSturdy
<1>2. Sturdy /\ [Next]_vars => Sturdy'
  BY NextKeepsSturdy
<1> QED BY <1>1, <1>2, PTL DEF Spec

\* persistSave and blockFileWrite: whatever part of the unflushed operations a
\* power loss keeps, a head that is there has all its blocks.
THEOREM HeadIsWholeAlways == ASSUME FaultsApart PROVE Spec => []HeadIsWhole
<1>1. Sturdy => HeadIsWhole
  BY WholeIsWhole DEF Sturdy
<1> QED BY <1>1, SturdyInvariance, PTL

\* configure: neither repoFromBlocks nor refuseLostPointer and
\* requireRecoveryApplied ever refuses a directory this program left behind.
THEOREM StartIsNeverRefusedEver == ASSUME FaultsApart PROVE Spec => []StartIsNeverRefused
<1>1. Sturdy => StartIsNeverRefused
  BY DEF Sturdy, StartIsNeverRefused
<1> QED BY <1>1, SturdyInvariance, PTL

-----------------------------------------------------------------------------
(* A number names one event: one operation of a call *)

\* What one operation leaves of the files the numbers are read from.
LEMMA VerSteps ==
  ASSUME DiskOK, NEW x, Moved(x)
  PROVE  /\ \A f \in {HeadFile, Staged, LastFile, Events} \cup Logged :
              /\ f \in File /\ Coming(f)' \subseteq Coming(f) /\ Ver(f)' # {} /\ Ver(f) # {}
              /\ \A v \in Ver(f)' : v \in Ver(f) \/ (x = Put(f, v) /\ v \in Coming(f))
         /\ Coming(Events) \subseteq {Folder}
<1>1. \A f \in {HeadFile, Staged, LastFile, Events} \cup Logged : f \in File
  BY FileNames, FilesDiffer
<1>2. ASSUME NEW f \in File
      PROVE  /\ Coming(f)' \subseteq Coming(f) /\ Ver(f)' # {} /\ Ver(f) # {}
             /\ \A v \in Ver(f)' : v \in Ver(f) \/ (x = Put(f, v) /\ v \in Coming(f))
  <2>1. Coming(f)' \subseteq Coming(f)
    BY MovedComing
  <2>2. /\ \A v \in Ver(f)' : v \in Ver(f) \/ (x = Put(f, v) /\ v \in Coming(f))
        /\ cache[f] \in Ver(f) /\ cache'[f] \in Ver(f)'
    BY MovedVer
  <2> QED BY <2>1, <2>2
<1>3. Coming(Events) \subseteq {Folder}
  BY ComingIs, FileNames, PutsAre
<1> QED BY <1>1, <1>2, <1>3

LEMMA EnteringIs ==
  ASSUME Base, OrderOK, NumbersOK, Work, NEW x, Moved(x), NEW a, (a \in Seen)', a \notin Seen
  PROVE  /\ a \in Entered /\ a # Nothing /\ Ver(Staged) = {a} /\ Ver(Staged)' = {a}
         /\ Ver(LastFile)' \subseteq Ver(LastFile) /\ Ver(HeadFile)' \subseteq Ver(HeadFile)
         /\ Anchored(a) /\ Anchored(a)'
         /\ at \in {"recover", "promote"} /\ Ver(Events) = {Folder}
         /\ \E f \in Logged : x = Put(f, a) /\ a \in Coming(f)
<1>0. DiskOK /\ StagedOK /\ TurnOK
  BY DEF Base, NumbersOK
<1>1. relay' = relay
  BY DEF Work
<1>2. a \in Entered /\ a # Nothing
  BY EventNames DEF Seen
<1>3. Heard(a)' <=> Heard(a)
  BY <1>1 DEF Heard
<1>4. PICK f \in Logged : a \in Ver(f)' /\ a \notin Ver(f)
  BY <1>2, <1>3 DEF Seen
<1>5. x = Put(f, a) /\ a \in Coming(f)
  BY <1>0, <1>4, VerSteps
<1>6. Ver(Staged) = {a}
  BY <1>2, <1>5 DEF OrderOK
<1>7. \A g \in {HeadFile, Staged, LastFile} : Ver(g)' \subseteq Ver(g) /\ Ver(g)' # {}
  <2> TAKE g \in {HeadFile, Staged, LastFile}
  <2>1. \A v : Put(f, a) # Put(g, v)
    BY FilesDiffer, StepFacts
  <2> QED BY <1>0, <1>5, <2>1, VerSteps
<1>8. at \in {"recover", "promote"}
  BY <1>0, <1>2, <1>5 DEF StagedOK
<1>9. Anchored(a) /\ Anchored(a)'
  <2>1. Anchored(a)
    BY <1>0, <1>2, <1>5 DEF TurnOK
  <2>2. Ver(HeadFile)' \subseteq Ver(HeadFile) /\ Ver(HeadFile)' # {}
    BY <1>7
  <2> QED BY <2>1, <2>2 DEF Anchored
<1>10. Ver(Events) = {Folder}
  <2>1. 1 \in 1..Len(todo) /\ todo[1] = Put(f, a)
    BY <1>5 DEF Moved
  <2>2. Lands(1, Events, Folder)
    BY <1>0, <1>2, <1>4, <2>1 DEF TurnOK
  <2>3. ~ \E j \in 1..Len(todo) : j < 1
    OBVIOUS
  <2> QED BY <2>2, <2>3 DEF Lands
<1> QED BY <1>2, <1>5, <1>6, <1>7, <1>8, <1>9, <1>10

LEMMA SeenNumbers ==
  ASSUME DiskOK
  PROVE  /\ \A a \in Seen : a \in Entered /\ a[2] \in Nat /\ a # Nothing
         /\ \A v \in Ver(LastFile) \cup Coming(LastFile) : Num(v) \in Nat
         /\ \A v \in Coming(LastFile) : Num(v) = v[2]
         /\ \A w \in Ver(Staged) \cup Coming(Staged) : w = Nothing \/ (w \in Entered /\ w[2] \in Nat)
<1>1. \A e \in Entered : e[2] \in Nat /\ e # Nothing
  BY EventNames
<1>2. \A v \in Ver(LastFile) : v = Nothing \/ \E s \in 1..MaxSeq : v = Pointer(s)
  BY Shown
<1>3. \A v \in Coming(LastFile) : \E s \in 1..MaxSeq : v = Pointer(s)
  BY Shown
<1>4. \A w \in Ver(Staged) \cup Coming(Staged) : w = Nothing \/ w \in Entered
  BY Shown
<1>5. \A s \in 1..MaxSeq : Num(Pointer(s)) = s /\ Pointer(s)[2] = s /\ s \in Nat
  BY NumFacts
<1>6. Num(Nothing) = 0
  BY NumFacts
<1>7. \A a \in Seen : a \in Entered
  BY DEF Seen
<1> QED BY <1>1, <1>2, <1>3, <1>4, <1>5, <1>6, <1>7

\* Where nothing enters the log and the pointer stands, what was counted stays so.
LEMMA NumberedStays ==
  ASSUME Base, OrderOK, NumbersOK, Work, NEW x, Moved(x), Numbered,
         Coming(LastFile) = {}, \A f \in Logged : Coming(f) \subseteq {Nothing}
  PROVE  Numbered'
<1>0. DiskOK
  BY DEF Base
<1>1. Ver(LastFile)' \subseteq Ver(LastFile)
  BY <1>0, VerSteps
<1>2. \A a : (a \in Seen)' => a \in Seen
  BY EnteringIs
<1> QED BY <1>1, <1>2 DEF Numbered

LEMMA WorkLog == ASSUME Base, OrderOK, NumbersOK, Work, NEW x, Moved(x) PROVE LogOK'
<1>0. DiskOK /\ StagedOK /\ LogOK /\ TurnOK /\ CallsOK /\ HeadsOK
  BY DEF Base, NumbersOK
<1>1. {HeadFile, Staged, LastFile, Events} \subseteq File
  BY FileNames
<1>2. /\ \A f \in {HeadFile, Staged, LastFile, Events} :
           /\ Ver(f)' # {} /\ Ver(f) # {}
           /\ \A v \in Ver(f)' : v \in Ver(f) \/ (x = Put(f, v) /\ v \in Coming(f))
      /\ Coming(Events) \subseteq {Folder}
  BY <1>0, VerSteps
\* A put on one file is a put on no other.
<1>3. \A f, g \in {HeadFile, Staged, LastFile, Events} : \A v :
        x = Put(f, v) /\ f # g => Ver(g)' \subseteq Ver(g)
  BY <1>2, StepFacts
<1>4. HeadFile # Staged /\ HeadFile # LastFile /\ Staged # LastFile
  BY FilesDiffer
<1>5. \A a : (a \in Seen)' /\ a \notin Seen =>
        /\ a \in Entered /\ a # Nothing /\ Ver(Staged) = {a} /\ Ver(Staged)' = {a}
        /\ Ver(LastFile)' \subseteq Ver(LastFile) /\ Ver(HeadFile)' \subseteq Ver(HeadFile)
        /\ Anchored(a)' /\ at \in {"recover", "promote"} /\ Ver(Events) = {Folder}
  BY EnteringIs
<1>6. /\ \A a \in Seen : a \in Entered /\ a[2] \in Nat /\ a # Nothing
      /\ \A v \in Ver(LastFile) \cup Coming(LastFile) : Num(v) \in Nat
      /\ \A v \in Coming(LastFile) : Num(v) = v[2]
      /\ \A w \in Ver(Staged) \cup Coming(Staged) : w = Nothing \/ (w \in Entered /\ w[2] \in Nat)
  BY <1>0, SeenNumbers
<1>7. \A a : (a \in Seen)' => a \in Entered /\ a[2] \in Nat
  BY <1>5, <1>6, EventNames
\* An event that is put on the pending copy comes when all that was seen is counted.
<1>8. ASSUME NEW w \in Ver(Staged)', w \notin Ver(Staged), w # Nothing
      PROVE  /\ w \in Coming(Staged) /\ Numbered /\ Ver(LastFile)' \subseteq Ver(LastFile)
             /\ \A a : (a \in Seen)' => a \in Seen
  <2>1. x = Put(Staged, w) /\ w \in Coming(Staged)
    BY <1>2, <1>8
  <2>2. at = "stage"
    BY <1>0, <1>8, <2>1 DEF StagedOK
  <2>3. Numbered
    BY <1>0, <2>2 DEF TurnOK
  <2>4. Ver(LastFile)' \subseteq Ver(LastFile)
    BY <1>3, <1>4, <2>1
  <2> QED BY <1>5, <2>1, <2>2, <2>3, <2>4
<1>9. ASSUME NEW a, (a \in Seen)', NEW b, (b \in Seen)', a[2] = b[2] PROVE a = b
  <2>1. CASE a \in Seen /\ b \in Seen
    BY <1>0, <1>9, <2>1 DEF LogOK
  <2>2. CASE a \notin Seen /\ b \in Seen
    BY <1>0, <1>5, <1>9, <2>2 DEF LogOK
  <2>3. CASE a \in Seen /\ b \notin Seen
    <3>1. b \in Ver(Staged) /\ b # Nothing
      BY <1>5, <1>9, <2>3
    <3> QED BY <1>0, <1>9, <2>3, <3>1 DEF LogOK
  <2>4. CASE a \notin Seen /\ b \notin Seen
    BY <1>5, <1>9, <2>4
  <2> QED BY <2>1, <2>2, <2>3, <2>4
<1>10. ASSUME NEW w \in Ver(Staged)', NEW v \in Ver(LastFile)', w # Nothing
       PROVE  w[2] \in {Num(v), Num(v) + 1}
  <2>1. CASE w \in Ver(Staged) /\ v \in Ver(LastFile)
    BY <1>0, <1>10, <2>1 DEF LogOK
  <2>2. CASE w \in Ver(Staged) /\ v \notin Ver(LastFile)
    <3>1. v \in Coming(LastFile)
      BY <1>2, <2>2
    <3>2. w[2] = v[2] /\ Num(v) = v[2]
      BY <1>0, <1>6, <2>2, <3>1 DEF TurnOK
    <3> QED BY <3>2
  <2>3. CASE w \notin Ver(Staged)
    <3>1. w \in Coming(Staged) /\ v \in Ver(LastFile)
      BY <1>8, <1>10, <2>3
    <3> QED BY <1>0, <1>10, <3>1 DEF TurnOK
  <2> QED BY <2>1, <2>2, <2>3
<1>11. ASSUME NEW w \in Ver(Staged)', NEW a, (a \in Seen)', w # Nothing, w[2] = a[2] PROVE w = a
  <2>1. CASE w \in Ver(Staged) /\ a \in Seen
    BY <1>0, <1>11, <2>1 DEF LogOK
  <2>2. CASE a \notin Seen
    BY <1>5, <1>11, <2>2
  <2>3. CASE w \notin Ver(Staged)
    <3>1. w \in Coming(Staged) /\ Numbered /\ a \in Seen
      BY <1>8, <1>11, <2>3
    <3>2. PICK u : u \in Ver(LastFile)
      BY <1>2
    <3>3. w[2] = Num(u) + 1 /\ a[2] <= Num(u) /\ Num(u) \in Nat /\ a[2] \in Nat
      BY <1>0, <1>6, <1>11, <3>1, <3>2 DEF TurnOK, Numbered
    <3> QED BY <1>11, <3>3
  <2> QED BY <2>1, <2>2, <2>3
<1>12. ASSUME NEW a \in Seen, NEW v \in Ver(LastFile), v \in Ver(LastFile)',
              Pending(a, v), ~Numbered
       PROVE  Pending(a, v)'
  <2>1. Ver(Staged) = {a} /\ a[2] = Num(v) + 1 /\ a # Nothing /\ Num(v) \in Nat
    BY <1>6, <1>12 DEF Pending
  <2>2. Ver(Staged)' = {a}
    <3> SUFFICES ASSUME NEW w \in Ver(Staged)', w # a PROVE FALSE
      BY <1>2
    <3>1. w \notin Ver(Staged) /\ w = Nothing
      BY <1>8, <1>12, <2>1
    <3>2. x = Unlink(Staged)
      BY <1>2, <3>1 DEF Unlink
    <3>3. 1 \in 1..Len(todo) /\ todo[1] = Unlink(Staged)
      BY <3>2 DEF Moved
    <3>4. PICK n \in 1..MaxSeq : Counts(1, n)
      BY <1>0, <1>12, <3>3 DEF TurnOK
    <3>5. Ver(LastFile) = {Pointer(n)} /\ a[2] = n
      BY <2>1, <3>4 DEF Counts, Lands
    <3>6. Num(v) = n /\ n \in Nat
      BY <1>12, <3>5, NumFacts
    <3> QED BY <2>1, <3>5, <3>6
  <2>3. Ver(HeadFile)' \subseteq Ver(HeadFile) /\ Ver(HeadFile)' # {}
    <3>1. Coming(HeadFile) = {}
      BY <1>0, <1>12 DEF TurnOK
    <3> QED BY <1>2, <3>1
  <2>4. a[4] = 0 \/ Ver(HeadFile)' = {Cid(a[4])}
    BY <1>12, <2>3 DEF Pending
  <2> QED BY <2>1, <2>2, <2>4 DEF Pending
<1>13. ASSUME NEW a, (a \in Seen)', NEW v \in Ver(LastFile)'
       PROVE  a[2] <= Num(v) \/ Pending(a, v)'
  <2>1. CASE a \notin Seen
    <3>1. v \in Ver(LastFile) /\ a \in Ver(Staged) /\ a # Nothing
      BY <1>5, <1>13, <2>1
    <3>2. a[2] \in {Num(v), Num(v) + 1} /\ Num(v) \in Nat
      BY <1>0, <1>6, <3>1 DEF LogOK
    <3>3. (a[4] = 0 \/ Ver(HeadFile) = {Cid(a[4])})' /\ Ver(Staged)' = {a}
      BY <1>5, <1>13, <2>1 DEF Anchored
    <3>4. a[2] = Num(v) + 1 => Pending(a, v)'
      BY <3>3 DEF Pending
    <3>5. a[2] = Num(v) => a[2] <= Num(v)
      BY <3>2
    <3> QED BY <3>2, <3>4, <3>5
  <2>2. CASE a \in Seen /\ v \in Ver(LastFile)
    <3>1. a[2] <= Num(v) \/ Pending(a, v)
      BY <1>0, <2>2 DEF LogOK
    <3>2. Numbered => a[2] <= Num(v)
      BY <2>2 DEF Numbered
    <3> QED BY <1>12, <1>13, <2>2, <3>1, <3>2
  <2>3. CASE a \in Seen /\ v \notin Ver(LastFile)
    <3>1. v \in Coming(LastFile) /\ Num(v) = v[2] /\ Num(v) \in Nat
      BY <1>2, <1>6, <2>3
    <3>2. PICK u, w : u \in Ver(LastFile) /\ w \in Ver(Staged)
      BY <1>2
    <3>3. w # Nothing /\ w[2] = Num(v)
      BY <1>0, <3>1, <3>2 DEF TurnOK
    <3>4. w[2] \in {Num(u), Num(u) + 1} /\ Num(u) \in Nat /\ a[2] \in Nat
      BY <1>0, <1>6, <2>3, <3>2, <3>3 DEF LogOK
    <3>5. a[2] <= Num(u) \/ Pending(a, u)
      BY <1>0, <2>3, <3>2 DEF LogOK
    <3>6. CASE a[2] <= Num(u)
      BY <3>3, <3>4, <3>6
    <3>7. CASE Pending(a, u)
      BY <3>1, <3>2, <3>3, <3>7 DEF Pending
    <3> QED BY <3>5, <3>6, <3>7
  <2> QED BY <2>1, <2>2, <2>3
<1>14. ASSUME NEW a, (a \in Seen)' PROVE Ver(Events)' = {Folder}
  <2>1. Ver(Events) = {Folder}
    BY <1>0, <1>5, <1>14 DEF LogOK
  <2> QED BY <1>2, <2>1
<1>15. ASSUME Nothing \in Ver(HeadFile)', NEW a, (a \in Seen)' PROVE FALSE
  <2>1. Nothing \in Ver(HeadFile)
    <3>1. \A v \in Coming(HeadFile) : v # Nothing
      BY <1>0, Shown, NumFacts
    <3> QED BY <1>2, <1>15, <3>1
  <2>2. a \notin Seen
    BY <1>0, <2>1 DEF LogOK
  <2>3. at \in {"recover", "promote"}
    BY <1>5, <1>15, <2>2
  <2>4. InMemory
    BY <1>0, <2>3 DEF CallsOK, InMemory
  <2> QED BY <1>0, <2>1, <2>4 DEF TurnOK
<1>16. Seen' # {} => \E a : (a \in Seen)'
  OBVIOUS
<1>17. \A a, b \in Seen' : a[2] = b[2] => a = b
  BY <1>9
<1>18. \A a \in Seen', v \in Ver(LastFile)' : a[2] <= Num(v) \/ Pending(a, v)'
  BY <1>13
<1>19. \A w \in Ver(Staged)', v \in Ver(LastFile)' : w # Nothing => w[2] \in {Num(v), Num(v) + 1}
  BY <1>10
<1>20. \A w \in Ver(Staged)', a \in Seen' : w # Nothing /\ w[2] = a[2] => w = a
  BY <1>11
<1> QED BY <1>14, <1>15, <1>16, <1>17, <1>18, <1>19, <1>20 DEF LogOK

LEMMA WorkTurn == ASSUME Base, OrderOK, NumbersOK, Work, NEW x, Moved(x) PROVE TurnOK'
<1>0. DiskOK /\ StagedOK /\ LogOK /\ TurnOK /\ CallsOK /\ HeadsOK
  BY DEF Base, NumbersOK
<1>1. UNCHANGED <<up, at>> /\ at # "idle" /\ todo # << >>
  BY <1>0 DEF CallsOK, Work
<1>2. /\ \A f \in {HeadFile, Staged, LastFile, Events} \cup Logged :
           /\ f \in File /\ Coming(f)' \subseteq Coming(f) /\ Ver(f)' # {} /\ Ver(f) # {}
           /\ \A v \in Ver(f)' : v \in Ver(f) \/ (x = Put(f, v) /\ v \in Coming(f))
      /\ Coming(Events) \subseteq {Folder}
  BY <1>0, VerSteps
<1>3. /\ Len(todo) \in Nat /\ Len(todo') = Len(todo) - 1 /\ todo[1] = x /\ 1 \in 1..Len(todo)
      /\ \A k \in 1..Len(todo') : k + 1 \in 1..Len(todo) /\ todo'[k] = todo[k + 1]
  BY DEF Moved
\* Once the pending copy goes, only the sweep is left.
<1>4. ASSUME x = Unlink(Staged)
      PROVE  /\ \A k \in 1..Len(todo') : todo'[k] \in Sweeps
             /\ Coming(LastFile)' = {} /\ \A k \in 1..Len(todo') : todo'[k] # Unlink(Staged)
  <2>1. \A k \in 1..Len(todo') : todo'[k] \in Sweeps
    <3> TAKE k \in 1..Len(todo')
    <3>1. k + 1 \in 1..Len(todo) /\ 1 < k + 1
      BY <1>3
    <3> QED BY <1>3, <1>4, <3>1 DEF OrderOK
  <2>2. Coming(LastFile)' = {}
    <3> SUFFICES ASSUME NEW v, v \in Coming(LastFile)' PROVE FALSE
      OBVIOUS
    <3>1. PICK k \in 1..Len(todo') : todo'[k].op = "put" /\ todo'[k].file = LastFile
      BY DEF Coming, Contents
    <3>2. PICK f \in Logged : todo'[k] = Put(f, Nothing)
      BY <2>1 DEF Sweeps, Unlink
    <3> QED BY <3>1, <3>2, FilesDiffer, StepFacts
  <2>3. \A k \in 1..Len(todo') : todo'[k] # Unlink(Staged)
    BY <2>1, StepsDiffer
  <2> QED BY <2>1, <2>2, <2>3
<1>5. Coming(LastFile) # {} => at \in {"recover", "promote"}
  BY <1>0 DEF StagedOK
<1>6. \A v \in Coming(HeadFile) : at \in {"init", "persist"} /\ v # Nothing
  BY <1>0, Shown, NumFacts DEF HeadsOK
<1>7. (Coming(HeadFile)' # {} \/ at' \in {"stage", "persist"}
         \/ (up' = "serving" /\ at' = "idle")) => Numbered'
  <2> SUFFICES ASSUME Coming(HeadFile)' # {} \/ at \in {"stage", "persist"} PROVE Numbered'
    BY <1>1
  <2>1. Numbered
    BY <1>0, <1>2 DEF TurnOK
  <2>2. at \in {"init", "stage", "persist"}
    BY <1>2, <1>6
  <2>3. Coming(LastFile) = {}
    BY <1>5, <2>2
  <2>4. \A f \in Logged : Coming(f) \subseteq {Nothing}
    BY <1>0, <2>2 DEF StagedOK
  <2> QED BY <2>1, <2>3, <2>4, NumberedStays
<1>8. \A v \in Coming(Staged)', u \in Ver(LastFile)' : v # Nothing => v[2] = Num(u) + 1
  <2> SUFFICES ASSUME NEW v \in Coming(Staged)', NEW u \in Ver(LastFile)', v # Nothing
               PROVE  v[2] = Num(u) + 1
    OBVIOUS
  <2>1. v \in Coming(Staged) /\ at = "stage"
    BY <1>0, <1>2 DEF StagedOK
  <2>2. u \in Ver(LastFile)
    BY <1>2, <1>5, <2>1
  <2> QED BY <1>0, <2>1, <2>2 DEF TurnOK
<1>9. ASSUME NEW f \in Logged, NEW v \in Coming(f)', v # Nothing PROVE Anchored(v)'
  <2>1. v \in Coming(f) /\ at \in {"recover", "promote"} /\ Anchored(v)
    BY <1>0, <1>2, <1>9 DEF StagedOK, TurnOK
  <2>2. Ver(HeadFile)' \subseteq Ver(HeadFile) /\ Ver(HeadFile)' # {}
    BY <1>2, <1>6, <2>1
  <2> QED BY <2>1, <2>2 DEF Anchored
<1>10. ASSUME NEW w \in Ver(Staged)', w \notin Ver(Staged)
       PROVE  \/ x = Unlink(Staged)
              \/ at = "stage" /\ Nothing \notin Coming(Staged)
  <2>1. x = Put(Staged, w) /\ w \in Coming(Staged)
    BY <1>2, <1>10
  <2>2. CASE w = Nothing
    BY <2>1, <2>2 DEF Unlink
  <2>3. CASE w # Nothing
    <3>1. at = "stage"
      BY <1>0, <2>1, <2>3 DEF StagedOK
    <3>2. PICK e \in Entered : Coming(Staged) \subseteq {e}
      BY <1>0, <3>1 DEF StagedOK
    <3> QED BY <3>1, <3>2, EventNames
  <2> QED BY <2>2, <2>3
<1>11. \A v \in Coming(LastFile)', w \in Ver(Staged)' : w # Nothing /\ w[2] = v[2]
  <2> SUFFICES ASSUME NEW v \in Coming(LastFile)', NEW w \in Ver(Staged)'
               PROVE  w # Nothing /\ w[2] = v[2]
    OBVIOUS
  <2>1. v \in Coming(LastFile) /\ at \in {"recover", "promote"} /\ x # Unlink(Staged)
    BY <1>2, <1>4, <1>5
  <2>2. w \in Ver(Staged)
    BY <1>10, <2>1
  <2> QED BY <1>0, <2>1, <2>2 DEF TurnOK
<1>12. ASSUME NEW k \in 1..Len(todo'), todo'[k] = Unlink(Staged)
       PROVE  \/ Numbered' /\ Coming(LastFile)' = {}
                 /\ \A f \in Logged : Coming(f)' \subseteq {Nothing}
              \/ \E n \in 1..MaxSeq : Counts(k, n)'
  <2>1. k + 1 \in 1..Len(todo) /\ todo[k + 1] = Unlink(Staged) /\ x # Unlink(Staged)
    BY <1>3, <1>4, <1>12
  <2>2. CASE Numbered /\ Coming(LastFile) = {} /\ \A f \in Logged : Coming(f) \subseteq {Nothing}
    <3>1. Numbered'
      BY <2>2, NumberedStays
    <3> QED BY <1>2, <2>2, <3>1
  <2>3. CASE \E n \in 1..MaxSeq : Counts(k + 1, n)
    <3>1. PICK m : m = k + 1
      OBVIOUS
    <3>2. PICK n \in 1..MaxSeq : Counts(m, n)
      BY <2>3, <3>1
    <3>3. PICK v : v = Pointer(n)
      OBVIOUS
    <3>4. m \in Int /\ m - 1 = k
      BY <3>1
    <3>5. Coming(LastFile) \subseteq {v} /\ Lands(m, LastFile, v)
      BY <3>2, <3>3 DEF Counts
    <3>6. Lands(m - 1, LastFile, v)'
      BY <1>0, <1>2, <3>4, <3>5, LandsMove
    <3>7. Nothing \in Coming(Staged)
      <4>1. todo \in Seq(Step) /\ Has(todo, Put(Staged, Nothing))
        BY <2>1 DEF Has, Unlink, Moved
      <4> QED BY <4>1, ContentsAre DEF Coming
    <3>8. Ver(Staged)' \subseteq Ver(Staged)
      BY <1>10, <2>1, <3>7
    <3>9. Counts(k, n)'
      BY <1>2, <3>2, <3>3, <3>4, <3>5, <3>6, <3>8 DEF Counts
    <3> QED BY <3>9
  <2> QED BY <1>0, <2>1, <2>2, <2>3 DEF TurnOK
<1>13. ASSUME NEW k \in 1..Len(todo'), NEW f \in Logged, NEW v \in Entered, todo'[k] = Put(f, v)
       PROVE  Lands(k, Events, Folder)'
  <2>1. PICK m : m = k + 1
    OBVIOUS
  <2>2. m \in Int /\ m - 1 = k /\ m \in 1..Len(todo) /\ todo[m] = Put(f, v)
    BY <1>3, <1>13, <2>1
  <2>3. Lands(m, Events, Folder)
    BY <1>0, <2>2 DEF TurnOK
  <2>4. Lands(m - 1, Events, Folder)'
    BY <1>0, <1>2, <2>2, <2>3, LandsMove
  <2> QED BY <2>2, <2>4
<1>14. InMemory' => Nothing \notin Ver(HeadFile)'
  <2>1. InMemory' => InMemory
    BY <1>1 DEF InMemory
  <2> QED BY <1>0, <1>2, <1>6, <2>1 DEF TurnOK
<1>15. at' = "init" => cache'[HeadFile] # Nothing \/ Coming(HeadFile)' # {}
  <2>1. HeadFile \in File
    BY FileNames
  <2>2. cache'[HeadFile] = cache[HeadFile] \/ cache'[HeadFile] \in Coming(HeadFile)
    BY <1>0, <2>1, MovedVer
  <2>3. \A v \in Coming(HeadFile) : cache'[HeadFile] = v \/ v \in Coming(HeadFile)'
    BY <1>0, <2>1, MovedComing, MovedVer
  <2> QED BY <1>0, <1>1, <1>6, <2>2, <2>3 DEF TurnOK
<1>16. at' # "discard"
  BY <1>0, <1>1 DEF TurnOK
<1>17. \A f \in Logged : \A v \in Coming(f)' : v # Nothing => Anchored(v)'
  BY <1>9
<1>18. \A k \in 1..Len(todo') : todo'[k] = Unlink(Staged) =>
         \/ Numbered' /\ Coming(LastFile)' = {}
            /\ \A f \in Logged : Coming(f)' \subseteq {Nothing}
         \/ \E n \in 1..MaxSeq : Counts(k, n)'
  BY <1>12
<1>19. \A k \in 1..Len(todo'), f \in Logged, v \in Entered :
         todo'[k] = Put(f, v) => Lands(k, Events, Folder)'
  BY <1>13
<1> QED BY <1>7, <1>8, <1>11, <1>14, <1>15, <1>16, <1>17, <1>18, <1>19 DEF TurnOK

-----------------------------------------------------------------------------
(* A number names one event: subscribers *)

LEMMA InOrderLists ==
  ASSUME NEW E, E \subseteq Entered, IsFiniteSet(E), NEW s, s = InSeqOrder(E)
  PROVE  s \in Seq(Entered) /\ \A e : Has(s, e) => e \in E
<1> DEFINE part(n) == {e \in E : e[2] = n}
           q == [n \in 1..MaxSeq |-> SetToSeq(part(n))]
<1>1. ASSUME NEW n \in 1..MaxSeq
      PROVE  /\ SetToSeq(part(n)) \in Seq(Entered)
             /\ \A i \in 1..Len(SetToSeq(part(n))) : SetToSeq(part(n))[i] \in part(n)
  <2>1. part(n) \subseteq Entered /\ IsFiniteSet(part(n))
    <3>1. part(n) \in SUBSET E
      OBVIOUS
    <3> QED BY <3>1, FS_Subset
  <2> HIDE DEF part
  <2> QED BY <2>1, SetListed
<1>2. q \in Seq(Seq(Entered)) /\ Len(q) = MaxSeq /\ MaxSeq \in Nat
      /\ \A n \in 1..MaxSeq : q[n] = SetToSeq(part(n))
  <2>1. MaxSeq \in Nat
    BY BoundsAreNumbers
  <2> HIDE DEF part
  <2> QED BY <1>1, <2>1
<1>3. s = FlattenSeq(q)
  BY DEF InSeqOrder
<1> HIDE DEF q
<1>4. s \in Seq(Entered)
  BY <1>2, <1>3, FlattenType
<1>5. ASSUME NEW e, Has(s, e) PROVE e \in E
  <2>1. PICK n \in 1..Len(q) : Has(q[n], e)
    BY <1>2, <1>3, <1>5, FlattenHas
  <2>2. n \in 1..MaxSeq /\ q[n] = SetToSeq(part(n))
    BY <1>2, <2>1
  <2>3. e \in part(n)
    <3> HIDE DEF part
    <3> QED BY <1>1, <2>1, <2>2 DEF Has
  <2> QED BY <2>3
<1> QED BY <1>4, <1>5

LEMMA AfterLists ==
  ASSUME DiskOK, NEW c, NEW s, s = After(c)
  PROVE  s \in Seq(Entered) /\ \A e : Has(s, e) => e \in LogEntries
<1>1. LogEntries \subseteq Entered /\ IsFiniteSet(LogEntries)
  BY LogIsFinite
<1> DEFINE E == {e \in LogEntries : e[2] > c}
<1>2. E \in SUBSET LogEntries
  OBVIOUS
<1>3. E \subseteq Entered /\ IsFiniteSet(E) /\ s = InSeqOrder(E)
  BY <1>1, <1>2, FS_Subset DEF After
<1> HIDE DEF E
<1> QED BY <1>2, <1>3, InOrderLists

\* One subscriber's record is replaced by one that has heard no more than the log holds.
Hears(r, new) ==
  /\ relay' = [relay EXCEPT ![r] = new]
  /\ new \in [on : BOOLEAN, batch : Seq(Entered), cursor : Nat, floor : Nat,
              got : SUBSET Entered]
  /\ \A e : e \in new.got \/ Has(new.batch, e) =>
       e \in relay[r].got \/ Has(relay[r].batch, e) \/ e \in LogEntries

LEMMA HearsNoMore ==
  ASSUME RelayOK, NEW r \in Relay, NEW new, Hears(r, new)
  PROVE  RelayOK' /\ \A e : Heard(e)' => Heard(e) \/ e \in LogEntries
<1>1. RelayOK'
  BY DEF RelayOK, Hears
<1>2. \A q \in Relay : relay'[q] = IF q = r THEN new ELSE relay[q]
  BY DEF RelayOK, Hears
<1>3. ASSUME NEW e, Heard(e)' PROVE Heard(e) \/ e \in LogEntries
  <2>1. PICK q \in Relay : e \in relay'[q].got \/ Has(relay'[q].batch, e)
    BY <1>3 DEF Heard
  <2> QED BY <1>2, <2>1 DEF Heard, Hears
<1> QED BY <1>1, <1>3

LEMMA SubscriberHears ==
  ASSUME DiskOK, RelayOK, NEW r \in Relay, Subscriber(r)
  PROVE  \E new : Hears(r, new)
<1> DEFINE old == relay[r]
<1>0. /\ old \in [on : BOOLEAN, batch : Seq(Entered), cursor : Nat, floor : Nat, got : SUBSET Entered]
      /\ old = relay[r]
  BY DEF RelayOK
<1>1. LastSeq \in Nat
  BY SeqNumbers
<1> HIDE DEF old
<1>2. CASE Subscribe(r)
  <2>1. PICK replay : replay = After(old.cursor)
    OBVIOUS
  <2>2. PICK fl : fl = (IF ~Outdated(old.cursor, replay) THEN old.floor
                        ELSE IF replay = <<>> THEN LastSeq ELSE replay[1][2] - 1)
    OBVIOUS
  <2>3. replay \in Seq(Entered) /\ \A e : Has(replay, e) => e \in LogEntries
    BY <2>1, AfterLists
  <2>4. fl \in Nat
    <3>1. ASSUME replay # <<>> PROVE replay[1][2] - 1 \in Nat
      <4>1. replay[1] \in Entered
        BY <2>3, <3>1
      <4>2. replay[1][2] \in 1..MaxSeq
        BY <4>1, EventNames
      <4> QED BY <4>2
    <3> QED BY <1>0, <1>1, <2>2, <3>1
  <2>5. relay' = [relay EXCEPT ![r] = [old EXCEPT !.on = TRUE, !.batch = replay, !.floor = fl]]
    <3>1. relay' = [relay EXCEPT ![r] =
            [relay[r] EXCEPT !.on = TRUE, !.batch = After(relay[r].cursor),
               !.floor = IF ~Outdated(relay[r].cursor, After(relay[r].cursor)) THEN relay[r].floor
                         ELSE IF After(relay[r].cursor) = <<>> THEN LastSeq
                         ELSE After(relay[r].cursor)[1][2] - 1]]
      BY <1>2 DEF Subscribe
    <3> QED BY <1>0, <2>1, <2>2, <3>1, Zenon
  <2>6. PICK new : new = [old EXCEPT !.on = TRUE, !.batch = replay, !.floor = fl]
    OBVIOUS
  <2>7. /\ new \in [on : BOOLEAN, batch : Seq(Entered), cursor : Nat, floor : Nat, got : SUBSET Entered]
        /\ new.got = old.got /\ new.batch = replay
    BY <1>0, <2>3, <2>4, <2>6
  <2>8. Hears(r, new)
    BY <1>0, <2>3, <2>5, <2>6, <2>7 DEF Hears
  <2> QED BY <2>8
<1>3. CASE SubscribeLive(r)
  <2>1. relay' = [relay EXCEPT ![r] = [old EXCEPT !.on = TRUE, !.cursor = LastSeq, !.floor = LastSeq]]
    BY <1>0, <1>3 DEF SubscribeLive
  <2>2. PICK new : new = [old EXCEPT !.on = TRUE, !.cursor = LastSeq, !.floor = LastSeq]
    OBVIOUS
  <2>3. /\ new \in [on : BOOLEAN, batch : Seq(Entered), cursor : Nat, floor : Nat, got : SUBSET Entered]
        /\ new.got = old.got /\ new.batch = old.batch
    BY <1>0, <1>1, <2>2
  <2>4. Hears(r, new)
    BY <1>0, <2>1, <2>2, <2>3 DEF Hears
  <2> QED BY <2>4
<1>4. CASE Send(r)
  <2>1. old.batch \in Seq(Entered) /\ old.batch # << >>
    BY <1>0, <1>4 DEF Send
  <2>2. PICK e : e = Head(old.batch)
    OBVIOUS
  <2>3. e \in Entered /\ Tail(old.batch) \in Seq(Entered) /\ Has(old.batch, e)
        /\ \A d : Has(Tail(old.batch), d) => Has(old.batch, d)
    BY <2>1, <2>2, TailHas
  <2>4. e[2] \in Nat
    BY <2>3, EventNames
  <2>5. relay' = [relay EXCEPT ![r] =
          [old EXCEPT !.batch = Tail(old.batch), !.cursor = e[2], !.got = old.got \cup {e}]]
    <3>1. relay' = [relay EXCEPT ![r] =
            [relay[r] EXCEPT !.batch = Tail(relay[r].batch), !.cursor = Head(relay[r].batch)[2],
                             !.got = relay[r].got \cup {Head(relay[r].batch)}]]
      BY <1>4 DEF Send
    <3> QED BY <1>0, <2>2, <3>1, Zenon
  <2>6. PICK new : new = [old EXCEPT !.batch = Tail(old.batch), !.cursor = e[2], !.got = old.got \cup {e}]
    OBVIOUS
  <2>7. /\ new \in [on : BOOLEAN, batch : Seq(Entered), cursor : Nat, floor : Nat, got : SUBSET Entered]
        /\ new.got = old.got \cup {e} /\ new.batch = Tail(old.batch)
    BY <1>0, <2>3, <2>4, <2>6
  <2>8. Hears(r, new)
    BY <1>0, <2>3, <2>5, <2>6, <2>7 DEF Hears
  <2> QED BY <2>8
<1>5. CASE PollLog(r)
  <2>1. PICK replay : replay = After(old.cursor)
    OBVIOUS
  <2>2. replay \in Seq(Entered) /\ \A e : Has(replay, e) => e \in LogEntries
    BY <2>1, AfterLists
  <2>3. relay' = [relay EXCEPT ![r] = [old EXCEPT !.batch = replay]]
    <3>1. relay' = [relay EXCEPT ![r].batch = replay]
      BY <1>0, <1>5, <2>1 DEF PollLog
    <3> QED BY <1>0, <3>1 DEF RelayOK
  <2>4. PICK new : new = [old EXCEPT !.batch = replay]
    OBVIOUS
  <2>5. /\ new \in [on : BOOLEAN, batch : Seq(Entered), cursor : Nat, floor : Nat, got : SUBSET Entered]
        /\ new.got = old.got /\ new.batch = replay
    BY <1>0, <2>2, <2>4
  <2>6. Hears(r, new)
    BY <1>0, <2>2, <2>3, <2>4, <2>5 DEF Hears
  <2> QED BY <2>6
<1>6. CASE Leave(r)
  <2>1. relay' = [relay EXCEPT ![r] = [old EXCEPT !.on = FALSE, !.batch = <<>>]]
    BY <1>0, <1>6 DEF Leave, RelayOK
  <2>2. PICK new : new = [old EXCEPT !.on = FALSE, !.batch = <<>>]
    OBVIOUS
  <2>3. /\ new \in [on : BOOLEAN, batch : Seq(Entered), cursor : Nat, floor : Nat, got : SUBSET Entered]
        /\ new.got = old.got /\ new.batch = <<>>
    BY <1>0, <2>2, NoneHas
  <2>4. \A e : ~ Has(<<>>, e)
    BY NoneHas
  <2>5. Hears(r, new)
    BY <1>0, <2>1, <2>2, <2>3, <2>4 DEF Hears
  <2> QED BY <2>5
<1> QED BY <1>2, <1>3, <1>4, <1>5, <1>6 DEF Subscriber

LEMMA DeathIsNotHeard ==
  ASSUME RelayOK, Die
  PROVE  RelayOK' /\ \A e : Heard(e)' => Heard(e)
<1>1. relay' = [r \in Relay |-> [[relay[r] EXCEPT !.on = FALSE] EXCEPT !.batch = <<>>]]
  BY DEF Die, Disconnected
<1>2. ASSUME NEW r \in Relay
      PROVE  /\ relay'[r] \in [on : BOOLEAN, batch : Seq(Entered), cursor : Nat,
                               floor : Nat, got : SUBSET Entered]
             /\ relay'[r].got = relay[r].got /\ relay'[r].batch = <<>>
  <2>1. PICK old : old = relay[r]
    OBVIOUS
  <2>2. old \in [on : BOOLEAN, batch : Seq(Entered), cursor : Nat, floor : Nat, got : SUBSET Entered]
    BY <2>1 DEF RelayOK
  <2>3. relay'[r] = [[old EXCEPT !.on = FALSE] EXCEPT !.batch = <<>>]
    BY <1>1, <2>1
  <2> QED BY <2>1, <2>2, <2>3, NoneHas
<1>3. RelayOK'
  BY <1>1, <1>2 DEF RelayOK
<1>4. \A e : Heard(e)' => Heard(e)
  BY <1>2, NoneHas DEF Heard
<1> QED BY <1>3, <1>4

LEMMA LogIsSeen == ASSUME DiskOK PROVE LogEntries \subseteq Seen
<1> SUFFICES ASSUME NEW e \in LogEntries PROVE e \in Seen
  OBVIOUS
<1>1. e \in Entered
  BY LogIsFinite
<1>2. PICK f \in EntryFiles : e = cache[f]
  BY DEF LogEntries
<1>3. f \in Logged /\ f \in File
  BY <1>2 DEF EntryFiles, Logged
<1>4. e \in Ver(f)
  BY <1>2, <1>3, Shown
<1> QED BY <1>1, <1>3, <1>4 DEF Seen

LEMMA HearingSteps ==
  ASSUME DiskOK, RelayOK, [Next]_vars
  PROVE  RelayOK' /\ \A e : Heard(e)' => Heard(e) \/ e \in LogEntries
<1>1. CASE \E r \in Relay : Subscriber(r)
  BY <1>1, SubscriberHears, HearsNoMore
<1>2. CASE Crash \/ PowerLoss
  BY <1>2, DeathIsNotHeard DEF Crash, PowerLoss
<1>3. CASE relay' = relay
  BY <1>3 DEF RelayOK, Heard
<1>4. CASE Process
  <2>1. relay' = relay
    BY <1>4 DEF Process, Work, Recover, RefuseLog, EmitGenesis, Serve, PersistRepo,
       PromoteEntry, Answer, DropStaged
  <2> QED BY <1>3, <2>1
<1>5. CASE Operator \/ Client
  <2>1. relay' = relay
    BY <1>5 DEF Operator, Client, StartNew, StartAgain, StartRefused, RequestCommit, RequestIdentity
  <2> QED BY <1>3, <2>1
<1>6. CASE DiskError \/ FileDamaged \/ Tick \/ ClockStepsBack
  <2>1. relay' = relay
    BY <1>6 DEF DiskError, FileDamaged, Tick, ClockStepsBack
  <2> QED BY <1>3, <2>1
<1>7. CASE UNCHANGED vars
  BY <1>3, <1>7 DEF vars
<1> QED BY <1>1, <1>2, <1>4, <1>5, <1>6, <1>7 DEF Next, Environment

LEMMA SeenFalls ==
  ASSUME DiskOK, RelayOK, [Next]_vars, \A f \in Logged : Ver(f)' = Ver(f)
  PROVE  \A a : (a \in Seen)' => a \in Seen
<1>1. \A e : Heard(e)' => Heard(e) \/ e \in LogEntries
  BY HearingSteps
<1>2. LogEntries \subseteq Seen
  BY LogIsSeen
<1>3. \A a : (a \in Seen)' <=> a \in Entered /\ (Heard(a)' \/ \E f \in Logged : a \in Ver(f)')
  BY DEF Seen
<1> QED BY <1>1, <1>2, <1>3 DEF Seen

\* What a call has to begin with.
LEMMA BeginsNumbers ==
  ASSUME Base, NumbersOK, [Next]_vars, NEW s, Begins(s),
         Contents(s, HeadFile) # {} \/ at' \in {"stage", "persist"}
           \/ (up' = "serving" /\ at' = "idle") => Numbered,
         \A v \in Contents(s, Staged), u \in Ver(LastFile) : v # Nothing => v[2] = Num(u) + 1,
         \A f \in Logged : \A v \in Contents(s, f) : v # Nothing => Anchored(v),
         \A v \in Contents(s, LastFile), w \in Ver(Staged) : w # Nothing /\ w[2] = v[2],
         \A k \in 1..Len(s) : s[k] = Unlink(Staged) =>
           \/ Numbered /\ Contents(s, LastFile) = {}
              /\ \A f \in Logged : Contents(s, f) \subseteq {Nothing}
           \/ \E n \in 1..MaxSeq : Counts(k, n)',
         \A k \in 1..Len(s), f \in Logged, v \in Entered :
           s[k] = Put(f, v) => Lands(k, Events, Folder)',
         InMemory' => Nothing \notin Ver(HeadFile),
         at' = "init" => cache[HeadFile] # Nothing \/ Contents(s, HeadFile) # {},
         at' # "discard"
  PROVE  NumbersOK'
<1>0. DiskOK /\ RelayOK /\ LogOK /\ TurnOK
  BY DEF Base, NumbersOK
<1>1. \A f : Ver(f)' = Ver(f) /\ Coming(f)' = Contents(s, f) /\ cache'[f] = cache[f]
  BY <1>0, BeginsFacts
<1>2. todo' = s
  BY DEF Begins
<1>3. RelayOK' /\ \A a : (a \in Seen)' => a \in Seen
  BY <1>0, <1>1, HearingSteps, SeenFalls
<1>4. \A e : Anchored(e)' <=> Anchored(e)
  BY <1>1 DEF Anchored
<1>5. \A a, v : Pending(a, v)' <=> Pending(a, v)
  BY <1>1 DEF Pending
<1>6. Numbered => Numbered'
  BY <1>1, <1>3 DEF Numbered
<1>7. LogOK'
  <2>1. \A a, b \in Seen' : a \in Seen /\ b \in Seen
    BY <1>3
  <2> QED BY <1>0, <1>1, <1>3, <1>5, <2>1 DEF LogOK
<1>8. \A k \in 1..Len(s) : s[k] = Unlink(Staged) =>
           \/ Numbered' /\ Coming(LastFile)' = {}
              /\ \A f \in Logged : Coming(f)' \subseteq {Nothing}
           \/ \E n \in 1..MaxSeq : Counts(k, n)'
  BY <1>1, <1>6
<1>9. TurnOK'
  BY <1>1, <1>2, <1>4, <1>6, <1>8 DEF TurnOK
<1> QED BY <1>3, <1>7, <1>9 DEF NumbersOK

\* Where an entry's call is over, its pending copy has gone and it is counted.
LEMMA RestIsNumbered ==
  ASSUME Base, NumbersOK, at \in {"recover", "promote"}, todo = << >>
  PROVE  Numbered
<1>0. DiskOK /\ StagedOK /\ LogOK
  BY DEF Base, NumbersOK
<1>1. Coming(Staged) = {}
  BY ContentsNone DEF Coming
<1>2. cache[Staged] = Nothing /\ Nothing \in Ver(Staged)
  BY <1>0, <1>1, Shown, FileNames DEF StagedOK
<1>3. \A a \in Seen : a # Nothing
  BY <1>0, SeenNumbers
<1> QED BY <1>0, <1>2, <1>3 DEF Numbered, LogOK, Pending

-----------------------------------------------------------------------------
(* A number names one event: the calls *)

\* A call that puts nothing on the files the numbers are read from.
LEMMA IdleNumbers ==
  ASSUME Base, NumbersOK, [Next]_vars, Begins(<< >>),
         at' \in {"stage", "persist"} \/ (up' = "serving" /\ at' = "idle") => Numbered,
         InMemory' => Nothing \notin Ver(HeadFile),
         at' = "init" => cache[HeadFile] # Nothing,
         at' # "discard"
  PROVE  NumbersOK'
<1>1. PICK s : s = << >>
  OBVIOUS
<1>2. Begins(s) /\ Len(s) = 0 /\ \A f : Contents(s, f) = {}
  BY <1>1, ContentsNone
<1>3. \A k \in 1..Len(s) : FALSE
  BY <1>2
<1>4. Contents(s, HeadFile) # {} \/ at' \in {"stage", "persist"}
           \/ (up' = "serving" /\ at' = "idle") => Numbered
  BY <1>2
<1>5. \A v \in Contents(s, Staged), u \in Ver(LastFile) : v # Nothing => v[2] = Num(u) + 1
  BY <1>2
<1>6. \A f \in Logged : \A v \in Contents(s, f) : v # Nothing => Anchored(v)
  BY <1>2
<1>7. \A v \in Contents(s, LastFile), w \in Ver(Staged) : w # Nothing /\ w[2] = v[2]
  BY <1>2
<1>8. \A k \in 1..Len(s) : s[k] = Unlink(Staged) =>
           \/ Numbered /\ Contents(s, LastFile) = {}
              /\ \A f \in Logged : Contents(s, f) \subseteq {Nothing}
           \/ \E n \in 1..MaxSeq : Counts(k, n)'
  BY <1>3
<1>9. \A k \in 1..Len(s), f \in Logged, v \in Entered :
           s[k] = Put(f, v) => Lands(k, Events, Folder)'
  BY <1>3
<1>10. at' = "init" => cache[HeadFile] # Nothing \/ Contents(s, HeadFile) # {}
  OBVIOUS
<1> QED BY <1>2, <1>4, <1>5, <1>6, <1>7, <1>8, <1>9, <1>10, BeginsNumbers

LEMMA RestingNumbers ==
  ASSUME Base, FaultsApart, NumbersOK, [Next]_vars,
         StartAgain \/ StartRefused \/ RefuseLog \/ Serve \/ Answer \/ DropStaged \/ Crash
  PROVE  NumbersOK'
<1>0. CallsOK /\ TurnOK
  BY DEF Base, NumbersOK
<1>1. Begins(<< >>)
  BY RestingSteps DEF Rests
<1>2. CASE StartAgain
  <2>1. up' = "starting" /\ at' = "init" /\ cache[HeadFile] # Nothing
    BY <1>2 DEF StartAgain, Call, Exists
  <2>2. ~InMemory'
    BY <2>1 DEF InMemory
  <2> QED BY <1>1, <2>1, <2>2, IdleNumbers
<1>3. CASE StartRefused \/ RefuseLog \/ Crash
  <2>1. up' \in {"refused", "down"} /\ at' = "idle"
    BY <1>0, <1>3 DEF StartRefused, RefuseLog, Crash, Die, Call, CallsOK
  <2>2. ~InMemory'
    BY <2>1 DEF InMemory
  <2> QED BY <1>1, <2>1, <2>2, IdleNumbers
<1>4. CASE Serve \/ Answer
  <2>1. at \in {"recover", "promote"} /\ todo = << >> /\ at' \in {"recover", "idle"}
    BY <1>4 DEF Serve, Answer, Call
  <2>2. Numbered
    BY <2>1, RestIsNumbered
  <2>3. InMemory
    BY <1>0, <2>1 DEF CallsOK, InMemory
  <2>4. Nothing \notin Ver(HeadFile)
    BY <1>0, <2>3 DEF TurnOK
  <2> QED BY <1>1, <2>1, <2>2, <2>4, IdleNumbers
<1>5. CASE DropStaged
  BY <1>0, <1>5 DEF DropStaged, TurnOK
<1> QED BY <1>2, <1>3, <1>4, <1>5

LEMMA StagingNumbers ==
  ASSUME Base, FlushedOK, NumbersOK, [Next]_vars, EmitGenesis \/ RequestCommit \/ RequestIdentity
  PROVE  NumbersOK'
<1>0. DiskOK /\ CallsOK /\ TurnOK
  BY DEF Base, NumbersOK
<1>1. PICK e \in Entered : Begins(Stage(e)) /\ e[2] = NextSequence /\ todo = << >> /\ at' = "stage"
  BY StagingSteps DEF Stages
<1>2. PICK s : s = Stage(e)
  OBVIOUS
<1>3. /\ Begins(s) /\ Contents(s, Staged) \subseteq {e} /\ Contents(s, HeadFile) = {}
      /\ Contents(s, LastFile) = {} /\ \A f \in Logged : Contents(s, f) = {}
  BY <1>1, <1>2, StageComing
<1>4. Numbered /\ InMemory
  <2>1. CASE EmitGenesis
    <3>1. at = "recover" /\ todo = << >>
      BY <2>1 DEF EmitGenesis
    <3>2. Numbered
      BY <3>1, RestIsNumbered
    <3>3. up = "starting"
      BY <1>0, <3>1 DEF CallsOK
    <3> QED BY <3>1, <3>2, <3>3 DEF InMemory
  <2>2. CASE RequestCommit \/ RequestIdentity
    <3>1. up = "serving" /\ at = "idle"
      BY <2>2 DEF RequestCommit, RequestIdentity, Free
    <3> QED BY <1>0, <3>1 DEF TurnOK, InMemory
  <2> QED BY <2>1, <2>2
<1>5. Ver(LastFile) = {cache[LastFile]}
  BY <1>1 DEF FlushedOK, Has, Kept
<1>6. \A v \in Contents(s, Staged), u \in Ver(LastFile) : v # Nothing => v[2] = Num(u) + 1
  BY <1>0, <1>1, <1>3, <1>5, SeqNumbers
<1>7. Nothing \notin Ver(HeadFile)
  BY <1>0, <1>4 DEF TurnOK
<1>8. s \in Seq(Step)
  BY <1>3 DEF Begins
<1>9. \A k \in 1..Len(s) : s[k] # Unlink(Staged)
  <2> SUFFICES ASSUME NEW k \in 1..Len(s), s[k] = Put(Staged, Nothing) PROVE FALSE
    BY DEF Unlink
  <2>1. Nothing \in Contents(s, Staged)
    BY <1>8, ContentsAre DEF Has
  <2> QED BY <1>3, <2>1, EventNames
<1>10. \A k \in 1..Len(s), f \in Logged, v \in Entered : s[k] # Put(f, v)
  BY <1>3, <1>8, ContentsAre DEF Has
<1>11. Contents(s, HeadFile) # {} \/ at' \in {"stage", "persist"}
           \/ (up' = "serving" /\ at' = "idle") => Numbered
  BY <1>4
<1>12. \A f \in Logged : \A v \in Contents(s, f) : v # Nothing => Anchored(v)
  BY <1>3
<1>13. \A v \in Contents(s, LastFile), w \in Ver(Staged) : w # Nothing /\ w[2] = v[2]
  BY <1>3
<1>14. \A k \in 1..Len(s) : s[k] = Unlink(Staged) =>
           \/ Numbered /\ Contents(s, LastFile) = {}
              /\ \A f \in Logged : Contents(s, f) \subseteq {Nothing}
           \/ \E n \in 1..MaxSeq : Counts(k, n)'
  BY <1>9
<1>15. \A k \in 1..Len(s), f \in Logged, v \in Entered :
           s[k] = Put(f, v) => Lands(k, Events, Folder)'
  BY <1>10
<1>16. /\ InMemory' => Nothing \notin Ver(HeadFile)
       /\ at' = "init" => cache[HeadFile] # Nothing \/ Contents(s, HeadFile) # {}
       /\ at' # "discard"
  BY <1>1, <1>7
<1> QED BY <1>3, <1>6, <1>11, <1>12, <1>13, <1>14, <1>15, <1>16, BeginsNumbers

LEMMA PersistingNumbers ==
  ASSUME Base, NumbersOK, [Next]_vars, StartNew \/ PersistRepo
  PROVE  NumbersOK'
<1>0. DiskOK /\ CallsOK /\ TurnOK /\ LogOK
  BY DEF Base, NumbersOK
<1>1. PICK c \in Commits : Begins(PersistSave(c)) /\ at' \in {"init", "persist"}
  BY PersistingSteps DEF Persists
<1>2. PICK s : s = PersistSave(c)
  OBVIOUS
<1>3. /\ Begins(s) /\ s \in Seq(Step) /\ Contents(s, Staged) = {} /\ Contents(s, LastFile) = {}
      /\ \A f \in Logged : Contents(s, f) = {}
  BY <1>1, <1>2, PersistComing
<1>4. Contents(s, HeadFile) # {}
  <2>1. Has(s, Put(HeadFile, Cid(c)))
    BY <1>2, PersistSaveDoes, BeforeHas
  <2> QED BY <1>3, <2>1, ContentsAre
<1>5. Numbered /\ (InMemory' => Nothing \notin Ver(HeadFile))
  <2>1. CASE StartNew
    <3>1. Nothing \in Ver(HeadFile)
      BY <1>0, <2>1, Shown, FileNames DEF StartNew, Exists
    <3>2. Seen = {}
      BY <1>0, <3>1 DEF LogOK
    <3>3. ~InMemory'
      BY <2>1 DEF StartNew, Call, InMemory
    <3> QED BY <3>2, <3>3 DEF Numbered
  <2>2. CASE PersistRepo
    <3>1. at = "stage" /\ up = "serving"
      BY <1>0, <2>2 DEF PersistRepo, CallsOK
    <3> QED BY <1>0, <3>1 DEF TurnOK, InMemory
  <2> QED BY <2>1, <2>2
<1>6. \A k \in 1..Len(s) : s[k] # Unlink(Staged)
  BY <1>3, ContentsAre DEF Has, Unlink
<1>7. \A k \in 1..Len(s), f \in Logged, v \in Entered : s[k] # Put(f, v)
  BY <1>3, ContentsAre DEF Has
<1>8. Contents(s, HeadFile) # {} \/ at' \in {"stage", "persist"}
           \/ (up' = "serving" /\ at' = "idle") => Numbered
  BY <1>5
<1>9. \A v \in Contents(s, Staged), u \in Ver(LastFile) : v # Nothing => v[2] = Num(u) + 1
  BY <1>3
<1>10. \A f \in Logged : \A v \in Contents(s, f) : v # Nothing => Anchored(v)
  BY <1>3
<1>11. \A v \in Contents(s, LastFile), w \in Ver(Staged) : w # Nothing /\ w[2] = v[2]
  BY <1>3
<1>12. \A k \in 1..Len(s) : s[k] = Unlink(Staged) =>
           \/ Numbered /\ Contents(s, LastFile) = {}
              /\ \A f \in Logged : Contents(s, f) \subseteq {Nothing}
           \/ \E n \in 1..MaxSeq : Counts(k, n)'
  BY <1>6
<1>13. \A k \in 1..Len(s), f \in Logged, v \in Entered :
           s[k] = Put(f, v) => Lands(k, Events, Folder)'
  BY <1>7
<1>14. /\ at' = "init" => cache[HeadFile] # Nothing \/ Contents(s, HeadFile) # {}
       /\ at' # "discard"
  BY <1>1, <1>4
<1> QED BY <1>3, <1>5, <1>8, <1>9, <1>10, <1>11, <1>12, <1>13, <1>14, BeginsNumbers

\* The pending entry is of the head that is there, or of none.
LEMMA PromoteNumbers ==
  ASSUME Base, FlushedOK, NumbersOK, [Next]_vars, NEW e \in Entered, Ver(Staged) = {e},
         Begins(Promote(e)), todo = << >>, Anchored(e), Nothing \notin Ver(HeadFile),
         at' \in {"recover", "promote"}
  PROVE  NumbersOK'
<1>0. DiskOK
  BY DEF Base
<1>1. PICK s : s = Promote(e)
  OBVIOUS
<1>2. /\ Begins(s) /\ s \in Seq(Step)
      /\ Contents(s, Staged) = {Nothing} /\ Contents(s, HeadFile) = {}
      /\ Contents(s, LastFile) \subseteq {Pointer(e[2])}
      /\ \A f \in Logged : \A v \in Contents(s, f) : v = Nothing \/ (v = e /\ f = Entry(e))
  BY <1>0, <1>1, PromoteComing
<1>3. PICK n \in 1..MaxSeq : n = e[2]
  BY EventNames
<1>4. e # Nothing /\ Pointer(n)[2] = n
  BY EventNames, NumFacts
<1>5. \A v \in Contents(s, Staged), u \in Ver(LastFile) : v # Nothing => v[2] = Num(u) + 1
  BY <1>2
<1>6. \A f \in Logged : \A v \in Contents(s, f) : v # Nothing => Anchored(v)
  BY <1>2
<1>7. \A v \in Contents(s, LastFile), w \in Ver(Staged) : w # Nothing /\ w[2] = v[2]
  BY <1>2, <1>3, <1>4
<1>8. ASSUME NEW k \in 1..Len(s), s[k] = Unlink(Staged) PROVE Counts(k, n)'
  <2>1. k \in Int /\ Home(LastFile) = Events
    BY FileNames
  <2>2. PICK v : v = Pointer(n)
    OBVIOUS
  <2>3. Behind(s, k, Put(LastFile, v), Sync(Home(LastFile)))
    BY <1>0, <1>1, <1>3, <1>8, <2>1, <2>2, PromoteDoes
  <2>4. Lands(k, LastFile, v)'
    BY <1>2, <2>1, <2>3, BeginsLands
  <2>5. Coming(LastFile)' \subseteq {Pointer(n)} /\ Ver(Staged)' = {e}
    BY <1>0, <1>2, <1>3, BeginsFacts
  <2> QED BY <1>3, <1>4, <2>2, <2>4, <2>5 DEF Counts
<1>9. ASSUME NEW k \in 1..Len(s), NEW f \in Logged, NEW v \in Entered, s[k] = Put(f, v)
      PROVE  Lands(k, Events, Folder)'
  <2>1. v \in Contents(s, f) /\ v # Nothing
    BY <1>2, <1>9, ContentsAre, EventNames DEF Has
  <2>2. s[k] = Put(Entry(e), e)
    BY <1>2, <1>9, <2>1
  <2>3. k \in Int /\ Home(Events) = Root /\ Events \in File /\ Events \in Kept
    BY FileNames DEF Kept
  <2>4. CASE Exists(Events)
    <3>1. Ver(Events) = {cache[Events]}
      BY <2>3 DEF FlushedOK, Has
    <3>2. cache[Events] \in Holds(Events) /\ Holds(Events) = {Nothing, Folder}
      BY <1>0, <2>3, FileNames, PutsAre DEF DiskOK
    <3>3. Ver(Events) = {Folder}
      BY <2>4, <3>1, <3>2 DEF Exists
    <3> QED BY <1>2, <2>3, <3>3, BeginsLands
  <2>5. CASE ~Exists(Events)
    <3>1. Behind(s, k, Put(Events, Folder), Sync(Root))
      BY <1>0, <1>1, <2>2, <2>5, PromoteDoes
    <3>2. Behind(s, k, Put(Events, Folder), Sync(Home(Events)))
      BY <2>3, <3>1
    <3> QED BY <1>2, <2>3, <3>2, BeginsLands
  <2> QED BY <2>4, <2>5
<1>10. Contents(s, HeadFile) # {} \/ at' \in {"stage", "persist"}
           \/ (up' = "serving" /\ at' = "idle") => Numbered
  BY <1>2
<1>11. \A k \in 1..Len(s) : s[k] = Unlink(Staged) =>
           \/ Numbered /\ Contents(s, LastFile) = {}
              /\ \A f \in Logged : Contents(s, f) \subseteq {Nothing}
           \/ \E m \in 1..MaxSeq : Counts(k, m)'
  BY <1>8
<1>12. \A k \in 1..Len(s), f \in Logged, v \in Entered :
           s[k] = Put(f, v) => Lands(k, Events, Folder)'
  BY <1>9
<1>13. /\ InMemory' => Nothing \notin Ver(HeadFile)
       /\ at' = "init" => cache[HeadFile] # Nothing \/ Contents(s, HeadFile) # {}
       /\ at' # "discard"
  OBVIOUS
<1> QED BY <1>2, <1>5, <1>6, <1>7, <1>10, <1>11, <1>12, <1>13, BeginsNumbers

LEMMA PromotingNumbers ==
  ASSUME Base, FlushedOK, NumbersOK, [Next]_vars, PromoteEntry
  PROVE  NumbersOK'
<1>0. DiskOK /\ CallsOK /\ HeadsOK /\ TurnOK
  BY DEF Base, NumbersOK
<1>1. /\ todo = << >> /\ at \in {"persist", "stage"} /\ (at = "stage" => commit = 0)
      /\ at' = "promote"
  BY DEF PromoteEntry, Call
<1>2. PICK e \in Entered : /\ e = cache[Staged] /\ Ver(Staged) = {e} /\ Fresh(e)
                           /\ Begins(Promote(e))
  BY PromoteFinds
<1>3. InMemory
  BY <1>0, <1>1 DEF CallsOK, InMemory
<1>4. Nothing \notin Ver(HeadFile)
  BY <1>0, <1>3 DEF TurnOK
<1>5. Anchored(e)
  <2>1. CASE up = "serving" /\ at = "persist"
    <3>1. PICK v : v = Cid(commit)
      OBVIOUS
    <3>2. Ver(HeadFile) = {v}
      BY <1>0, <1>1, <2>1, <3>1, LandsDone DEF HeadsOK
    <3> QED BY <1>2, <2>1, <3>1, <3>2 DEF Fresh, Anchored
  <2>2. CASE up = "serving" /\ at = "stage"
    BY <1>1, <1>2, <2>2 DEF Fresh, Anchored
  <2>3. CASE up = "starting" /\ e[4] # 0
    <3>1. e[4] = Num(cache[HeadFile])
      BY <1>0, <1>1, <1>2, <2>3 DEF Fresh, HeadsOK
    <3>2. Ver(HeadFile) = {cache[HeadFile]}
      BY <1>1 DEF FlushedOK, Has, Kept
    <3>3. PICK c \in Commits : cache[HeadFile] = Cid(c)
      BY <1>0, <1>4, <3>2, Shown
    <3>4. Num(cache[HeadFile]) = c
      BY <3>3, NumFacts
    <3> QED BY <3>1, <3>2, <3>3, <3>4 DEF Anchored
  <2>4. up \in {"serving", "starting"}
    BY <1>0, <1>1 DEF CallsOK
  <2> QED BY <1>1, <2>1, <2>2, <2>3, <2>4 DEF Anchored
<1> QED BY <1>1, <1>2, <1>4, <1>5, PromoteNumbers

LEMMA RecoveringNumbers ==
  ASSUME Base, FlushedOK, OrderOK, NumbersOK, [Next]_vars, Recover
  PROVE  NumbersOK'
<1>0. DiskOK /\ CallsOK /\ HeadsOK /\ LogOK /\ TurnOK
  BY DEF Base, NumbersOK
<1>1. Begins(Recovery) /\ todo = << >> /\ at = "init" /\ at' = "recover"
  BY RecoveringStep DEF Recovers
<1>2. Ver(Staged) = {cache[Staged]}
  BY <1>1 DEF FlushedOK
<1>3. Ver(HeadFile) = {cache[HeadFile]}
  BY <1>1 DEF FlushedOK, Has, Kept
<1>4. cache[HeadFile] # Nothing
  <2>1. Coming(HeadFile) = {}
    BY <1>1, ContentsNone DEF Coming
  <2> QED BY <1>0, <1>1, <2>1 DEF TurnOK
<1>5. PICK c \in Commits : cache[HeadFile] = Cid(c)
  BY <1>0, <1>3, <1>4, Shown
<1>6. DiskHead = c
  BY <1>5, DiskHeadIs, NumFacts
<1>7. ASSUME NEW e PROVE Owed(e) <=> Anchored(e)
  <2>1. Ver(HeadFile) = {Cid(e[4])} <=> c = e[4]
    BY <1>3, <1>5, NumFacts
  <2> QED BY <1>6, <2>1 DEF Owed, Anchored
<1>8. Nothing \notin Ver(HeadFile)
  BY <1>3, <1>4
<1>9. CASE ~Exists(Staged) /\ Recovery = << >>
  BY <1>1, <1>8, <1>9, IdleNumbers
<1>10. CASE \E e \in Entered : e = cache[Staged] /\ Owed(e) /\ Recovery = Promote(e)
  <2>1. PICK e \in Entered : e = cache[Staged] /\ Owed(e) /\ Recovery = Promote(e)
    BY <1>10
  <2>2. Ver(Staged) = {e} /\ Anchored(e) /\ Begins(Promote(e))
    BY <1>1, <1>2, <1>7, <2>1
  <2> QED BY <1>1, <1>8, <2>2, PromoteNumbers
<1>11. CASE \E e \in Entered : e = cache[Staged] /\ ~Owed(e) /\ Recovery = DiscardStaged
  <2>1. PICK e \in Entered : e = cache[Staged] /\ ~Owed(e) /\ Recovery = DiscardStaged
    BY <1>11
  <2>2. PICK s : s = DiscardStaged
    OBVIOUS
  <2>3. /\ Begins(s) /\ s \in Seq(Step) /\ Contents(s, Staged) \subseteq {Nothing}
        /\ Contents(s, HeadFile) = {} /\ Contents(s, LastFile) = {}
        /\ \A f \in Logged : Contents(s, f) = {}
    BY <1>1, <2>1, <2>2, DiscardComing
  <2>4. Numbered
    <3> SUFFICES ASSUME NEW a \in Seen, NEW v \in Ver(LastFile), Pending(a, v) PROVE FALSE
      BY <1>0 DEF Numbered, LogOK
    <3>1. a = e /\ Anchored(a)
      BY <1>2, <2>1 DEF Pending, Anchored
    <3> QED BY <1>7, <2>1, <3>1
  <2>5. \A k \in 1..Len(s), f \in Logged, v \in Entered : s[k] # Put(f, v)
    BY <2>3, ContentsAre DEF Has
  <2>6. Contents(s, HeadFile) # {} \/ at' \in {"stage", "persist"}
           \/ (up' = "serving" /\ at' = "idle") => Numbered
    BY <2>4
  <2>7. \A v \in Contents(s, Staged), u \in Ver(LastFile) : v # Nothing => v[2] = Num(u) + 1
    BY <2>3
  <2>8. \A f \in Logged : \A v \in Contents(s, f) : v # Nothing => Anchored(v)
    BY <2>3
  <2>9. \A v \in Contents(s, LastFile), w \in Ver(Staged) : w # Nothing /\ w[2] = v[2]
    BY <2>3
  <2>10. \A k \in 1..Len(s) : s[k] = Unlink(Staged) =>
           \/ Numbered /\ Contents(s, LastFile) = {}
              /\ \A f \in Logged : Contents(s, f) \subseteq {Nothing}
           \/ \E n \in 1..MaxSeq : Counts(k, n)'
    BY <2>3, <2>4
  <2>11. \A k \in 1..Len(s), f \in Logged, v \in Entered :
           s[k] = Put(f, v) => Lands(k, Events, Folder)'
    BY <2>5
  <2>12. /\ InMemory' => Nothing \notin Ver(HeadFile)
         /\ at' = "init" => cache[HeadFile] # Nothing \/ Contents(s, HeadFile) # {}
         /\ at' # "discard"
    BY <1>1, <1>8
  <2> QED BY <2>3, <2>6, <2>7, <2>8, <2>9, <2>10, <2>11, <2>12, BeginsNumbers
<1> QED BY <1>0, <1>9, <1>10, <1>11, RecoveryIs

LEMMA PowerLossNumbers ==
  ASSUME Base, NumbersOK, [Next]_vars, PowerLoss
  PROVE  NumbersOK'
<1>0. DiskOK /\ RelayOK /\ LogOK
  BY DEF Base, NumbersOK
<1>1. /\ todo' = << >> /\ at' = "idle" /\ up' = "down" /\ Die
      /\ \A f \in File : Ver(f)' = {cache'[f]}
  BY <1>0, PowerLossDoes DEF Die, Call
<1>2. PICK kept : Left(kept)
  BY <1>0, PowerLossDoes
<1>3. \A f \in File : /\ kept[f] \in Ver(f)
                      /\ cache'[f] = IF \A d \in {Home(f), Home(Home(f))} : kept[d] # Nothing
                                       THEN kept[f] ELSE Nothing
  BY <1>2 DEF Left
<1>4. kept[Root] # Nothing
  <2>1. Ver(Root) \subseteq Holds(Root)
    BY <1>0, FileNames DEF DiskOK, Ver
  <2> QED BY <1>3, <2>1, FileNames, PutsAre DEF Folder, Nothing
<1>5. /\ cache'[Staged] = IF kept[Events] # Nothing THEN kept[Staged] ELSE Nothing
      /\ cache'[LastFile] = IF kept[Events] # Nothing THEN kept[LastFile] ELSE Nothing
      /\ cache'[HeadFile] = kept[HeadFile] /\ cache'[Events] = kept[Events]
      /\ kept[Staged] \in Ver(Staged) /\ kept[LastFile] \in Ver(LastFile)
      /\ kept[HeadFile] \in Ver(HeadFile) /\ kept[Events] \in Ver(Events)
      /\ Ver(Staged)' = {cache'[Staged]} /\ Ver(LastFile)' = {cache'[LastFile]}
      /\ Ver(HeadFile)' = {cache'[HeadFile]} /\ Ver(Events)' = {cache'[Events]}
  BY <1>1, <1>3, <1>4, FileNames
<1>6. \A f \in Logged : \A v \in Ver(f)' : v # Nothing => v \in Ver(f)
  BY <1>1, <1>3, FilesDiffer
<1>7. RelayOK' /\ \A e : Heard(e)' => Heard(e)
  BY <1>0, <1>1, DeathIsNotHeard
<1>8. ASSUME NEW a, (a \in Seen)' PROVE a \in Seen /\ a # Nothing
  <2>1. a \in Entered /\ (Heard(a)' \/ \E f \in Logged : a \in Ver(f)')
    BY <1>8 DEF Seen
  <2>2. a # Nothing
    BY <2>1, EventNames
  <2> QED BY <1>6, <1>7, <2>1, <2>2 DEF Seen
\* If anything was seen, the log's directory stands.
<1>9. ASSUME NEW a, (a \in Seen)'
      PROVE  /\ kept[Events] = Folder /\ cache'[Staged] = kept[Staged]
             /\ cache'[LastFile] = kept[LastFile]
  <2>1. Ver(Events) = {Folder}
    BY <1>0, <1>8, <1>9 DEF LogOK
  <2>2. kept[Events] = Folder
    BY <1>5, <2>1
  <2> QED BY <1>5, <2>2 DEF Folder, Nothing
<1>10. ASSUME NEW a, (a \in Seen)', NEW v \in Ver(LastFile)'
       PROVE  a[2] <= Num(v) \/ Pending(a, v)'
  <2>1. a \in Seen /\ v \in Ver(LastFile)
    BY <1>5, <1>8, <1>9, <1>10
  <2>2. Pending(a, v) => Pending(a, v)'
    BY <1>5, <1>9, <1>10 DEF Pending
  <2> QED BY <1>0, <2>1, <2>2 DEF LogOK
<1>11. ASSUME NEW w \in Ver(Staged)', w # Nothing
       PROVE  w \in Ver(Staged) /\ \A v \in Ver(LastFile)' : v \in Ver(LastFile)
  BY <1>5, <1>11
<1>12. LogOK'
  <2>1. \A a, b \in Seen' : a[2] = b[2] => a = b
    BY <1>0, <1>8 DEF LogOK
  <2>2. \A a \in Seen', v \in Ver(LastFile)' : a[2] <= Num(v) \/ Pending(a, v)'
    BY <1>10
  <2>3. \A w \in Ver(Staged)', v \in Ver(LastFile)' : w # Nothing => w[2] \in {Num(v), Num(v) + 1}
    BY <1>0, <1>11 DEF LogOK
  <2>4. \A w \in Ver(Staged)', a \in Seen' : w # Nothing /\ w[2] = a[2] => w = a
    BY <1>0, <1>8, <1>11 DEF LogOK
  <2>5. Seen' # {} => Ver(Events)' = {Folder}
    BY <1>5, <1>9
  <2>6. Nothing \in Ver(HeadFile)' => Seen' = {}
    BY <1>0, <1>5, <1>8 DEF LogOK
  <2> QED BY <2>1, <2>2, <2>3, <2>4, <2>5, <2>6 DEF LogOK
<1>13. TurnOK'
  <2>1. \A f : Coming(f)' = {}
    BY <1>1, ContentsNone DEF Coming
  <2>2. Len(todo') = 0
    BY <1>1
  <2>3. ~InMemory'
    BY <1>1 DEF InMemory
  <2> QED BY <1>1, <2>1, <2>2, <2>3 DEF TurnOK
<1> QED BY <1>7, <1>12, <1>13 DEF NumbersOK

LEMMA QuietNumbers ==
  ASSUME Base, NumbersOK, [Next]_vars, UNCHANGED <<cache, media, up, at, todo>>
  PROVE  NumbersOK'
<1>0. DiskOK /\ RelayOK /\ LogOK /\ TurnOK
  BY DEF Base, NumbersOK
<1>1. PICK s : s = todo
  OBVIOUS
<1>2. Begins(s) /\ \A f : Contents(s, f) = Coming(f)
  BY <1>0, <1>1 DEF Begins, DiskOK, Coming
<1>3. \A f : Ver(f)' = Ver(f) /\ Coming(f)' = Coming(f)
  BY <1>1, <1>2, BeginsFacts DEF Base
<1>4. \A k, f, v : Lands(k, f, v)' <=> Lands(k, f, v)
  BY <1>3 DEF Lands
<1>5. \A k, n : Counts(k, n)' <=> Counts(k, n)
  BY <1>3, <1>4 DEF Counts
<1>6. \A k \in 1..Len(s) : s[k] = Unlink(Staged) =>
           \/ Numbered /\ Contents(s, LastFile) = {}
              /\ \A f \in Logged : Contents(s, f) \subseteq {Nothing}
           \/ \E n \in 1..MaxSeq : Counts(k, n)'
  BY <1>0, <1>1, <1>2, <1>5 DEF TurnOK
<1>7. \A k \in 1..Len(s), f \in Logged, v \in Entered :
           s[k] = Put(f, v) => Lands(k, Events, Folder)'
  BY <1>0, <1>1, <1>4 DEF TurnOK
<1>8. Contents(s, HeadFile) # {} \/ at' \in {"stage", "persist"}
           \/ (up' = "serving" /\ at' = "idle") => Numbered
  BY <1>0, <1>2 DEF TurnOK
<1>9. \A v \in Contents(s, Staged), u \in Ver(LastFile) : v # Nothing => v[2] = Num(u) + 1
  BY <1>0, <1>2 DEF TurnOK
<1>10. \A f \in Logged : \A v \in Contents(s, f) : v # Nothing => Anchored(v)
  BY <1>0, <1>2 DEF TurnOK
<1>11. \A v \in Contents(s, LastFile), w \in Ver(Staged) : w # Nothing /\ w[2] = v[2]
  BY <1>0, <1>2 DEF TurnOK
<1>12. /\ InMemory' => Nothing \notin Ver(HeadFile)
       /\ at' = "init" => cache[HeadFile] # Nothing \/ Contents(s, HeadFile) # {}
       /\ at' # "discard"
  BY <1>0, <1>2 DEF TurnOK, InMemory
<1> QED BY <1>2, <1>6, <1>7, <1>8, <1>9, <1>10, <1>11, <1>12, BeginsNumbers

\* FaultsApart, and no disk operation fails.
WritesSucceed == FaultsApart /\ "error" \notin Faults

LEMMA NextKeepsNumbers ==
  ASSUME WritesSucceed, Base, FlushedOK, OrderOK, NumbersOK, [Next]_vars
  PROVE  NumbersOK'
<1>0. FaultsApart /\ "error" \notin Faults /\ CallsOK /\ DiskOK /\ RelayOK
  BY DEF WritesSucceed, Base, NumbersOK
<1>1. CASE Work
  <2>1. PICK x : Moved(x)
    BY <1>0, <1>1, WorkMoves
  <2>2. LogOK' /\ TurnOK'
    BY <1>1, <2>1, WorkLog, WorkTurn
  <2>3. RelayOK'
    BY <1>0, HearingSteps
  <2> QED BY <2>2, <2>3 DEF NumbersOK
<1>2. CASE StartAgain \/ StartRefused \/ RefuseLog \/ Serve \/ Answer \/ DropStaged \/ Crash
  BY <1>0, <1>2, RestingNumbers
<1>3. CASE EmitGenesis \/ RequestCommit \/ RequestIdentity
  BY <1>3, StagingNumbers
<1>4. CASE StartNew \/ PersistRepo
  BY <1>4, PersistingNumbers
<1>5. CASE PromoteEntry
  BY <1>5, PromotingNumbers
<1>6. CASE Recover
  BY <1>6, RecoveringNumbers
<1>7. CASE PowerLoss
  BY <1>7, PowerLossNumbers
<1>8. CASE (\E r \in Relay : Subscriber(r)) \/ Tick \/ ClockStepsBack
  <2>1. UNCHANGED <<cache, media, up, at, todo>>
    BY <1>0, <1>8, QuietSteps DEF Quiet
  <2> QED BY <2>1, QuietNumbers
<1>9. CASE UNCHANGED vars
  <2>1. UNCHANGED <<cache, media, up, at, todo>>
    BY <1>9 DEF vars
  <2> QED BY <2>1, QuietNumbers
<1>10. CASE DiskError \/ FileDamaged
  BY <1>0, <1>10 DEF DiskError, FileDamaged, Fault, FaultsApart
<1> QED BY <1>1, <1>2, <1>3, <1>4, <1>5, <1>6, <1>7, <1>8, <1>9, <1>10
        DEF Next, Process, Operator, Client, Environment

LEMMA InitNumbers == ASSUME Init PROVE NumbersOK
<1>0. Base
  BY InitBase
<1>1. /\ todo = << >> /\ up = "down" /\ at = "idle"
      /\ cache = [f \in File |-> IF f = Root THEN Folder ELSE Nothing]
      /\ media = [f \in File |-> {cache[f]}]
  BY DEF Init
<1>2. \A f \in File : Ver(f) = {cache[f]} /\ (f # Root => Ver(f) = {Nothing})
  BY <1>1 DEF Ver
<1>3. Len(todo) = 0 /\ \A f : Coming(f) = {}
  BY <1>1, ContentsNone DEF Coming
<1>4. /\ Ver(HeadFile) = {Nothing} /\ Ver(Staged) = {Nothing} /\ Ver(LastFile) = {Nothing}
      /\ \A f \in Logged : Ver(f) = {Nothing}
  BY <1>2, FilesDiffer, FileNames
<1>5. relay = [r \in Relay |-> [on |-> FALSE, batch |-> <<>>, cursor |-> 0, floor |-> 0, got |-> {}]]
  BY DEF Init
<1>6. RelayOK
  <2>1. << >> \in Seq(Entered)
    BY NoneHas
  <2> QED BY <1>5, <2>1 DEF RelayOK
<1>7. Seen = {}
  <2>1. \A e : ~Heard(e)
    BY <1>5, NoneHas DEF Heard
  <2> QED BY <1>4, <2>1, EventNames DEF Seen
<1>8. LogOK
  BY <1>4, <1>7 DEF LogOK
<1>9. TurnOK
  BY <1>1, <1>3, <1>7 DEF TurnOK, InMemory
<1> QED BY <1>6, <1>8, <1>9 DEF NumbersOK

Counted == Sturdy /\ NumbersOK

\* eventLogPromote and eventLogRecover: the pointer and the pending copy together
\* say which numbers are taken, to this start and to the next.
THEOREM NumbersInvariance == ASSUME WritesSucceed PROVE Spec => []Counted
<1>1. Init => Counted
  BY InitSturdy, InitNumbers DEF Counted
<1>2. Counted /\ [Next]_vars => Counted'
  BY NextKeepsSturdy, NextKeepsNumbers DEF Counted, Sturdy, WritesSucceed
<1> QED BY <1>1, <1>2, PTL DEF Spec

\* nextSequence: no two events of the log, nor one of the log and one a subscriber
\* was sent, have a number in common.
THEOREM SeqNamesOneEventAlways == ASSUME WritesSucceed PROVE Spec => []SeqNamesOneEvent
<1>1. Counted => SeqNamesOneEvent
  <2> SUFFICES ASSUME Counted,
                      NEW a \in LogEntries \cup UNION {relay[r].got : r \in Relay},
                      NEW b \in LogEntries \cup UNION {relay[r].got : r \in Relay}, a[2] = b[2]
               PROVE  a = b
    BY DEF SeqNamesOneEvent
  <2>1. DiskOK /\ RelayOK /\ LogOK
    BY DEF Counted, Sturdy, Base, NumbersOK
  <2>2. \A e : (\E r \in Relay : e \in relay[r].got) => e \in Seen
    BY <2>1 DEF RelayOK, Seen, Heard
  <2>3. LogEntries \subseteq Seen
    BY <2>1, LogIsSeen
  <2>4. a \in Seen /\ b \in Seen
    BY <2>2, <2>3
  <2> QED BY <2>1, <2>4 DEF LogOK
<1> QED BY <1>1, NumbersInvariance, PTL

-----------------------------------------------------------------------------
(* A commit and its event land together: what the head and the log agree on *)

IsCommit(e) == e[1] = "commit"

\* An event that was seen, or one that is or is going to be pending.
Known == Seen \cup {v \in Ver(Staged) \cup Coming(Staged) : v # Nothing}

\* The head in memory is the one on disk, but for a call that is moving it.
PlacedOK ==
  /\ InMemory => store \in 1..Len(prior)
  /\ InMemory /\ at # "persist" /\ (at = "promote" => commit = 0) => Ver(HeadFile) = {Cid(store)}
  /\ at = "persist" => Ver(HeadFile) \subseteq {Cid(store), Cid(commit)}
  /\ at = "init" => \E c \in Commits : /\ Ver(HeadFile) \subseteq {Nothing, Cid(c)}
                                       /\ Coming(HeadFile) \subseteq {Cid(c)}
  /\ \A c \in acked : c \in 1..Len(prior) /\ prior[c] # 0
  /\ Nothing \in Ver(HeadFile) =>
       /\ Ver(LastFile) = {Nothing} /\ Coming(LastFile) = {}
       /\ Ver(Staged) \cup Coming(Staged) \subseteq {Nothing}

\* The event of the commit in hand.
Right(e) == commit # 0 => IsCommit(e) /\ e[4] = commit

\* What the log says of commits: only what is under the head, in its order.
ToldOK ==
  /\ \A a \in Seen, v \in Ver(HeadFile) \cup Coming(HeadFile) :
       IsCommit(a) => a[4] \in ChainOf(prior, Num(v))
  /\ \A a \in Known : IsCommit(a) => a[4] \in 1..Len(prior)
  /\ \A a, b \in Known : IsCommit(a) /\ IsCommit(b) /\ a[2] < b[2] => a[4] < b[4]
  /\ at = "stage" => \E e \in Entered :
       Right(e) /\ Coming(Staged) \subseteq {e} /\ Lands(Len(todo) + 1, Staged, e)
  /\ at = "persist" => \E e \in Entered : Right(e) /\ Ver(Staged) = {e}

\* The event of c is in the log for good; will be once k - 1 operations are done;
\* is pending.
EventFor(c) == {e \in Entered : IsCommit(e) /\ e[4] = c}
InLog(c) == \E e \in EventFor(c) : Ver(Entry(e)) = {e}
LogBy(k, c) == \E e \in EventFor(c) : Lands(k, Entry(e), e)
Owing(c) == \E e \in EventFor(c) : Ver(Staged) = {e}

\* A head whose commits the log has to announce: all but a genesis whose turn in
\* the quartet has not come.
Opens(w) ==
  /\ w # Nothing
  /\ prior[w[2]] # 0 \/ \E u \in Ver(LastFile) \cup Coming(LastFile) : Num(u) >= 3

\* A call that starts, or ends, with nothing pending.
Settled == (up = "serving" /\ at = "idle") \/ at \in {"stage", "persist"}

PairsOK ==
  /\ \A f \in Logged : Nothing \notin Coming(f)
  /\ \A w \in Ver(HeadFile) : Opens(w) =>
       \A c \in ChainOf(prior, w[2]) : InLog(c) \/ (w = Cid(c) /\ Owing(c))
  /\ \A k \in 1..Len(todo) : todo[k] = Unlink(Staged) =>
       \A w \in Ver(HeadFile) : Opens(w) => \A c \in ChainOf(prior, w[2]) : LogBy(k, c)
  /\ Settled /\ Opens(Cid(store)) => \A c \in ChainOf(prior, store) : InLog(c)
  /\ at = "init" => \A v \in Coming(HeadFile) : prior[v[2]] = 0

\* The directories of the log stand before anything is put in them.
DirsOK ==
  /\ \A f \in Logged : Ver(f) # {Nothing} => Ver(Entries) = {Folder}
  /\ Ver(Staged) # {Nothing} => Ver(Events) = {Folder}
  /\ \A k \in 1..Len(todo), f \in Logged, v \in Entered :
       todo[k] = Put(f, v) => Lands(k, Entries, Folder)
  /\ \A k \in 1..Len(todo), v \in Entered :
       todo[k] = Put(Staged, v) => Lands(k, Events, Folder)

\* A step that is no operation of a call leaves the disk alone.
LEMMA DiskStands ==
  ASSUME Base, [Next]_vars, ~Work, ~PowerLoss, "damage" \notin Faults
  PROVE  UNCHANGED <<cache, media>> /\ \A f : Ver(f)' = Ver(f) /\ cache'[f] = cache[f]
<1>1. ~FileDamaged
  BY DEF FileDamaged, Fault
<1>2. UNCHANGED <<cache, media>>
  BY <1>1 DEF Next, Process, Operator, Client, Environment, Subscriber, Recover, RefuseLog,
     EmitGenesis, Serve, PersistRepo, PromoteEntry, Answer, DropStaged, StartNew, StartAgain,
     StartRefused, RequestCommit, RequestIdentity, Subscribe, SubscribeLive, Send, PollLog, Leave,
     DiskError, Crash, Tick, ClockStepsBack, vars
<1> QED BY <1>2 DEF Ver

\* The commits there are stay, and so does all that is under them.
LEMMA PriorKept ==
  ASSUME Base, [Next]_vars
  PROVE  /\ Len(prior) \in Nat /\ Len(prior') \in Nat /\ Len(prior) <= Len(prior')
         /\ \A c \in 1..Len(prior) : prior'[c] = prior[c]
         /\ \A c \in 0..Len(prior) : ChainOf(prior', c) = ChainOf(prior, c)
<1>1. prior' = prior \/ StartNew \/ RequestCommit
  BY PriorSteps
<1>2. PICK q : q = prior'
  OBVIOUS
<1>3. Falls(prior) /\ store \in 0..Len(prior) /\ 0 \in 0..Len(prior) /\ Len(prior) \in Nat
  BY HeadNumbers
<1>4. q = prior \/ q = Append(prior, 0) \/ q = Append(prior, store)
  BY <1>1, <1>2 DEF StartNew, RequestCommit
<1>5. /\ Len(q) \in Nat /\ Len(prior) <= Len(q) /\ \A c \in 1..Len(prior) : q[c] = prior[c]
  BY <1>3, <1>4, ChainGrows
<1> QED BY <1>2, <1>3, <1>5, PriorSteps

LEMMA WorkPlaced ==
  ASSUME Base, PlacedOK, Work, NEW x, Moved(x)
  PROVE  PlacedOK'
<1>0. DiskOK /\ HeadsOK /\ {HeadFile, LastFile, Staged} \subseteq File
  BY FileNames DEF Base
<1>1. UNCHANGED <<prior, up, at, commit, store, acked>>
  BY DEF Work
<1>2. \A f \in {HeadFile, LastFile, Staged} :
        /\ Coming(f)' \subseteq Coming(f) /\ Ver(f)' # {}
        /\ \A v \in Ver(f)' : v \in Ver(f) \/ v \in Coming(f)
  BY <1>0, VerSteps
<1>3. \A v \in Coming(HeadFile) : v # Nothing
  BY <1>0, Shown, NumFacts
<1>4. Ver(HeadFile) # {}
  BY <1>0, VerSteps
<1>5. Coming(HeadFile) # {} => at \in {"init", "persist"}
  BY <1>0 DEF HeadsOK
<1>6. \A v \in Coming(HeadFile) : at = "persist" => v = Cid(commit)
  BY <1>0 DEF HeadsOK
<1>7. InMemory' <=> InMemory
  BY <1>1 DEF InMemory
<1>8. InMemory' /\ at' # "persist" /\ (at' = "promote" => commit' = 0) => Ver(HeadFile)' = {Cid(store)}
  <2> SUFFICES ASSUME InMemory', at' # "persist", at' = "promote" => commit' = 0
               PROVE  Ver(HeadFile)' = {Cid(store)}
    OBVIOUS
  <2>1. Ver(HeadFile) = {Cid(store)}
    BY <1>1, <1>7 DEF PlacedOK
  <2>2. at # "init"
    BY <1>1, <1>7 DEF InMemory, Base, CallsOK
  <2>3. Coming(HeadFile) = {}
    BY <1>1, <1>5, <2>2
  <2> QED BY <1>2, <2>1, <2>3
<1>9. at' = "persist" => Ver(HeadFile)' \subseteq {Cid(store), Cid(commit)}
  BY <1>1, <1>2, <1>6 DEF PlacedOK
<1>10. at' = "init" => \E c \in Commits : /\ Ver(HeadFile)' \subseteq {Nothing, Cid(c)}
                                         /\ Coming(HeadFile)' \subseteq {Cid(c)}
  BY <1>1, <1>2 DEF PlacedOK
<1>11. Nothing \in Ver(HeadFile)' => /\ Ver(LastFile)' = {Nothing} /\ Coming(LastFile)' = {}
                                     /\ Ver(Staged)' \cup Coming(Staged)' \subseteq {Nothing}
  <2>1. Nothing \in Ver(HeadFile)' => Nothing \in Ver(HeadFile)
    BY <1>2, <1>3
  <2> QED BY <1>2, <2>1 DEF PlacedOK
<1> QED BY <1>1, <1>7, <1>8, <1>9, <1>10, <1>11 DEF PlacedOK

LEMMA PowerLossPlaced ==
  ASSUME Base, PlacedOK, PowerLoss
  PROVE  PlacedOK'
<1>0. DiskOK
  BY DEF Base
<1>1. /\ todo' = << >> /\ at' = "idle" /\ up' = "down" /\ UNCHANGED <<prior, acked>>
      /\ \A f \in File : Ver(f)' = {cache'[f]}
  BY <1>0, PowerLossDoes DEF Die, Call
<1>2. PICK kept : Left(kept)
  BY <1>0, PowerLossDoes
<1>3. \A f \in {HeadFile, LastFile, Staged} : Coming(f)' = {}
  BY <1>1, ContentsNone DEF Coming
<1>4. \A f \in {HeadFile, LastFile, Staged, Root} : f \in File
  BY FileNames
<1>5. /\ cache'[HeadFile] = kept[HeadFile] /\ kept[HeadFile] \in Ver(HeadFile)
      /\ cache'[LastFile] \in Ver(LastFile) \cup {Nothing}
      /\ cache'[Staged] \in Ver(Staged) \cup {Nothing}
  <2>1. kept[Root] # Nothing
    <3>1. Ver(Root) \subseteq Holds(Root) /\ kept[Root] \in Ver(Root)
      BY <1>0, <1>2, <1>4 DEF DiskOK, Ver, Left
    <3> QED BY <3>1, PutsAre DEF Folder, Nothing
  <2> QED BY <1>2, <1>4, <2>1, FileNames DEF Left
<1>6. Nothing \in Ver(HeadFile)' => /\ Ver(LastFile)' = {Nothing} /\ Coming(LastFile)' = {}
                                    /\ Ver(Staged)' \cup Coming(Staged)' \subseteq {Nothing}
  <2>1. Nothing \in Ver(HeadFile)' => Nothing \in Ver(HeadFile)
    BY <1>1, <1>4, <1>5
  <2> QED BY <1>1, <1>3, <1>4, <1>5, <2>1 DEF PlacedOK
<1>7. ~InMemory'
  BY <1>1 DEF InMemory
<1> QED BY <1>1, <1>6, <1>7 DEF PlacedOK

\* A call that begins, with what it makes of the heads.
LEMMA BeginsPlaced ==
  ASSUME Base, PlacedOK, [Next]_vars, NEW s, Begins(s),
         InMemory' => store' \in 1..Len(prior'),
         InMemory' /\ at' # "persist" /\ (at' = "promote" => commit' = 0) =>
           Ver(HeadFile) = {Cid(store')},
         at' = "persist" => Ver(HeadFile) \subseteq {Cid(store'), Cid(commit')},
         at' = "init" => \E c \in Commits : /\ Ver(HeadFile) \subseteq {Nothing, Cid(c)}
                                            /\ Contents(s, HeadFile) \subseteq {Cid(c)},
         \A c \in acked' : c \in acked \/ (c \in 1..Len(prior) /\ prior[c] # 0),
         Nothing \in Ver(HeadFile) => /\ Contents(s, LastFile) = {}
                                      /\ Contents(s, Staged) \subseteq {Nothing}
  PROVE  PlacedOK'
<1>1. \A f : Ver(f)' = Ver(f) /\ Coming(f)' = Contents(s, f)
  BY BeginsFacts DEF Base
<1>2. \A c \in acked' : c \in 1..Len(prior') /\ prior'[c] # 0
  <2> TAKE c \in acked'
  <2>1. c \in 1..Len(prior) /\ prior[c] # 0
    BY DEF PlacedOK
  <2>2. /\ Len(prior) \in Nat /\ Len(prior') \in Nat /\ Len(prior) <= Len(prior')
        /\ prior'[c] = prior[c]
    BY <2>1, PriorKept
  <2> QED BY <2>1, <2>2
<1>3. Nothing \in Ver(HeadFile)' => /\ Ver(LastFile)' = {Nothing} /\ Coming(LastFile)' = {}
                                    /\ Ver(Staged)' \cup Coming(Staged)' \subseteq {Nothing}
  BY <1>1 DEF PlacedOK
<1> QED BY <1>1, <1>2, <1>3 DEF PlacedOK

LEMMA StartPlaced ==
  ASSUME Base, FlushedOK, PlacedOK, [Next]_vars, StartNew \/ StartAgain
  PROVE  PlacedOK'
<1>0. DiskOK /\ HeadFile \in File /\ up = "down" /\ at' = "init" /\ up' = "starting" /\ acked' = acked
  BY FileNames DEF Base, StartNew, StartAgain, Call
<1>1. Ver(HeadFile) = {cache[HeadFile]} /\ ~InMemory'
  BY <1>0 DEF FlushedOK, InMemory
<1>2. CASE StartNew
  <2>1. PICK c \in Commits : c = Len(prior) + 1 /\ Begins(PersistSave(c))
    BY <1>2, PersistingSteps
  <2>2. PICK s : s = PersistSave(c)
    OBVIOUS
  <2>3. /\ Begins(s) /\ Contents(s, HeadFile) \subseteq {Cid(c)} /\ Contents(s, Staged) = {}
        /\ Contents(s, LastFile) = {}
    BY <2>1, <2>2, PersistComing
  <2>4. Ver(HeadFile) = {Nothing}
    BY <1>1, <1>2 DEF StartNew, Exists
  <2>5. \E d \in Commits : /\ Ver(HeadFile) \subseteq {Nothing, Cid(d)}
                           /\ Contents(s, HeadFile) \subseteq {Cid(d)}
    BY <2>3, <2>4
  <2> QED BY <1>0, <1>1, <2>3, <2>5, BeginsPlaced
<1>3. CASE StartAgain
  <2>1. PICK s : s = << >>
    OBVIOUS
  <2>2. todo' = s /\ s \in Seq(Step) /\ UNCHANGED <<cache, media>> /\ cache[HeadFile] # Nothing
    BY <1>3, <2>1 DEF StartAgain, Call, Exists
  <2>3. Begins(s) /\ \A f : Contents(s, f) = {}
    BY <2>1, <2>2, ContentsNone DEF Begins
  <2>4. PICK c \in Commits : cache[HeadFile] = Cid(c)
    BY <1>0, <1>1, <2>2, Shown
  <2>5. \E d \in Commits : /\ Ver(HeadFile) \subseteq {Nothing, Cid(d)}
                           /\ Contents(s, HeadFile) \subseteq {Cid(d)}
    BY <1>1, <2>3, <2>4
  <2> QED BY <1>0, <1>1, <2>3, <2>5, BeginsPlaced
<1> QED BY <1>2, <1>3

LEMMA RecoverPlaced ==
  ASSUME Base, FlushedOK, NumbersOK, PlacedOK, [Next]_vars, Recover
  PROVE  PlacedOK'
<1>0. DiskOK /\ HeadsOK /\ CallsOK /\ TurnOK /\ HeadFile \in File
  BY FileNames DEF Base, NumbersOK
<1>1. /\ todo = << >> /\ at = "init" /\ at' = "recover" /\ up' = up /\ store' = DiskHead
      /\ UNCHANGED <<prior, acked, commit>>
  BY DEF Recover, Call
<1>2. Ver(HeadFile) = {cache[HeadFile]}
  BY <1>1 DEF FlushedOK, Has, Kept
<1>3. cache[HeadFile] # Nothing
  <2>1. Coming(HeadFile) = {}
    BY <1>1, ContentsNone DEF Coming
  <2> QED BY <1>0, <1>1, <2>1 DEF TurnOK
<1>4. PICK c \in Commits : cache[HeadFile] = Cid(c)
  BY <1>0, <1>2, <1>3, Shown
<1>5. store' = c /\ Num(cache[HeadFile]) = c /\ c # 0
  BY <1>1, <1>4, DiskHeadIs, NumFacts DEF Commits
<1>6. c \in 0..Len(prior) /\ Len(prior) \in Nat
  BY <1>2, <1>5, HeadNumbers
<1>7. PICK s : s = Recovery
  OBVIOUS
<1>8. Begins(s)
  BY <1>7, RecoveringStep DEF Recovers
<1>9. Nothing \notin Ver(HeadFile)
  BY <1>2, <1>3
<1> QED BY <1>1, <1>2, <1>4, <1>5, <1>6, <1>8, <1>9, BeginsPlaced

LEMMA CallsPlaced ==
  ASSUME Base, NumbersOK, PlacedOK, [Next]_vars,
         EmitGenesis \/ RequestCommit \/ RequestIdentity \/ PersistRepo \/ PromoteEntry
           \/ Serve \/ Answer
  PROVE  PlacedOK'
<1>0. DiskOK /\ HeadsOK /\ CallsOK /\ TurnOK
  BY DEF Base, NumbersOK
<1>1. InMemory /\ InMemory'
  BY <1>0 DEF InMemory, CallsOK, EmitGenesis, RequestCommit, RequestIdentity, PersistRepo,
              PromoteEntry, Serve, Answer, Free, Call
<1>2. Nothing \notin Ver(HeadFile)
  BY <1>0, <1>1 DEF TurnOK
<1>3. PICK s : Begins(s)
  <2>1. CASE EmitGenesis \/ RequestCommit \/ RequestIdentity
    BY <2>1, StagingSteps DEF Stages
  <2>2. CASE PersistRepo
    BY <2>2, PersistingSteps DEF Persists
  <2>3. CASE PromoteEntry
    BY <2>3, PromotingStep DEF Promotes
  <2>4. CASE Serve \/ Answer
    <3>1. todo' = << >> /\ UNCHANGED <<cache, media>>
      BY <2>4 DEF Serve, Answer, Call
    <3>2. Begins(<< >>)
      BY <3>1 DEF Begins
    <3> QED BY <3>2
  <2> QED BY <2>1, <2>2, <2>3, <2>4
<1>4. store \in 1..Len(prior) /\ Len(prior) \in Nat /\ commit \in 0..Len(prior)
  BY <1>1, HeadNumbers DEF PlacedOK
<1>5. Len(prior') \in Nat /\ Len(prior) <= Len(prior')
  BY PriorKept
<1>6. at' # "init"
  BY DEF EmitGenesis, RequestCommit, RequestIdentity, PersistRepo, PromoteEntry, Serve, Answer, Call
<1>7. CASE EmitGenesis \/ RequestCommit \/ RequestIdentity \/ Serve
  <2>1. at \in {"recover", "idle"} /\ at' # "persist" /\ store' = store /\ acked' = acked
    BY <1>7 DEF EmitGenesis, RequestCommit, RequestIdentity, Serve, Free, Call
  <2>2. Ver(HeadFile) = {Cid(store)}
    BY <1>1, <2>1 DEF PlacedOK
  <2> QED BY <1>2, <1>3, <1>4, <1>5, <1>6, <2>1, <2>2, BeginsPlaced
<1>8. CASE PersistRepo \/ PromoteEntry
  <2>1. /\ at \in {"stage", "persist"} /\ store' = store /\ acked' = acked /\ commit' = commit
        /\ at' = "persist" => at = "stage"
        /\ at' = "promote" /\ commit' = 0 => at = "stage"
    BY <1>0, <1>8 DEF PersistRepo, PromoteEntry, Call, CallsOK
  <2>2. at = "stage" => Ver(HeadFile) = {Cid(store)}
    BY <1>1 DEF PlacedOK
  <2>3. at' \in {"persist", "promote"}
    BY <1>8 DEF PersistRepo, PromoteEntry, Call
  <2> QED BY <1>2, <1>3, <1>4, <1>5, <1>6, <2>1, <2>2, <2>3, BeginsPlaced
<1>9. CASE Answer
  <2>1. at = "promote" /\ at' \in {"recover", "idle"} /\ prior' = prior
    BY <1>9 DEF Answer, Call
  <2>2. CASE commit = 0
    <3>1. store' = store /\ acked' = acked
      BY <1>9, <2>2 DEF Answer
    <3>2. Ver(HeadFile) = {Cid(store)}
      BY <1>1, <2>1, <2>2 DEF PlacedOK
    <3> QED BY <1>2, <1>3, <1>4, <1>5, <1>6, <2>1, <3>1, <3>2, BeginsPlaced
  <2>3. CASE commit # 0
    <3>1. up = "serving" /\ prior[commit] = store
      BY <1>0, <2>3 DEF CallsOK
    <3>2. store' = commit /\ acked' = acked \cup {commit}
      BY <1>9, <2>3, <3>1 DEF Answer
    <3>3. Ver(HeadFile) = {Cid(commit)}
      BY <1>0, <2>1, <2>3 DEF HeadsOK
    <3>4. commit \in 1..Len(prior) /\ prior[commit] # 0
      BY <1>4, <2>3, <3>1
    <3> QED BY <1>2, <1>3, <1>4, <1>5, <1>6, <2>1, <3>2, <3>3, <3>4, BeginsPlaced
  <2> QED BY <2>2, <2>3
<1> QED BY <1>7, <1>8, <1>9

LEMMA NextPlaced ==
  ASSUME WritesSucceed, Counted, PlacedOK, [Next]_vars
  PROVE  PlacedOK'
<1>0. /\ Base /\ FlushedOK /\ NumbersOK /\ CallsOK /\ DiskOK /\ TurnOK
      /\ FaultsApart /\ "error" \notin Faults /\ "damage" \notin Faults
  BY DEF Counted, Sturdy, Base, NumbersOK, WritesSucceed, FaultsApart
<1>1. CASE Work
  <2>1. PICK x : Moved(x)
    BY <1>0, <1>1, WorkMoves
  <2> QED BY <1>0, <1>1, <2>1, WorkPlaced
<1>2. CASE PowerLoss
  BY <1>0, <1>2, PowerLossPlaced
<1>3. CASE StartNew \/ StartAgain
  BY <1>0, <1>3, StartPlaced
<1>4. CASE Recover
  BY <1>0, <1>4, RecoverPlaced
<1>5. CASE EmitGenesis \/ RequestCommit \/ RequestIdentity \/ PersistRepo \/ PromoteEntry \/ Serve \/ Answer
  BY <1>0, <1>5, CallsPlaced
<1>6. CASE StartRefused \/ RefuseLog \/ Crash
  <2>1. /\ up' \in {"refused", "down"} /\ acked' = acked /\ todo' = << >> /\ at' = "idle"
        /\ UNCHANGED <<cache, media>>
    BY <1>0, <1>6 DEF StartRefused, RefuseLog, Crash, Die, Call, CallsOK
  <2>2. PICK s : s = << >>
    OBVIOUS
  <2>3. Begins(s) /\ \A f : Contents(s, f) = {}
    BY <2>1, <2>2, ContentsNone DEF Begins
  <2>4. ~InMemory'
    BY <2>1 DEF InMemory
  <2> QED BY <1>0, <2>1, <2>3, <2>4, BeginsPlaced
<1>7. CASE (\E r \in Relay : Subscriber(r)) \/ Tick \/ ClockStepsBack
  <2>1. UNCHANGED <<cache, media, prior, up, at, todo, commit, store, acked>>
    BY <1>0, <1>7, QuietSteps DEF Quiet
  <2> QED BY <2>1 DEF PlacedOK, InMemory, Ver, Coming
<1>8. CASE UNCHANGED vars
  <2>1. UNCHANGED <<cache, media, prior, up, at, todo, commit, store, acked>>
    BY <1>8 DEF vars
  <2> QED BY <2>1 DEF PlacedOK, InMemory, Ver, Coming
<1>9. CASE DropStaged \/ DiskError \/ FileDamaged
  BY <1>0, <1>9 DEF DropStaged, DiskError, FileDamaged, Fault, TurnOK
<1> QED BY <1>1, <1>2, <1>3, <1>4, <1>5, <1>6, <1>7, <1>8, <1>9
        DEF Next, Process, Operator, Client, Environment

-----------------------------------------------------------------------------
(* The log's directories *)

\* What a stage and a promotion put stands in a directory they made sure of.
LEMMA StageBuilds ==
  ASSUME NEW e \in Entered, NEW p, p = Stage(e)
  PROVE  \A k \in 1..Len(p) : p[k] = Put(Staged, e) =>
           Exists(Events) \/ Behind(p, k, Put(Events, Folder), Sync(Root))
<1> DEFINE a == EnsureDir(Events)
           b == EnsureDir(EventStaging)
           r == Replace(Staged, e)
           X == Foldings \cup Flushes
<1>1. Script(a, X) /\ Script(b, X) /\ (Exists(Events) \/ Before(a, Put(Events, Folder), Sync(Root)))
  BY FileNames, EnsureDirDoes
<1>2. Script(r, {Put(Staged, e)} \cup Flushes)
  BY FileNames, EventNames, PutsAre, ReplaceDoes
<1>3. p = (a \o b) \o r
  BY DEF Stage
<1>4. \A x \in X \cup X : x # Put(Staged, e)
  BY StepsDiffer
<1> HIDE DEF a, b, r, X
<1> DEFINE s == a \o b
<1>5. Script(s, X \cup X)
  BY <1>1, ScriptCat
<1>6. Exists(Events) \/ Before(s, Put(Events, Folder), Sync(Root))
  BY <1>1, CatBefore DEF Script
<1> HIDE DEF s
<1>7. ~Has(s, Put(Staged, e))
  BY <1>4, <1>5 DEF Script
<1>8. \A k \in 1..Len(s \o r) : (s \o r)[k] = Put(Staged, e) =>
        Exists(Events) \/ Behind(s \o r, k, Put(Events, Folder), Sync(Root))
  BY <1>2, <1>5, <1>6, <1>7, CatBehind DEF Script
<1> QED BY <1>3, <1>8 DEF s

LEMMA PromoteBuilds ==
  ASSUME DiskOK, NEW e \in Entered, NEW p, p = Promote(e)
  PROVE  /\ \A k \in 1..Len(p) : p[k] = Put(Entry(e), e) =>
              Exists(Entries) \/ Behind(p, k, Put(Entries, Folder), Sync(Events))
         /\ \A k \in 1..Len(p) : p[k] = Unlink(Staged) =>
              Behind(p, k, Put(Entry(e), e), Sync(Entries))
         /\ (\A d \in LogEntries \cup {e} : ~Expired(d)) =>
              \A f \in Logged : Contents(p, f) \subseteq {e}
<1> DEFINE ea == EnsureDir(Events)
           eb == EnsureDir(Entries)
           ec == EnsureDir(EventStaging)
           X == Foldings \cup Flushes
           r1 == Replace(Entry(e), e)
           Y1 == {Put(Entry(e), e)} \cup Flushes
           r2 == Replace(LastFile, Pointer(e[2]))
           Y2 == {Put(LastFile, Pointer(e[2]))} \cup Flushes
           u == <<Unlink(Staged)>>
           w == SweepIfDue(e)
<1>0. e[2] \in 1..MaxSeq /\ Pointer(e[2]) \in Content /\ Entry(e) \in Logged
  BY EventNames DEF Content
<1>1. Script(ea, X) /\ Script(eb, X) /\ Script(ec, X)
  BY FileNames, EnsureDirDoes
<1>2. Exists(Entries) \/ Before(eb, Put(Entries, Folder), Sync(Events))
  BY FileNames, EnsureDirDoes
<1>3. Script(r1, Y1) /\ Before(r1, Put(Entry(e), e), Sync(Entries))
  BY EventNames, ReplaceDoes
<1>4. Script(r2, Y2)
  <2>1. Pointer(e[2]) \in Puttable(LastFile)
    BY <1>0, PutsAre
  <2> QED BY <1>0, <2>1, FileNames, ReplaceDoes
<1>5. u \in Seq(Step) /\ \A x : Has(u, x) <=> x = Unlink(Staged)
  <2>1. Nothing \in Content /\ Nothing \in Puttable(Staged) /\ Staged \in File
    BY PutsAre, FileNames DEF Content
  <2>2. Unlink(Staged) \in Step
    BY <2>1, PutIsStep DEF Unlink
  <2> QED BY <2>2, OneHas
<1>6. LogEntries \cup {e} \subseteq Entered /\ IsFiniteSet(LogEntries \cup {e})
  BY LogIsFinite, FS_AddElement
<1>7. w \in Seq(Step) /\ \A x : Has(w, x) => x \in Sweeps
  <2>1. CASE (e[2] % SweepInterval) = 0
    BY <1>6, <2>1, SweepDoes DEF SweepIfDue, Script
  <2>2. CASE ~((e[2] % SweepInterval) = 0)
    BY <2>2, ScriptNone, NoneHas DEF SweepIfDue
  <2> QED BY <2>1, <2>2
<1>8. (\A d \in LogEntries \cup {e} : ~Expired(d)) => Len(w) = 0
  <2> SUFFICES ASSUME \A d \in LogEntries \cup {e} : ~Expired(d) PROVE Len(w) = 0
    OBVIOUS
  <2>1. CASE (e[2] % SweepInterval) = 0
    <3>1. {d \in LogEntries \cup {e} : Expired(d)} = {}
      OBVIOUS
    <3>2. PICK dropped : dropped = InSeqOrder({})
      OBVIOUS
    <3>3. dropped \in Seq(Entered) /\ \A x : ~Has(dropped, x)
      BY <3>2, InOrderLists, FS_EmptySet
    <3>4. Len(dropped) = 0
      BY <3>3 DEF Has
    <3>5. w = [i \in DOMAIN dropped |-> Unlink(Entry(dropped[i]))]
      BY <2>1, <3>1, <3>2 DEF Sweep, SweepIfDue
    <3>6. w = << >>
      BY <3>3, <3>4, <3>5
    <3> QED BY <3>6
  <2>2. CASE ~((e[2] % SweepInterval) = 0)
    BY <2>2 DEF SweepIfDue
  <2> QED BY <2>1, <2>2
<1>9. p = (((((ea \o eb) \o ec) \o r1) \o r2) \o u) \o w
  BY DEF Promote, LogDirs
<1>10. /\ \A x \in X \cup Y1 \cup Y2 \cup Sweeps : x # Unlink(Staged)
       /\ \A x \in X \cup Y2 \cup {Unlink(Staged)} \cup Sweeps : x # Put(Entry(e), e)
  BY StepsDiffer, <1>0
<1>11. \A f \in Logged : \A v : v # e =>
         /\ \A x \in X \cup Y1 \cup Y2 \cup {Unlink(Staged)} : x # Put(f, v)
  BY StepsDiffer, StepFacts, <1>0
<1> HIDE DEF ea, eb, ec, X, r1, Y1, r2, Y2, u, w
<1> DEFINE s1 == ea \o eb
<1>12. Script(s1, X \cup X)
  BY <1>1, ScriptCat
<1>13. Exists(Entries) \/ Before(s1, Put(Entries, Folder), Sync(Events))
  BY <1>1, <1>2, CatBefore DEF Script
<1> HIDE DEF s1
<1> DEFINE s2 == s1 \o ec
<1>14. Script(s2, X \cup X \cup X)
  BY <1>1, <1>12, ScriptCat
<1>15. Exists(Entries) \/ Before(s2, Put(Entries, Folder), Sync(Events))
  BY <1>1, <1>12, <1>13, CatBefore DEF Script
<1> HIDE DEF s2
<1> DEFINE s3 == s2 \o r1
<1>16. Script(s3, X \cup X \cup X \cup Y1)
  BY <1>3, <1>14, ScriptCat
<1>17. Before(s3, Put(Entry(e), e), Sync(Entries))
  BY <1>3, <1>14, CatBefore DEF Script
<1>18. \A k \in 1..Len(s3) : s3[k] = Put(Entry(e), e) =>
         Exists(Entries) \/ Behind(s3, k, Put(Entries, Folder), Sync(Events))
  <2>1. ~Has(s2, Put(Entry(e), e))
    BY <1>10, <1>14 DEF Script
  <2> QED BY <2>1, <1>3, <1>14, <1>15, CatBehind DEF Script
<1> HIDE DEF s3
<1> DEFINE s4 == s3 \o r2
<1>19. Script(s4, X \cup X \cup X \cup Y1 \cup Y2)
  BY <1>4, <1>16, ScriptCat
<1>20. Before(s4, Put(Entry(e), e), Sync(Entries))
  BY <1>4, <1>16, <1>17, CatBefore DEF Script
<1>21. \A k \in 1..Len(s4) : s4[k] = Put(Entry(e), e) =>
         Exists(Entries) \/ Behind(s4, k, Put(Entries, Folder), Sync(Events))
  <2>1. ~Has(r2, Put(Entry(e), e))
    BY <1>4, <1>10 DEF Script
  <2> QED BY <2>1, <1>4, <1>16, <1>18, CatBehind DEF Script
<1> HIDE DEF s4
<1> DEFINE s5 == s4 \o u
<1>22. s4 \in Seq(Step) /\ s5 \in Seq(Step)
  BY <1>5, <1>19 DEF Script
<1>23. \A k \in 1..Len(s5) : s5[k] = Put(Entry(e), e) =>
         Exists(Entries) \/ Behind(s5, k, Put(Entries, Folder), Sync(Events))
  <2>1. ~Has(u, Put(Entry(e), e))
    BY <1>5, <1>10
  <2> QED BY <2>1, <1>5, <1>21, <1>22, CatBehind
<1>24. \A k \in 1..Len(s5) : s5[k] = Unlink(Staged) =>
         Behind(s5, k, Put(Entry(e), e), Sync(Entries))
  <2>1. ~Has(s4, Unlink(Staged))
    BY <1>10, <1>19 DEF Script
  <2> QED BY <2>1, <1>5, <1>20, <1>22, CatBehind
<1>25. \A x : Has(s5, x) => x \in X \cup Y1 \cup Y2 \cup {Unlink(Staged)}
  <2> TAKE x
  <2>1. Has(s5, x) => Has(s4, x) \/ Has(u, x)
    BY <1>5, <1>22, CatHas
  <2> QED BY <2>1, <1>5, <1>19 DEF Script
<1> HIDE DEF s5
<1> DEFINE s6 == s5 \o w
<1>26. \A k \in 1..Len(s6) : s6[k] = Put(Entry(e), e) =>
         Exists(Entries) \/ Behind(s6, k, Put(Entries, Folder), Sync(Events))
  <2>1. ~Has(w, Put(Entry(e), e))
    BY <1>7, <1>10
  <2> QED BY <2>1, <1>7, <1>22, <1>23, CatBehind
<1>27. \A k \in 1..Len(s6) : s6[k] = Unlink(Staged) =>
         Behind(s6, k, Put(Entry(e), e), Sync(Entries))
  <2>1. ~Has(w, Unlink(Staged))
    BY <1>7, <1>10
  <2> QED BY <2>1, <1>7, <1>22, <1>24, CatBehind
<1>28. Len(w) = 0 => \A f \in Logged : Contents(s6, f) \subseteq {e}
  <2> SUFFICES ASSUME Len(w) = 0, NEW f \in Logged, NEW v \in Contents(s6, f), v # e PROVE FALSE
    OBVIOUS
  <2>1. s6 \in Seq(Step)
    BY <1>7, <1>22
  <2>2. Has(s6, Put(f, v))
    BY <2>1, ContentsAre
  <2>3. ~Has(w, Put(f, v))
    BY DEF Has
  <2>4. Has(s5, Put(f, v))
    BY <1>7, <1>22, <2>2, <2>3, CatHas
  <2> QED BY <1>11, <1>25, <2>4
<1>29. p = s6
  BY <1>9 DEF s1, s2, s3, s4, s5, s6
<1> HIDE DEF s6
<1> QED BY <1>8, <1>26, <1>27, <1>28, <1>29

LEMMA FolderLands ==
  ASSUME Base, FlushedOK, todo = << >>, NEW d \in Folders, NEW s, Begins(s), NEW k \in Int,
         Exists(d) \/ Behind(s, k, Put(d, Folder), Sync(Home(d)))
  PROVE  Lands(k, d, Folder)'
<1>0. d \in File /\ d \in Kept /\ Holds(d) = {Nothing, Folder} /\ DiskOK
  BY PutsAre DEF Base, Kept, Folders
<1>1. CASE Exists(d)
  <2>1. Ver(d) = {cache[d]}
    BY <1>0 DEF FlushedOK, Has
  <2>2. cache[d] = Folder
    BY <1>0, <1>1 DEF DiskOK, Exists
  <2> QED BY <2>1, <2>2, BeginsLands
<1>2. CASE Behind(s, k, Put(d, Folder), Sync(Home(d)))
  BY <1>2, BeginsLands
<1> QED BY <1>1, <1>2

LEMMA WorkDirs ==
  ASSUME Base, DirsOK, NEW x, Moved(x)
  PROVE  DirsOK'
<1>0. DiskOK /\ Entries \in File /\ Events \in File
  BY FileNames DEF Base
<1>1. /\ \A f \in {Staged} \cup Logged :
           /\ f \in File /\ Coming(f)' \subseteq Coming(f) /\ Ver(f)' # {} /\ Ver(f) # {}
           /\ \A v \in Ver(f)' : v \in Ver(f) \/ (x = Put(f, v) /\ v \in Coming(f))
  BY <1>0, VerSteps
<1>2. /\ Len(todo) \in Nat /\ Len(todo') = Len(todo) - 1 /\ todo[1] = x /\ 1 \in 1..Len(todo)
      /\ \A k \in 1..Len(todo') : k + 1 \in 1..Len(todo) /\ todo'[k] = todo[k + 1]
  BY DEF Moved
<1>3. \A d \in {Entries, Events} : /\ Coming(d) \subseteq {Folder}
                                   /\ Ver(d) = {Folder} => Ver(d)' = {Folder}
  <2> TAKE d \in {Entries, Events}
  <2>1. Coming(d) \subseteq {Folder} /\ d \in File
    BY <1>0, ComingIs, PutsAre, FileNames
  <2>2. Ver(d)' # {} /\ \A v \in Ver(d)' : v \in Ver(d) \/ v \in Coming(d)
    BY <1>0, <2>1, MovedVer
  <2> QED BY <2>1, <2>2
<1>4. \A f \in {Staged} \cup Logged : \A v \in Coming(f) : v = Nothing \/ v \in Entered
  BY <1>0, Shown
<1>5. \A k \in Int, d \in {Entries, Events} : Lands(k, d, Folder) => Lands(k - 1, d, Folder)'
  BY <1>0, <1>3, LandsMove
<1>6. \A d : Lands(1, d, Folder) => Ver(d) = {Folder}
  BY <1>2 DEF Lands
<1>7. ASSUME NEW f \in Logged, Ver(f)' # {Nothing} PROVE Ver(Entries)' = {Folder}
  <2>1. PICK v \in Ver(f)' : v # Nothing
    BY <1>1, <1>7
  <2>2. CASE v \in Ver(f)
    BY <1>3, <2>1, <2>2 DEF DirsOK
  <2>3. CASE x = Put(f, v) /\ v \in Coming(f)
    <3>1. v \in Entered
      BY <1>4, <2>1, <2>3
    <3>2. Lands(1, Entries, Folder)
      BY <1>2, <2>3, <3>1 DEF DirsOK
    <3> QED BY <1>3, <1>6, <3>2
  <2> QED BY <1>1, <2>2, <2>3
<1>8. ASSUME Ver(Staged)' # {Nothing} PROVE Ver(Events)' = {Folder}
  <2>1. PICK v \in Ver(Staged)' : v # Nothing
    BY <1>1, <1>8
  <2>2. CASE v \in Ver(Staged)
    BY <1>3, <2>1, <2>2 DEF DirsOK
  <2>3. CASE x = Put(Staged, v) /\ v \in Coming(Staged)
    <3>1. v \in Entered
      BY <1>4, <2>1, <2>3
    <3>2. Lands(1, Events, Folder)
      BY <1>2, <2>3, <3>1 DEF DirsOK
    <3> QED BY <1>3, <1>6, <3>2
  <2> QED BY <1>1, <2>2, <2>3
<1>9. ASSUME NEW k \in 1..Len(todo'), NEW f \in Logged, NEW v \in Entered, todo'[k] = Put(f, v)
      PROVE  Lands(k, Entries, Folder)'
  <2>1. PICK m : m = k + 1
    OBVIOUS
  <2>2. m \in Int /\ m - 1 = k /\ m \in 1..Len(todo) /\ todo[m] = Put(f, v)
    BY <1>2, <1>9, <2>1
  <2>3. Lands(m, Entries, Folder)
    BY <2>2 DEF DirsOK
  <2>4. Lands(m - 1, Entries, Folder)'
    BY <1>5, <2>2, <2>3
  <2> QED BY <2>2, <2>4
<1>10. ASSUME NEW k \in 1..Len(todo'), NEW v \in Entered, todo'[k] = Put(Staged, v)
       PROVE  Lands(k, Events, Folder)'
  <2>1. PICK m : m = k + 1
    OBVIOUS
  <2>2. m \in Int /\ m - 1 = k /\ m \in 1..Len(todo) /\ todo[m] = Put(Staged, v)
    BY <1>2, <1>10, <2>1
  <2>3. Lands(m, Events, Folder)
    BY <2>2 DEF DirsOK
  <2>4. Lands(m - 1, Events, Folder)'
    BY <1>5, <2>2, <2>3
  <2> QED BY <2>2, <2>4
<1> QED BY <1>7, <1>8, <1>9, <1>10 DEF DirsOK

LEMMA BeginsDirs ==
  ASSUME Base, DirsOK, NEW s, Begins(s),
         \A k \in 1..Len(s), f \in Logged, v \in Entered :
           s[k] = Put(f, v) => Lands(k, Entries, Folder)',
         \A k \in 1..Len(s), v \in Entered : s[k] = Put(Staged, v) => Lands(k, Events, Folder)'
  PROVE  DirsOK'
<1>1. \A f : Ver(f)' = Ver(f)
  BY BeginsFacts DEF Base
<1>2. todo' = s
  BY DEF Begins
<1> QED BY <1>1, <1>2 DEF DirsOK

\* A call that enters and stages nothing.
LEMMA PlainDirs ==
  ASSUME Base, DirsOK, NEW s, Begins(s), \A f \in {Staged} \cup Logged : Contents(s, f) \subseteq {Nothing}
  PROVE  DirsOK'
<1>1. s \in Seq(Step)
  BY DEF Begins
<1>2. \A k \in 1..Len(s), f \in {Staged} \cup Logged, v \in Entered : s[k] # Put(f, v)
  <2> SUFFICES ASSUME NEW k \in 1..Len(s), NEW f \in {Staged} \cup Logged, NEW v \in Entered,
                      s[k] = Put(f, v)
               PROVE  FALSE
    OBVIOUS
  <2>1. v \in Contents(s, f) /\ v # Nothing
    BY <1>1, ContentsAre, EventNames DEF Has
  <2> QED BY <2>1
<1> QED BY <1>2, BeginsDirs

LEMMA StageDirs ==
  ASSUME Base, FlushedOK, DirsOK, todo = << >>, NEW e \in Entered, Begins(Stage(e))
  PROVE  DirsOK'
<1>1. PICK s : s = Stage(e)
  OBVIOUS
<1>2. /\ Begins(s) /\ s \in Seq(Step) /\ Contents(s, Staged) \subseteq {e}
      /\ \A f \in Logged : Contents(s, f) = {}
  BY <1>1, StageComing
<1>3. \A k \in 1..Len(s) : \A f, v : s[k] = Put(f, v) => v \in Contents(s, f)
  BY <1>2, ContentsAre DEF Has
<1>4. ASSUME NEW k \in 1..Len(s), NEW v \in Entered, s[k] = Put(Staged, v)
      PROVE  Lands(k, Events, Folder)'
  <2>1. s[k] = Put(Staged, e) /\ k \in Int /\ Home(Events) = Root /\ Events \in Folders
    BY <1>2, <1>3, <1>4, FileNames
  <2>2. Exists(Events) \/ Behind(s, k, Put(Events, Folder), Sync(Home(Events)))
    BY <1>1, <2>1, StageBuilds
  <2> QED BY <1>2, <2>1, <2>2, FolderLands
<1> QED BY <1>2, <1>3, <1>4, BeginsDirs

LEMMA PromoteDirs ==
  ASSUME Base, FlushedOK, DirsOK, todo = << >>, NEW e \in Entered, Begins(Promote(e))
  PROVE  DirsOK'
<1>0. DiskOK
  BY DEF Base
<1>1. PICK s : s = Promote(e)
  OBVIOUS
<1>2. /\ Begins(s) /\ s \in Seq(Step) /\ Contents(s, Staged) = {Nothing}
      /\ \A f \in Logged : \A v \in Contents(s, f) : v = Nothing \/ (v = e /\ f = Entry(e))
  BY <1>0, <1>1, PromoteComing
<1>3. \A k \in 1..Len(s) : \A f, v : s[k] = Put(f, v) => v \in Contents(s, f)
  BY <1>2, ContentsAre DEF Has
<1>4. \A v \in Entered : v # Nothing
  BY EventNames
<1>5. ASSUME NEW k \in 1..Len(s), NEW f \in Logged, NEW v \in Entered, s[k] = Put(f, v)
      PROVE  Lands(k, Entries, Folder)'
  <2>1. s[k] = Put(Entry(e), e)
    BY <1>2, <1>3, <1>4, <1>5
  <2>2. k \in Int /\ Home(Entries) = Events /\ Entries \in Folders
    BY FileNames
  <2>3. Exists(Entries) \/ Behind(s, k, Put(Entries, Folder), Sync(Home(Entries)))
    BY <1>0, <1>1, <2>1, <2>2, PromoteBuilds
  <2> QED BY <1>2, <2>2, <2>3, FolderLands
<1>6. \A k \in 1..Len(s), v \in Entered : s[k] # Put(Staged, v)
  BY <1>2, <1>3, <1>4
<1> QED BY <1>2, <1>5, <1>6, BeginsDirs

LEMMA PowerLossDirs ==
  ASSUME Base, DirsOK, PowerLoss
  PROVE  DirsOK'
<1>0. DiskOK
  BY DEF Base
<1>1. todo' = << >> /\ \A f \in File : Ver(f)' = {cache'[f]}
  BY <1>0, PowerLossDoes DEF Die, Call
<1>2. PICK kept : Left(kept)
  BY <1>0, PowerLossDoes
<1>3. \A f \in File : /\ kept[f] \in Ver(f)
                      /\ cache'[f] = IF \A d \in {Home(f), Home(Home(f))} : kept[d] # Nothing
                                       THEN kept[f] ELSE Nothing
  BY <1>2 DEF Left
<1>4. kept[Root] # Nothing
  <2>1. Ver(Root) \subseteq Holds(Root)
    BY <1>0, FileNames DEF DiskOK, Ver
  <2> QED BY <1>3, <2>1, FileNames, PutsAre DEF Folder, Nothing
<1>5. /\ Entries \in File /\ Events \in File /\ Staged \in File /\ Logged \subseteq File
      /\ Home(Entries) = Events /\ Home(Events) = Root /\ Home(Staged) = Events /\ Home(Root) = Root
      /\ \A f \in Logged : Home(f) = Entries
  BY FileNames, FilesDiffer DEF Logged, Home
<1>6. ASSUME NEW f \in Logged, Ver(f)' # {Nothing} PROVE Ver(Entries)' = {Folder}
  <2>1. kept[f] # Nothing /\ kept[Entries] # Nothing /\ kept[Events] # Nothing
    BY <1>1, <1>3, <1>5, <1>6
  <2>2. Ver(f) # {Nothing}
    BY <1>3, <1>5, <2>1
  <2>3. kept[Entries] = Folder
    BY <1>3, <1>5, <2>2 DEF DirsOK
  <2> QED BY <1>1, <1>3, <1>4, <1>5, <2>1, <2>3
<1>7. ASSUME Ver(Staged)' # {Nothing} PROVE Ver(Events)' = {Folder}
  <2>1. kept[Staged] # Nothing /\ kept[Events] # Nothing
    BY <1>1, <1>3, <1>5, <1>7
  <2>2. Ver(Staged) # {Nothing}
    BY <1>3, <1>5, <2>1
  <2>3. kept[Events] = Folder
    BY <1>3, <1>5, <2>2 DEF DirsOK
  <2> QED BY <1>1, <1>3, <1>4, <1>5, <2>1, <2>3
<1>8. Len(todo') = 0
  BY <1>1
<1> QED BY <1>6, <1>7, <1>8 DEF DirsOK

\* Where no call begins, the call that was in progress ends or goes on as it is.
LEMMA NextDirs ==
  ASSUME FaultsApart, Base, FlushedOK, DirsOK, [Next]_vars
  PROVE  DirsOK'
<1>0. DiskOK
  BY DEF Base
<1>1. CASE Work
  <2>1. PICK x : Moved(x)
    BY <1>0, <1>1, WorkMoves
  <2> QED BY <2>1, WorkDirs
<1>2. CASE PowerLoss
  BY <1>2, PowerLossDirs
<1>3. CASE Stages
  BY <1>3, StageDirs DEF Stages
<1>4. CASE Promotes
  BY <1>4, PromoteDirs DEF Promotes
<1>5. CASE Persists
  <2>1. PICK c, s : c \in Commits /\ s = PersistSave(c) /\ Begins(s)
    BY <1>5 DEF Persists
  <2> QED BY <2>1, PersistComing, PlainDirs
<1>6. CASE Discards
  <2>1. PICK s : s = DiscardStaged /\ Begins(s)
    BY <1>6 DEF Discards
  <2> QED BY <2>1, DiscardComing, PlainDirs
<1>7. CASE Rests
  <2>1. PICK s : s = << >> /\ Begins(s)
    BY <1>7 DEF Rests
  <2>2. \A f : Contents(s, f) = {}
    BY <2>1, ContentsNone
  <2> QED BY <2>1, <2>2, PlainDirs
<1>8. CASE Recovers
  <2>1. Begins(Recovery) /\ todo = << >>
    BY <1>8 DEF Recovers
  <2>2. CASE \E e \in Entered : Recovery = Promote(e)
    BY <2>1, <2>2, PromoteDirs
  <2>3. CASE Recovery = << >> \/ Recovery = DiscardStaged
    <3>1. PICK s : s = Recovery
      OBVIOUS
    <3>2. \A f \in {Staged} \cup Logged : Contents(s, f) \subseteq {Nothing}
      BY <2>3, <3>1, ContentsNone, DiscardComing
    <3> QED BY <2>1, <3>1, <3>2, PlainDirs
  <2> QED BY <1>0, <2>2, <2>3, RecoveryIs
<1>9. CASE Quiet
  <2>1. UNCHANGED <<cache, media, todo>>
    BY <1>9 DEF Quiet
  <2>2. /\ todo' = todo /\ \A f : Ver(f)' = Ver(f) /\ cache'[f] = cache[f]
        /\ \A k, f, v : Lands(k, f, v)' = Lands(k, f, v)
    BY <2>1 DEF Ver, Lands
  <2> QED BY <2>2 DEF DirsOK
<1> QED BY <1>1, <1>2, <1>3, <1>4, <1>5, <1>6, <1>7, <1>8, <1>9, Turns

-----------------------------------------------------------------------------
(* What the log says of commits is under the head *)

LEMMA KnownIs ==
  ASSUME DiskOK, NEW a, a \in Known
  PROVE  a \in Entered /\ a # Nothing /\ a[2] \in 1..MaxSeq /\ a[4] \in {0} \cup Commits
<1>1. a \in Entered
  <2>1. CASE a \in Seen
    BY <2>1 DEF Seen
  <2>2. CASE a \in Ver(Staged) \cup Coming(Staged) /\ a # Nothing
    BY <2>2, Shown
  <2> QED BY <2>1, <2>2 DEF Known
<1> QED BY <1>1, EventNames

LEMMA WorkTold ==
  ASSUME Base, OrderOK, NumbersOK, ToldOK, Work, NEW x, Moved(x)
  PROVE  ToldOK'
<1>0. DiskOK /\ HeadsOK /\ StagedOK /\ {HeadFile, Staged} \subseteq File
  BY FileNames DEF Base
<1>1. UNCHANGED <<prior, up, at, commit, store>>
  BY DEF Work
<1>2. \A f \in {HeadFile, Staged} :
        /\ Coming(f)' \subseteq Coming(f) /\ Ver(f)' # {} /\ Ver(f) # {}
        /\ \A v \in Ver(f)' : v \in Ver(f) \/ v \in Coming(f)
  BY <1>0, VerSteps
<1>3. \A a \in Known' : a \in Known
  <2> SUFFICES ASSUME NEW a \in Known' PROVE a \in Known
    OBVIOUS
  <2>1. CASE a \in Seen'
    <3>1. CASE a \in Seen
      BY <3>1 DEF Known
    <3>2. CASE a \notin Seen
      <4>1. a # Nothing /\ Ver(Staged) = {a}
        BY <2>1, <3>2, EnteringIs
      <4> QED BY <4>1 DEF Known
    <3> QED BY <3>1, <3>2
  <2>2. CASE a \in Ver(Staged)' \cup Coming(Staged)' /\ a # Nothing
    BY <1>2, <2>2 DEF Known
  <2> QED BY <2>1, <2>2 DEF Known
<1>4. ASSUME NEW a \in Seen', NEW v \in Ver(HeadFile)' \cup Coming(HeadFile)', IsCommit(a)
      PROVE  a[4] \in ChainOf(prior, Num(v))
  <2>1. CASE a \in Seen
    BY <1>2, <1>4, <2>1 DEF ToldOK
  <2>2. CASE a \notin Seen
    <3>1. /\ a # Nothing /\ Ver(Staged) = {a} /\ Ver(HeadFile)' \subseteq Ver(HeadFile)
          /\ Anchored(a) /\ at \in {"recover", "promote"}
      BY <1>4, <2>2, EnteringIs
    <3>2. Coming(HeadFile) = {}
      BY <1>0, <3>1 DEF HeadsOK
    <3>3. a \in Known
      BY <3>1 DEF Known
    <3>4. a[4] \in 1..Len(prior)
      BY <1>4, <3>3 DEF ToldOK
    <3>5. v = Cid(a[4])
      BY <1>2, <1>4, <3>1, <3>2, <3>4 DEF Anchored
    <3>6. PICK c \in 1..Len(prior) : c = a[4]
      BY <3>4
    <3>7. Num(v) = c
      BY <3>5, <3>6, HeadNumbers, NumFacts
    <3> QED BY <3>6, <3>7, HeadNumbers, ChainUnfolds
  <2> QED BY <2>1, <2>2
<1>5. at = "stage" => \E e \in Entered :
        Right(e) /\ Coming(Staged)' \subseteq {e} /\ Lands(Len(todo) + 1, Staged, e)'
  <2> SUFFICES ASSUME at = "stage"
               PROVE  \E e \in Entered :
                        Right(e) /\ Coming(Staged)' \subseteq {e} /\ Lands(Len(todo) + 1, Staged, e)'
    OBVIOUS
  <2>1. PICK e \in Entered :
          Right(e) /\ Coming(Staged) \subseteq {e} /\ Lands(Len(todo) + 1, Staged, e)
    BY DEF ToldOK
  <2>2. PICK k : k = Len(todo) + 1
    OBVIOUS
  <2>3. k \in Int /\ k - 1 = (Len(todo) + 1)'
    BY <2>2 DEF Moved
  <2>4. Lands(k - 1, Staged, e)'
    BY <1>0, <2>1, <2>2, <2>3, LandsMove
  <2> QED BY <1>2, <2>1, <2>3, <2>4
<1>6. at = "persist" => \E e \in Entered : Right(e) /\ Ver(Staged)' = {e}
  <2> SUFFICES ASSUME at = "persist" PROVE \E e \in Entered : Right(e) /\ Ver(Staged)' = {e}
    OBVIOUS
  <2>1. PICK e \in Entered : Right(e) /\ Ver(Staged) = {e}
    BY DEF ToldOK
  <2>2. Coming(Staged) = {}
    BY <1>0 DEF StagedOK
  <2> QED BY <1>2, <2>1, <2>2
<1>7. \A e : Right(e)' <=> Right(e)
  BY <1>1 DEF Right
<1>8. \A a \in Known' : IsCommit(a) => a[4] \in 1..Len(prior)
  BY <1>3 DEF ToldOK
<1>9. \A a, b \in Known' : IsCommit(a) /\ IsCommit(b) /\ a[2] < b[2] => a[4] < b[4]
  BY <1>3 DEF ToldOK
<1> QED BY <1>1, <1>4, <1>5, <1>6, <1>7, <1>8, <1>9 DEF ToldOK

LEMMA PowerLossSeen ==
  ASSUME Base, RelayOK, PowerLoss
  PROVE  /\ \A a \in Seen' : a \in Seen
         /\ \A v \in Ver(HeadFile)' : v \in Ver(HeadFile)
         /\ \A v \in Ver(Staged)' : v = Nothing \/ v \in Ver(Staged)
         /\ \A f : Coming(f)' = {}
<1>0. DiskOK
  BY DEF Base
<1>1. todo' = << >> /\ Die /\ \A f \in File : Ver(f)' = {cache'[f]}
  BY <1>0, PowerLossDoes DEF Die, Call
<1>2. PICK kept : Left(kept)
  BY <1>0, PowerLossDoes
<1>3. \A f \in File : /\ kept[f] \in Ver(f)
                      /\ cache'[f] = IF \A d \in {Home(f), Home(Home(f))} : kept[d] # Nothing
                                       THEN kept[f] ELSE Nothing
  BY <1>2 DEF Left
<1>4. kept[Root] # Nothing
  <2>1. Ver(Root) \subseteq Holds(Root)
    BY <1>0, FileNames DEF DiskOK, Ver
  <2> QED BY <1>3, <2>1, FileNames, PutsAre DEF Folder, Nothing
<1>5. \A f \in Logged \cup {Staged} : \A v \in Ver(f)' : v # Nothing => v \in Ver(f)
  BY <1>1, <1>3, FilesDiffer, FileNames
<1>6. RelayOK' /\ \A e : Heard(e)' => Heard(e)
  BY <1>1, DeathIsNotHeard
<1>7. \A v \in Ver(HeadFile)' : v \in Ver(HeadFile)
  BY <1>1, <1>3, <1>4, FileNames
<1>8. ASSUME NEW a \in Seen' PROVE a \in Seen
  <2>1. a \in Entered /\ (Heard(a)' \/ \E f \in Logged : a \in Ver(f)')
    BY <1>8 DEF Seen
  <2>2. a # Nothing
    BY <2>1, EventNames
  <2> QED BY <1>5, <1>6, <2>1, <2>2 DEF Seen
<1>9. \A f : Coming(f)' = {}
  BY <1>1, ContentsNone DEF Coming
<1> QED BY <1>5, <1>7, <1>8, <1>9

LEMMA PowerLossTold ==
  ASSUME Base, NumbersOK, ToldOK, PowerLoss
  PROVE  ToldOK'
<1>1. /\ \A a \in Seen' : a \in Seen
      /\ \A v \in Ver(HeadFile)' : v \in Ver(HeadFile)
      /\ \A v \in Ver(Staged)' : v = Nothing \/ v \in Ver(Staged)
      /\ \A f : Coming(f)' = {}
  BY PowerLossSeen DEF NumbersOK
<1>2. prior' = prior /\ at' = "idle"
  BY PowerLossDoes DEF Die, Call, Base
<1>3. \A a \in Known' : a \in Known
  BY <1>1 DEF Known
<1>4. \A a \in Seen', v \in Ver(HeadFile)' \cup Coming(HeadFile)' :
        IsCommit(a) => a[4] \in ChainOf(prior, Num(v))
  BY <1>1 DEF ToldOK
<1>5. \A a \in Known' : IsCommit(a) => a[4] \in 1..Len(prior)
  BY <1>3 DEF ToldOK
<1>6. \A a, b \in Known' : IsCommit(a) /\ IsCommit(b) /\ a[2] < b[2] => a[4] < b[4]
  BY <1>3 DEF ToldOK
<1> QED BY <1>2, <1>4, <1>5, <1>6 DEF ToldOK

\* A call that begins, and what it is going to stage.
LEMMA BeginsTold ==
  ASSUME Base, NumbersOK, ToldOK, [Next]_vars, NEW s, Begins(s),
         \A a \in Seen, v \in Contents(s, HeadFile) :
           IsCommit(a) => a[4] \in ChainOf(prior', Num(v)),
         \A e \in Contents(s, Staged) : e # Nothing /\ IsCommit(e) =>
           /\ e[4] \in 1..Len(prior')
           /\ \A a \in Known : IsCommit(a) => /\ a[2] < e[2] => a[4] < e[4]
                                              /\ ~(e[2] < a[2]),
         \A e, d \in Contents(s, Staged) : e # Nothing /\ d # Nothing => e = d,
         at' = "stage" => \E e \in Entered :
           Right(e)' /\ Contents(s, Staged) \subseteq {e} /\ Lands(Len(s) + 1, Staged, e)',
         at' = "persist" => \E e \in Entered : Right(e)' /\ Ver(Staged) = {e}
  PROVE  ToldOK'
<1>0. DiskOK /\ RelayOK
  BY DEF Base, NumbersOK
<1>1. /\ \A f : Ver(f)' = Ver(f) /\ Coming(f)' = Contents(s, f)
      /\ todo' = s /\ s \in Seq(Step)
  BY <1>0, BeginsFacts DEF Begins
<1>2. \A a \in Seen' : a \in Seen
  BY <1>0, <1>1, SeenFalls
<1>3. \A a \in Known' : a \in Known \/ (a \in Contents(s, Staged) /\ a # Nothing)
  BY <1>1, <1>2 DEF Known
<1>4. /\ Len(prior) \in Nat /\ Len(prior') \in Nat /\ Len(prior) <= Len(prior')
      /\ \A c \in 0..Len(prior) : ChainOf(prior', c) = ChainOf(prior, c)
  BY PriorKept
<1>5. \A a \in Known : IsCommit(a) => a[4] \in 1..Len(prior)
  BY DEF ToldOK
<1>6. \A a \in Known' : IsCommit(a) => a[4] \in 1..Len(prior')
  BY <1>3, <1>4, <1>5
<1>7. ASSUME NEW a \in Known', NEW b \in Known', IsCommit(a), IsCommit(b), a[2] < b[2]
      PROVE  a[4] < b[4]
  <2>1. CASE a \in Known /\ b \in Known
    BY <1>7, <2>1 DEF ToldOK
  <2>2. CASE b \notin Known /\ a \in Known
    BY <1>3, <1>7, <2>2
  <2>3. CASE a \notin Known /\ b \in Known
    BY <1>3, <1>7, <2>3
  <2>4. CASE a \notin Known /\ b \notin Known
    <3>1. a = b
      BY <1>3, <2>4
    <3>2. b \in Entered /\ b[2] \in Nat
      <4>1. b \in Ver(Staged)' \cup Coming(Staged)' /\ b # Nothing
        BY <1>1, <1>3, <2>4
      <4>2. DiskOK'
        BY <1>0, BeginsFacts
      <4>3. b \in Contents(s, Staged) /\ b # Nothing
        BY <1>3, <2>4
      <4>4. Put(Staged, b) \in Step
        BY <1>1, <4>3, ContentsAre DEF Has
      <4>5. b \in Puttable(Staged)
        BY <4>4, StepFacts
      <4>6. b \in Entered
        BY <4>3, <4>5, PutsAre
      <4> QED BY <4>6, EventNames
    <3> QED BY <1>7, <3>1, <3>2
  <2> QED BY <2>1, <2>2, <2>3, <2>4
<1>8. ASSUME NEW a \in Seen', NEW v \in Ver(HeadFile)' \cup Coming(HeadFile)', IsCommit(a)
      PROVE  a[4] \in ChainOf(prior', Num(v))
  <2>1. CASE v \in Ver(HeadFile)
    <3>1. a[4] \in ChainOf(prior, Num(v))
      BY <1>2, <1>8, <2>1 DEF ToldOK
    <3>2. Num(v) \in 0..Len(prior)
      BY <2>1, HeadNumbers
    <3> QED BY <1>4, <3>1, <3>2
  <2>2. CASE v \in Contents(s, HeadFile)
    BY <1>2, <1>8, <2>2
  <2> QED BY <1>1, <1>8, <2>1, <2>2
<1> QED BY <1>1, <1>6, <1>7, <1>8 DEF ToldOK

\* A call that stages nothing.
LEMMA PlainTold ==
  ASSUME Base, NumbersOK, ToldOK, [Next]_vars, NEW s, Begins(s),
         Contents(s, HeadFile) = {}, Contents(s, Staged) \subseteq {Nothing},
         at' \notin {"stage", "persist"}
  PROVE  ToldOK'
BY BeginsTold

\* A call that stages an event of the number that is next.
LEMMA StageTold ==
  ASSUME Base, NumbersOK, ToldOK, [Next]_vars, NEW e \in Entered, Begins(Stage(e)),
         e[2] = NextSequence, Numbered, at' = "stage", Right(e)',
         IsCommit(e) => e[4] \in 1..Len(prior'),
         \A a \in Known : IsCommit(a) /\ IsCommit(e) /\ a[2] < e[2] => a[4] < e[4]
  PROVE  ToldOK'
<1>0. DiskOK /\ LogOK
  BY DEF Base, NumbersOK
<1>1. PICK s : s = Stage(e)
  OBVIOUS
<1>2. /\ Begins(s) /\ Contents(s, Staged) \subseteq {e} /\ Contents(s, HeadFile) = {}
  BY <1>1, StageComing
<1>3. Lands(Len(s) + 1, Staged, e)'
  <2>1. Before(s, Put(Staged, e), Sync(Home(Staged)))
    BY <1>1, StageDoes, FileNames
  <2>2. PICK k : k = Len(s) + 1
    OBVIOUS
  <2>3. k \in Int
    BY <1>2, <2>2 DEF Begins
  <2> QED BY <1>2, <2>1, <2>2, <2>3, BeginsLands
<1>4. ASSUME NEW a \in Known PROVE ~(e[2] < a[2])
  <2>1. a[2] \in Nat /\ LastSeq \in Nat /\ e[2] = LastSeq + 1 /\ LastSeq = Num(cache[LastFile])
    BY <1>0, KnownIs, SeqNumbers
  <2>2. cache[LastFile] \in Ver(LastFile)
    BY <1>0, FileNames DEF DiskOK, Ver
  <2>3. CASE a \in Seen
    BY <2>1, <2>2, <2>3 DEF Numbered
  <2>4. CASE a \in Ver(Staged) /\ a # Nothing
    BY <1>0, <2>1, <2>2, <2>4 DEF LogOK
  <2>5. CASE a \in Coming(Staged) /\ a # Nothing
    BY <2>1, <2>2, <2>5 DEF NumbersOK, TurnOK
  <2> QED BY <2>3, <2>4, <2>5 DEF Known
<1>5. \A a \in Seen, v \in Contents(s, HeadFile) : IsCommit(a) => a[4] \in ChainOf(prior', Num(v))
  BY <1>2
<1>6. \A d \in Contents(s, Staged) : d # Nothing /\ IsCommit(d) =>
        /\ d[4] \in 1..Len(prior')
        /\ \A a \in Known : IsCommit(a) => /\ a[2] < d[2] => a[4] < d[4]
                                           /\ ~(d[2] < a[2])
  BY <1>2, <1>4
<1> QED BY <1>2, <1>3, <1>5, <1>6, BeginsTold

LEMMA StagingTold ==
  ASSUME Base, NumbersOK, PlacedOK, ToldOK, [Next]_vars,
         EmitGenesis \/ RequestCommit \/ RequestIdentity
  PROVE  ToldOK'
<1>0. DiskOK /\ CallsOK /\ TurnOK
  BY DEF Base, NumbersOK
<1>1. /\ todo = << >> /\ UNCHANGED <<cache, media, store>> /\ at' = "stage" /\ InMemory
      /\ at \in {"recover", "idle"} /\ (at = "idle" => up = "serving")
  BY <1>0 DEF EmitGenesis, RequestCommit, RequestIdentity, Call, Free, InMemory, CallsOK
<1>2. Numbered
  BY <1>0, <1>1, RestIsNumbered DEF TurnOK
<1>3. store \in 1..Len(prior) /\ Len(prior) \in Nat /\ Len(prior') \in Nat /\ Len(prior) <= Len(prior')
  BY <1>1, PriorKept DEF PlacedOK
<1>4. NextSequence \in Nat /\ LastSeq \in Nat /\ NextSequence = LastSeq + 1 /\ MaxSeq \in Nat /\ MaxSeq >= 4
      /\ cache[LastFile] \in Ver(LastFile) /\ LastSeq = Num(cache[LastFile])
  BY <1>0, SeqNumbers, FileNames, BoundsAreNumbers DEF DiskOK, Ver
<1>5. /\ 1..Len(prior) \subseteq Commits
      /\ \A a \in Known : a \in Entered /\ a[2] \in Nat /\ (IsCommit(a) => a[4] \in 1..Len(prior))
  BY <1>0, KnownIs, HeadNumbers DEF ToldOK
<1>6. commit = 0
  BY <1>0, <1>1 DEF CallsOK
<1>7. CASE EmitGenesis
  <2>1. NextSequence \in 1..4 /\ commit' = commit
    BY <1>7 DEF EmitGenesis
  <2>2. PICK kind \in Kinds, anchor \in {0} \cup Commits :
          /\ kind = Genesis[NextSequence] /\ (kind = "commit" \/ anchor = 0)
          /\ anchor = IF kind = "commit" THEN store ELSE 0
          /\ todo' = Stage(EventOf(kind, anchor))
    <3>1. PICK kind : kind = Genesis[NextSequence]
      OBVIOUS
    <3>2. kind \in Kinds
      BY <2>1, <3>1 DEF Kinds
    <3>3. PICK anchor : anchor = IF kind = "commit" THEN store ELSE 0
      OBVIOUS
    <3>4. anchor \in {0} \cup Commits
      BY <1>3, <1>5, <3>3
    <3> QED BY <1>7, <3>1, <3>2, <3>3, <3>4 DEF EmitGenesis, Call
  <2>3. PICK e : e = EventOf(kind, anchor)
    OBVIOUS
  <2>4. e \in Entered /\ e[2] = NextSequence /\ e[4] = anchor
    BY <1>4, <2>1, <2>2, <2>3, EventFits
  <2>5. e[1] = kind
    BY <2>3 DEF EventOf
  <2>6. Begins(Stage(e))
    BY <1>1, <2>2, <2>3, <2>4, StageComing DEF Begins
  <2>7. Right(e)'
    BY <1>6, <2>1 DEF Right
  <2>8. IsCommit(e) => e[4] \in 1..Len(prior')
    BY <1>3, <2>2, <2>4, <2>5 DEF IsCommit
  <2>9. ASSUME NEW a \in Known, IsCommit(a), IsCommit(e), a[2] < e[2] PROVE a[4] < e[4]
    <3>1. a[2] \in Nat /\ e[2] \in 1..4 /\ a \in Entered
      BY <1>5, <2>1, <2>4
    <3>2. e[1] = Genesis[e[2]]
      BY <2>2, <2>4, <2>5
    <3>3. e[2] = 3
      BY <2>9, <3>1, <3>2 DEF IsCommit, Genesis
    <3>4. a[2] \in 1..MaxSeq /\ a[2] <= 4
      BY <2>9, <3>1, <3>3, EventNames
    <3>5. a[2] \in {1, 2} /\ a[1] = Genesis[a[2]]
      BY <2>9, <3>1, <3>3, <3>4 DEF Entered
    <3> QED BY <2>9, <3>5 DEF IsCommit, Genesis
  <2> QED BY <1>1, <1>2, <2>4, <2>6, <2>7, <2>8, <2>9, StageTold
<1>8. CASE RequestCommit
  <2>1. NextSequence \in 1..MaxSeq /\ NextSequence > 4
    <3>1. LastSeq >= 4
      BY <1>4, <1>8, DiskHeadIs DEF RequestCommit, Free, Base, StagedOK
    <3> QED BY <1>4, <1>8, <3>1 DEF RequestCommit
  <2>2. PICK anchor \in {0} \cup Commits : anchor = Len(prior) + 1
    <3>1. Len(prior) + 1 \in Commits
      BY <1>3, <1>8, BoundsAreNumbers DEF RequestCommit, Commits
    <3> QED BY <3>1
  <2>3. PICK kind : kind = "commit"
    OBVIOUS
  <2>4. kind \in Kinds
    BY <2>3 DEF Kinds, Genesis
  <2>5. PICK e : e = EventOf(kind, anchor)
    OBVIOUS
  <2>6. e \in Entered /\ e[2] = NextSequence /\ e[4] = anchor
    BY <2>1, <2>3, <2>4, <2>5, EventFits
  <2>7. /\ todo' = Stage(e) /\ commit' = anchor /\ prior' = Append(prior, store)
    BY <1>8, <2>2, <2>3, <2>5 DEF RequestCommit, Call
  <2>8. Begins(Stage(e)) /\ e[1] = "commit"
    BY <1>1, <2>3, <2>5, <2>6, <2>7, StageComing DEF Begins, EventOf
  <2>9. Right(e)'
    BY <2>6, <2>7, <2>8 DEF Right, IsCommit
  <2>10. e[4] \in 1..Len(prior')
    BY <1>0, <1>3, <2>2, <2>6, <2>7 DEF CallsOK, Falls
  <2>11. \A a \in Known : IsCommit(a) => a[4] < e[4]
    BY <1>3, <1>5, <2>2, <2>6
  <2> QED BY <1>1, <1>2, <2>6, <2>8, <2>9, <2>10, <2>11, StageTold
<1>9. CASE RequestIdentity
  <2>1. NextSequence \in 1..MaxSeq /\ NextSequence > 4
    <3>1. LastSeq >= 4
      BY <1>4, <1>9, DiskHeadIs DEF RequestIdentity, Free, Base, StagedOK
    <3> QED BY <1>4, <1>9, <3>1 DEF RequestIdentity
  <2>2. PICK kind, anchor : kind = "identity" /\ anchor = 0
    OBVIOUS
  <2>3. kind \in Kinds /\ anchor \in {0} \cup Commits
    BY <2>2 DEF Kinds, Genesis
  <2>4. PICK e : e = EventOf(kind, anchor)
    OBVIOUS
  <2>5. e \in Entered /\ e[2] = NextSequence /\ e[4] = anchor
    BY <2>1, <2>2, <2>3, <2>4, EventFits
  <2>6. /\ todo' = Stage(e) /\ commit' = commit
    BY <1>9, <2>2, <2>4 DEF RequestIdentity, Call
  <2>7. Begins(Stage(e)) /\ e[1] = "identity"
    BY <1>1, <2>2, <2>4, <2>5, <2>6, StageComing DEF Begins, EventOf
  <2>8. Right(e)' /\ ~IsCommit(e)
    BY <1>6, <2>6, <2>7 DEF Right, IsCommit
  <2> QED BY <1>1, <1>2, <2>5, <2>7, <2>8, StageTold
<1> QED BY <1>7, <1>8, <1>9

LEMMA PersistingTold ==
  ASSUME Base, NumbersOK, PlacedOK, ToldOK, [Next]_vars, StartNew \/ PersistRepo
  PROVE  ToldOK'
<1>0. DiskOK /\ CallsOK /\ LogOK
  BY DEF Base, NumbersOK
<1>1. Len(prior) \in Nat /\ Falls(prior)
  BY HeadNumbers
<1>2. CASE StartNew
  <2>1. PICK s : s = PersistSave(Len(prior) + 1)
    OBVIOUS
  <2>2. Begins(s) /\ Len(prior) + 1 \in Commits
    BY <1>2, <2>1, PersistingSteps
  <2>3. Contents(s, Staged) = {}
    BY <2>1, <2>2, PersistComing
  <2>4. Seen = {}
    <3>1. cache[HeadFile] = Nothing /\ HeadFile \in File
      BY <1>2, FileNames DEF StartNew, Exists
    <3>2. cache[HeadFile] \in Ver(HeadFile)
      BY <1>0, <3>1 DEF DiskOK, Ver
    <3> QED BY <1>0, <3>1, <3>2 DEF LogOK
  <2>5. at' = "init"
    BY <1>2 DEF StartNew, Call
  <2> QED BY <2>2, <2>3, <2>4, <2>5, BeginsTold
<1>3. CASE PersistRepo
  <2>1. /\ at = "stage" /\ todo = << >> /\ commit # 0 /\ at' = "persist"
        /\ UNCHANGED <<cache, media, commit, prior>> /\ todo' = PersistSave(commit)
    BY <1>3 DEF PersistRepo, Call
  <2>2. PICK c : c = commit
    OBVIOUS
  <2>3. c \in 1..Len(prior) /\ c \in Commits /\ prior[c] = store /\ up = "serving" /\ store \in 0..Len(prior)
    BY <1>0, <1>1, <2>1, <2>2, HeadNumbers DEF CallsOK
  <2>4. PICK s : s = PersistSave(c)
    OBVIOUS
  <2>5. /\ s \in Seq(Step) /\ Contents(s, HeadFile) \subseteq {Cid(c)} /\ Contents(s, Staged) = {}
    BY <2>3, <2>4, PersistComing
  <2>6. Begins(s)
    BY <2>1, <2>2, <2>4, <2>5 DEF Begins
  <2>7. Ver(HeadFile) = {Cid(store)}
    BY <2>1, <2>3 DEF PlacedOK, InMemory
  <2>8. ChainOf(prior, c) = {c} \cup ChainOf(prior, store)
    BY <1>1, <2>3, ChainUnfolds
  <2>9. Num(Cid(c)) = c /\ Num(Cid(store)) = store
    <3>1. store \in Commits
      BY <2>3, HeadNumbers DEF PlacedOK, InMemory
    <3> QED BY <2>3, <3>1, NumFacts
  <2>10. \A a \in Seen : IsCommit(a) => a[4] \in ChainOf(prior, store)
    BY <2>7, <2>9 DEF ToldOK
  <2>11. \A a \in Seen, v \in Contents(s, HeadFile) : IsCommit(a) => a[4] \in ChainOf(prior', Num(v))
    BY <2>1, <2>5, <2>8, <2>9, <2>10
  <2>12. PICK e \in Entered : Right(e) /\ Lands(Len(todo) + 1, Staged, e)
    BY <2>1 DEF ToldOK
  <2>13. Ver(Staged) = {e} /\ Right(e)'
    BY <2>1, <2>12, LandsDone DEF Right
  <2>14. \E d \in Entered : Right(d)' /\ Ver(Staged) = {d}
    BY <2>13
  <2> QED BY <2>1, <2>5, <2>6, <2>11, <2>14, BeginsTold
<1> QED BY <1>2, <1>3

LEMMA NextTold ==
  ASSUME WritesSucceed, Counted, PlacedOK, ToldOK, [Next]_vars
  PROVE  ToldOK'
<1>0. /\ Base /\ FlushedOK /\ OrderOK /\ NumbersOK /\ CallsOK /\ DiskOK /\ TurnOK /\ RelayOK
      /\ FaultsApart /\ "error" \notin Faults /\ "damage" \notin Faults
  BY DEF Counted, Sturdy, Base, NumbersOK, WritesSucceed, FaultsApart
<1>1. CASE Work
  <2>1. PICK x : Moved(x)
    BY <1>0, <1>1, WorkMoves
  <2> QED BY <1>0, <1>1, <2>1, WorkTold
<1>2. CASE PowerLoss
  BY <1>0, <1>2, PowerLossTold
<1>3. CASE EmitGenesis \/ RequestCommit \/ RequestIdentity
  BY <1>0, <1>3, StagingTold
<1>4. CASE StartNew \/ PersistRepo
  BY <1>0, <1>4, PersistingTold
<1>5. CASE Recover
  <2>1. PICK s : s = Recovery
    OBVIOUS
  <2>2. Begins(s) /\ at' = "recover"
    BY <1>0, <1>5, <2>1, RecoveringStep DEF Recovers
  <2>3. Contents(s, HeadFile) = {}
    BY <1>0, <2>1, RecoveryTidy
  <2>4. Contents(s, Staged) \subseteq {Nothing}
    <3>1. CASE Recovery = << >>
      BY <2>1, <3>1, ContentsNone
    <3>2. CASE \E e \in Entered : Recovery = Promote(e)
      BY <1>0, <2>1, <3>2, PromoteComing
    <3>3. CASE Recovery = DiscardStaged
      BY <2>1, <3>3, DiscardComing
    <3> QED BY <1>0, <3>1, <3>2, <3>3, RecoveryIs
  <2> QED BY <1>0, <2>2, <2>3, <2>4, PlainTold
<1>6. CASE PromoteEntry
  <2>1. PICK e \in Entered : Begins(Promote(e)) /\ at' = "promote"
    BY <1>0, <1>6, PromotingStep DEF Promotes
  <2>2. PICK s : s = Promote(e)
    OBVIOUS
  <2>3. Contents(s, HeadFile) = {} /\ Contents(s, Staged) \subseteq {Nothing}
    BY <1>0, <2>2, PromoteComing
  <2> QED BY <1>0, <2>1, <2>2, <2>3, PlainTold
<1>7. CASE StartAgain \/ StartRefused \/ RefuseLog \/ Serve \/ Answer \/ Crash
  <2>1. PICK s : s = << >>
    OBVIOUS
  <2>2. /\ todo' = << >> /\ UNCHANGED <<cache, media>> /\ at' \in {"init", "idle", "recover"}
    BY <1>0, <1>7 DEF StartAgain, StartRefused, RefuseLog, Serve, Answer, Crash, Die, Call, CallsOK
  <2>3. Begins(s) /\ \A f : Contents(s, f) = {}
    BY <2>1, <2>2, ContentsNone DEF Begins
  <2> QED BY <1>0, <2>2, <2>3, PlainTold
<1>8. CASE (\E r \in Relay : Subscriber(r)) \/ Tick \/ ClockStepsBack \/ UNCHANGED vars
  <2>1. UNCHANGED <<cache, media, prior, up, at, todo, commit, store, acked>>
    BY <1>0, <1>8, QuietSteps DEF Quiet, vars
  <2>2. /\ \A f : Ver(f)' = Ver(f) /\ Coming(f)' = Coming(f)
        /\ \A k, f, v : Lands(k, f, v)' = Lands(k, f, v)
        /\ \A e : Right(e)' = Right(e)
    BY <2>1 DEF Ver, Lands, Coming, Right
  <2>3. \A a \in Seen' : a \in Seen
    BY <1>0, <2>2, SeenFalls
  <2>4. \A a \in Known' : a \in Known
    BY <2>2, <2>3 DEF Known
  <2>5. UNCHANGED <<prior, at, todo>>
    BY <2>1
  <2>6. /\ \A a \in Seen', v \in Ver(HeadFile)' \cup Coming(HeadFile)' :
             IsCommit(a) => a[4] \in ChainOf(prior, Num(v))
        /\ \A a \in Known' : IsCommit(a) => a[4] \in 1..Len(prior)
        /\ \A a, b \in Known' : IsCommit(a) /\ IsCommit(b) /\ a[2] < b[2] => a[4] < b[4]
    BY <2>2, <2>3, <2>4 DEF ToldOK
  <2>7. /\ at = "stage" => \E e \in Entered :
             Right(e)' /\ Coming(Staged)' \subseteq {e} /\ Lands(Len(todo) + 1, Staged, e)'
        /\ at = "persist" => \E e \in Entered : Right(e)' /\ Ver(Staged)' = {e}
    <3>1. /\ at = "stage" => \E e \in Entered :
               Right(e) /\ Coming(Staged) \subseteq {e} /\ Lands(Len(todo) + 1, Staged, e)
          /\ at = "persist" => \E e \in Entered : Right(e) /\ Ver(Staged) = {e}
      BY DEF ToldOK
    <3>2. PICK k : k = Len(todo) + 1
      OBVIOUS
    <3>3. k = (Len(todo) + 1)'
      BY <2>5, <3>2
    <3> QED BY <2>2, <3>1, <3>2, <3>3
  <2> QED BY <2>5, <2>6, <2>7 DEF ToldOK
<1>9. CASE DropStaged \/ DiskError \/ FileDamaged
  BY <1>0, <1>9 DEF DropStaged, DiskError, FileDamaged, Fault, TurnOK
<1> QED BY <1>1, <1>2, <1>3, <1>4, <1>5, <1>6, <1>7, <1>8, <1>9
        DEF Next, Process, Operator, Client, Environment

-----------------------------------------------------------------------------
(* What is under the head is in the log, or pending *)

\* The clock is not set past the first window: nothing is expired yet.
Windowed == MaxTime <= Retention

LEMMA NothingExpires ==
  ASSUME Windowed, Base, NEW e \in Entered
  PROVE  ~Expired(e)
<1>1. clock \in 0..MaxTime /\ e[3] \in 0..MaxTime
  BY EventNames DEF Base, CallsOK
<1> QED BY <1>1, BoundsAreNumbers DEF Windowed, Expired

\* Only one event is put on an entry's file.
LEMMA EntryComing ==
  ASSUME DiskOK, OrderOK, LogOK, NEW e \in Entered, NEW f, f = Entry(e), Nothing \notin Coming(f),
         e \in Ver(f) \cup Coming(f)
  PROVE  Coming(f) \subseteq {e}
<1> SUFFICES ASSUME NEW v \in Coming(f) PROVE v = e
  OBVIOUS
<1>1. f \in Logged /\ v # Nothing
  BY EventNames
<1>2. v \in Entered /\ Entry(v) = f /\ Ver(Staged) = {v}
  BY <1>1, Shown DEF OrderOK
<1>3. CASE e \in Coming(f)
  <2>1. e # Nothing
    BY EventNames
  <2>2. Ver(Staged) = {e}
    BY <1>1, <1>3, <2>1 DEF OrderOK
  <2> QED BY <1>2, <2>2
<1>4. CASE e \in Ver(f)
  <2>1. e \in Seen
    BY <1>1, <1>4 DEF Seen
  <2>2. v[2] = e[2]
    BY <1>2 DEF Entry
  <2> QED BY <1>1, <1>2, <2>1, <2>2 DEF LogOK
<1> QED BY <1>3, <1>4

LEMMA LandsKnown ==
  ASSUME DiskOK, NEW e \in Entered, NEW f \in File, NEW k, Lands(k, f, e)
  PROVE  e \in Ver(f) \cup Coming(f)
<1>1. cache[f] \in Ver(f)
  BY DEF DiskOK, Ver
<1>2. \A i \in 1..Len(todo) : todo[i] = Put(f, e) => e \in Coming(f)
  BY ContentsAre DEF DiskOK, Has, Coming
<1> QED BY <1>1, <1>2 DEF Lands

\* What the log has, or is going to have, it keeps.
LEMMA LogByMoves ==
  ASSUME DiskOK, OrderOK, LogOK, \A f \in Logged : Nothing \notin Coming(f),
         NEW x, Moved(x), NEW e \in Entered
  PROVE  /\ Ver(Entry(e)) = {e} => (Ver(Entry(e)) = {e})'
         /\ \A k \in Int : Lands(k, Entry(e), e) => Lands(k - 1, Entry(e), e)'
<1>0. PICK f : f = Entry(e)
  OBVIOUS
<1>1. f \in Logged /\ f \in File
  BY <1>0, EventNames
<1>2. e \in Ver(f) \cup Coming(f) => Coming(f) \subseteq {e}
  BY <1>0, <1>1, EntryComing
<1>3. Ver(f)' # {} /\ \A v \in Ver(f)' : v \in Ver(f) \/ v \in Coming(f)
  BY <1>1, VerSteps
<1>4. Ver(f) = {e} => Ver(f)' = {e}
  BY <1>2, <1>3
<1>5. ASSUME NEW k \in Int, Lands(k, f, e) PROVE Lands(k - 1, f, e)'
  BY <1>1, <1>2, <1>5, LandsKnown, LandsMove
<1>6. f = Entry(e)
  BY <1>0
<1> QED BY <1>4, <1>5, <1>6

\* While the pending copy is to go, the head stays.
LEMMA GoingIs ==
  ASSUME Base, FlushedOK, Nothing \in Coming(Staged)
  PROVE  Coming(HeadFile) = {} /\ at \notin {"stage", "persist", "init"}
<1>1. HeadsOK /\ StagedOK
  BY DEF Base
<1>2. at # "stage"
  BY <1>1, EventNames DEF StagedOK
<1>3. at # "persist" /\ at # "init"
  BY <1>1 DEF StagedOK, FlushedOK
<1> QED BY <1>1, <1>2, <1>3 DEF HeadsOK

LEMMA WorkPairs ==
  ASSUME Base, FlushedOK, OrderOK, NumbersOK, PlacedOK, ToldOK, PairsOK, Work, NEW x, Moved(x)
  PROVE  PairsOK'
<1>0. /\ DiskOK /\ HeadsOK /\ StagedOK /\ CallsOK /\ LogOK /\ {HeadFile, Staged, LastFile} \subseteq File
      /\ \A f \in Logged : Nothing \notin Coming(f)
  BY FileNames DEF Base, NumbersOK, PairsOK
<1>1. UNCHANGED <<prior, up, at, commit, store>>
  BY DEF Work
<1>2. \A f \in {HeadFile, Staged, LastFile} \cup Logged :
        /\ Coming(f)' \subseteq Coming(f) /\ Ver(f)' # {} /\ Ver(f) # {}
        /\ \A v \in Ver(f)' : v \in Ver(f) \/ (x = Put(f, v) /\ v \in Coming(f))
  BY <1>0, VerSteps
<1>3. /\ Len(todo) \in Nat /\ Len(todo') = Len(todo) - 1 /\ todo[1] = x /\ 1 \in 1..Len(todo)
      /\ \A k \in 1..Len(todo') : k + 1 \in 1..Len(todo) /\ todo'[k] = todo[k + 1]
  BY DEF Moved
<1>4. \A w : Opens(w)' => Opens(w)
  BY <1>1, <1>2 DEF Opens
<1>5. \A c : InLog(c) => InLog(c)'
  <2> SUFFICES ASSUME NEW c, InLog(c) PROVE InLog(c)'
    OBVIOUS
  <2>1. PICK e \in EventFor(c) : Ver(Entry(e)) = {e}
    BY DEF InLog
  <2>2. (Ver(Entry(e)) = {e})'
    BY <1>0, <2>1, LogByMoves DEF EventFor
  <2> QED BY <2>1, <2>2 DEF InLog
<1>6. \A k \in Int : \A c : LogBy(k, c) => LogBy(k - 1, c)'
  <2> SUFFICES ASSUME NEW k \in Int, NEW c, LogBy(k, c) PROVE LogBy(k - 1, c)'
    OBVIOUS
  <2>1. PICK e \in EventFor(c) : Lands(k, Entry(e), e)
    BY DEF LogBy
  <2>2. Lands(k - 1, Entry(e), e)'
    BY <1>0, <2>1, LogByMoves DEF EventFor
  <2> QED BY <2>1, <2>2 DEF LogBy
<1>7. \A c : LogBy(1, c) => InLog(c)
  <2>1. \A f, v : Lands(1, f, v) => Ver(f) = {v}
    BY <1>3 DEF Lands
  <2> QED BY <2>1 DEF LogBy, InLog
<1>8. \A f \in Logged : Nothing \notin Coming(f)'
  BY <1>0, <1>2
<1>9. Settled' <=> Settled
  BY <1>1 DEF Settled
<1>10. ASSUME NEW w \in Ver(HeadFile), Opens(w), NEW c \in ChainOf(prior, w[2])
       PROVE  InLog(c)' \/ (w = Cid(c) /\ Owing(c)')
  <2>1. InLog(c) \/ (w = Cid(c) /\ Owing(c))
    BY <1>10 DEF PairsOK
  <2>2. CASE InLog(c)
    BY <1>5, <2>2
  <2>3. CASE at = "stage"
    <3>1. Ver(HeadFile) = {Cid(store)}
      BY <1>0, <2>3 DEF PlacedOK, InMemory, CallsOK
    <3>2. store \in Commits
      BY <1>0, <2>3, HeadNumbers DEF PlacedOK, InMemory, CallsOK
    <3>3. w = Cid(store) /\ w[2] = store
      BY <1>10, <3>1, <3>2, NumFacts
    <3>4. InLog(c)
      BY <1>10, <2>3, <3>3 DEF PairsOK, Settled
    <3> QED BY <1>5, <3>4
  <2>4. CASE at # "stage" /\ w = Cid(c) /\ Owing(c)
    <3>1. PICK e \in EventFor(c) : Ver(Staged) = {e}
      BY <2>4 DEF Owing
    <3>2. CASE Ver(Staged)' = {e}
      BY <2>4, <3>1, <3>2 DEF Owing
    <3>3. CASE Ver(Staged)' # {e}
      <4>1. PICK v \in Coming(Staged) : x = Put(Staged, v)
        BY <1>2, <3>1, <3>3
      <4>2. v = Nothing
        BY <1>0, <2>4 DEF StagedOK
      <4>3. todo[1] = Unlink(Staged)
        BY <1>3, <4>1, <4>2 DEF Unlink
      <4>4. LogBy(1, c)
        BY <1>3, <1>10, <4>3 DEF PairsOK
      <4> QED BY <1>5, <1>7, <4>4
    <3> QED BY <3>2, <3>3
  <2> QED BY <2>1, <2>2, <2>3, <2>4
<1>11. ASSUME NEW w \in Ver(HeadFile)', w \notin Ver(HeadFile), Opens(w), NEW c \in ChainOf(prior, w[2])
       PROVE  InLog(c)' \/ (w = Cid(c) /\ Owing(c)')
  <2>1. x = Put(HeadFile, w) /\ w \in Coming(HeadFile) /\ at \in {"init", "persist"}
    BY <1>0, <1>2, <1>11 DEF HeadsOK
  <2>2. CASE at = "init"
    <3>1. PICK d \in Commits : Ver(HeadFile) \subseteq {Nothing, Cid(d)} /\ Coming(HeadFile) \subseteq {Cid(d)}
      BY <2>2 DEF PlacedOK
    <3>2. Ver(HeadFile) = {Nothing}
      BY <1>2, <1>11, <2>1, <3>1
    <3>3. Ver(LastFile) = {Nothing} /\ Coming(LastFile) = {}
      BY <3>2 DEF PlacedOK
    <3>4. prior[w[2]] = 0
      BY <2>1, <2>2 DEF PairsOK
    <3> QED BY <1>11, <3>3, <3>4, NumFacts DEF Opens
  <2>3. CASE at = "persist"
    <3>1. PICK d : d = commit
      OBVIOUS
    <3>2. d # 0 /\ up = "serving" /\ prior[d] = store /\ d \in 1..Len(prior)
      BY <1>0, <2>3, <3>1 DEF CallsOK
    <3>3. d \in Commits /\ Falls(prior)
      BY <3>2, HeadNumbers
    <3>4. w = Cid(d) /\ w[2] = d
      BY <1>0, <2>1, <2>3, <3>1, <3>3, NumFacts DEF HeadsOK
    <3>5. ChainOf(prior, d) = {d} \cup ChainOf(prior, store)
      BY <3>2, <3>3, ChainUnfolds
    <3>6. CASE c = d
      <4>1. PICK e \in Entered : Right(e) /\ Ver(Staged) = {e}
        BY <2>3 DEF ToldOK
      <4>2. e \in EventFor(c)
        BY <3>1, <3>2, <3>6, <4>1 DEF Right, EventFor
      <4>3. x # Put(Staged, e) /\ \A v : x # Put(Staged, v)
        BY <2>1, FilesDiffer, StepFacts
      <4>4. Ver(Staged)' = {e}
        BY <1>2, <4>1, <4>3
      <4> QED BY <3>4, <3>6, <4>2, <4>4 DEF Owing
    <3>7. CASE c \in ChainOf(prior, store)
      <4>1. Num(cache[LastFile]) >= 4 /\ cache[LastFile] \in Ver(LastFile)
        BY <1>0, <3>2 DEF StagedOK, DiskOK, Ver
      <4>2. Num(cache[LastFile]) \in Nat
        BY <1>0, <4>1, SeenNumbers
      <4>3. Num(cache[LastFile]) >= 3
        BY <4>1, <4>2
      <4>4. store \in Commits
        BY <3>2, HeadNumbers DEF PlacedOK, InMemory
      <4>5. Opens(Cid(store))
        BY <4>1, <4>3, <4>4, NumFacts DEF Opens
      <4>6. InLog(c)
        BY <2>3, <3>7, <4>5 DEF PairsOK, Settled
      <4> QED BY <1>5, <4>6
    <3> QED BY <1>11, <3>4, <3>5, <3>6, <3>7
  <2> QED BY <2>1, <2>2, <2>3
<1>12. ASSUME NEW k \in 1..Len(todo'), todo'[k] = Unlink(Staged), NEW w \in Ver(HeadFile)', Opens(w),
              NEW c \in ChainOf(prior, w[2])
       PROVE  LogBy(k, c)'
  <2>1. PICK m : m = k + 1
    OBVIOUS
  <2>2. m \in Int /\ m - 1 = k /\ m \in 1..Len(todo) /\ todo[m] = Unlink(Staged)
    BY <1>3, <1>12, <2>1
  <2>3. Nothing \in Coming(Staged)
    <3>1. Has(todo, Put(Staged, Nothing)) /\ todo \in Seq(Step)
      BY <1>0, <2>2 DEF Has, Unlink, DiskOK
    <3> QED BY <3>1, ContentsAre DEF Coming
  <2>4. Coming(HeadFile) = {}
    BY <2>3, GoingIs
  <2>5. w \in Ver(HeadFile)
    BY <1>2, <1>12, <2>4
  <2>6. LogBy(m, c)
    BY <1>12, <2>2, <2>5 DEF PairsOK
  <2>7. LogBy(m - 1, c)'
    BY <1>6, <2>2, <2>6
  <2> QED BY <2>2, <2>7
<1>13. \A w \in Ver(HeadFile)' : Opens(w)' =>
         \A c \in ChainOf(prior', w[2]) : InLog(c)' \/ (w = Cid(c) /\ Owing(c)')
  BY <1>1, <1>4, <1>10, <1>11
<1>14. \A k \in 1..Len(todo') : todo'[k] = Unlink(Staged) =>
         \A w \in Ver(HeadFile)' : Opens(w)' => \A c \in ChainOf(prior', w[2]) : LogBy(k, c)'
  BY <1>1, <1>4, <1>12
<1>15. Settled' /\ Opens(Cid(store))' => \A c \in ChainOf(prior', store') : InLog(c)'
  <2>1. PICK s : s = store
    OBVIOUS
  <2>2. Opens(Cid(store))' <=> Opens(Cid(s))'
    BY <1>1, <2>1
  <2>3. Settled /\ Opens(Cid(s)) => \A c \in ChainOf(prior, s) : InLog(c)
    BY <2>1 DEF PairsOK
  <2> QED BY <1>1, <1>4, <1>5, <1>9, <2>1, <2>2, <2>3
<1>16. at' = "init" => \A v \in Coming(HeadFile)' : prior'[v[2]] = 0
  BY <1>1, <1>2 DEF PairsOK
<1> QED BY <1>1, <1>8, <1>13, <1>14, <1>15, <1>16 DEF PairsOK

\* An event that is flushed in the log stays there.
LEMMA PowerLossInLog ==
  ASSUME Base, LogOK, DirsOK, PowerLoss, NEW c, InLog(c)
  PROVE  InLog(c)'
<1>0. DiskOK
  BY DEF Base
<1>1. \A f \in File : Ver(f)' = {cache'[f]}
  BY <1>0, PowerLossDoes
<1>2. PICK kept : Left(kept)
  BY <1>0, PowerLossDoes
<1>3. \A f \in File : /\ kept[f] \in Ver(f)
                      /\ cache'[f] = IF \A d \in {Home(f), Home(Home(f))} : kept[d] # Nothing
                                       THEN kept[f] ELSE Nothing
  BY <1>2 DEF Left
<1>4. /\ {Entries, Events} \subseteq File /\ Logged \subseteq File /\ Home(Entries) = Events
      /\ \A f \in Logged : Home(f) = Entries
  BY FileNames, FilesDiffer DEF Logged, Home
<1>5. PICK e, f : e \in EventFor(c) /\ f = Entry(e) /\ Ver(f) = {e}
  BY DEF InLog
<1>6. f \in Logged /\ e # Nothing /\ e \in Entered
  BY <1>5, EventNames DEF EventFor
<1>7. e \in Seen
  BY <1>5, <1>6 DEF Seen
<1>8. Ver(Entries) = {Folder} /\ Ver(Events) = {Folder}
  BY <1>5, <1>6, <1>7 DEF DirsOK, LogOK
<1>9. kept[f] = e /\ kept[Entries] # Nothing /\ kept[Events] # Nothing
  BY <1>3, <1>4, <1>5, <1>6, <1>8 DEF Folder, Nothing
<1>10. Ver(f)' = {e}
  BY <1>1, <1>3, <1>4, <1>6, <1>9
<1> QED BY <1>5, <1>10 DEF InLog

LEMMA PowerLossPairs ==
  ASSUME Base, NumbersOK, DirsOK, PairsOK, PowerLoss
  PROVE  PairsOK'
<1>0. DiskOK /\ LogOK
  BY DEF Base, NumbersOK
<1>1. /\ todo' = << >> /\ at' = "idle" /\ up' = "down" /\ prior' = prior
      /\ \A f \in File : Ver(f)' = {cache'[f]}
  BY <1>0, PowerLossDoes DEF Die, Call
<1>2. PICK kept : Left(kept)
  BY <1>0, PowerLossDoes
<1>3. \A f \in File : /\ kept[f] \in Ver(f)
                      /\ cache'[f] = IF \A d \in {Home(f), Home(Home(f))} : kept[d] # Nothing
                                       THEN kept[f] ELSE Nothing
  BY <1>2 DEF Left
<1>4. kept[Root] # Nothing
  <2>1. Ver(Root) \subseteq Holds(Root)
    BY <1>0, FileNames DEF DiskOK, Ver
  <2> QED BY <1>3, <2>1, FileNames, PutsAre DEF Folder, Nothing
<1>5. /\ {Entries, Events, Staged, HeadFile, LastFile} \subseteq File /\ Logged \subseteq File
      /\ Home(Entries) = Events /\ Home(Events) = Root /\ Home(Staged) = Events /\ Home(Root) = Root
      /\ Home(HeadFile) = Root
      /\ \A f \in Logged : Home(f) = Entries
  BY FileNames, FilesDiffer DEF Logged, Home
<1>6. \A f : Coming(f)' = {}
  BY <1>1, ContentsNone DEF Coming
<1>7. \A v \in Ver(HeadFile)' : v \in Ver(HeadFile)
  BY <1>1, <1>3, <1>4, <1>5
<1>8. \A w : Opens(w)' => Opens(w)
  <2> SUFFICES ASSUME NEW w, Opens(w)' PROVE Opens(w)
    OBVIOUS
  <2>1. w # Nothing /\ prior' = prior
    BY <1>1 DEF Opens
  <2>2. CASE prior[w[2]] # 0
    BY <2>1, <2>2 DEF Opens
  <2>3. CASE prior[w[2]] = 0
    <3>1. PICK u \in Ver(LastFile)' : Num(u) >= 3
      BY <1>6, <2>1, <2>3 DEF Opens
    <3>2. u = Nothing \/ u \in Ver(LastFile)
      BY <1>1, <1>3, <1>5
    <3> QED BY <2>1, <3>1, <3>2, NumFacts DEF Opens
  <2> QED BY <2>2, <2>3
<1>9. \A c : InLog(c) => InLog(c)'
  BY <1>0, PowerLossInLog
<1>10. ASSUME NEW c, Owing(c) PROVE Owing(c)'
  <2>1. PICK e \in EventFor(c) : Ver(Staged) = {e}
    BY <1>10 DEF Owing
  <2>2. e # Nothing
    BY <2>1, EventNames DEF EventFor
  <2>3. kept[Staged] = e /\ kept[Events] # Nothing
    BY <1>3, <1>5, <2>1, <2>2 DEF DirsOK, Folder, Nothing
  <2>4. Ver(Staged)' = {e}
    BY <1>1, <1>3, <1>4, <1>5, <2>3
  <2> QED BY <2>1, <2>4 DEF Owing
<1>11. \A w \in Ver(HeadFile)' : Opens(w)' =>
         \A c \in ChainOf(prior', w[2]) : InLog(c)' \/ (w = Cid(c) /\ Owing(c)')
  BY <1>1, <1>7, <1>8, <1>9, <1>10 DEF PairsOK
<1>12. Len(todo') = 0 /\ ~Settled'
  BY <1>1 DEF Settled
<1> QED BY <1>1, <1>6, <1>11, <1>12 DEF PairsOK

\* A call that begins, with what it is going to count.
LEMMA BeginsPairs ==
  ASSUME Base, [Next]_vars, NEW s, Begins(s),
         \A f \in Logged : Nothing \notin Contents(s, f),
         \A w \in Ver(HeadFile) : Opens(w)' =>
           \A c \in ChainOf(prior, w[2]) : InLog(c) \/ (w = Cid(c) /\ Owing(c)),
         \A k \in 1..Len(s) : s[k] = Unlink(Staged) =>
           \A w \in Ver(HeadFile) : Opens(w)' => \A c \in ChainOf(prior, w[2]) : LogBy(k, c)',
         Settled' /\ Opens(Cid(store))' => \A c \in ChainOf(prior', store') : InLog(c),
         at' = "init" => \A v \in Contents(s, HeadFile) : prior'[v[2]] = 0
  PROVE  PairsOK'
<1>0. DiskOK
  BY DEF Base
<1>1. /\ \A f : Ver(f)' = Ver(f) /\ Coming(f)' = Contents(s, f)
      /\ todo' = s
  BY <1>0, BeginsFacts DEF Begins
<1>2. \A c : InLog(c)' = InLog(c) /\ Owing(c)' = Owing(c)
  <2>1. \A c : EventFor(c)' = EventFor(c)
    BY DEF EventFor
  <2> QED BY <1>1, <2>1 DEF InLog, Owing
<1>3. \A w \in Ver(HeadFile) : w # Nothing => ChainOf(prior', w[2]) = ChainOf(prior, w[2])
  <2> SUFFICES ASSUME NEW w \in Ver(HeadFile), w # Nothing
               PROVE  ChainOf(prior', w[2]) = ChainOf(prior, w[2])
    OBVIOUS
  <2>1. w[2] \in 0..Len(prior)
    BY HeadNumbers DEF Num
  <2> QED BY <2>1, PriorKept
<1>4. \A w : Opens(w)' => w # Nothing
  BY DEF Opens
<1>5. \A w \in Ver(HeadFile)' : Opens(w)' =>
         \A c \in ChainOf(prior', w[2]) : InLog(c)' \/ (w = Cid(c) /\ Owing(c)')
  BY <1>1, <1>2, <1>3, <1>4
<1>6. \A k \in 1..Len(todo') : todo'[k] = Unlink(Staged) =>
         \A w \in Ver(HeadFile)' : Opens(w)' => \A c \in ChainOf(prior', w[2]) : LogBy(k, c)'
  BY <1>1, <1>3, <1>4
<1>7. Settled' /\ Opens(Cid(store))' => \A c \in ChainOf(prior', store') : InLog(c)'
  BY <1>2
<1> QED BY <1>1, <1>5, <1>6, <1>7 DEF PairsOK

\* The head's commits have parents, or none, for good.
LEMMA OpensSame ==
  ASSUME Base, PlacedOK, [Next]_vars, NEW s, Begins(s), Contents(s, LastFile) = {},
         NEW w, w \in Ver(HeadFile), Opens(w)'
  PROVE  Opens(w)
<1>0. DiskOK
  BY DEF Base
<1>1. Ver(LastFile)' = Ver(LastFile) /\ Coming(LastFile)' = {}
  BY <1>0, BeginsFacts
<1>2. w # Nothing
  BY DEF Opens
<1>3. PICK c \in Commits : w = Cid(c)
  BY <1>0, <1>2, Shown
<1>4. c = Num(w) /\ w[2] = c /\ c \in 1..Len(prior)
  BY <1>3, HeadNumbers, NumFacts DEF Commits
<1>5. prior'[c] = prior[c]
  BY <1>4, PriorKept
<1> QED BY <1>1, <1>2, <1>4, <1>5 DEF Opens

\* A call that counts nothing and takes no pending copy away.
LEMMA PlainPairs ==
  ASSUME Base, PlacedOK, PairsOK, [Next]_vars, NEW s, Begins(s),
         Contents(s, LastFile) = {}, Nothing \notin Contents(s, Staged),
         \A f \in Logged : Contents(s, f) = {},
         Settled' => \A w \in Ver(HeadFile) : w = Cid(store') /\ (Opens(w) =>
                       \A c \in ChainOf(prior, store') : InLog(c)),
         at' = "init" => \A v \in Contents(s, HeadFile) : prior'[v[2]] = 0
  PROVE  PairsOK'
<1>0. DiskOK /\ HeadFile \in File
  BY FileNames DEF Base
<1>1. \A w \in Ver(HeadFile) : Opens(w)' =>
        \A c \in ChainOf(prior, w[2]) : InLog(c) \/ (w = Cid(c) /\ Owing(c))
  BY OpensSame DEF PairsOK
<1>2. \A k \in 1..Len(s) : s[k] # Unlink(Staged)
  <2>1. s \in Seq(Step)
    BY DEF Begins
  <2> QED BY <2>1, ContentsAre DEF Has, Unlink
<1>3. Settled' /\ Opens(Cid(store))' => \A c \in ChainOf(prior', store') : InLog(c)
  <2> SUFFICES ASSUME Settled', Opens(Cid(store))' PROVE \A c \in ChainOf(prior', store') : InLog(c)
    OBVIOUS
  <2>1. PICK t, w : t = store' /\ w = Cid(t)
    OBVIOUS
  <2>2. cache[HeadFile] \in Ver(HeadFile)
    BY <1>0 DEF DiskOK, Ver
  <2>3. w \in Ver(HeadFile) /\ (Opens(w) => \A c \in ChainOf(prior, t) : InLog(c))
    BY <2>1, <2>2
  <2>4. Opens(w)'
    BY <2>1
  <2>5. Opens(w)
    BY <2>3, <2>4, OpensSame
  <2>6. t \in 0..Len(prior)
    <3>1. w # Nothing /\ w[2] = t
      BY <2>1, <2>5 DEF Cid, Opens
    <3> QED BY <2>3, <3>1, HeadNumbers DEF Num
  <2>7. ChainOf(prior', t) = ChainOf(prior, t)
    BY <2>6, PriorKept
  <2> QED BY <2>1, <2>3, <2>5, <2>7
<1> QED BY <1>1, <1>2, <1>3, BeginsPairs

\* Where an entry's call is over, the log has all that is under the head.
LEMMA RestIsLogged ==
  ASSUME Base, PairsOK, at \in {"recover", "promote"}, todo = << >>,
         NEW w \in Ver(HeadFile), Opens(w)
  PROVE  \A c \in ChainOf(prior, w[2]) : InLog(c)
<1> SUFFICES ASSUME NEW c \in ChainOf(prior, w[2]), Owing(c) PROVE FALSE
  BY DEF PairsOK
<1>1. PICK e \in EventFor(c) : Ver(Staged) = {e}
  BY DEF Owing
<1>2. e # Nothing /\ Staged \in File /\ DiskOK
  BY <1>1, EventNames, FileNames DEF EventFor, Base
<1>3. cache[Staged] = e
  BY <1>1, <1>2 DEF DiskOK, Ver
<1>4. Coming(Staged) = {}
  BY ContentsNone DEF Coming
<1> QED BY <1>2, <1>3, <1>4 DEF Base, StagedOK

LEMMA CallsPairs ==
  ASSUME Base, NumbersOK, PlacedOK, PairsOK, [Next]_vars,
         EmitGenesis \/ RequestCommit \/ RequestIdentity \/ PersistRepo \/ Serve \/ Answer
  PROVE  PairsOK'
<1>0. DiskOK /\ CallsOK /\ HeadsOK
  BY DEF Base
<1>1. PICK s : /\ Begins(s) /\ Contents(s, LastFile) = {} /\ Nothing \notin Contents(s, Staged)
               /\ \A f \in Logged : Contents(s, f) = {}
  <2>1. CASE EmitGenesis \/ RequestCommit \/ RequestIdentity
    <3>1. PICK e \in Entered : Begins(Stage(e))
      BY <2>1, StagingSteps DEF Stages
    <3> QED BY <3>1, StageComing, EventNames
  <2>2. CASE PersistRepo
    <3>1. PICK c \in Commits : Begins(PersistSave(c))
      BY <2>2, PersistingSteps DEF Persists
    <3> QED BY <3>1, PersistComing
  <2>3. CASE Serve \/ Answer
    <3>1. Begins(<< >>)
      BY <2>3 DEF Serve, Answer, Call, Begins
    <3> QED BY <3>1, ContentsNone
  <2> QED BY <2>1, <2>2, <2>3
<1>2. at' # "init"
  BY DEF EmitGenesis, RequestCommit, RequestIdentity, PersistRepo, Serve, Answer, Call
<1>3. /\ Cid(store)[2] = store
      /\ \A w : w = Cid(store') => w[2] = store'
  BY DEF Cid
<1>4. CASE RequestCommit \/ RequestIdentity \/ PersistRepo
  <2>1. Settled /\ InMemory /\ at \in {"idle", "stage"} /\ store' = store
    BY <1>0, <1>4 DEF RequestCommit, RequestIdentity, PersistRepo, Free, Settled, InMemory, CallsOK
  <2>2. Ver(HeadFile) = {Cid(store)}
    BY <2>1 DEF PlacedOK
  <2>3. Opens(Cid(store)) => \A c \in ChainOf(prior, store) : InLog(c)
    BY <2>1 DEF PairsOK
  <2> QED BY <1>1, <1>2, <2>1, <2>2, <2>3, PlainPairs
<1>5. CASE EmitGenesis \/ Serve
  <2>1. at = "recover" /\ todo = << >> /\ InMemory /\ store' = store
    BY <1>0, <1>5 DEF EmitGenesis, Serve, InMemory, CallsOK
  <2>2. Ver(HeadFile) = {Cid(store)}
    BY <2>1 DEF PlacedOK
  <2>3. \A w \in Ver(HeadFile) : Opens(w) => \A c \in ChainOf(prior, w[2]) : InLog(c)
    BY <2>1, RestIsLogged
  <2>4. \A w \in Ver(HeadFile) : w = Cid(store') /\ (Opens(w) => \A c \in ChainOf(prior, store') : InLog(c))
    BY <1>3, <2>1, <2>2, <2>3
  <2> QED BY <1>1, <1>2, <2>4, PlainPairs
<1>6. CASE Answer
  <2>1. at = "promote" /\ todo = << >> /\ InMemory
    BY <1>0, <1>6 DEF Answer, InMemory, CallsOK
  <2>2. \A w \in Ver(HeadFile) : Opens(w) => \A c \in ChainOf(prior, w[2]) : InLog(c)
    BY <2>1, RestIsLogged
  <2>3. Settled' => Ver(HeadFile) = {Cid(store')}
    <3>1. CASE up = "starting"
      BY <1>6, <3>1 DEF Answer, Call, Settled
    <3>2. CASE up # "starting" /\ commit = 0
      BY <1>6, <2>1, <3>2 DEF Answer, PlacedOK
    <3>3. CASE up # "starting" /\ commit # 0
      BY <1>0, <1>6, <2>1, <3>3 DEF Answer, HeadsOK
    <3> QED BY <3>1, <3>2, <3>3
  <2>4. Settled' => \A w \in Ver(HeadFile) : w = Cid(store') /\ (Opens(w) =>
                      \A c \in ChainOf(prior, store') : InLog(c))
    BY <1>3, <2>2, <2>3
  <2> QED BY <1>1, <1>2, <2>4, PlainPairs
<1> QED BY <1>4, <1>5, <1>6

LEMMA StartingPairs ==
  ASSUME Base, PlacedOK, PairsOK, [Next]_vars, StartNew
  PROVE  PairsOK'
<1>1. PICK d : d = Len(prior) + 1
  OBVIOUS
<1>2. d \in Commits /\ Begins(PersistSave(d)) /\ at' = "init"
  BY <1>1, PersistingSteps DEF StartNew, Call
<1>3. PICK s : s = PersistSave(d)
  OBVIOUS
<1>4. /\ Begins(s) /\ Contents(s, HeadFile) \subseteq {Cid(d)} /\ Contents(s, Staged) = {}
      /\ Contents(s, LastFile) = {} /\ \A f \in Logged : Contents(s, f) = {}
  BY <1>2, <1>3, PersistComing
<1>5. Falls(prior) /\ 0 \in 0..Len(prior) /\ Len(prior) \in Nat
  BY HeadNumbers
<1>6. PICK q : q = Append(prior, 0)
  OBVIOUS
<1>7. q[d] = 0 /\ prior' = q
  BY <1>1, <1>5, <1>6, ChainGrows DEF StartNew
<1>8. \A v \in Contents(s, HeadFile) : prior'[v[2]] = 0
  BY <1>2, <1>4, <1>7, NumFacts
<1> QED BY <1>2, <1>4, <1>8, PlainPairs DEF Settled

\* An entry that is put in the log belongs to the head that is there.
LEMMA PromoteAnchors ==
  ASSUME DiskOK, NEW e \in Entered, Begins(Promote(e)), TurnOK'
  PROVE  Anchored(e)
<1>1. PICK p : p = Promote(e)
  OBVIOUS
<1>2. p \in Seq(Step) /\ Begins(p) /\ Has(p, Unlink(Staged))
  BY <1>1, PromoteDoes DEF Begins
<1>3. PICK k \in 1..Len(p) : p[k] = Unlink(Staged)
  BY <1>2 DEF Has
<1>4. PICK f : f = Entry(e)
  OBVIOUS
<1>5. f \in Logged /\ e # Nothing
  BY <1>4, EventNames
<1>6. Has(p, Put(f, e))
  BY <1>1, <1>3, <1>4, PromoteBuilds DEF Behind, Has
<1>7. e \in Coming(f)'
  <2>1. Coming(f)' = Contents(p, f)
    BY <1>2, BeginsFacts
  <2> QED BY <1>2, <1>6, <2>1, ContentsAre
<1>8. Anchored(e)'
  BY <1>5, <1>7 DEF TurnOK
<1>9. Ver(HeadFile)' = Ver(HeadFile)
  BY <1>2, BeginsFacts
<1> QED BY <1>8, <1>9 DEF Anchored

LEMMA PromotePairs ==
  ASSUME Windowed, Base, NumbersOK, NumbersOK', ToldOK, PlacedOK, PairsOK, [Next]_vars,
         NEW e \in Entered, Ver(Staged) = {e}, Begins(Promote(e)),
         at' \in {"recover", "promote"}
  PROVE  PairsOK'
<1>0. DiskOK /\ LogOK /\ TurnOK' /\ LastFile \in File /\ Falls(prior)
  BY FileNames, HeadNumbers DEF Base, NumbersOK
<1>1. PICK s : s = Promote(e)
  OBVIOUS
<1>2. /\ Begins(s) /\ s \in Seq(Step) /\ Contents(s, HeadFile) = {}
      /\ Contents(s, LastFile) \subseteq {Pointer(e[2])}
  BY <1>0, <1>1, PromoteComing
<1>3. \A f \in Logged : Nothing \notin Contents(s, f)
  <2>1. \A d \in LogEntries \cup {e} : ~Expired(d)
    BY <1>0, LogIsFinite, NothingExpires
  <2>2. \A f \in Logged : Contents(s, f) \subseteq {e}
    BY <1>0, <1>1, <2>1, PromoteBuilds
  <2> QED BY <2>2, EventNames
<1>4. /\ Ver(LastFile)' = Ver(LastFile) /\ Coming(LastFile)' = Contents(s, LastFile)
      /\ \A f : Ver(f)' = Ver(f)
  BY <1>0, <1>2, BeginsFacts
<1>5. Anchored(e)
  BY <1>0, PromoteAnchors
<1>6. ASSUME NEW w \in Ver(HeadFile), Opens(w)', NEW c \in ChainOf(prior, w[2])
      PROVE  InLog(c) \/ (w = Cid(c) /\ Owing(c))
  <2>1. w # Nothing
    BY <1>6 DEF Opens
  <2>2. PICK d \in Commits : w = Cid(d)
    BY <1>0, <1>6, <2>1, Shown
  <2>3. d = Num(w) /\ w[2] = d /\ d \in 1..Len(prior)
    BY <1>6, <2>2, HeadNumbers, NumFacts DEF Commits
  <2>4. prior'[d] = prior[d]
    BY <2>3, PriorKept
  <2>5. CASE Opens(w)
    BY <1>6, <2>5 DEF PairsOK
  <2>6. CASE ~Opens(w)
    <3>1. prior[d] = 0 /\ \A v \in Ver(LastFile) : ~(Num(v) >= 3)
      BY <2>1, <2>3, <2>6 DEF Opens
    <3>2. PICK u \in Coming(LastFile)' : Num(u) >= 3
      BY <1>4, <1>6, <2>3, <2>4, <3>1 DEF Opens
    <3>3. Num(u) = e[2] /\ e[2] \in 1..MaxSeq
      BY <1>2, <1>4, <3>2, EventNames, NumFacts
    <3>4. e[2] = 3
      <4>1. PICK v : v = cache[LastFile]
        OBVIOUS
      <4>2. v \in Ver(LastFile) /\ Num(v) \in Nat
        BY <1>0, <4>1, SeenNumbers DEF DiskOK, Ver
      <4>3. e[2] \in {Num(v), Num(v) + 1}
        BY <1>0, <4>2, EventNames DEF LogOK
      <4> QED BY <3>1, <3>2, <3>3, <4>2, <4>3
    <3>5. IsCommit(e)
      BY <3>4 DEF IsCommit, Entered, Genesis
    <3>6. e \in Known
      BY EventNames DEF Known
    <3>7. e[4] \in 1..Len(prior)
      BY <3>5, <3>6 DEF ToldOK
    <3>8. w = Cid(e[4])
      BY <1>5, <1>6, <3>7 DEF Anchored
    <3>9. d = e[4]
      BY <2>2, <3>8 DEF Cid
    <3>10. ChainOf(prior, d) = {d}
      BY <1>0, <2>3, <3>1, ChainUnfolds
    <3>11. c = d /\ Owing(c)
      BY <1>6, <2>3, <3>5, <3>9, <3>10 DEF Owing, EventFor
    <3> QED BY <2>2, <3>11
  <2> QED BY <2>5, <2>6
<1>7. ASSUME NEW k \in 1..Len(s), s[k] = Unlink(Staged), NEW w \in Ver(HeadFile), Opens(w)',
             NEW c \in ChainOf(prior, w[2])
      PROVE  LogBy(k, c)'
  <2>0. k \in Int
    OBVIOUS
  <2>1. CASE InLog(c)
    <3>1. PICK d, f : d \in EventFor(c) /\ f = Entry(d) /\ Ver(f) = {d}
      BY <2>1 DEF InLog
    <3>2. Lands(k, f, d)'
      BY <1>2, <2>0, <3>1, BeginsLands
    <3> QED BY <3>1, <3>2 DEF LogBy, EventFor
  <2>2. CASE Owing(c)
    <3>1. e \in EventFor(c)
      BY <2>2 DEF Owing
    <3>2. PICK f : f = Entry(e)
      OBVIOUS
    <3>3. Home(f) = Entries
      BY <3>2, EventNames
    <3>4. Behind(s, k, Put(f, e), Sync(Home(f)))
      BY <1>0, <1>1, <1>7, <3>2, <3>3, PromoteBuilds
    <3>5. Lands(k, f, e)'
      BY <1>2, <2>0, <3>4, BeginsLands
    <3> QED BY <3>1, <3>2, <3>5 DEF LogBy, EventFor
  <2> QED BY <1>6, <1>7, <2>1, <2>2
<1>8. ~Settled' /\ at' # "init"
  BY DEF Settled
<1> QED BY <1>2, <1>3, <1>6, <1>7, <1>8, BeginsPairs

LEMMA RecoverPairs ==
  ASSUME Windowed, Base, FlushedOK, NumbersOK, NumbersOK', ToldOK, PlacedOK, PairsOK,
         [Next]_vars, Recover
  PROVE  PairsOK'
<1>0. DiskOK
  BY DEF Base
<1>1. Begins(Recovery) /\ todo = << >> /\ at = "init" /\ at' = "recover" /\ ~Settled'
  BY RecoveringStep DEF Recovers, Settled
<1>2. Ver(Staged) = {cache[Staged]}
  BY <1>1 DEF FlushedOK
<1>3. Ver(HeadFile) = {cache[HeadFile]}
  BY <1>1 DEF FlushedOK, Has, Kept
<1>4. CASE ~Exists(Staged) /\ Recovery = << >>
  BY <1>1, <1>4, ContentsNone, PlainPairs
<1>5. CASE \E e \in Entered : e = cache[Staged] /\ Owed(e) /\ Recovery = Promote(e)
  <2>1. PICK e \in Entered : e = cache[Staged] /\ Recovery = Promote(e)
    BY <1>5
  <2> QED BY <1>1, <1>2, <2>1, PromotePairs
<1>6. CASE \E e \in Entered : e = cache[Staged] /\ ~Owed(e) /\ Recovery = DiscardStaged
  <2>1. PICK e \in Entered : e = cache[Staged] /\ ~Owed(e) /\ Recovery = DiscardStaged
    BY <1>6
  <2>2. PICK s : s = DiscardStaged
    OBVIOUS
  <2>3. /\ Begins(s) /\ Contents(s, HeadFile) = {} /\ Contents(s, LastFile) = {}
        /\ \A f \in Logged : Contents(s, f) = {}
    BY <1>1, <2>1, <2>2, DiscardComing
  <2>4. ASSUME NEW w \in Ver(HeadFile), Opens(w), NEW c \in ChainOf(prior, w[2])
        PROVE  InLog(c)
    <3> SUFFICES ASSUME w = Cid(c), Owing(c) PROVE FALSE
      BY <2>4 DEF PairsOK
    <3>1. e[4] = c
      BY <1>2, <2>1 DEF Owing, EventFor
    <3>2. cache[HeadFile] = w /\ w # Nothing /\ w[2] = c
      BY <1>3, <2>4 DEF Opens, Cid
    <3>3. DiskHead = c
      BY <3>2 DEF DiskHead, Exists
    <3> QED BY <2>1, <3>1, <3>3 DEF Owed
  <2>5. \A w \in Ver(HeadFile) : Opens(w)' => Opens(w)
    BY <2>3, OpensSame
  <2>6. \A k \in Int : \A c : InLog(c) => LogBy(k, c)'
    <3> SUFFICES ASSUME NEW k \in Int, NEW c, InLog(c) PROVE LogBy(k, c)'
      OBVIOUS
    <3>1. PICK d, f : d \in EventFor(c) /\ f = Entry(d) /\ Ver(f) = {d}
      BY DEF InLog
    <3>2. Lands(k, f, d)'
      BY <2>3, <3>1, BeginsLands
    <3> QED BY <3>1, <3>2 DEF LogBy, EventFor
  <2>7. \A w \in Ver(HeadFile) : Opens(w)' =>
          \A c \in ChainOf(prior, w[2]) : InLog(c) \/ (w = Cid(c) /\ Owing(c))
    BY <2>4, <2>5
  <2>8. \A k \in 1..Len(s) : s[k] = Unlink(Staged) =>
          \A w \in Ver(HeadFile) : Opens(w)' => \A c \in ChainOf(prior, w[2]) : LogBy(k, c)'
    <3> SUFFICES ASSUME NEW k \in 1..Len(s), NEW w \in Ver(HeadFile), Opens(w)',
                        NEW c \in ChainOf(prior, w[2])
                 PROVE  LogBy(k, c)'
      OBVIOUS
    <3>1. InLog(c) /\ k \in Int
      BY <2>4, <2>5
    <3> QED BY <2>6, <3>1
  <2> QED BY <1>1, <2>3, <2>7, <2>8, BeginsPairs
<1> QED BY <1>0, <1>4, <1>5, <1>6, RecoveryIs

LEMMA NextPairs ==
  ASSUME Windowed, WritesSucceed, Counted, NumbersOK', PlacedOK, ToldOK, DirsOK, PairsOK,
         [Next]_vars
  PROVE  PairsOK'
<1>0. /\ Base /\ FlushedOK /\ OrderOK /\ NumbersOK /\ CallsOK /\ DiskOK /\ TurnOK
      /\ FaultsApart /\ "error" \notin Faults /\ "damage" \notin Faults
  BY DEF Counted, Sturdy, Base, NumbersOK, WritesSucceed, FaultsApart
<1>1. CASE Work
  <2>1. PICK x : Moved(x)
    BY <1>0, <1>1, WorkMoves
  <2> QED BY <1>0, <1>1, <2>1, WorkPairs
<1>2. CASE PowerLoss
  BY <1>0, <1>2, PowerLossPairs
<1>3. CASE EmitGenesis \/ RequestCommit \/ RequestIdentity \/ PersistRepo \/ Serve \/ Answer
  BY <1>0, <1>3, CallsPairs
<1>4. CASE StartNew
  BY <1>0, <1>4, StartingPairs
<1>5. CASE PromoteEntry
  <2>1. PICK e \in Entered : Ver(Staged) = {e} /\ Begins(Promote(e)) /\ at' = "promote"
    BY <1>0, <1>5, PromotingStep DEF Promotes
  <2> QED BY <1>0, <2>1, PromotePairs
<1>6. CASE Recover
  BY <1>0, <1>6, RecoverPairs
<1>7. CASE StartAgain \/ StartRefused \/ RefuseLog \/ Crash
  <2>1. PICK s : s = << >>
    OBVIOUS
  <2>2. /\ todo' = << >> /\ UNCHANGED <<cache, media>> /\ ~Settled'
    BY <1>0, <1>7 DEF StartAgain, StartRefused, RefuseLog, Crash, Die, Call, CallsOK, Settled
  <2>3. Begins(s) /\ \A f : Contents(s, f) = {}
    BY <2>1, <2>2, ContentsNone DEF Begins
  <2> QED BY <1>0, <2>2, <2>3, PlainPairs
<1>8. CASE (\E r \in Relay : Subscriber(r)) \/ Tick \/ ClockStepsBack \/ UNCHANGED vars
  <2>1. UNCHANGED <<cache, media, prior, up, at, todo, commit, store, acked>>
    BY <1>0, <1>8, QuietSteps DEF Quiet, vars
  <2>2. /\ \A f : Ver(f)' = Ver(f) /\ Coming(f)' = Coming(f)
        /\ \A k, f, v : Lands(k, f, v)' = Lands(k, f, v)
        /\ \A c : EventFor(c)' = EventFor(c)
        /\ Settled' = Settled
    BY <2>1 DEF Ver, Lands, Coming, EventFor, Settled
  <2>3. /\ \A c : InLog(c)' = InLog(c) /\ Owing(c)' = Owing(c)
        /\ \A k, c : LogBy(k, c)' = LogBy(k, c)
        /\ \A w : Opens(w)' = Opens(w)
    BY <2>1, <2>2 DEF InLog, Owing, LogBy, Opens
  <2>4. PICK t : t = store
    OBVIOUS
  <2>5. Opens(Cid(store))' = Opens(Cid(store))
    BY <2>1, <2>3, <2>4
  <2> QED BY <2>1, <2>2, <2>3, <2>5 DEF PairsOK
<1>9. CASE DropStaged \/ DiskError \/ FileDamaged
  BY <1>0, <1>9 DEF DropStaged, DiskError, FileDamaged, Fault, TurnOK
<1> QED BY <1>1, <1>2, <1>3, <1>4, <1>5, <1>6, <1>7, <1>8, <1>9
        DEF Next, Process, Operator, Client, Environment

-----------------------------------------------------------------------------
(* The theorems of the log and the head *)

LEMMA InitTraced == ASSUME Init PROVE PlacedOK /\ ToldOK /\ DirsOK /\ PairsOK
<1>0. Base /\ LogOK
  BY InitBase, InitNumbers DEF NumbersOK
<1>1. /\ todo = << >> /\ up = "down" /\ at = "idle" /\ acked = {}
      /\ cache = [f \in File |-> IF f = Root THEN Folder ELSE Nothing]
      /\ media = [f \in File |-> {cache[f]}]
  BY DEF Init
<1>2. \A f \in File : Ver(f) = {cache[f]} /\ (f # Root => Ver(f) = {Nothing})
  BY <1>1 DEF Ver
<1>3. Len(todo) = 0 /\ \A f : Coming(f) = {}
  BY <1>1, ContentsNone DEF Coming
<1>4. /\ Ver(HeadFile) = {Nothing} /\ Ver(Staged) = {Nothing} /\ Ver(LastFile) = {Nothing}
      /\ \A f \in Logged : Ver(f) = {Nothing}
  BY <1>2, FilesDiffer, FileNames
<1>5. Known = {} /\ Seen = {}
  BY <1>0, <1>3, <1>4 DEF LogOK, Known
<1>6. PlacedOK
  BY <1>1, <1>3, <1>4 DEF PlacedOK, InMemory
<1>7. ToldOK
  BY <1>1, <1>5 DEF ToldOK
<1>8. DirsOK
  BY <1>3, <1>4 DEF DirsOK
<1>9. PairsOK
  BY <1>1, <1>3, <1>4 DEF PairsOK, Opens, Settled
<1> QED BY <1>6, <1>7, <1>8, <1>9

\* What the proofs below start from.
Traced == Counted /\ PlacedOK /\ ToldOK /\ DirsOK

LEMMA NextKeepsTraced == ASSUME WritesSucceed, Traced, [Next]_vars PROVE Traced'
<1>1. Base /\ FlushedOK /\ OrderOK /\ NumbersOK /\ FaultsApart
  BY DEF Traced, Counted, Sturdy, WritesSucceed
<1>2. Counted'
  BY <1>1, NextKeepsSturdy, NextKeepsNumbers DEF Traced, Counted
<1> QED BY <1>1, <1>2, NextPlaced, NextTold, NextDirs DEF Traced

\* The head in memory is the one on disk but while a call moves it, and every
\* commit that was announced, or is going to be, is one of those under it.
THEOREM TracedInvariance == ASSUME WritesSucceed PROVE Spec => []Traced
<1>1. Init => Traced
  BY InitSturdy, InitNumbers, InitTraced DEF Traced, Counted
<1>2. Traced /\ [Next]_vars => Traced'
  BY NextKeepsTraced
<1> QED BY <1>1, <1>2, PTL DEF Spec

\* No commit that is in the log, or that a subscriber was sent, is ever rolled
\* back: whatever happens it is under the head.
SentIsUnderHead ==
  \A e \in LogEntries \cup UNION {relay[r].got : r \in Relay} :
    e[1] = "commit" => e[4] \in Chain(DiskHead)

LEMMA HeadShows ==
  ASSUME Traced, NEW w, w = cache[HeadFile]
  PROVE  /\ w \in Ver(HeadFile) /\ DiskHead = Num(w) /\ DiskHead \in 0..Len(prior)
         /\ Chain(DiskHead) = ChainOf(prior, DiskHead) /\ Falls(prior)
         /\ (w = Nothing <=> DiskHead = 0) /\ (w # Nothing => w = Cid(DiskHead) /\ w[2] = DiskHead)
<1>0. Base /\ DiskOK
  BY DEF Traced, Counted, Sturdy, Base
<1>1. w \in Ver(HeadFile)
  BY <1>0, FileNames DEF DiskOK, Ver
<1>2. DiskHead = Num(w)
  BY DiskHeadIs
<1>3. w = Nothing \/ \E c \in Commits : w = Cid(c)
  BY <1>0, <1>1, Shown
<1>4. w # Nothing => DiskHead \in Commits /\ w = Cid(DiskHead) /\ w[2] = DiskHead
  BY <1>2, <1>3, NumFacts
<1>5. w = Nothing => DiskHead = 0
  BY <1>2, NumFacts
<1>6. 0 \notin Commits
  BY DEF Commits
<1>7. PICK h : h = DiskHead
  OBVIOUS
<1>8. Chain(h) = ChainOf(prior, h)
  BY ChainIsOf
<1> QED BY <1>0, <1>1, <1>2, <1>4, <1>5, <1>6, <1>7, <1>8, HeadNumbers

\* eventLogStage comes before persistSave and eventLogPromote after it: a commit
\* the log or a subscriber has is never taken back, by any crash or power loss.
THEOREM SentIsUnderHeadAlways == ASSUME WritesSucceed PROVE Spec => []SentIsUnderHead
<1>1. Traced => SentIsUnderHead
  <2> SUFFICES ASSUME Traced, NEW e \in LogEntries \cup UNION {relay[r].got : r \in Relay},
                      e[1] = "commit"
               PROVE  e[4] \in Chain(DiskHead)
    BY DEF SentIsUnderHead
  <2>1. DiskOK /\ RelayOK /\ ToldOK
    BY DEF Traced, Counted, Sturdy, Base, NumbersOK
  <2>2. e \in Seen
    <3>1. \A d : (\E r \in Relay : d \in relay[r].got) => d \in Seen
      BY <2>1 DEF RelayOK, Seen, Heard
    <3> QED BY <2>1, <3>1, LogIsSeen
  <2>3. PICK w : w = cache[HeadFile]
    OBVIOUS
  <2>4. e[4] \in ChainOf(prior, Num(w))
    BY <2>1, <2>2, <2>3, HeadShows DEF ToldOK, IsCommit
  <2> QED BY <2>3, <2>4, HeadShows
<1> QED BY <1>1, TracedInvariance, PTL

\* What is announced is under the head.
LEMMA AnnouncedIsUnder ==
  ASSUME Traced, NEW e \in CommitEvents
  PROVE  /\ e \in Known /\ IsCommit(e) /\ e \in Entered /\ e[4] \in Chain(DiskHead)
         /\ e \in LogEntries => e \in Seen
<1>0. DiskOK /\ ToldOK /\ Staged \in File
  BY FileNames DEF Traced, Counted, Sturdy, Base
<1>1. IsCommit(e)
  BY DEF IsCommit, CommitEvents
<1>2. PICK w : w = cache[HeadFile]
  OBVIOUS
<1>3. CASE e \in LogEntries
  <2>1. e \in Seen
    BY <1>0, <1>3, LogIsSeen
  <2>2. e \in Known
    BY <2>1 DEF Known
  <2>3. e[4] \in ChainOf(prior, Num(w))
    BY <1>0, <1>1, <1>2, <2>1, HeadShows DEF ToldOK
  <2> QED BY <1>0, <1>1, <1>2, <2>1, <2>2, <2>3, KnownIs, HeadShows
<1>4. CASE e \notin LogEntries
  <2>1. e = cache[Staged] /\ e # Nothing /\ Owed(e)
    BY <1>4 DEF CommitEvents, Told, Exists
  <2>2. e \in Known
    <3>1. e \in Ver(Staged)
      BY <1>0, <2>1 DEF DiskOK, Ver
    <3> QED BY <2>1, <3>1 DEF Known
  <2>3. e[4] \in 1..Len(prior)
    BY <1>0, <1>1, <2>2 DEF ToldOK
  <2>4. PICK h : h = DiskHead
    OBVIOUS
  <2>5. h = e[4] /\ h \in 1..Len(prior)
    BY <2>1, <2>3, <2>4 DEF Owed
  <2>6. h \in ChainOf(prior, h)
    BY <2>5, <1>2, HeadShows, ChainUnfolds
  <2> QED BY <1>0, <1>1, <1>2, <1>4, <2>2, <2>4, <2>5, <2>6, KnownIs, HeadShows
<1> QED BY <1>3, <1>4

LEMMA HeadIsAnnounced ==
  ASSUME Traced, PairsOK, NEW w, w = cache[HeadFile], Opens(w)
  PROVE  Announced = Chain(DiskHead) /\ DiskHead \in Announced /\ DiskHead # 0
<1>0. DiskOK
  BY DEF Traced, Counted, Sturdy, Base
<1>1. /\ w \in Ver(HeadFile) /\ w = Cid(DiskHead) /\ w[2] = DiskHead /\ DiskHead # 0
      /\ Chain(DiskHead) = ChainOf(prior, DiskHead) /\ DiskHead \in 0..Len(prior) /\ Falls(prior)
  BY HeadShows DEF Opens
<1>2. ASSUME NEW c \in Chain(DiskHead) PROVE c \in Announced
  <2>1. InLog(c) \/ (w = Cid(c) /\ Owing(c))
    BY <1>1, <1>2 DEF PairsOK
  <2>2. CASE InLog(c)
    <3>1. PICK e, f : e \in EventFor(c) /\ f = Entry(e) /\ Ver(f) = {e}
      BY <2>2 DEF InLog
    <3>2. f \in File /\ f[1] = "entry" /\ e # Nothing
      BY <3>1, EventNames DEF EventFor, Logged
    <3>3. cache[f] = e
      BY <1>0, <3>1, <3>2 DEF DiskOK, Ver
    <3>4. e \in LogEntries
      BY <3>2, <3>3 DEF LogEntries, EntryFiles, Exists
    <3> QED BY <3>1, <3>4 DEF EventFor, IsCommit, Announced, CommitEvents, Told
  <2>3. CASE w = Cid(c) /\ Owing(c)
    <3>1. PICK e \in EventFor(c) : Ver(Staged) = {e}
      BY <2>3 DEF Owing
    <3>2. cache[Staged] = e /\ e # Nothing
      BY <1>0, <3>1, FileNames, EventNames DEF DiskOK, Ver, EventFor
    <3>3. c = DiskHead
      BY <1>1, <2>3 DEF Cid
    <3>4. Owed(e) /\ Exists(Staged)
      BY <3>1, <3>2, <3>3 DEF Owed, EventFor, Exists
    <3> QED BY <3>1, <3>2, <3>4 DEF EventFor, IsCommit, Announced, CommitEvents, Told
  <2> QED BY <2>1, <2>2, <2>3
<1>3. \A c \in Announced : c \in Chain(DiskHead)
  BY AnnouncedIsUnder DEF Announced
<1>4. PICK h : h = DiskHead
  OBVIOUS
<1>5. h \in ChainOf(prior, h)
  BY <1>1, <1>4, ChainUnfolds
<1> QED BY <1>1, <1>2, <1>3, <1>4, <1>5

\* A head whose turn in the quartet has not come, or no head at all.
LEMMA UnopenedIs ==
  ASSUME Traced, NEW w, w = cache[HeadFile], ~Opens(w)
  PROVE  \/ DiskHead = 0 /\ Chain(DiskHead) = {} /\ Announced = {}
         \/ DiskHead # 0 /\ prior[DiskHead] = 0 /\ Chain(DiskHead) = {DiskHead}
            /\ Announced \subseteq {DiskHead}
<1>1. PICK h : h = DiskHead
  OBVIOUS
<1>2. /\ h \in 0..Len(prior) /\ Falls(prior) /\ Chain(h) = ChainOf(prior, h)
      /\ (w = Nothing <=> h = 0) /\ (w # Nothing => w[2] = h)
  BY <1>1, HeadShows
<1>3. \A c \in Announced : c \in Chain(h)
  BY <1>1, AnnouncedIsUnder DEF Announced
<1>4. CASE h = 0
  BY <1>1, <1>2, <1>3, <1>4, ChainUnfolds
<1>5. CASE h # 0
  <2>1. prior[h] = 0
    BY <1>2, <1>5 DEF Opens
  <2>2. Chain(h) = {h}
    BY <1>2, <1>5, <2>1, ChainUnfolds
  <2> QED BY <1>1, <1>3, <1>5, <2>1, <2>2
<1> QED BY <1>4, <1>5

Paired == Traced /\ PairsOK

LEMMA NextKeepsPaired == ASSUME Windowed, WritesSucceed, Paired, [Next]_vars PROVE Paired'
<1>1. Traced'
  BY NextKeepsTraced DEF Paired
<1>2. NumbersOK'
  BY <1>1 DEF Traced, Counted
<1> QED BY <1>1, <1>2, NextPairs DEF Paired, Traced

\* Until the first event leaves the window, the log announces, or is going to,
\* every commit under a head that the quartet has opened.
THEOREM PairsInvariance == ASSUME Windowed, WritesSucceed PROVE Spec => []Paired
<1>1. Init => Paired
  BY InitSturdy, InitNumbers, InitTraced DEF Paired, Traced, Counted
<1>2. Paired /\ [Next]_vars => Paired'
  BY NextKeepsPaired
<1> QED BY <1>1, <1>2, PTL DEF Spec

LEMMA PairedTogether == ASSUME Paired PROVE PairsLandTogether
<1>1. PICK w : w = cache[HeadFile]
  OBVIOUS
<1>2. CASE Opens(w)
  BY <1>1, <1>2, HeadIsAnnounced DEF Paired, PairsLandTogether
<1>3. CASE ~Opens(w)
  <2>1. \/ DiskHead = 0 /\ Announced = {}
        \/ prior[DiskHead] = 0 /\ Chain(DiskHead) = {DiskHead} /\ Announced \subseteq {DiskHead}
    BY <1>1, <1>3, UnopenedIs DEF Paired
  <2>2. Announced \subseteq {DiskHead} => Announced = {} \/ Announced = {DiskHead}
    OBVIOUS
  <2> QED BY <2>1, <2>2 DEF PairsLandTogether
<1> QED BY <1>2, <1>3

\* applyRequest, eventLogPromote and eventLogRecover: at every instant, on disk as
\* it stands, a commit is under the head exactly if the log announces it or owes it.
THEOREM PairsLandTogetherAlways ==
  ASSUME Windowed, WritesSucceed PROVE Spec => []PairsLandTogether
<1>1. Paired => PairsLandTogether
  BY PairedTogether
<1> QED BY <1>1, PairsInvariance, PTL

-----------------------------------------------------------------------------
(* Lists in the order of their numbers *)

\* Two members of s come from one sequence of q, in its order, or from two, in
\* the order of those.
InLine(q, i, j, a, b) ==
  a \in 1..Len(q[i]) /\ b \in 1..Len(q[j]) /\ (i < j \/ (i = j /\ a < b))
Lined(q, s, m) ==
  /\ \A k \in 1..Len(s) : \E i \in 1..m : \E a \in 1..Len(q[i]) : s[k] = q[i][a]
  /\ \A k, l \in 1..Len(s) : k < l =>
       \E i, j \in 1..m, a, b \in Nat : InLine(q, i, j, a, b) /\ s[k] = q[i][a] /\ s[l] = q[j][b]

LEMMA LineAdded ==
  ASSUME NEW S, NEW q \in Seq(Seq(S)), NEW m \in 1..Len(q), m # 1,
         NEW s \in Seq(S), Lined(q, s, m - 1)
  PROVE  Lined(q, s \o q[m], m)
<1>1. /\ m \in Nat /\ m - 1 \in Nat /\ q[m] \in Seq(S) /\ m \in 1..m
      /\ \A i \in 1..(m - 1) : i \in 1..m /\ i < m /\ i \in 1..Len(q)
      /\ \A i \in 1..Len(q) : Len(q[i]) \in Nat
  BY LenProperties, ElementOfSeq
<1>2. PICK r \in Seq(S) : r = q[m]
  BY <1>1
<1> DEFINE u == s \o r
<1>3. /\ Len(s) \in Nat /\ Len(r) \in Nat
      /\ \A k \in 1..Len(u) :
              \/ k \in 1..Len(s) /\ u[k] = s[k]
              \/ k - Len(s) \in 1..Len(r) /\ u[k] = r[k - Len(s)]
  BY CatFacts
<1>6. u = s \o q[m]
  BY <1>2
<1> HIDE DEF u
<1>7. \A k \in 1..Len(s) : \E i \in 1..m : \E a \in 1..Len(q[i]) : s[k] = q[i][a]
  <2> TAKE k \in 1..Len(s)
  <2>1. PICK i \in 1..(m - 1) : \E a \in 1..Len(q[i]) : s[k] = q[i][a]
    BY DEF Lined
  <2> QED BY <1>1, <2>1
<1>4. \A k \in 1..Len(u) : \E i \in 1..m : \E a \in 1..Len(q[i]) : u[k] = q[i][a]
  <2> TAKE k \in 1..Len(u)
  <2>1. CASE k \in 1..Len(s) /\ u[k] = s[k]
    BY <1>7, <2>1
  <2>2. CASE k - Len(s) \in 1..Len(r) /\ u[k] = r[k - Len(s)]
    <3>1. PICK a : a = k - Len(s)
      OBVIOUS
    <3>2. a \in 1..Len(q[m]) /\ u[k] = q[m][a]
      BY <1>2, <2>2, <3>1
    <3> QED BY <1>1, <3>2
  <2> QED BY <1>3, <2>1, <2>2
<1>5. ASSUME NEW k \in 1..Len(u), NEW l \in 1..Len(u), k < l
      PROVE  \E i, j \in 1..m, a, b \in Nat : InLine(q, i, j, a, b) /\ u[k] = q[i][a] /\ u[l] = q[j][b]
  <2>1. CASE k \in 1..Len(s) /\ u[k] = s[k] /\ l \in 1..Len(s) /\ u[l] = s[l]
    <3>1. PICK i, j \in 1..(m - 1), a, b \in Nat :
            InLine(q, i, j, a, b) /\ s[k] = q[i][a] /\ s[l] = q[j][b]
      BY <1>5, <2>1 DEF Lined
    <3> QED BY <1>1, <2>1, <3>1
  <2>2. CASE k \in 1..Len(s) /\ u[k] = s[k] /\ l - Len(s) \in 1..Len(r) /\ u[l] = r[l - Len(s)]
    <3>1. PICK i \in 1..(m - 1) : \E a \in 1..Len(q[i]) : s[k] = q[i][a]
      BY <2>2 DEF Lined
    <3>2. PICK a \in 1..Len(q[i]) : s[k] = q[i][a]
      BY <3>1
    <3>6. Len(q[i]) \in Nat /\ Len(q[m]) \in Nat
      BY <1>1
    <3>3. PICK b : b = l - Len(s)
      OBVIOUS
    <3>4. b \in 1..Len(q[m]) /\ u[l] = q[m][b] /\ a \in Nat /\ b \in Nat
      BY <1>2, <2>2, <3>2, <3>3, <3>6
    <3>5. InLine(q, i, m, a, b)
      BY <1>1, <3>2, <3>4 DEF InLine
    <3> QED BY <1>1, <2>2, <3>2, <3>4, <3>5
  <2>3. CASE k - Len(s) \in 1..Len(r) /\ u[k] = r[k - Len(s)]
             /\ l - Len(s) \in 1..Len(r) /\ u[l] = r[l - Len(s)]
    <3>1. PICK a, b : a = k - Len(s) /\ b = l - Len(s)
      OBVIOUS
    <3>2. /\ a \in 1..Len(q[m]) /\ b \in 1..Len(q[m]) /\ a < b /\ a \in Nat /\ b \in Nat
          /\ u[k] = q[m][a] /\ u[l] = q[m][b]
      <4>1. a \in 1..Len(q[m]) /\ b \in 1..Len(q[m]) /\ u[k] = q[m][a] /\ u[l] = q[m][b]
        BY <1>2, <2>3, <3>1
      <4>2. k \in Int /\ l \in Int /\ Len(s) \in Int /\ Len(q[m]) \in Nat
        BY <1>1, <1>3
      <4>3. a < b
        BY <1>5, <3>1, <4>2
      <4>4. a \in Nat /\ b \in Nat
        BY <4>1, <4>2
      <4> QED BY <4>1, <4>3, <4>4
    <3>3. InLine(q, m, m, a, b)
      BY <3>2 DEF InLine
    <3> QED BY <1>1, <3>2, <3>3
  <2>4. ~(k - Len(s) \in 1..Len(r) /\ l \in 1..Len(s))
    BY <1>3, <1>5
  <2> QED BY <1>3, <2>1, <2>2, <2>3, <2>4
<1>8. Lined(q, u, m)
  BY <1>4, <1>5 DEF Lined
<1> QED BY <1>6, <1>8

\* FlattenSeq keeps the order.
LEMMA FlattenLined ==
  ASSUME NEW S, NEW q \in Seq(Seq(S))
  PROVE  Lined(q, FlattenSeq(q), Len(q))
<1>0. Len(q) \in Nat /\ \A i \in 1..Len(q) : q[i] \in Seq(S) /\ Len(q[i]) \in Nat
  BY LenProperties, ElementOfSeq
<1>1. CASE Len(q) = 0
  <2>1. q = << >> /\ FlattenSeq(q) = q
    BY <1>1 DEF FlattenSeq
  <2>2. Len(FlattenSeq(q)) = 0
    BY <2>1
  <2> QED BY <2>2 DEF Lined
<1>2. CASE Len(q) # 0
  <2>0. Len(q) > 0
    BY <1>0, <1>2
  <2>1. PICK g : Joins(S, q, g, Len(q)) /\ FlattenSeq(q) = g[Len(q)]
    BY <2>0, FlattenUnfolds
  <2> DEFINE T == {m \in 1..Len(q) : ~Lined(q, g[m], m)}
  <2>2. ASSUME T # {} PROVE FALSE
    <3>1. PICK m \in T : \A e \in T : m <= e
      <4>1. T \subseteq Nat
        OBVIOUS
      <4> HIDE DEF T
      <4> QED BY <2>2, <4>1, LeastNat
    <3>2. m \in 1..Len(q) /\ ~Lined(q, g[m], m)
      OBVIOUS
    <3>3. g[m] = IF m = 1 THEN q[m] ELSE g[m - 1] \o q[m]
      BY <3>2, <2>1 DEF Joins
    <3>4. CASE m = 1
      <4>1. g[1] = q[1] /\ Len(q[1]) \in Nat /\ 1 \in 1..1
        BY <1>0, <3>2, <3>3, <3>4
      <4>2. \A k, l \in 1..Len(q[1]) : k < l => InLine(q, 1, 1, k, l) /\ k \in Nat /\ l \in Nat
        BY <4>1 DEF InLine
      <4>3. Lined(q, g[1], 1)
        BY <4>1, <4>2 DEF Lined
      <4> QED BY <3>2, <3>4, <4>3
    <3>5. CASE m # 1
      <4>1. m - 1 \in 1..Len(q) /\ ~(m <= m - 1)
        BY <1>0, <3>2, <3>5
      <4>2. m - 1 \notin T
        <5> HIDE DEF T
        <5> QED BY <3>1, <4>1
      <4>3. Lined(q, g[m - 1], m - 1) /\ g[m - 1] \in Seq(S)
        BY <2>1, <4>1, <4>2 DEF Joins
      <4>4. Lined(q, g[m - 1] \o q[m], m)
        BY <3>2, <3>5, <4>3, LineAdded
      <4> QED BY <3>2, <3>3, <3>5, <4>4
    <3> QED BY <3>4, <3>5
  <2>3. Len(q) \in 1..Len(q)
    BY <1>0, <1>2
  <2> QED BY <2>1, <2>2, <2>3
<1> QED BY <1>1, <1>2

\* What InSeqOrder lists, and in which order.
LEMMA InOrderIs ==
  ASSUME NEW E, E \subseteq Entered, IsFiniteSet(E), NEW s, s = InSeqOrder(E)
  PROVE  /\ s \in Seq(Entered) /\ (\A e : Has(s, e) <=> e \in E)
         /\ \A k, l \in 1..Len(s) : k < l => s[k][2] <= s[l][2]
         /\ (\A a, b \in E : a[2] = b[2] => a = b) =>
              \A k, l \in 1..Len(s) : k < l => s[k][2] < s[l][2]
<1> DEFINE part(n) == {e \in E : e[2] = n}
           q == [n \in 1..MaxSeq |-> SetToSeq(part(n))]
<1>0. \A n \in 1..MaxSeq : part(n) \subseteq Entered /\ IsFiniteSet(part(n))
  <2> TAKE n \in 1..MaxSeq
  <2>1. part(n) \in SUBSET E
    OBVIOUS
  <2> QED BY <2>1, FS_Subset
<1>1. ASSUME NEW n \in 1..MaxSeq
      PROVE  /\ SetToSeq(part(n)) \in Seq(Entered)
             /\ Len(SetToSeq(part(n))) = Cardinality(part(n))
             /\ \A i \in 1..Len(SetToSeq(part(n))) : SetToSeq(part(n))[i] \in part(n)
             /\ \A a \in part(n) : Has(SetToSeq(part(n)), a)
  <2>1. part(n) \subseteq Entered /\ IsFiniteSet(part(n))
    BY <1>0
  <2> HIDE DEF part
  <2> QED BY <2>1, SetListed DEF Has
<1>2. q \in Seq(Seq(Entered)) /\ Len(q) = MaxSeq /\ MaxSeq \in Nat
      /\ \A n \in 1..MaxSeq : q[n] = SetToSeq(part(n))
  <2>1. MaxSeq \in Nat
    BY BoundsAreNumbers
  <2> HIDE DEF part
  <2> QED BY <1>1, <2>1
<1>3. s = FlattenSeq(q)
  BY DEF InSeqOrder
<1>4. \A n \in 1..MaxSeq : \A i \in 1..Len(q[n]) : q[n][i] \in E /\ q[n][i][2] = n
  <2> TAKE n \in 1..MaxSeq
  <2> TAKE i \in 1..Len(q[n])
  <2>1. q[n][i] \in part(n)
    <3> HIDE DEF part, q
    <3> QED BY <1>1, <1>2
  <2> HIDE DEF q
  <2> QED BY <2>1
<1>5. \A e \in E : e[2] \in 1..MaxSeq /\ Has(q[e[2]], e)
  <2> TAKE e \in E
  <2>1. PICK n \in 1..MaxSeq : n = e[2]
    BY EventNames
  <2>2. e \in part(n)
    BY <2>1
  <2>3. Has(q[n], e)
    <3> HIDE DEF part, q
    <3> QED BY <1>1, <1>2, <2>2
  <2> HIDE DEF part, q
  <2> QED BY <2>1, <2>3
<1>6. (\A a, b \in E : a[2] = b[2] => a = b) => \A n \in 1..MaxSeq : Len(q[n]) <= 1
  <2> SUFFICES ASSUME \A a, b \in E : a[2] = b[2] => a = b, NEW n \in 1..MaxSeq PROVE Len(q[n]) <= 1
    OBVIOUS
  <2>1. Len(q[n]) = Cardinality(part(n))
    <3> HIDE DEF part, q
    <3> QED BY <1>1, <1>2
  <2>2. part(n) = {} \/ \E a : part(n) = {a}
    OBVIOUS
  <2>3. Cardinality(part(n)) \in {0, 1}
    <3> HIDE DEF part
    <3> QED BY <2>2, FS_EmptySet, FS_Singleton
  <2> HIDE DEF part, q
  <2> QED BY <2>1, <2>3
<1> HIDE DEF q, part
<1>7. s \in Seq(Entered)
  BY <1>2, <1>3, FlattenType
<1>8. ASSUME NEW e PROVE Has(s, e) <=> e \in E
  <2>1. Has(s, e) <=> \E n \in 1..Len(q) : Has(q[n], e)
    BY <1>2, <1>3, FlattenHas
  <2>2. ASSUME NEW n \in 1..Len(q), Has(q[n], e) PROVE e \in E
    BY <1>2, <1>4, <2>2 DEF Has
  <2> QED BY <1>2, <1>5, <2>1, <2>2
<1>9. ASSUME NEW k \in 1..Len(s), NEW l \in 1..Len(s), k < l
      PROVE  /\ s[k][2] <= s[l][2]
             /\ (\A n \in 1..MaxSeq : Len(q[n]) <= 1) => s[k][2] < s[l][2]
  <2>1. Lined(q, s, MaxSeq)
    BY <1>2, <1>3, FlattenLined
  <2>2. PICK i, j \in 1..MaxSeq, a, b \in Nat :
          InLine(q, i, j, a, b) /\ s[k] = q[i][a] /\ s[l] = q[j][b]
    BY <1>9, <2>1 DEF Lined
  <2>3. a \in 1..Len(q[i]) /\ b \in 1..Len(q[j]) /\ (i < j \/ (i = j /\ a < b))
    BY <2>2 DEF InLine
  <2>4. s[k][2] = i /\ s[l][2] = j
    BY <1>4, <2>2, <2>3
  <2>5. Len(q[i]) <= 1 => i < j
    <3>1. Len(q[i]) \in Nat
      BY <1>2, LenProperties, ElementOfSeq
    <3> QED BY <2>2, <2>3, <3>1
  <2> QED BY <1>2, <2>3, <2>4, <2>5
<1> QED BY <1>6, <1>7, <1>8, <1>9

\* s lists the numbers of A from the least to the greatest.
Ascends(s, A) ==
  /\ s \in Seq(Nat) /\ \A i, j \in 1..Len(s) : i < j => s[i] < s[j]
  /\ \A n : Has(s, n) <=> n \in A

LEMMA AscendsAlike ==
  ASSUME NEW s, NEW t, NEW A, Ascends(s, A), Ascends(t, A)
  PROVE  \A k \in 1..Len(s) : k \in 1..Len(t) /\ s[k] = t[k]
<1>1. /\ Len(s) \in Nat /\ Len(t) \in Nat
      /\ \A i \in 1..Len(s) : s[i] \in Nat
      /\ \A i \in 1..Len(t) : t[i] \in Nat
  BY LenProperties, ElementOfSeq DEF Ascends
<1> DEFINE T == {k \in 1..Len(s) : ~(k \in 1..Len(t) /\ s[k] = t[k])}
<1>2. ASSUME T # {} PROVE FALSE
  <2>1. PICK k \in T : \A e \in T : k <= e
    <3>1. T \subseteq Nat
      OBVIOUS
    <3> HIDE DEF T
    <3> QED BY <1>2, <3>1, LeastNat
  <2>2. k \in 1..Len(s) /\ ~(k \in 1..Len(t) /\ s[k] = t[k])
    OBVIOUS
  <2>3. \A i \in 1..Len(s) : i < k => i \in 1..Len(t) /\ s[i] = t[i]
    <3> TAKE i \in 1..Len(s)
    <3>1. HAVE i < k
    <3>2. i \notin T
      <4> HIDE DEF T
      <4> QED BY <2>1, <2>2, <3>1
    <3> QED BY <3>2
  <2> HIDE DEF T
  <2>4. PICK j \in 1..Len(t) : t[j] = s[k]
    <3>1. s[k] \in A
      BY <2>2 DEF Ascends, Has
    <3> QED BY <3>1 DEF Ascends, Has
  <2>5. ~(j < k)
    <3> SUFFICES ASSUME j < k PROVE FALSE
      OBVIOUS
    <3>1. j \in 1..Len(s)
      BY <1>1, <2>2
    <3>2. s[j] = t[j] /\ s[j] < s[k]
      BY <2>2, <2>3, <3>1 DEF Ascends
    <3> QED BY <1>1, <2>2, <2>4, <3>1, <3>2
  <2>6. k \in 1..Len(t) /\ k < j
    BY <1>1, <2>2, <2>4, <2>5
  <2>7. t[k] < s[k] /\ t[k] \in A
    BY <2>4, <2>6 DEF Ascends, Has
  <2>8. PICK i \in 1..Len(s) : s[i] = t[k]
    BY <2>7 DEF Ascends, Has
  <2>9. i < k
    <3> SUFFICES ASSUME ~(i < k) PROVE FALSE
      OBVIOUS
    <3>1. i = k \/ k < i
      BY <1>1, <2>2
    <3>2. s[k] <= s[i]
      BY <1>1, <2>2, <3>1 DEF Ascends
    <3> QED BY <1>1, <2>2, <2>7, <2>8, <3>2
  <2>10. i \in 1..Len(t) /\ t[i] = t[k] /\ t[i] < t[k]
    BY <2>3, <2>6, <2>8, <2>9 DEF Ascends
  <2> QED BY <1>1, <2>6, <2>10
<1> QED BY <1>2

\* A set of numbers is listed in one way.
LEMMA AscendsOnce ==
  ASSUME NEW s, NEW t, NEW A, Ascends(s, A), Ascends(t, A)
  PROVE  s = t
<1>1. s \in Seq(Nat) /\ t \in Seq(Nat) /\ Len(s) \in Nat /\ Len(t) \in Nat
  BY LenProperties DEF Ascends
<1>2. \A k \in 1..Len(s) : k \in 1..Len(t) /\ s[k] = t[k]
  BY AscendsAlike
<1>3. \A k \in 1..Len(t) : k \in 1..Len(s) /\ t[k] = s[k]
  BY AscendsAlike
<1>4. Len(s) = Len(t)
  <2>1. Len(s) = 0 \/ Len(s) \in 1..Len(s)
    BY <1>1
  <2>2. Len(t) = 0 \/ Len(t) \in 1..Len(t)
    BY <1>1
  <2> QED BY <1>1, <1>2, <1>3, <2>1, <2>2
<1> QED BY <1>1, <1>2, <1>4, SeqEqual

LEMMA AscendsFew ==
  /\ Ascends(<< >>, {})
  /\ \A c \in Nat : Ascends(<<c>>, {c})
<1>1. Ascends(<< >>, {})
  BY DEF Ascends, Has
<1>2. ASSUME NEW c \in Nat PROVE Ascends(<<c>>, {c})
  <2>1. \A n : Has(<<c>>, n) <=> n = c
    BY OneHas
  <2>2. <<c>> \in Seq(Nat) /\ Len(<<c>>) = 1
    OBVIOUS
  <2>3. \A i, j \in 1..1 : ~(i < j)
    OBVIOUS
  <2> QED BY <2>1, <2>2, <2>3 DEF Ascends
<1> QED BY <1>1, <1>2

\* A greater number goes to the end.
LEMMA AscendsAdded ==
  ASSUME NEW s, NEW A, Ascends(s, A), NEW c \in Nat, \A a \in A : a < c
  PROVE  Ascends(Append(s, c), A \cup {c})
<1>1. PICK u : u = Append(s, c)
  OBVIOUS
<1>2. /\ s \in Seq(Nat) /\ u \in Seq(Nat) /\ Len(s) \in Nat /\ Len(u) = Len(s) + 1
      /\ u[Len(s) + 1] = c /\ \A i \in 1..Len(s) : u[i] = s[i]
  BY <1>1, LenProperties, AppendProperties DEF Ascends
<1>3. PICK n : n = Len(s)
  OBVIOUS
<1>4. /\ n \in Nat /\ Len(u) = n + 1 /\ n + 1 \in 1..Len(u)
      /\ \A i \in 1..Len(u) : i = n + 1 \/ i \in 1..n
      /\ \A i \in 1..n : i \in 1..Len(u)
  BY <1>2, <1>3
<1>5. \A i \in 1..n : s[i] \in A /\ s[i] < c
  BY <1>3 DEF Ascends, Has
<1>6. ASSUME NEW i \in 1..Len(u), NEW j \in 1..Len(u), i < j PROVE u[i] < u[j]
  <2>1. i \in 1..n
    BY <1>4, <1>6
  <2>2. CASE j = n + 1
    BY <1>2, <1>3, <1>5, <2>1, <2>2
  <2>3. CASE j \in 1..n
    BY <1>2, <1>3, <1>6, <2>1, <2>3 DEF Ascends
  <2> QED BY <1>4, <2>2, <2>3
<1>7. ASSUME NEW m PROVE Has(u, m) <=> m \in A \cup {c}
  <2>1. ASSUME Has(u, m) PROVE m \in A \cup {c}
    <3>1. PICK i \in 1..Len(u) : u[i] = m
      BY <2>1 DEF Has
    <3> QED BY <1>2, <1>3, <1>4, <1>5, <3>1
  <2>2. ASSUME m \in A PROVE Has(u, m)
    <3>1. PICK i \in 1..Len(s) : s[i] = m
      BY <2>2 DEF Ascends, Has
    <3> QED BY <1>2, <1>3, <1>4, <3>1 DEF Has
  <2>3. Has(u, c)
    BY <1>2, <1>3, <1>4 DEF Has
  <2> QED BY <2>1, <2>2, <2>3
<1> QED BY <1>1, <1>2, <1>6, <1>7 DEF Ascends

\* What the longest of two lists is, if its set has one number more.
LEMMA AscendsLast ==
  ASSUME NEW s, NEW t, NEW A, Ascends(s, A), NEW c \in Nat, \A a \in A : a < c,
         Ascends(t, A \cup {c})
  PROVE  /\ t = Append(s, c) /\ s \in Seq(Nat) /\ Len(s) \in Nat /\ Len(t) = Len(s) + 1
         /\ \A i \in 1..Len(s) : t[i] = s[i]
         /\ s = << >> <=> A = {}
         /\ s = SubSeq(t, 1, Len(t) - 1)
         /\ \A i \in DOMAIN s : s[i] # c
         /\ \A d \in A : (\A a \in A : a <= d) => Len(t) > 1 /\ d = t[Len(t) - 1]
<1>0. Ascends(Append(s, c), A \cup {c})
  BY AscendsAdded
<1>1. t = Append(s, c)
  BY <1>0, AscendsOnce
<1>2. /\ s \in Seq(Nat) /\ Len(s) \in Nat /\ t \in Seq(Nat) /\ Len(t) = Len(s) + 1
      /\ \A i \in 1..Len(s) : t[i] = s[i] /\ s[i] \in Nat
      /\ DOMAIN s = 1..Len(s)
  BY <1>1, LenProperties, AppendProperties, ElementOfSeq DEF Ascends
<1>3. s = << >> <=> A = {}
  <2>1. ASSUME s = << >> PROVE A = {}
    BY <2>1, NoneHas DEF Ascends
  <2>2. ASSUME A = {} PROVE s = << >>
    <3>1. Len(s) = 0 \/ 1 \in 1..Len(s)
      BY <1>2
    <3>2. Len(s) = 0
      BY <2>2, <3>1 DEF Ascends, Has
    <3> QED BY <1>2, <3>2
  <2> QED BY <2>1, <2>2
<1>4. s = SubSeq(t, 1, Len(t) - 1)
  <2>1. PICK n : n = Len(s)
    OBVIOUS
  <2>2. n \in Nat /\ Len(t) - 1 = n /\ Len(t) = n + 1
    BY <1>2, <2>1
  <2>3. SubSeq(t, 1, n) = [i \in 1..n |-> t[i]]
    BY <1>2, <2>2
  <2>4. s = [i \in 1..n |-> s[i]]
    BY <1>2, <2>1
  <2> QED BY <1>2, <2>1, <2>2, <2>3, <2>4
<1>5. \A i \in DOMAIN s : s[i] # c
  <2> TAKE i \in DOMAIN s
  <2>1. s[i] \in A /\ s[i] \in Nat
    BY <1>2 DEF Ascends, Has
  <2> QED BY <2>1
<1>6. ASSUME NEW d \in A, \A a \in A : a <= d PROVE Len(t) > 1 /\ d = t[Len(t) - 1]
  <2>1. PICK n : n = Len(s)
    OBVIOUS
  <2>2. PICK i \in 1..n : s[i] = d
    BY <1>6, <2>1 DEF Ascends, Has
  <2>3. n \in Nat /\ n \in 1..n /\ Len(t) > 1 /\ Len(t) - 1 = n
    BY <1>2, <2>1, <2>2
  <2>4. s[n] \in A
    BY <2>1, <2>3 DEF Ascends, Has
  <2>5. s[n] <= d
    BY <1>6, <2>4
  <2>6. i < n => s[i] < s[n]
    BY <2>1, <2>2, <2>3 DEF Ascends
  <2>7. i = n
    <3>1. PICK p, q : p = s[i] /\ q = s[n]
      OBVIOUS
    <3>2. p \in Nat /\ q \in Nat /\ q <= p
      BY <1>2, <2>1, <2>2, <2>3, <2>5, <3>1
    <3>3. ~(i < n)
      BY <2>6, <3>1, <3>2
    <3> QED BY <2>2, <2>3, <3>3
  <2> QED BY <1>2, <2>1, <2>2, <2>3, <2>7
<1> QED BY <1>1, <1>2, <1>3, <1>4, <1>5, <1>6

-----------------------------------------------------------------------------
(* The log and the head are one history: the ledger *)

LEMMA CommitEventsAre ==
  ASSUME Traced
  PROVE  /\ CommitEvents \subseteq Entered /\ IsFiniteSet(CommitEvents)
         /\ \A a, b \in CommitEvents : a[2] = b[2] => a = b
<1>0. DiskOK /\ LogOK /\ Staged \in File
  BY FileNames DEF Traced, Counted, Sturdy, Base, NumbersOK
<1>1. PICK w : w = cache[Staged]
  OBVIOUS
<1>2. w \in Ver(Staged)
  BY <1>0, <1>1 DEF DiskOK, Ver
<1>3. \A a \in CommitEvents : a \in Entered /\ a # Nothing /\ (a \in Seen \/ a = w)
  <2> TAKE a \in CommitEvents
  <2>1. a \in Entered /\ (a \in LogEntries => a \in Seen)
    BY AnnouncedIsUnder
  <2>2. a \in LogEntries \/ a = w
    BY <1>1 DEF CommitEvents, Told
  <2> QED BY <2>1, <2>2, EventNames
<1>4. IsFiniteSet(CommitEvents)
  <2>1. IsFiniteSet(LogEntries)
    BY <1>0, LogIsFinite
  <2>2. IsFiniteSet(LogEntries \cup {w})
    BY <2>1, FS_AddElement
  <2>3. CommitEvents \in SUBSET (LogEntries \cup {w})
    BY <1>1 DEF CommitEvents, Told
  <2> QED BY <2>2, <2>3, FS_Subset
<1>5. ASSUME NEW a \in CommitEvents, NEW b \in CommitEvents, a[2] = b[2] PROVE a = b
  <2>1. CASE a \in Seen /\ b \in Seen
    BY <1>0, <1>5, <2>1 DEF LogOK
  <2>2. CASE a \in Seen /\ b = w
    BY <1>0, <1>2, <1>3, <1>5, <2>2 DEF LogOK
  <2>3. CASE a = w /\ b \in Seen
    BY <1>0, <1>2, <1>3, <1>5, <2>3 DEF LogOK
  <2> QED BY <1>3, <2>1, <2>2, <2>3
<1> QED BY <1>3, <1>4, <1>5

\* The commits of the log, by the numbers of their events, are in their own order.
LEMMA HistoryAscends == ASSUME Traced PROVE Ascends(History, Announced)
<1>0. ToldOK
  BY DEF Traced
<1>1. PICK es : es = InSeqOrder(CommitEvents)
  OBVIOUS
<1>2. /\ es \in Seq(Entered) /\ \A e : Has(es, e) <=> e \in CommitEvents
      /\ \A k, l \in 1..Len(es) : k < l => es[k][2] < es[l][2]
  BY <1>1, CommitEventsAre, InOrderIs
<1>3. PICK n \in Nat : n = Len(es) /\ DOMAIN es = 1..n
  BY <1>2, LenProperties
<1>4. History = [i \in 1..n |-> es[i][4]]
  <2>1. PICK v : v = [i \in DOMAIN es |-> es[i][4]]
    OBVIOUS
  <2>2. {[i \in DOMAIN fs |-> fs[i][4]] : fs \in {InSeqOrder(CommitEvents)}} = {v}
    BY <1>1, <2>1
  <2>3. History = CHOOSE h \in {v} : TRUE
    BY <2>2 DEF History
  <2> QED BY <1>3, <2>1, <2>3
<1>5. ASSUME NEW i \in 1..n
      PROVE  es[i] \in CommitEvents /\ es[i] \in Known /\ IsCommit(es[i]) /\ es[i][4] \in Nat
  <2>1. es[i] \in CommitEvents
    BY <1>2, <1>3 DEF Has
  <2>2. PICK e \in CommitEvents : e = es[i]
    BY <2>1
  <2>3. e \in Known /\ IsCommit(e)
    BY AnnouncedIsUnder
  <2>4. e[4] \in 1..Len(prior)
    BY <1>0, <2>3 DEF ToldOK
  <2> QED BY <2>2, <2>3, <2>4
<1>6. PICK s : s = [i \in 1..n |-> es[i][4]]
  OBVIOUS
<1>7. s \in Seq(Nat) /\ Len(s) = n /\ \A i \in 1..n : s[i] = es[i][4]
  BY <1>3, <1>5, <1>6
<1>8. ASSUME NEW i \in 1..Len(s), NEW j \in 1..Len(s), i < j PROVE s[i] < s[j]
  <2>1. es[i][2] < es[j][2]
    BY <1>2, <1>3, <1>7, <1>8
  <2> QED BY <1>0, <1>5, <1>7, <2>1 DEF ToldOK
<1>9. ASSUME NEW m PROVE Has(s, m) <=> m \in Announced
  <2>1. ASSUME Has(s, m) PROVE m \in Announced
    <3>1. PICK i \in 1..n : s[i] = m
      BY <1>7, <2>1 DEF Has
    <3> QED BY <1>5, <1>7, <3>1 DEF Announced
  <2>2. ASSUME m \in Announced PROVE Has(s, m)
    <3>1. PICK e \in CommitEvents : e[4] = m
      BY <2>2 DEF Announced
    <3>2. PICK i \in 1..n : es[i] = e
      BY <1>2, <1>3 DEF Has
    <3> QED BY <1>7, <3>1, <3>2 DEF Has
  <2> QED BY <2>1, <2>2
<1> QED BY <1>4, <1>6, <1>7, <1>8, <1>9 DEF Ascends

\* What a step may do to the head, to the commits announced and to those that
\* were acknowledged.
Stays == DiskHead' = DiskHead /\ acked' = acked /\ Announced' = Announced
Founds == DiskHead = 0 /\ DiskHead' \in Commits /\ acked' = acked /\ Announced' = Announced
Opened ==
  /\ DiskHead # 0 /\ DiskHead' = DiskHead /\ acked' = acked
  /\ Announced = {} /\ Announced' = {DiskHead}
Loses ==
  /\ DiskHead \notin acked \cup {0} /\ acked' = acked
  /\ \/ DiskHead' = DiskHead /\ Announced = {DiskHead} /\ Announced' = {}
     \/ DiskHead' = 0 /\ Announced = {} /\ Announced' = {}
     \/ /\ Announced = Announced' \cup {DiskHead} /\ DiskHead' \in Announced'
        /\ \A c \in Announced' : c <= DiskHead' /\ c < DiskHead
Grows ==
  /\ DiskHead # 0 /\ DiskHead' \in Commits /\ acked' = acked
  /\ Announced # {} /\ Announced' = Announced \cup {DiskHead'}
  /\ DiskHead \in Announced /\ \A c \in Announced : c < DiskHead'
Acks ==
  /\ DiskHead # 0 /\ DiskHead' = DiskHead /\ acked' = acked \cup {DiskHead}
  /\ Announced # {} /\ Announced' = Announced

\* The log, read beside the head.
Reads ==
  /\ Ascends(History, Announced)
  /\ DiskHead \in 0..Len(prior) /\ DiskHead \in Nat /\ DiskHead \in {0} \cup Commits
  /\ DiskHead = Num(cache[HeadFile])
  /\ CommitEvents \subseteq Known
  /\ \/ DiskHead = 0 /\ Announced = {}
     \/ DiskHead # 0 /\ prior[DiskHead] = 0 /\ Announced = {}
     \/ DiskHead # 0 /\ Announced = ChainOf(prior, DiskHead)
  /\ Opens(cache[HeadFile]) => DiskHead # 0 /\ Announced = ChainOf(prior, DiskHead)

LEMMA PairedReads == ASSUME Paired PROVE Reads
<1>0. Base
  BY DEF Paired, Traced, Counted, Sturdy
<1>1. PICK w, h : w = cache[HeadFile] /\ h = DiskHead
  OBVIOUS
<1>2. h \in 0..Len(prior) /\ Chain(h) = ChainOf(prior, h) /\ h = Num(w)
  BY <1>1, HeadShows DEF Paired
<1>3. h \in Nat /\ h \in {0} \cup Commits
  BY <1>0, <1>2, HeadNumbers
<1>4. Ascends(History, Announced)
  BY HistoryAscends DEF Paired
<1>7. CommitEvents \subseteq Known
  BY AnnouncedIsUnder DEF Paired
<1>5. CASE Opens(w)
  <2>1. Announced = Chain(h) /\ h # 0
    BY <1>1, <1>5, HeadIsAnnounced DEF Paired
  <2> QED BY <1>1, <1>2, <1>3, <1>4, <1>7, <2>1 DEF Reads
<1>6. CASE ~Opens(w)
  <2>1. \/ h = 0 /\ Chain(h) = {} /\ Announced = {}
        \/ h # 0 /\ prior[h] = 0 /\ Chain(h) = {h} /\ Announced \subseteq {h}
    BY <1>1, <1>6, UnopenedIs DEF Paired
  <2>2. CASE h = 0
    BY <1>1, <1>2, <1>3, <1>4, <1>6, <1>7, <2>1, <2>2 DEF Reads
  <2>3. CASE h # 0
    <3>1. prior[h] = 0 /\ ChainOf(prior, h) = {h} /\ (Announced = {} \/ Announced = {h})
      BY <1>2, <2>1, <2>3
    <3> QED BY <1>1, <1>2, <1>3, <1>4, <1>6, <1>7, <2>3, <3>1 DEF Reads
  <2> QED BY <2>2, <2>3
<1> QED BY <1>5, <1>6

LEMMA MovesAreLedger ==
  ASSUME Reads, Reads', Stays \/ Founds \/ Opened \/ Loses \/ Grows \/ Acks
  PROVE  [Ledger!Next]_(Ledger!vars)
<1>3. PICK h, k, s, t, A, B : /\ h = DiskHead /\ k = DiskHead' /\ s = History /\ t = History'
                              /\ A = Announced /\ B = Announced'
  OBVIOUS
<1>1. Ascends(s, A) /\ Ascends(t, B) /\ h \in Nat /\ k \in Nat
  BY <1>3 DEF Reads
<1>2. A = B => s = t
  BY <1>1, AscendsOnce
<1>4. A # {} <=> s # << >>
  <2>1. s = << >> => A = {}
    BY <1>1, NoneHas DEF Ascends
  <2>2. ASSUME A = {} PROVE s = << >>
    <3>1. Ascends(<< >>, A)
      BY <2>2, AscendsFew
    <3> QED BY <1>1, <3>1, AscendsOnce
  <2> QED BY <2>1, <2>2
<1>5. CASE Stays
  BY <1>2, <1>3, <1>5 DEF Stays, Ledger!vars
<1>6. CASE Founds
  <2>1. Ledger!Found(k)
    BY <1>2, <1>3, <1>6 DEF Founds, Ledger!Found
  <2> QED BY <1>3, <1>6, <2>1 DEF Founds, Ledger!Next
<1>7. CASE Opened
  <2>1. Ascends(<<h>>, B) /\ Ascends(<< >>, A)
    BY <1>1, <1>3, <1>7, AscendsFew DEF Opened
  <2>2. t = <<h>> /\ s = << >>
    BY <1>1, <2>1, AscendsOnce
  <2> QED BY <1>3, <1>7, <2>2 DEF Opened, Ledger!Open, Ledger!Next
<1>8. CASE Acks
  BY <1>2, <1>3, <1>4, <1>8 DEF Acks, Stays, Ledger!Acknowledge, Ledger!Next, Ledger!vars
<1>9. CASE Grows
  <2>1. h \in A /\ h < k /\ B = A \cup {k} /\ \A c \in A : c < k
    BY <1>1, <1>3, <1>9 DEF Grows
  <2>2. t = Append(s, k) /\ \A i \in DOMAIN s : s[i] # k
    BY <1>1, <2>1, AscendsLast
  <2>3. Ledger!Land(k)
    BY <1>1, <1>3, <1>4, <1>9, <2>1, <2>2 DEF Grows, Ledger!Land
  <2> QED BY <1>3, <1>9, <2>3 DEF Grows, Ledger!Next
<1>10. CASE Loses
  <2>1. CASE k = h /\ A = {h} /\ B = {}
    <3>1. Ascends(<<h>>, A) /\ Ascends(<< >>, B)
      BY <1>1, <2>1, AscendsFew
    <3>2. s = <<h>> /\ t = << >>
      BY <1>1, <3>1, AscendsOnce
    <3> QED BY <1>3, <1>10, <2>1, <3>2 DEF Loses, Ledger!Forget, Ledger!Next
  <2>2. CASE k = 0 /\ A = {} /\ B = {}
    <3>1. s = << >> /\ t = << >>
      BY <1>1, <2>2, AscendsFew, AscendsOnce
    <3> QED BY <1>3, <1>10, <2>2, <3>1 DEF Loses, Ledger!Forget, Ledger!Next
  <2>3. CASE A = B \cup {h} /\ k \in B /\ \A c \in B : c <= k /\ c < h
    <3>1. /\ t = SubSeq(s, 1, Len(s) - 1) /\ Len(s) > 1 /\ k = s[Len(s) - 1]
      <4>1. Ascends(s, B \cup {h}) /\ Ascends(t, B) /\ h \in Nat /\ \A c \in B : c < h
        BY <1>1, <2>3
      <4> QED BY <2>3, <4>1, AscendsLast
    <3> QED BY <1>3, <1>10, <2>3, <3>1 DEF Loses, Ledger!Forget, Ledger!Next
  <2> QED BY <1>3, <1>10, <2>1, <2>2, <2>3 DEF Loses
<1> QED BY <1>5, <1>6, <1>7, <1>8, <1>9, <1>10

\* The steps that move neither the head nor the log.
LEMMA WhatMoves ==
  ASSUME FaultsApart, Base, [Next]_vars
  PROVE  /\ cache' = cache \/ Work \/ PowerLoss
         /\ acked' = acked \/ (Answer /\ up = "serving" /\ commit # 0 /\ acked' = acked \cup {commit})
         /\ Answer => cache' = cache
<1>1. "damage" \notin Faults
  BY DEF FaultsApart
<1>2. CASE Work \/ PowerLoss
  BY <1>2 DEF Work, PowerLoss, Die, Answer, Call
<1>3. CASE UNCHANGED vars
  BY <1>3 DEF vars, Answer
<1>4. CASE Answer
  <2>1. at = "promote" /\ cache' = cache
    BY <1>4 DEF Answer
  <2>2. up = "serving" \/ up = "starting"
    BY <2>1 DEF Base, CallsOK
  <2> QED BY <1>4, <2>1, <2>2 DEF Answer
<1>5. CASE FileDamaged
  BY <1>1, <1>5 DEF FileDamaged, Fault
<1>6. CASE Recover \/ RefuseLog \/ EmitGenesis \/ Serve \/ PersistRepo \/ PromoteEntry \/ DropStaged
           \/ Operator \/ Client
  BY <1>6 DEF Operator, Client, Recover, RefuseLog, EmitGenesis, Serve, PersistRepo, PromoteEntry,
              DropStaged, StartNew, StartAgain, StartRefused, RequestCommit, RequestIdentity, Answer
<1>7. CASE (\E r \in Relay : Subscriber(r)) \/ DiskError \/ Crash \/ Tick \/ ClockStepsBack
  BY <1>7 DEF Subscriber, Subscribe, SubscribeLive, Send, PollLog, Leave, DiskError, Crash, Die,
              Tick, ClockStepsBack, Answer
<1> QED BY <1>2, <1>3, <1>4, <1>5, <1>6, <1>7 DEF Next, Process, Environment

\* Where the files stand, the head and what is announced do.
LEMMA FilesTell ==
  ASSUME \A f \in File : f # HeadFile => cache'[f] = cache[f], cache'[HeadFile] = cache[HeadFile] \/ Nothing = cache[Staged]
  PROVE  Announced' = Announced
<1>1. LogEntries' = LogEntries
  BY FilesDiffer, FileNames DEF LogEntries, EntryFiles, Exists, HeadFile, File
<1>2. Exists(Staged)' = Exists(Staged) /\ cache'[Staged] = cache[Staged]
  BY FilesDiffer, FileNames DEF Exists
<1>3. (cache'[HeadFile] = cache[HeadFile] => DiskHead' = DiskHead)
  BY DEF DiskHead, Exists
<1>4. Told' = Told
  BY <1>1, <1>2, <1>3 DEF Told, Owed, Exists
<1> QED BY <1>4 DEF Announced, CommitEvents

\* A head that stays: the log opens with it, or loses it again.
LEMMA HeadStays ==
  ASSUME Base, PlacedOK, Reads, Reads', prior' = prior, acked' = acked,
         DiskHead' = DiskHead
  PROVE  Stays \/ Opened \/ Loses
<1>1. PICK h, A, B : h = DiskHead /\ A = Announced /\ B = Announced'
  OBVIOUS
<1>2. Falls(prior) /\ h \in 0..Len(prior) /\ h \in Nat
  BY <1>1, HeadNumbers DEF Reads
<1>3. /\ h = 0 => A = {} /\ B = {}
      /\ h # 0 => /\ A = ChainOf(prior, h) \/ (A = {} /\ prior[h] = 0)
                  /\ B = ChainOf(prior, h) \/ (B = {} /\ prior[h] = 0)
  <2>1. \/ h = 0 /\ A = {}
        \/ h # 0 /\ prior[h] = 0 /\ A = {}
        \/ h # 0 /\ A = ChainOf(prior, h)
    BY <1>1 DEF Reads
  <2>2. \/ h = 0 /\ B = {}
        \/ h # 0 /\ prior[h] = 0 /\ B = {}
        \/ h # 0 /\ B = ChainOf(prior, h)
    BY <1>1 DEF Reads
  <2> QED BY <2>1, <2>2
<1>4. h # 0 /\ prior[h] = 0 => ChainOf(prior, h) = {h} /\ h \notin acked
  BY <1>2, ChainUnfolds DEF PlacedOK
<1> QED BY <1>1, <1>3, <1>4 DEF Stays, Opened, Loses

\* A head that moves on from store to commit.
LEMMA HeadGrows ==
  ASSUME Base, PlacedOK, NumbersOK, Reads, Reads', prior' = prior, acked' = acked, at = "persist",
         DiskHead = store, DiskHead' = commit
  PROVE  Grows
<1>0. CallsOK /\ StagedOK /\ DiskOK /\ HeadFile \in File /\ LastFile \in File
  BY FileNames DEF Base
<1>1. PICK h, k : h = DiskHead /\ k = DiskHead'
  OBVIOUS
<1>2. /\ Falls(prior) /\ h \in 0..Len(prior) /\ h \in Nat /\ k \in 1..Len(prior) /\ prior[k] = h
      /\ k \in Commits /\ h # 0 /\ h < k
  <2>1. k # 0 /\ k \in 0..Len(prior) /\ prior[k] = h /\ up = "serving"
    BY <1>0, <1>1 DEF CallsOK
  <2>2. h # 0
    BY <1>0, <1>1, <2>1 DEF PlacedOK, InMemory
  <2>3. k \in 1..Len(prior)
    BY <2>1, HeadNumbers
  <2> QED BY <1>1, <2>1, <2>2, <2>3, HeadNumbers DEF Reads, Falls
<1>3. Announced = ChainOf(prior, h)
  <2>1. up = "serving"
    BY <1>0 DEF CallsOK
  <2>2. cache[LastFile] \in Ver(LastFile) /\ Num(cache[LastFile]) >= 3 /\ cache[HeadFile] # Nothing
    <3>1. Num(cache[LastFile]) >= 4 /\ Num(cache[LastFile]) \in Nat
      BY <1>0, <2>1, SeqNumbers DEF StagedOK
    <3>2. Num(cache[HeadFile]) # 0
      BY <1>1, <1>2 DEF Reads
    <3> QED BY <1>0, <3>1, <3>2, NumFacts DEF DiskOK, Ver
  <2>3. Opens(cache[HeadFile])
    BY <2>2 DEF Opens
  <2> QED BY <1>1, <2>3 DEF Reads
<1>4. Announced' = ChainOf(prior, k)
  <2>1. \/ k = 0
        \/ prior[k] = 0
        \/ Announced' = ChainOf(prior, k)
    BY <1>1 DEF Reads
  <2> QED BY <1>2, <2>1
<1>5. ChainOf(prior, k) = ChainOf(prior, h) \cup {k}
  BY <1>2, ChainUnfolds
<1>6. h \in ChainOf(prior, h)
  BY <1>2, ChainUnfolds
<1>7. \A c \in ChainOf(prior, h) : c < k
  <2>1. ChainOf(prior, h) \subseteq 1..h
    BY <1>2, ChainBelow
  <2> QED BY <1>2, <2>1
<1> QED BY <1>1, <1>2, <1>3, <1>4, <1>5, <1>6, <1>7 DEF Grows

\* A genesis put in place, or found after a loss: nothing was announced.
LEMMA HeadFounds ==
  ASSUME DiskHead = 0, Reads, Reads', DiskHead' # 0, acked' = acked, Announced' = {}
  PROVE  Founds
BY DEF Founds, Reads

LEMMA WorkMovesLedger ==
  ASSUME Paired, Reads, Reads', [Next]_vars, Work
  PROVE  Stays \/ Founds \/ Opened \/ Loses \/ Grows
<1>0. /\ Base /\ DiskOK /\ HeadsOK /\ CallsOK /\ PlacedOK /\ NumbersOK
      /\ HeadFile \in File /\ Staged \in File
  BY FileNames DEF Paired, Traced, Counted, Sturdy, Base
<1>1. PICK x \in Step : Moved(x)
  BY <1>0, WorkMoves
<1>2. prior' = prior /\ acked' = acked
  BY DEF Work
<1>3. PICK w, v : w = cache[HeadFile] /\ v = cache'[HeadFile]
  OBVIOUS
<1>4. DiskHead = Num(w) /\ DiskHead' = Num(v)
  BY <1>3 DEF Reads
<1>5. CASE v = w
  BY <1>0, <1>2, <1>4, <1>5, HeadStays
<1>6. CASE v # w
  <2>1. x = Put(HeadFile, v) /\ v \in Coming(HeadFile) /\ w \in Ver(HeadFile)
    BY <1>0, <1>1, <1>3, <1>6, MovedVer
  <2>2. \A f \in File : f # HeadFile => cache'[f] = cache[f]
    BY <1>1, <2>1, StepFacts DEF Moved, Effects
  <2>3. CASE at = "init"
    <3>1. PICK c \in Commits : w \in {Nothing, Cid(c)} /\ v = Cid(c)
      BY <1>0, <2>1, <2>3 DEF PlacedOK
    <3>2. w = Nothing
      BY <1>6, <3>1
    <3>3. cache[Staged] = Nothing
      <4>1. Ver(Staged) \subseteq {Nothing}
        BY <1>0, <2>1, <3>2 DEF PlacedOK
      <4> QED BY <1>0, <4>1 DEF DiskOK, Ver
    <3>4. Announced' = Announced
      BY <2>2, <3>3, FilesTell
    <3>5. DiskHead = 0 /\ DiskHead' # 0
      BY <1>4, <3>1, <3>2, NumFacts DEF Commits
    <3>6. Announced = {}
      BY <3>5 DEF Reads
    <3> QED BY <1>2, <3>4, <3>5, <3>6, HeadFounds
  <2>4. CASE at = "persist"
    <3>1. v = Cid(commit) /\ w = Cid(store)
      BY <1>0, <1>6, <2>1, <2>4 DEF HeadsOK, PlacedOK
    <3>2. DiskHead = store /\ DiskHead' = commit
      BY <1>0, <1>4, <2>1, <3>1, Shown, NumFacts, FileNames DEF Cid, Num, Nothing
    <3> QED BY <1>0, <1>2, <2>4, <3>2, HeadGrows
  <2> QED BY <1>0, <2>1, <2>3, <2>4 DEF HeadsOK
<1> QED BY <1>5, <1>6

\* A power loss in the middle of a call that moves the head.
LEMMA TwoHeads ==
  ASSUME Paired, NEW w \in Ver(HeadFile), NEW v \in Ver(HeadFile), v # w
  PROVE  \/ at = "init" /\ \E c \in Commits : {w, v} = {Nothing, Cid(c)}
         \/ at = "persist" /\ {w, v} = {Cid(store), Cid(commit)}
<1>0. /\ CallsOK /\ HeadsOK /\ PlacedOK /\ FlushedOK /\ up # "refused" /\ HeadFile \in File
  BY FileNames DEF Paired, Traced, Counted, Sturdy, Base
<1>1. up # "down"
  BY <1>0 DEF FlushedOK
<1>2. CASE at = "init"
  <2>1. PICK c \in Commits : Ver(HeadFile) \subseteq {Nothing, Cid(c)}
    BY <1>0, <1>2 DEF PlacedOK
  <2> QED BY <1>2, <2>1
<1>3. CASE at = "persist"
  BY <1>0, <1>3 DEF PlacedOK
<1>4. CASE at # "init" /\ at # "persist"
  <2>1. InMemory
    BY <1>0, <1>1, <1>4 DEF CallsOK, InMemory
  <2>2. \/ at = "promote" /\ commit # 0 /\ Ver(HeadFile) = {Cid(commit)}
        \/ Ver(HeadFile) = {Cid(store)}
    BY <1>0, <1>4, <2>1 DEF HeadsOK, PlacedOK
  <2> QED BY <2>2
<1> QED BY <1>2, <1>3, <1>4

LEMMA LossMovesLedger ==
  ASSUME Paired, Reads, Reads', [Next]_vars, PowerLoss
  PROVE  Stays \/ Founds \/ Opened \/ Loses \/ Grows
<1>0. /\ Base /\ DiskOK /\ HeadsOK /\ CallsOK /\ PlacedOK /\ NumbersOK /\ RelayOK /\ LogOK
      /\ StagedOK /\ DirsOK /\ PairsOK /\ HeadFile \in File /\ Staged \in File
  BY FileNames DEF Paired, Traced, Counted, Sturdy, Base, NumbersOK
<1>1. prior' = prior /\ acked' = acked
  BY DEF PowerLoss, Die
<1>2. /\ \A a \in Seen' : a \in Seen
      /\ \A v \in Ver(HeadFile)' : v \in Ver(HeadFile)
      /\ \A v \in Ver(Staged)' : v = Nothing \/ v \in Ver(Staged)
      /\ \A f : Coming(f)' = {}
      /\ \A f \in File : Ver(f)' = {cache'[f]}
  BY <1>0, PowerLossSeen, PowerLossDoes
<1>3. PICK w, v : w = cache[HeadFile] /\ v = cache'[HeadFile]
  OBVIOUS
<1>4. /\ DiskHead = Num(w) /\ DiskHead' = Num(v) /\ w \in Ver(HeadFile) /\ v \in Ver(HeadFile)
  BY <1>0, <1>2, <1>3 DEF Reads, DiskOK, Ver
<1>5. CASE v = w
  BY <1>0, <1>1, <1>4, <1>5, HeadStays
<1>6. CASE v # w /\ at = "init"
  <2>1. PICK c \in Commits : {w, v} = {Nothing, Cid(c)}
    BY <1>4, <1>6, TwoHeads
  <2>2. Nothing \in Ver(HeadFile) /\ Seen = {} /\ Ver(Staged) \cup Coming(Staged) \subseteq {Nothing}
        /\ acked = {}
    <3>1. Nothing \in Ver(HeadFile)
      BY <1>4, <2>1
    <3>2. acked \subseteq ChainOf(prior, 0)
      BY <1>0, <3>1, NumFacts DEF HeadsOK
    <3> QED BY <1>0, <3>1, <3>2, HeadNumbers, ChainUnfolds DEF LogOK, PlacedOK
  <2>3. Known = {}
    BY <2>2 DEF Known
  <2>4. Known' = {}
    BY <1>2, <2>2 DEF Known
  <2>5. Announced = {} /\ Announced' = {}
    BY <2>3, <2>4 DEF Reads, Announced
  <2>6. c # 0 /\ Num(Cid(c)) = c /\ Num(Nothing) = 0
    BY NumFacts DEF Commits
  <2>7. CASE w = Nothing
    <3>1. v = Cid(c)
      BY <1>6, <2>1, <2>7
    <3> QED BY <1>1, <1>4, <2>5, <2>6, <2>7, <3>1, HeadFounds
  <2>8. CASE w # Nothing
    <3>1. v = Nothing /\ w = Cid(c)
      BY <1>6, <2>1, <2>8
    <3> QED BY <1>1, <1>4, <2>2, <2>5, <2>6, <3>1 DEF Loses
  <2> QED BY <2>7, <2>8
<1>7. CASE v # w /\ at = "persist"
  <2>1. {w, v} = {Cid(store), Cid(commit)}
    BY <1>4, <1>7, TwoHeads
  <2>2. /\ up = "serving" /\ commit # 0 /\ commit \in 0..Len(prior) /\ prior[commit] = store
        /\ store \in 1..Len(prior)
    BY <1>0, <1>7 DEF CallsOK, PlacedOK, InMemory
  <2>3. /\ Falls(prior) /\ commit \in 1..Len(prior) /\ store \in Commits /\ commit \in Commits
        /\ store < commit /\ store \in Nat /\ commit \in Nat
    BY <1>0, <2>2, HeadNumbers DEF Falls
  <2>4. Num(Cid(store)) = store /\ Num(Cid(commit)) = commit
    BY <2>3, NumFacts
  <2>5. CASE v = Cid(commit)
    <3>1. w = Cid(store)
      BY <1>7, <2>1, <2>5
    <3> QED BY <1>0, <1>1, <1>4, <1>7, <2>4, <2>5, <3>1, HeadGrows
  <2>6. CASE v # Cid(commit)
    <3>1. v = Cid(store) /\ w = Cid(commit)
      BY <1>7, <2>1, <2>6
    <3>2. DiskHead = commit /\ DiskHead' = store
      BY <1>4, <2>4, <3>1
    <3>3. Announced = ChainOf(prior, commit)
      <4>1. \/ commit = 0
            \/ prior[commit] = 0
            \/ Announced = ChainOf(prior, commit)
        BY <3>2 DEF Reads
      <4> QED BY <2>2, <2>3, <4>1
    <3>4. Announced' = ChainOf(prior, store)
      <4>1. Announced' # {}
        <5>0. LastFile \in File /\ cache[LastFile] \in Ver(LastFile) /\ Num(cache[LastFile]) >= 3
          <6>1. Num(cache[LastFile]) >= 4 /\ Num(cache[LastFile]) \in Nat
            BY <1>0, <2>2, SeqNumbers DEF StagedOK
          <6> QED BY <1>0, <6>1, FileNames DEF DiskOK, Ver
        <5>1. PICK c : c = store /\ InLog(c)
          <6>1. Cid(store) # Nothing /\ Cid(store)[2] = store
            BY <2>3, NumFacts
          <6>2. Opens(Cid(store)) /\ Settled
            BY <1>7, <5>0, <6>1 DEF Opens, Settled
          <6>3. store \in ChainOf(prior, store)
            BY <2>2, <2>3, ChainUnfolds
          <6> QED BY <1>0, <6>2, <6>3 DEF PairsOK
        <5>2. InLog(c)'
          BY <1>0, <5>1, PowerLossInLog
        <5>3. PICK e, f : e \in EventFor(c) /\ f = Entry(e) /\ Ver(f)' = {e}
          BY <5>2 DEF InLog, EventFor
        <5>4. f \in Logged /\ f \in File /\ f[1] = "entry" /\ e # Nothing
          BY <5>3, EventNames DEF EventFor, Logged
        <5>5. cache'[f] = e
          BY <1>2, <5>3, <5>4
        <5>6. e \in LogEntries'
          BY <5>4, <5>5 DEF LogEntries, EntryFiles, Exists
        <5> QED BY <5>3, <5>6 DEF EventFor, IsCommit, Announced, CommitEvents, Told
      <4>2. Announced' = {} \/ Announced' = ChainOf(prior, store)
        BY <1>1, <3>2 DEF Reads
      <4> QED BY <4>1, <4>2
    <3>5. /\ ChainOf(prior, commit) = ChainOf(prior, store) \cup {commit}
          /\ store \in ChainOf(prior, store)
      BY <2>2, <2>3, ChainUnfolds
    <3>6. \A c \in ChainOf(prior, store) : c <= store /\ c < commit
      <4>1. ChainOf(prior, store) \subseteq 1..store
        BY <2>2, <2>3, ChainBelow
      <4> QED BY <2>3, <4>1
    <3>7. commit \notin acked
      <4>1. acked \subseteq ChainOf(prior, store)
        BY <1>0, <2>2 DEF HeadsOK, InMemory
      <4> QED BY <2>3, <3>6, <4>1
    <3> QED BY <1>1, <2>2, <3>2, <3>3, <3>4, <3>5, <3>6, <3>7 DEF Loses
  <2> QED BY <2>5, <2>6
<1> QED BY <1>4, <1>5, <1>6, <1>7, TwoHeads

\* A client that is told its commit was written finds it announced.
LEMMA AnswerMovesLedger ==
  ASSUME Paired, Reads, Answer, up = "serving", commit # 0, acked' = acked \cup {commit},
         Announced' = Announced, DiskHead' = DiskHead
  PROVE  Acks
<1>0. CallsOK /\ HeadsOK /\ StagedOK /\ DiskOK /\ Base /\ HeadFile \in File /\ LastFile \in File
      /\ PlacedOK /\ at = "promote"
  BY FileNames DEF Paired, Traced, Counted, Sturdy, Base, Answer
<1>1. Ver(HeadFile) = {Cid(commit)} /\ commit \in Commits /\ prior[commit] = store /\ store # 0
  <2>1. InMemory
    BY DEF InMemory
  <2>2. commit \in 1..Len(prior)
    BY <1>0, HeadNumbers DEF CallsOK
  <2> QED BY <1>0, <2>1, <2>2, HeadNumbers DEF HeadsOK, CallsOK, PlacedOK
<1>2. cache[HeadFile] = Cid(commit)
  BY <1>0, <1>1 DEF DiskOK, Ver
<1>3. DiskHead = commit /\ commit # 0
  BY <1>1, <1>2, NumFacts DEF Reads
<1>4. Opens(cache[HeadFile])
  BY <1>1, <1>2, NumFacts DEF Opens
<1>5. Announced = ChainOf(prior, commit)
  BY <1>3, <1>4 DEF Reads
<1>6. commit \in ChainOf(prior, commit)
  BY <1>0, <1>1, HeadNumbers, ChainUnfolds DEF CallsOK
<1> QED BY <1>3, <1>5, <1>6 DEF Acks

LEMMA NextMovesLedger ==
  ASSUME WritesSucceed, Paired, Reads, Reads', [Next]_vars
  PROVE  [Ledger!Next]_(Ledger!vars)
<1>0. Base /\ FaultsApart /\ HeadFile \in File
  BY FileNames DEF Paired, Traced, Counted, Sturdy, WritesSucceed
<1>1. cache' = cache => Announced' = Announced /\ DiskHead' = DiskHead
  BY FilesTell DEF DiskHead, Exists
<1>2. Stays \/ Founds \/ Opened \/ Loses \/ Grows \/ Acks
  <2>1. CASE Work
    BY <2>1, WorkMovesLedger
  <2>2. CASE PowerLoss
    BY <2>2, LossMovesLedger
  <2>3. CASE cache' = cache /\ acked' = acked
    BY <1>1, <2>3 DEF Stays
  <2>4. CASE cache' = cache /\ Answer /\ up = "serving" /\ commit # 0 /\ acked' = acked \cup {commit}
    BY <1>1, <2>4, AnswerMovesLedger
  <2>5. Work => acked' = acked
    BY DEF Work
  <2>6. PowerLoss => acked' = acked
    BY DEF PowerLoss, Die
  <2> QED BY <1>0, <2>1, <2>2, <2>3, <2>4, WhatMoves
<1> QED BY <1>2, MovesAreLedger

\* eventLogStage, persistSave, eventLogPromote and eventLogRecover together: for
\* whoever reads the directory, a commit and its announcement are one step of one
\* history, and what a crash or a power loss takes back of it nobody was told.
THEOREM LedgerImplemented ==
  ASSUME Windowed, WritesSucceed PROVE Spec => ImplementsLedger
<1>1. Init => Ledger!Init
  <2> SUFFICES ASSUME Init PROVE Ledger!Init
    OBVIOUS
  <2>1. Paired /\ acked = {}
    BY InitSturdy, InitNumbers, InitTraced DEF Paired, Traced, Counted, Init
  <2>2. Reads
    BY <2>1, PairedReads
  <2>3. DiskHead = 0
    BY FileNames, FilesDiffer DEF Init, DiskHead, Exists
  <2>4. Announced = {}
    BY <2>2, <2>3 DEF Reads
  <2>5. History = << >>
    BY <2>2, <2>4, AscendsFew, AscendsOnce DEF Reads
  <2> QED BY <2>1, <2>3, <2>5 DEF Ledger!Init
<1>2. Paired => Reads
  BY PairedReads
<1>3. Paired /\ Reads /\ Reads' /\ [Next]_vars => [Ledger!Next]_(Ledger!vars)
  BY NextMovesLedger
<1>4. Spec => []Paired
  BY PairsInvariance
<1> QED BY <1>1, <1>2, <1>3, <1>4, PTL DEF Spec, ImplementsLedger, Ledger!Spec

=============================================================================
