-------------------------- MODULE AdmissionProofs --------------------------
(***************************************************************************)
(* Safety of the admissions for any number of connections, any sizes and   *)
(* any limits that the assumption on the constants allows.                 *)
(***************************************************************************)
EXTENDS Admission, Functions, FiniteSetTheorems, SequenceTheorems, TLAPS

-----------------------------------------------------------------------------
(* SumFunctionOnSet, the fold of + over a finite set of numbers.  The fold   *)
(* picks the elements in an order of its own; a sum is also the number of    *)
(* cells of a bar chart, and those can be counted.                           *)

Cells(f, S) == UNION {{x} \X (1..f[x]) : x \in S}
Count(f, S) == Cardinality(Cells(f, S))

Pick(s) == CHOOSE x \in s : TRUE
Folds(f, g, S) == g = [s \in SUBSET S |-> IF s = {} THEN 0 ELSE f[Pick(s)] + g[s \ {Pick(s)}]]

-----------------------------------------------------------------------------
(* Extremes *)

LEMMA LeastNat ==
  ASSUME NEW T, T \subseteq Nat, T # {}
  PROVE  \E d \in T : \A e \in T : d <= e
<1>1. PICK d \in T : \A y \in T : ~ (<<y, d>> \in OpToRel(<, Nat))
  BY NatLessThanWellFounded, WFMin, Zenon
<1>2. \A y \in T : ~ (y < d)
  BY <1>1 DEF OpToRel
<1> QED BY <1>2

LEMMA Greatest ==
  ASSUME NEW n \in Nat, NEW T, T \subseteq 0..n, T # {}
  PROVE  \E d \in T : \A e \in T : e <= d
<1> DEFINE U == {n - x : x \in T}
<1>1. U \subseteq Nat /\ U # {}
  <2>1. \A x \in T : n - x \in Nat
    OBVIOUS
  <2>2. PICK x \in T : TRUE
    OBVIOUS
  <2>3. n - x \in U
    BY <2>2
  <2> QED BY <2>1, <2>3
<1>2. PICK u \in U : \A y \in U : u <= y
  <2> HIDE DEF U
  <2> QED BY <1>1, LeastNat
<1>3. PICK d \in T : u = n - d
  BY <1>2
<1>4. \A e \in T : e <= d
  <2> TAKE e \in T
  <2>1. n - e \in U
    OBVIOUS
  <2>2. n - d <= n - e
    BY <2>1, <1>2, <1>3
  <2>3. e \in Int /\ d \in Int
    OBVIOUS
  <2> HIDE DEF U
  <2> QED BY <2>2, <2>3
<1> QED BY <1>4

-----------------------------------------------------------------------------
(* Counting cells *)

LEMMA Column ==
  ASSUME NEW y, NEW n \in Nat
  PROVE  IsFiniteSet({y} \X (1..n)) /\ Cardinality({y} \X (1..n)) = n
<1>1. IsFiniteSet({y}) /\ Cardinality({y}) = 1
  BY FS_Singleton
<1>2. IsFiniteSet(1..n) /\ Cardinality(1..n) = n
  BY FS_Interval
<1>3. IsFiniteSet({y} \X (1..n)) /\ Cardinality({y} \X (1..n)) = Cardinality({y}) * Cardinality(1..n)
  BY <1>1, <1>2, FS_Product, Zenon
<1>4. Cardinality({y} \X (1..n)) = 1 * n
  BY <1>1, <1>2, <1>3, Zenon
<1> QED BY <1>3, <1>4

LEMMA CellsFinite ==
  ASSUME NEW S, IsFiniteSet(S), NEW f, \A x \in S : f[x] \in Nat
  PROVE  IsFiniteSet(Cells(f, S))
<1> DEFINE B == {{x} \X (1..f[x]) : x \in S}
<1>1. \A x \in S : IsFiniteSet({x} \X (1..f[x]))
  BY Column
<1>2. \A b \in B : IsFiniteSet(b)
  BY <1>1
<1>3. IsFiniteSet(B)
  <2> DEFINE h == [x \in S |-> {x} \X (1..f[x])]
  <2>1. h \in Surjection(S, B)
    BY DEF Surjection
  <2> HIDE DEF h, B
  <2> QED BY <2>1, FS_Surjection, Zenon
<1> HIDE DEF B
<1>4. IsFiniteSet(UNION B)
  BY <1>2, <1>3, FS_UNION
<1> QED BY <1>4 DEF Cells, B

LEMMA CountEmpty == ASSUME NEW f PROVE Count(f, {}) = 0
<1>1. Cells(f, {}) = {}
  BY DEF Cells
<1> QED BY <1>1, FS_EmptySet DEF Count

LEMMA CountAdd ==
  ASSUME NEW S, IsFiniteSet(S), NEW f, \A x \in S : f[x] \in Nat, NEW y, y \notin S, f[y] \in Nat
  PROVE  Count(f, S \cup {y}) = f[y] + Count(f, S) /\ Count(f, S) \in Nat
<1> DEFINE b == {y} \X (1..f[y])
<1>1. IsFiniteSet(Cells(f, S))
  BY CellsFinite
<1>2. Cells(f, S \cup {y}) = Cells(f, S) \cup b
  BY DEF Cells
<1>3. Cells(f, S) \cap b = {}
  BY DEF Cells
<1>4. IsFiniteSet(b) /\ Cardinality(b) = f[y]
  BY Column
<1> HIDE DEF b
<1>5. Cardinality(Cells(f, S) \cup b) = Cardinality(Cells(f, S)) + Cardinality(b) - Cardinality(Cells(f, S) \cap b)
  BY <1>1, <1>4, FS_Union
<1>6. Cardinality(Cells(f, S)) \in Nat
  BY <1>1, FS_CardinalityType
<1>7. Cardinality(Cells(f, S) \cap b) = 0
  BY <1>3, FS_EmptySet, Zenon
<1>8. Cardinality(Cells(f, S \cup {y})) = Cardinality(Cells(f, S)) + f[y] - 0
  BY <1>2, <1>4, <1>5, <1>7, Zenon
<1> QED BY <1>6, <1>8 DEF Count

\* Any function that folds in the order of Pick counts the cells.
LEMMA FoldCounts ==
  ASSUME NEW S, IsFiniteSet(S), NEW f, \A x \in S : f[x] \in Nat, NEW g, Folds(f, g, S)
  PROVE  \A s \in SUBSET S : g[s] = Count(f, s)
<1> DEFINE Bad == {s \in SUBSET S : g[s] # Count(f, s)}
           T == {Cardinality(s) : s \in Bad}
<1>1. SUFFICES ASSUME Bad # {} PROVE FALSE
  OBVIOUS
<1>2. \A s \in SUBSET S : IsFiniteSet(s) /\ Cardinality(s) \in Nat
  BY FS_Subset, FS_CardinalityType
<1>3. T \subseteq Nat /\ T # {}
  BY <1>1, <1>2
<1>4. PICK n \in T : \A e \in T : n <= e
  BY <1>3, LeastNat, Zenon
<1>5. PICK s \in Bad : n = Cardinality(s)
  BY <1>4
<1>6. s \in SUBSET S /\ IsFiniteSet(s) /\ n \in Nat
  BY <1>2, <1>5
<1>7. s # {}
  BY <1>5, CountEmpty DEF Folds
<1> DEFINE x == Pick(s)
           r == s \ {x}
<1>8. x \in s
  BY <1>7 DEF Pick
<1>9. g[s] = f[x] + g[r]
  BY <1>6, <1>7 DEF Folds
<1>10. r \in SUBSET S /\ IsFiniteSet(r) /\ Cardinality(r) = n - 1
  BY <1>5, <1>6, <1>8, FS_RemoveElement
<1>11. r \notin Bad
  BY <1>4, <1>6, <1>10
<1>12. g[r] = Count(f, r)
  BY <1>10, <1>11
<1>13. Count(f, r \cup {x}) = f[x] + Count(f, r)
  <2>1. x \notin r /\ f[x] \in Nat /\ \A z \in r : f[z] \in Nat
    BY <1>6, <1>8
  <2> HIDE DEF r, x
  <2> QED BY <1>10, <2>1, CountAdd
<1>14. r \cup {x} = s
  BY <1>8
<1> QED BY <1>5, <1>9, <1>12, <1>13, <1>14

LEMMA SumCounts ==
  ASSUME NEW S, IsFiniteSet(S), NEW f, \A x \in S : f[x] \in Nat
  PROVE  SumFunctionOnSet(f, S) = Count(f, S)
<1>1. SumFunctionOnSet(f, S) = (CHOOSE g : Folds(f, g, S))[S]
  BY DEF SumFunctionOnSet, FoldFunctionOnSet, MapThenFoldSet, Folds, Pick
<1> DEFINE h == [s \in SUBSET S |-> Count(f, s)]
<1>2. Folds(f, h, S)
  <2>1. \A s \in SUBSET S : Count(f, s) = IF s = {} THEN 0 ELSE f[Pick(s)] + h[s \ {Pick(s)}]
    <3> TAKE s \in SUBSET S
    <3>1. CASE s = {}
      BY <3>1, CountEmpty
    <3>2. CASE s # {}
      <4> DEFINE x == Pick(s)
                 r == s \ {x}
      <4>1. x \in s
        BY <3>2 DEF Pick
      <4>2. IsFiniteSet(r) /\ x \notin r /\ f[x] \in Nat /\ \A z \in r : f[z] \in Nat
        BY <4>1, FS_Subset
      <4>3. r \cup {x} = s /\ h[r] = Count(f, r)
        BY <4>1
      <4> HIDE DEF x, r, h
      <4>4. Count(f, r \cup {x}) = f[x] + Count(f, r)
        BY <4>2, CountAdd
      <4> QED BY <3>2, <4>3, <4>4 DEF x, r
    <3> QED BY <3>1, <3>2
  <2> QED BY <2>1 DEF Folds
<1>3. Folds(f, CHOOSE g : Folds(f, g, S), S)
  BY <1>2, Zenon
<1> QED BY <1>1, <1>3, FoldCounts

-----------------------------------------------------------------------------
LEMMA SumEmpty == ASSUME NEW f PROVE SumFunctionOnSet(f, {}) = 0
<1>1. SumFunctionOnSet(f, {}) = Count(f, {})
  BY SumCounts, FS_EmptySet
<1> QED BY <1>1, CountEmpty

LEMMA SumType ==
  ASSUME NEW S, IsFiniteSet(S), NEW f, \A x \in S : f[x] \in Nat
  PROVE  SumFunctionOnSet(f, S) \in Nat
BY SumCounts, CellsFinite, FS_CardinalityType DEF Count

LEMMA SumAdd ==
  ASSUME NEW S, IsFiniteSet(S), NEW f, \A x \in S : f[x] \in Nat, NEW y, y \notin S, f[y] \in Nat
  PROVE  SumFunctionOnSet(f, S \cup {y}) = f[y] + SumFunctionOnSet(f, S)
<1>1. IsFiniteSet(S \cup {y}) /\ \A x \in S \cup {y} : f[x] \in Nat
  BY FS_AddElement
<1> QED BY <1>1, CountAdd, SumCounts

LEMMA SumRemove ==
  ASSUME NEW S, IsFiniteSet(S), NEW f, \A x \in S : f[x] \in Nat, NEW y \in S
  PROVE  SumFunctionOnSet(f, S) = f[y] + SumFunctionOnSet(f, S \ {y})
<1>1. IsFiniteSet(S \ {y}) /\ y \notin S \ {y} /\ (S \ {y}) \cup {y} = S
  BY FS_RemoveElement
<1>2. \A x \in S \ {y} : f[x] \in Nat
  OBVIOUS
<1> QED BY <1>1, <1>2, SumAdd

LEMMA SumSame ==
  ASSUME NEW S, IsFiniteSet(S), NEW f, NEW g, \A x \in S : f[x] \in Nat /\ g[x] = f[x]
  PROVE  SumFunctionOnSet(g, S) = SumFunctionOnSet(f, S)
<1>1. Cells(f, S) = Cells(g, S)
  BY DEF Cells
<1> QED BY <1>1, SumCounts DEF Count

\* One value changed.
LEMMA SumChange ==
  ASSUME NEW S, IsFiniteSet(S), NEW f, NEW g, NEW y \in S,
         \A x \in S : f[x] \in Nat /\ g[x] \in Nat,
         \A x \in S \ {y} : g[x] = f[x]
  PROVE  SumFunctionOnSet(g, S) = SumFunctionOnSet(f, S) - f[y] + g[y]
<1>1. IsFiniteSet(S \ {y})
  BY FS_RemoveElement
<1>2. SumFunctionOnSet(g, S \ {y}) = SumFunctionOnSet(f, S \ {y})
  BY <1>1, SumSame
<1>3. SumFunctionOnSet(f, S) = f[y] + SumFunctionOnSet(f, S \ {y})
  BY SumRemove
<1>4. SumFunctionOnSet(g, S) = g[y] + SumFunctionOnSet(g, S \ {y})
  BY SumRemove
<1>5. SumFunctionOnSet(f, S \ {y}) \in Nat
  BY <1>1, SumType
<1> QED BY <1>2, <1>3, <1>4, <1>5

\* A sum is at least each of its values.
LEMMA SumBound ==
  ASSUME NEW S, IsFiniteSet(S), NEW f, \A x \in S : f[x] \in Nat, NEW y \in S
  PROVE  f[y] <= SumFunctionOnSet(f, S)
<1>1. IsFiniteSet(S \ {y})
  BY FS_RemoveElement
<1>2. SumFunctionOnSet(f, S \ {y}) \in Nat
  BY <1>1, SumType
<1> QED BY <1>2, SumRemove

\* The values of a subset are no more than those of the set.
LEMMA SumSubset ==
  ASSUME NEW S, IsFiniteSet(S), NEW f, \A x \in S : f[x] \in Nat, NEW T \in SUBSET S
  PROVE  SumFunctionOnSet(f, T) <= SumFunctionOnSet(f, S)
<1>1. IsFiniteSet(T) /\ \A x \in T : f[x] \in Nat
  BY FS_Subset
<1>2. Cells(f, T) \subseteq Cells(f, S)
  BY DEF Cells
<1>3. Cardinality(Cells(f, T)) <= Cardinality(Cells(f, S))
  BY <1>2, CellsFinite, FS_Subset
<1> QED BY <1>1, <1>3, SumCounts DEF Count

\* Elements without a value do not count.
LEMMA SumSupport ==
  ASSUME NEW S, IsFiniteSet(S), NEW f, \A x \in S : f[x] \in Nat, NEW T \in SUBSET S,
         \A x \in S \ T : f[x] = 0
  PROVE  SumFunctionOnSet(f, T) = SumFunctionOnSet(f, S)
<1>1. IsFiniteSet(T) /\ \A x \in T : f[x] \in Nat
  BY FS_Subset
<1>2. Cells(f, T) = Cells(f, S)
  <2>1. \A x \in S \ T : {x} \X (1..f[x]) = {}
    <3>1. 1..0 = {}
      OBVIOUS
    <3> QED BY <3>1
  <2> QED BY <2>1 DEF Cells
<1> QED BY <1>1, <1>2, SumCounts DEF Count

LEMMA SumUnion ==
  ASSUME NEW S, IsFiniteSet(S), NEW T, IsFiniteSet(T), S \cap T = {}, NEW f,
         \A x \in S \cup T : f[x] \in Nat
  PROVE  SumFunctionOnSet(f, S \cup T) = SumFunctionOnSet(f, S) + SumFunctionOnSet(f, T)
<1>1. IsFiniteSet(S \cup T)
  BY FS_Union
<1>2. Cells(f, S \cup T) = Cells(f, S) \cup Cells(f, T)
  BY DEF Cells
<1>3. Cells(f, S) \cap Cells(f, T) = {}
  BY DEF Cells
<1>4. IsFiniteSet(Cells(f, S)) /\ IsFiniteSet(Cells(f, T))
  BY CellsFinite
<1>5. Cardinality(Cells(f, S) \cup Cells(f, T)) =
        Cardinality(Cells(f, S)) + Cardinality(Cells(f, T)) - Cardinality(Cells(f, S) \cap Cells(f, T))
  BY <1>4, FS_Union
<1>6. Cardinality(Cells(f, S) \cap Cells(f, T)) = 0
  BY <1>3, FS_EmptySet, Zenon
<1>7. Cardinality(Cells(f, S)) \in Nat /\ Cardinality(Cells(f, T)) \in Nat
  BY <1>4, FS_CardinalityType
<1>8. Count(f, S \cup T) = Count(f, S) + Count(f, T)
  <2>1. Cardinality(Cells(f, S \cup T)) = Cardinality(Cells(f, S)) + Cardinality(Cells(f, T)) - 0
    BY <1>2, <1>5, <1>6, Zenon
  <2> QED BY <1>7, <2>1 DEF Count
<1> QED BY <1>1, <1>8, SumCounts

\* The same values under other names.
LEMMA SumReindex ==
  ASSUME NEW S, IsFiniteSet(S), NEW f, \A x \in S : f[x] \in Nat,
         NEW T, NEW g, NEW h \in Bijection(S, T), \A x \in S : g[h[x]] = f[x]
  PROVE  SumFunctionOnSet(g, T) = SumFunctionOnSet(f, S)
<1>1. h \in [S -> T] /\ (\A x, y \in S : h[x] = h[y] => x = y) /\ (\A y \in T : \E x \in S : h[x] = y)
  BY DEF Bijection, Injection, Surjection, IsInjective
<1>2. IsFiniteSet(T) /\ \A y \in T : g[y] \in Nat
  <2>1. IsFiniteSet(T)
    BY FS_Bijection DEF ExistsBijection
  <2> QED BY <1>1, <2>1
<1> DEFINE m == [p \in Cells(f, S) |-> <<h[p[1]], p[2]>>]
<1>3. \A p \in Cells(f, S) : p = <<p[1], p[2]>> /\ p[1] \in S /\ p[2] \in 1..f[p[1]]
  BY DEF Cells
<1>4. \A p \in Cells(g, T) : p = <<p[1], p[2]>> /\ p[1] \in T /\ p[2] \in 1..g[p[1]]
  BY DEF Cells
<1>5. m \in [Cells(f, S) -> Cells(g, T)]
  <2>1. \A p \in Cells(f, S) : <<h[p[1]], p[2]>> \in Cells(g, T)
    BY <1>1, <1>3 DEF Cells
  <2> QED BY <2>1
<1>6. \A p, r \in Cells(f, S) : m[p] = m[r] => p = r
  BY <1>1, <1>3
<1>7. \A r \in Cells(g, T) : \E p \in Cells(f, S) : m[p] = r
  <2> TAKE r \in Cells(g, T)
  <2>1. PICK x \in S : h[x] = r[1]
    BY <1>1, <1>4
  <2>2. r[2] \in 1..f[x]
    BY <1>4, <2>1
  <2>3. <<x, r[2]>> \in Cells(f, S)
    BY <2>2 DEF Cells
  <2>4. m[<<x, r[2]>>] = <<h[x], r[2]>>
    BY <2>3
  <2> QED BY <1>4, <2>1, <2>3, <2>4
<1> HIDE DEF m
<1>8. m \in Bijection(Cells(f, S), Cells(g, T))
  BY <1>5, <1>6, <1>7 DEF Bijection, Injection, Surjection, IsInjective
<1>9. Count(g, T) = Count(f, S)
  BY <1>8, CellsFinite, FS_Bijection DEF ExistsBijection, Count
<1> QED BY <1>2, <1>9, SumCounts

\* A bound on every value bounds the sum, and one value everywhere is a product.
LEMMA SumAtMost ==
  ASSUME NEW S, IsFiniteSet(S), NEW n \in Nat, NEW f, \A x \in S : f[x] \in Nat /\ f[x] <= n
  PROVE  /\ SumFunctionOnSet(f, S) <= Cardinality(S) * n
         /\ (\A x \in S : f[x] = n) => SumFunctionOnSet(f, S) = Cardinality(S) * n
<1>1. IsFiniteSet(1..n) /\ Cardinality(1..n) = n
  BY FS_Interval
<1>2. IsFiniteSet(S \X (1..n)) /\ Cardinality(S \X (1..n)) = Cardinality(S) * Cardinality(1..n)
  BY <1>1, FS_Product, Zenon
<1>3. Cardinality(S \X (1..n)) = Cardinality(S) * n
  BY <1>1, <1>2, Zenon
<1>4. Cells(f, S) \in SUBSET (S \X (1..n))
  <2>1. \A x \in S : 1..f[x] \subseteq 1..n
    OBVIOUS
  <2> QED BY <2>1 DEF Cells
<1>5. Cardinality(Cells(f, S)) <= Cardinality(S \X (1..n))
  BY <1>2, <1>4, FS_Subset, Zenon
<1>6. Count(f, S) <= Cardinality(S) * n
  BY <1>3, <1>5, Zenon DEF Count
<1>7. ASSUME \A x \in S : f[x] = n
      PROVE  Count(f, S) = Cardinality(S) * n
  <2>1. Cells(f, S) = S \X (1..n)
    BY <1>7 DEF Cells
  <2> QED BY <1>3, <2>1, Zenon DEF Count
<1>8. SumFunctionOnSet(f, S) = Count(f, S)
  BY SumCounts
<1> QED BY <1>6, <1>7, <1>8, Zenon

-----------------------------------------------------------------------------
(* A census and those parked at it: W is where its waiters are, need what  *)
(* each of them asks for.                                                  *)

Lined(z, W, need) ==
  /\ z \in Census
  /\ W \subseteq Conn /\ z.granted \subseteq W
  /\ \A i \in Live(z.queue) : /\ z.queue[i].who \in W \ z.granted
                              /\ z.queue[i].bytes = need[z.queue[i].who]
  /\ \A i \in DOMAIN z.queue \ Live(z.queue) : z.queue[i].bytes = 0
  /\ \A c \in W \ z.granted : \E i \in Live(z.queue) : z.queue[i].who = c
  /\ \A i, j \in Live(z.queue) : z.queue[i].who = z.queue[j].who => i = j
  /\ z.waiting = Cardinality(Live(z.queue))

\* The first waiter is not one that would fit.
Blocked(z, ceiling) ==
  Live(z.queue) # {} => ~ Claims(z, z.queue[Min(Live(z.queue))].bytes, ceiling)

LEMMA Queue ==
  ASSUME NEW q \in Seq(BufferWaiter)
  PROVE  /\ Len(q) \in Nat /\ DOMAIN q = 1..Len(q) /\ Live(q) \subseteq 1..Len(q)
         /\ IsFiniteSet(Live(q)) /\ Cardinality(Live(q)) \in Nat
         /\ \A i \in 1..Len(q) : /\ q[i] \in BufferWaiter /\ q[i].bytes \in Nat
                                 /\ q[i].who \in Conn \cup {Gone}
                                 /\ q[i] = [who |-> q[i].who, bytes |-> q[i].bytes]
<1>1. Len(q) \in Nat /\ DOMAIN q = 1..Len(q)
  BY LenProperties
<1>2. Live(q) \subseteq 1..Len(q)
  BY <1>1 DEF Live
<1>3. IsFiniteSet(Live(q)) /\ Cardinality(Live(q)) \in Nat
  <2>1. IsFiniteSet(1..Len(q)) /\ Live(q) \in SUBSET (1..Len(q))
    BY <1>1, <1>2, FS_Interval
  <2>2. IsFiniteSet(Live(q))
    BY <2>1, FS_Subset
  <2> QED BY <2>2, FS_CardinalityType
<1>4. \A i \in 1..Len(q) : q[i] \in BufferWaiter
  BY ElementOfSeq
<1>5. \A i \in 1..Len(q) : /\ q[i].bytes \in Nat
                           /\ q[i].who \in Conn \cup {Gone}
                           /\ q[i] = [who |-> q[i].who, bytes |-> q[i].bytes]
  BY <1>4 DEF BufferWaiter
<1> QED BY <1>1, <1>2, <1>3, <1>4, <1>5

LEMMA FirstLive ==
  ASSUME NEW q \in Seq(BufferWaiter), Live(q) # {}
  PROVE  Min(Live(q)) \in Live(q) /\ \A j \in Live(q) : Min(Live(q)) <= j
<1>1. Live(q) \subseteq Nat
  BY Queue
<1>2. \E x \in Live(q) : \A y \in Live(q) : x <= y
  BY <1>1, LeastNat
<1> QED BY <1>2 DEF Min

LEMMA IsFirst ==
  ASSUME NEW q \in Seq(BufferWaiter), NEW k \in Live(q), \A j \in Live(q) : k <= j
  PROVE  Min(Live(q)) = k
<1>1. Min(Live(q)) \in Live(q) /\ Min(Live(q)) <= k
  BY FirstLive
<1>2. Live(q) \subseteq Nat /\ k <= Min(Live(q))
  BY <1>1, Queue
<1> QED BY <1>1, <1>2

LEMMA CensusFields ==
  ASSUME NEW z \in Census
  PROVE  /\ z.held \in Nat /\ z.waiting \in Nat /\ z.queue \in Seq(BufferWaiter)
         /\ z.granted \subseteq Conn
BY DEF Census

LEMMA MakeCensus ==
  ASSUME NEW z, NEW h \in Nat, NEW w \in Nat, NEW q \in Seq(BufferWaiter), NEW g \in SUBSET Conn,
         z = [held |-> h, waiting |-> w, queue |-> q, granted |-> g]
  PROVE  /\ z \in Census /\ z.held = h /\ z.waiting = w /\ z.queue = q /\ z.granted = g
BY DEF Census

LEMMA CensusUpdates ==
  ASSUME NEW z \in Census, NEW u
  PROVE  /\ [z EXCEPT !.granted = u]
              = [held |-> z.held, waiting |-> z.waiting, queue |-> z.queue, granted |-> u]
         /\ [z EXCEPT !.held = u]
              = [held |-> u, waiting |-> z.waiting, queue |-> z.queue, granted |-> z.granted]
<1>1. PICK a, b, c, d : z = [held |-> a, waiting |-> b, queue |-> c, granted |-> d]
  BY DEF Census
<1>2. z.held = a /\ z.waiting = b /\ z.queue = c /\ z.granted = d
  BY <1>1
<1>3. [z EXCEPT !.granted = u] = [held |-> a, waiting |-> b, queue |-> c, granted |-> u]
  BY <1>1
<1>4. [z EXCEPT !.held = u] = [held |-> u, waiting |-> b, queue |-> c, granted |-> d]
  BY <1>1
<1> QED BY <1>2, <1>3, <1>4

\* As many wait as the queue has live entries.
LEMMA WaitersCounted ==
  ASSUME NEW z, NEW W, NEW need, Lined(z, W, need)
  PROVE  /\ IsFiniteSet(W \ z.granted)
         /\ Cardinality(W \ z.granted) = z.waiting
         /\ z.waiting \in Nat /\ (z.waiting > 0 <=> Live(z.queue) # {})
<1> DEFINE L == Live(z.queue)
           f == [i \in L |-> z.queue[i].who]
<1>1. z.queue \in Seq(BufferWaiter)
  BY CensusFields DEF Lined
<1>2. IsFiniteSet(L) /\ Cardinality(L) \in Nat
  BY <1>1, Queue
<1>3. f \in Bijection(L, W \ z.granted)
  <2>1. f \in [L -> W \ z.granted]
    BY DEF Lined
  <2>2. \A x, y \in L : f[x] = f[y] => x = y
    BY DEF Lined
  <2>3. \A c \in W \ z.granted : \E x \in L : f[x] = c
    BY DEF Lined
  <2> QED BY <2>1, <2>2, <2>3 DEF Bijection, Injection, Surjection, IsInjective
<1>4. ExistsBijection(L, W \ z.granted)
  BY <1>3 DEF ExistsBijection
<1>5. z.waiting = Cardinality(L)
  BY DEF Lined
<1>6. IsFiniteSet(W \ z.granted) /\ Cardinality(W \ z.granted) = Cardinality(L)
  BY <1>2, <1>4, FS_Bijection
<1>7. Cardinality(L) = 0 <=> L = {}
  BY <1>2, FS_EmptySet
<1> QED BY <1>2, <1>5, <1>6, <1>7

-----------------------------------------------------------------------------
(* What the operations do *)

LEMMA ClaimLined ==
  ASSUME NEW z, NEW W, NEW need, Lined(z, W, need), NEW n \in Nat
  PROVE  /\ Lined(Claim(z, n), W, need) /\ Claim(z, n).held = z.held + n
         /\ Claim(z, n).granted = z.granted /\ Claim(z, n).queue = z.queue
         /\ Claim(z, n).waiting = z.waiting
<1> DEFINE y == Claim(z, n)
<1>1. z \in Census
  BY DEF Lined
<1>2. y = [held |-> z.held + n, waiting |-> z.waiting, queue |-> z.queue, granted |-> z.granted]
  BY <1>1 DEF Claim, Census
<1>3. z.held + n \in Nat /\ z.waiting \in Nat /\ z.queue \in Seq(BufferWaiter) /\ z.granted \in SUBSET Conn
  BY <1>1, CensusFields
<1> HIDE DEF y
<1>4. y \in Census /\ y.held = z.held + n /\ y.waiting = z.waiting /\ y.queue = z.queue /\ y.granted = z.granted
  BY <1>2, <1>3, MakeCensus
<1>5. Lined(y, W, need)
  BY <1>4 DEF Lined
<1> QED BY <1>4, <1>5 DEF y

LEMMA TakenLined ==
  ASSUME NEW z, NEW W, NEW need, Lined(z, W, need), NEW c \in z.granted
  PROVE  /\ Lined(Taken(z, c), W \ {c}, need) /\ Taken(z, c).held = z.held
         /\ Taken(z, c).granted = z.granted \ {c} /\ Taken(z, c).queue = z.queue
         /\ Taken(z, c).waiting = z.waiting
<1> DEFINE y == Taken(z, c)
<1>1. z \in Census
  BY DEF Lined
<1>2. y = [held |-> z.held, waiting |-> z.waiting, queue |-> z.queue, granted |-> z.granted \ {c}]
  BY <1>1, CensusUpdates DEF Taken
<1>3. z.held \in Nat /\ z.waiting \in Nat /\ z.queue \in Seq(BufferWaiter) /\ z.granted \ {c} \in SUBSET Conn
  BY <1>1, CensusFields
<1> HIDE DEF y
<1>4. y \in Census /\ y.held = z.held /\ y.waiting = z.waiting /\ y.queue = z.queue /\ y.granted = z.granted \ {c}
  BY <1>2, <1>3, MakeCensus
<1>5. (W \ {c}) \ (z.granted \ {c}) = W \ z.granted /\ z.granted \ {c} \subseteq W \ {c}
  BY DEF Lined
<1>6. Lined(y, W \ {c}, need)
  BY <1>4, <1>5 DEF Lined
<1> QED BY <1>4, <1>6 DEF y

LEMMA EnqueueLined ==
  ASSUME NEW z, NEW W, NEW need, Lined(z, W, need), NEW c \in Conn \ W, NEW n \in Nat, need[c] = n
  PROVE  /\ Lined(Enqueue(z, c, n), W \cup {c}, need) /\ Enqueue(z, c, n).held = z.held
         /\ Enqueue(z, c, n).granted = z.granted /\ Enqueue(z, c, n).waiting = z.waiting + 1
         /\ \A ceiling : Blocked(z, ceiling) /\ ~ Claims(z, n, ceiling)
              => Blocked(Enqueue(z, c, n), ceiling)
<1> DEFINE y == Enqueue(z, c, n)
           q == z.queue
           w == Waiter(c, n)
           p == Append(q, w)
           l == Len(q) + 1
<1>1. z \in Census /\ q \in Seq(BufferWaiter) /\ z.held \in Nat /\ z.waiting \in Nat
  BY CensusFields DEF Lined
<1>2. w \in BufferWaiter /\ w.who = c /\ w.bytes = n
  BY DEF Waiter, BufferWaiter
<1>3. y = [held |-> z.held, waiting |-> z.waiting + 1, queue |-> p, granted |-> z.granted]
  BY DEF Enqueue
<1> HIDE DEF w
<1>4. /\ p \in Seq(BufferWaiter) /\ Len(p) = l /\ p[l] = w
      /\ \A i \in 1..Len(q) : p[i] = q[i]
  BY <1>1, <1>2, AppendProperties
<1> HIDE DEF p, y
<1>5. z.waiting + 1 \in Nat /\ z.granted \in SUBSET Conn
  BY <1>1, CensusFields
<1>6. y \in Census /\ y.held = z.held /\ y.waiting = z.waiting + 1 /\ y.queue = p /\ y.granted = z.granted
  BY <1>1, <1>3, <1>4, <1>5, MakeCensus
<1>7. c # Gone
  BY AdmissionConstants
<1>8. Len(q) \in Nat /\ DOMAIN q = 1..Len(q) /\ Live(q) \subseteq 1..Len(q) /\ l \notin Live(q)
      /\ IsFiniteSet(Live(q)) /\ DOMAIN p = 1..l
  <2>1. Len(q) \in Nat /\ DOMAIN q = 1..Len(q) /\ Live(q) \subseteq 1..Len(q) /\ IsFiniteSet(Live(q))
    BY <1>1, Queue
  <2>2. DOMAIN p = 1..l
    BY <1>4, Queue
  <2> QED BY <2>1, <2>2
<1>9. Live(p) = Live(q) \cup {l}
  <2>1. \A i \in 1..l : i \in 1..Len(q) \/ i = l
    BY <1>8
  <2>2. \A i \in 1..Len(q) : i \in 1..l
    BY <1>8
  <2>3. p[l].who # Gone /\ l \in 1..l
    BY <1>2, <1>4, <1>7, <1>8
  <2> QED BY <1>4, <1>8, <2>1, <2>2, <2>3 DEF Live
<1>10. Cardinality(Live(p)) = Cardinality(Live(q)) + 1
  BY <1>8, <1>9, FS_AddElement
<1>11. c \notin z.granted /\ (W \cup {c}) \ z.granted = (W \ z.granted) \cup {c}
  BY DEF Lined
<1>12. \A i \in Live(q) : p[i] = q[i] /\ q[i].who # c
  BY <1>4, <1>8 DEF Lined
<1>13. Lined(y, W \cup {c}, need)
  <2>1. \A i \in Live(p) : p[i].who \in (W \cup {c}) \ z.granted /\ p[i].bytes = need[p[i].who]
    BY <1>2, <1>4, <1>9, <1>11, <1>12 DEF Lined
  <2>2. \A i \in DOMAIN p \ Live(p) : p[i].bytes = 0
    <3>1. \A i \in DOMAIN p \ Live(p) : i \in DOMAIN q \ Live(q)
      BY <1>8, <1>9
    <3> QED BY <1>4, <1>8, <3>1 DEF Lined
  <2>3. \A d \in (W \cup {c}) \ z.granted : \E i \in Live(p) : p[i].who = d
    <3>1. l \in Live(p) /\ p[l].who = c
      BY <1>2, <1>4, <1>9
    <3>2. \A d \in W \ z.granted : \E i \in Live(q) : q[i].who = d
      BY DEF Lined
    <3> QED BY <1>9, <1>11, <1>12, <3>1, <3>2
  <2>4. \A i, j \in Live(p) : p[i].who = p[j].who => i = j
    <3>1. \A i, j \in Live(q) : q[i].who = q[j].who => i = j
      BY DEF Lined
    <3> QED BY <1>2, <1>4, <1>9, <1>12, <3>1
  <2>5. z.waiting = Cardinality(Live(q)) /\ W \cup {c} \subseteq Conn /\ z.granted \subseteq W \cup {c}
    BY DEF Lined
  <2> QED BY <1>6, <1>10, <2>1, <2>2, <2>3, <2>4, <2>5 DEF Lined
<1>14. ASSUME NEW ceiling, Blocked(z, ceiling), ~ Claims(z, n, ceiling)
       PROVE  Blocked(y, ceiling)
  <2>1. CASE Live(q) = {}
    <3>1. Live(p) = {l}
      BY <1>9, <2>1
    <3>2. Min(Live(p)) = l
      <4>1. l \in Live(p) /\ \A j \in Live(p) : l <= j
        BY <1>8, <3>1
      <4> HIDE DEF l
      <4> QED BY <1>4, <4>1, IsFirst
    <3> QED BY <1>2, <1>4, <1>6, <1>14, <3>2 DEF Blocked, Claims
  <2>2. CASE Live(q) # {}
    <3> DEFINE k == Min(Live(q))
    <3>1. k \in Live(q) /\ \A j \in Live(q) : k <= j
      BY <1>1, <2>2, FirstLive
    <3> HIDE DEF k
    <3>2. k \in Live(p) /\ \A j \in Live(p) : k <= j
      BY <1>8, <1>9, <3>1
    <3>3. Min(Live(p)) = k
      BY <1>4, <3>2, IsFirst
    <3>4. ~ Claims(z, q[k].bytes, ceiling)
      BY <1>14, <2>2 DEF Blocked, k
    <3>5. p[k] = q[k]
      BY <1>12, <3>1
    <3> QED BY <1>6, <3>3, <3>4, <3>5 DEF Blocked, Claims
  <2> QED BY <2>1, <2>2
<1> QED BY <1>6, <1>13, <1>14 DEF y

LEMMA AbandonLined ==
  ASSUME NEW z, NEW W, NEW need, Lined(z, W, need), NEW c \in W \ z.granted
  PROVE  LET y == Abandon(z, c)
         IN  /\ Lined(y, W \ {c}, need) /\ y.held = z.held /\ y.granted = z.granted
             /\ y.waiting = z.waiting - 1
             /\ Live(y.queue) \subseteq Live(z.queue)
             /\ \A i \in Live(y.queue) : y.queue[i] = z.queue[i]
<1> DEFINE y == Abandon(z, c)
           q == z.queue
           p == [i \in DOMAIN q |-> IF q[i].who = c THEN Waiter(Gone, 0) ELSE q[i]]
<1>1. z \in Census /\ q \in Seq(BufferWaiter) /\ z.held \in Nat /\ z.waiting \in Nat /\ z.granted \subseteq Conn
  BY CensusFields DEF Lined
<1>2. y = [held |-> z.held, waiting |-> z.waiting - 1, queue |-> p, granted |-> z.granted]
  BY DEF Abandon
<1>3. /\ Len(q) \in Nat /\ DOMAIN q = 1..Len(q) /\ Live(q) \subseteq 1..Len(q)
      /\ IsFiniteSet(Live(q)) /\ Cardinality(Live(q)) \in Nat
      /\ \A i \in 1..Len(q) : q[i] \in BufferWaiter
  BY <1>1, Queue
<1>4. Waiter(Gone, 0) \in BufferWaiter /\ Waiter(Gone, 0).who = Gone /\ Waiter(Gone, 0).bytes = 0
  BY DEF Waiter, BufferWaiter
<1>5. c \in Conn /\ c # Gone
  BY AdmissionConstants DEF Lined
<1>6. p \in Seq(BufferWaiter) /\ Len(p) = Len(q) /\ DOMAIN p = 1..Len(q)
      /\ \A i \in 1..Len(q) : p[i] = IF q[i].who = c THEN Waiter(Gone, 0) ELSE q[i]
  <2>1. \A i \in 1..Len(q) : (IF q[i].who = c THEN Waiter(Gone, 0) ELSE q[i]) \in BufferWaiter
    BY <1>3, <1>4
  <2>2. p = [i \in 1..Len(q) |-> IF q[i].who = c THEN Waiter(Gone, 0) ELSE q[i]]
    BY <1>3
  <2> QED BY <1>3, <2>1, <2>2
<1> HIDE DEF p, y
<1>7. PICK k \in Live(q) : q[k].who = c
  BY DEF Lined
<1>8. \A i \in Live(q) : q[i].who = c => i = k
  BY <1>7 DEF Lined
<1>9. Live(p) = Live(q) \ {k}
  <2>1. ASSUME NEW i \in 1..Len(q)
        PROVE  p[i].who # Gone <=> q[i].who # Gone /\ i # k
    <3>1. CASE q[i].who = c
      <4>1. p[i].who = Gone
        BY <1>4, <1>6, <3>1
      <4>2. i = k
        BY <1>3, <1>5, <1>8, <3>1 DEF Live
      <4> QED BY <4>1, <4>2
    <3>2. CASE q[i].who # c
      <4>1. p[i] = q[i] /\ i # k
        BY <1>6, <1>7, <3>2
      <4> QED BY <4>1
    <3> QED BY <3>1, <3>2
  <2> QED BY <1>3, <1>6, <2>1 DEF Live
<1>10. \A i \in Live(p) : p[i] = q[i] /\ i \in 1..Len(q)
  BY <1>3, <1>6, <1>8, <1>9
<1>11. Cardinality(Live(p)) = Cardinality(Live(q)) - 1 /\ Cardinality(Live(p)) \in Nat
  <2>1. IsFiniteSet(Live(q) \ {k}) /\ Cardinality(Live(q) \ {k}) = Cardinality(Live(q)) - 1
    BY <1>3, FS_RemoveElement
  <2> QED BY <1>9, <2>1, FS_CardinalityType
<1>12. z.waiting - 1 \in Nat /\ z.waiting - 1 = Cardinality(Live(p))
  BY <1>1, <1>11 DEF Lined
<1>13. y \in Census /\ y.held = z.held /\ y.waiting = z.waiting - 1 /\ y.queue = p /\ y.granted = z.granted
  BY <1>1, <1>2, <1>6, <1>12, MakeCensus
<1>14. Lined(y, W \ {c}, need)
  <2>1. \A i \in Live(p) : p[i].who \in (W \ {c}) \ z.granted /\ p[i].bytes = need[p[i].who]
    BY <1>8, <1>9, <1>10 DEF Lined
  <2>2. \A i \in DOMAIN p \ Live(p) : p[i].bytes = 0
    <3> TAKE i \in DOMAIN p \ Live(p)
    <3>1. CASE q[i].who = c
      BY <1>4, <1>6, <3>1
    <3>2. CASE q[i].who # c
      <4>1. p[i] = q[i] /\ i \in DOMAIN q \ Live(q)
        BY <1>3, <1>6, <1>7, <1>9, <3>2
      <4> QED BY <4>1 DEF Lined
    <3> QED BY <3>1, <3>2
  <2>3. \A d \in (W \ {c}) \ z.granted : \E i \in Live(p) : p[i].who = d
    <3> TAKE d \in (W \ {c}) \ z.granted
    <3>1. PICK i \in Live(q) : q[i].who = d
      BY DEF Lined
    <3>2. i \in Live(p)
      BY <1>7, <1>9, <3>1
    <3> QED BY <1>10, <3>1, <3>2
  <2>4. \A i, j \in Live(p) : p[i].who = p[j].who => i = j
    BY <1>9, <1>10 DEF Lined
  <2>5. W \ {c} \subseteq Conn /\ z.granted \subseteq W \ {c}
    BY DEF Lined
  <2> QED BY <1>12, <1>13, <2>1, <2>2, <2>3, <2>4, <2>5 DEF Lined
<1> QED BY <1>9, <1>10, <1>13, <1>14 DEF y

\* The first k entries leave the queue, and the live ones among them are granted.
Woken(z, k) == {z.queue[i].who : i \in Live(z.queue) \cap 1..k}

Dropped(z, k, h) ==
  [held |-> h, waiting |-> z.waiting - Cardinality(Woken(z, k)),
   queue |-> SubSeq(z.queue, k + 1, Len(z.queue)), granted |-> z.granted \cup Woken(z, k)]

LEMMA DropLined ==
  ASSUME NEW z, NEW W, NEW need, Lined(z, W, need), NEW k \in 0..Len(z.queue), NEW h \in Nat
  PROVE  LET y == Dropped(z, k, h)
         IN  /\ Lined(y, W, need) /\ y.held = h /\ y.waiting <= z.waiting
             /\ y.granted = z.granted \cup Woken(z, k)
             /\ Woken(z, k) \subseteq W \ z.granted
             /\ [i \in Live(z.queue) \cap 1..k |-> z.queue[i].who]
                  \in Bijection(Live(z.queue) \cap 1..k, Woken(z, k))
             /\ y.queue = SubSeq(z.queue, k + 1, Len(z.queue))
<1> DEFINE q == z.queue
           n == Len(q)
           p == SubSeq(q, k + 1, n)
           A == Live(q) \cap 1..k
           B == Live(q) \cap (k + 1)..n
           U == Woken(z, k)
           y == Dropped(z, k, h)
<1>1. z \in Census /\ q \in Seq(BufferWaiter) /\ z.held \in Nat /\ z.waiting \in Nat /\ z.granted \subseteq Conn
  BY CensusFields DEF Lined
<1>2. /\ n \in Nat /\ DOMAIN q = 1..n /\ Live(q) \subseteq 1..n
      /\ IsFiniteSet(Live(q)) /\ Cardinality(Live(q)) \in Nat
      /\ \A i \in 1..n : q[i] \in BufferWaiter
  BY <1>1, Queue
<1>3. k \in Nat /\ k <= n
  BY <1>2
<1> HIDE DEF n
<1>4. p \in Seq(BufferWaiter) /\ Len(p) = n - k /\ \A i \in 1..(n - k) : p[i] = q[k + i]
  <2>1. \A i \in (k + 1)..n : q[i] \in BufferWaiter
    BY <1>2, <1>3
  <2>2. p \in Seq(BufferWaiter) /\ Len(p) = (IF k + 1 <= n THEN n - (k + 1) + 1 ELSE 0)
        /\ \A i \in 1..(n - (k + 1) + 1) : p[i] = q[(k + 1) + i - 1]
    BY <1>2, <1>3, <2>1, SubSeqProperties
  <2> HIDE DEF p
  <2>3. n - (k + 1) + 1 = n - k /\ (k + 1 <= n => n - (k + 1) + 1 = n - k) /\ (~ (k + 1 <= n) => n - k = 0)
    BY <1>2, <1>3
  <2>4. \A i \in 1..(n - k) : (k + 1) + i - 1 = k + i
    BY <1>3
  <2>5. Len(p) = n - k
    BY <2>2, <2>3
  <2>6. \A i \in 1..(n - k) : p[i] = q[(k + 1) + i - 1]
    BY <2>2, <2>3, Zenon
  <2> QED BY <2>2, <2>4, <2>5, <2>6
<1> HIDE DEF p
<1>5. DOMAIN p = 1..(n - k)
  BY <1>4, Queue
<1>6. \A i \in 1..(n - k) : i \in Live(p) <=> k + i \in B
  <2> TAKE i \in 1..(n - k)
  <2>1. k + i \in 1..n /\ k + i \in (k + 1)..n
    BY <1>2, <1>3
  <2> QED BY <1>2, <1>4, <1>5, <2>1 DEF Live
<1>7. \A j \in B : j - k \in 1..(n - k) /\ k + (j - k) = j
  BY <1>2, <1>3
<1>8. Live(p) \subseteq 1..(n - k)
  BY <1>5 DEF Live
<1>9. IsFiniteSet(A) /\ IsFiniteSet(B) /\ A \cap B = {} /\ A \cup B = Live(q)
  <2>1. A \in SUBSET Live(q) /\ B \in SUBSET Live(q)
    OBVIOUS
  <2>2. IsFiniteSet(A) /\ IsFiniteSet(B)
    BY <1>2, <2>1, FS_Subset
  <2>3. \A i \in 1..n : i \in 1..k \/ i \in (k + 1)..n
    BY <1>2, <1>3
  <2>4. \A i \in 1..k : i \notin (k + 1)..n
    BY <1>2, <1>3
  <2> QED BY <1>2, <2>2, <2>3, <2>4
<1>10. Cardinality(Live(q)) = Cardinality(A) + Cardinality(B) /\ Cardinality(A) \in Nat /\ Cardinality(B) \in Nat
  <2>1. Cardinality(A \cup B) = Cardinality(A) + Cardinality(B) - Cardinality(A \cap B)
    BY <1>9, FS_Union
  <2>2. Cardinality(A \cap B) = 0 /\ Cardinality(A) \in Nat /\ Cardinality(B) \in Nat
    BY <1>9, FS_EmptySet, FS_CardinalityType
  <2> HIDE DEF A, B
  <2>3. Cardinality(Live(q)) = Cardinality(A) + Cardinality(B) - 0
    BY <1>9, <2>1, <2>2, Zenon
  <2> QED BY <2>2, <2>3
<1>11. Cardinality(Live(p)) = Cardinality(B)
  <2> DEFINE f == [j \in B |-> j - k]
  <2>1. f \in [B -> Live(p)]
    BY <1>6, <1>7
  <2>2. \A x, w \in B : f[x] = f[w] => x = w
    BY <1>2, <1>3
  <2>3. \A i \in Live(p) : \E j \in B : f[j] = i
    <3> TAKE i \in Live(p)
    <3>1. k + i \in B /\ (k + i) - k = i
      BY <1>2, <1>3, <1>6, <1>8
    <3> QED BY <3>1
  <2>4. f \in Bijection(B, Live(p))
    BY <2>1, <2>2, <2>3 DEF Bijection, Injection, Surjection, IsInjective
  <2> HIDE DEF f, B
  <2> QED BY <1>9, <2>4, FS_Bijection DEF ExistsBijection
<1> DEFINE g == [i \in A |-> q[i].who]
<1>12. g \in Bijection(A, U)
  <2>1. g \in [A -> U]
    BY DEF Woken
  <2>2. \A x, w \in A : g[x] = g[w] => x = w
    BY DEF Lined
  <2>3. \A c \in U : \E i \in A : g[i] = c
    BY DEF Woken
  <2> QED BY <2>1, <2>2, <2>3 DEF Bijection, Injection, Surjection, IsInjective
<1>13. Cardinality(U) = Cardinality(A)
  <2> HIDE DEF g, A, U
  <2> QED BY <1>9, <1>12, FS_Bijection DEF ExistsBijection
<1>14. U \subseteq W \ z.granted
  BY DEF Lined, Woken
<1>15. z.waiting = Cardinality(Live(q)) /\ W \subseteq Conn /\ z.granted \subseteq W
  BY DEF Lined
<1>16. z.waiting - Cardinality(U) = Cardinality(Live(p)) /\ z.waiting - Cardinality(U) \in Nat
       /\ z.waiting - Cardinality(U) <= z.waiting
  <2> HIDE DEF A, B, U
  <2> QED BY <1>10, <1>11, <1>13, <1>15
<1> HIDE DEF U
<1> DEFINE w == z.waiting - Cardinality(U)
           G == z.granted \cup U
<1>17. G \in SUBSET Conn /\ w \in Nat /\ w = Cardinality(Live(p))
  BY <1>14, <1>15, <1>16
<1>18. y = [held |-> h, waiting |-> w, queue |-> p, granted |-> G]
  BY DEF p, U, n, Dropped
<1> HIDE DEF w, G, y
<1>19. y \in Census /\ y.held = h /\ y.waiting = w /\ y.queue = p /\ y.granted = G
  BY <1>4, <1>17, <1>18, MakeCensus
<1>20. \A i \in A : q[i].who \in U
  BY DEF Woken, U
<1>21. \A j \in B : q[j].who \notin U
  <2> TAKE j \in B
  <2> SUFFICES ASSUME q[j].who \in U PROVE FALSE
    OBVIOUS
  <2>1. PICK i \in A : q[i].who = q[j].who
    BY DEF Woken, U
  <2>2. i = j
    BY <2>1 DEF Lined
  <2> QED BY <1>9, <2>2
<1>22. Lined(y, W, need)
  <2>1. \A i \in Live(p) : p[i].who \in W \ G /\ p[i].bytes = need[p[i].who]
    <3> TAKE i \in Live(p)
    <3>1. k + i \in B /\ p[i] = q[k + i]
      BY <1>4, <1>6, <1>8
    <3> QED BY <1>21, <3>1 DEF Lined, G
  <2>2. \A i \in DOMAIN p \ Live(p) : p[i].bytes = 0
    <3> TAKE i \in DOMAIN p \ Live(p)
    <3>1. k + i \notin B /\ p[i] = q[k + i] /\ k + i \in (k + 1)..n /\ k + i \in 1..n
      BY <1>2, <1>3, <1>4, <1>5, <1>6
    <3>2. k + i \in DOMAIN q \ Live(q)
      BY <1>2, <3>1
    <3> QED BY <3>1, <3>2 DEF Lined
  <2>3. \A c \in W \ G : \E i \in Live(p) : p[i].who = c
    <3> TAKE c \in W \ G
    <3>1. PICK j \in Live(q) : q[j].who = c
      BY DEF Lined, G
    <3>2. j \in B
      BY <1>9, <1>20, <3>1 DEF G
    <3>3. j - k \in Live(p) /\ p[j - k] = q[j]
      BY <1>4, <1>6, <1>7, <3>2
    <3> QED BY <3>1, <3>3
  <2>4. \A i, j \in Live(p) : p[i].who = p[j].who => i = j
    <3> TAKE i, j \in Live(p)
    <3> HAVE p[i].who = p[j].who
    <3>1. k + i \in B /\ k + j \in B /\ q[k + i].who = q[k + j].who
      BY <1>4, <1>6, <1>8
    <3>2. k + i = k + j
      BY <3>1 DEF Lined
    <3> QED BY <1>3, <1>8, <3>2
  <2>5. G \subseteq W /\ W \subseteq Conn
    BY <1>14, <1>15 DEF G
  <2> QED BY <1>16, <1>17, <1>19, <2>1, <2>2, <2>3, <2>4, <2>5 DEF Lined
<1>23. y.waiting <= z.waiting
  BY <1>16, <1>19 DEF w
<1> QED BY <1>12, <1>14, <1>19, <1>22, <1>23 DEF U, p, n, G, y

-----------------------------------------------------------------------------
(* What is held is what is owned and what was granted: own says what each  *)
(* connection owns.                                                        *)

Kept(z, W, own, need, C) ==
  /\ Lined(z, W, need)
  /\ \A d \in Conn : own[d] \in Nat
  /\ \A d \in W : need[d] \in Nat
  /\ z.held = SumFunctionOnSet(own, Conn) + SumFunctionOnSet(need, z.granted)
  /\ z.held <= C

Changed(f, g, c) == \A d \in Conn \ {c} : g[d] = f[d]

LEMMA LinedSame ==
  ASSUME NEW z, NEW W, NEW need, Lined(z, W, need), NEW need2, \A d \in W : need2[d] = need[d]
  PROVE  Lined(z, W, need2)
BY DEF Lined

LEMMA GrantsFinite ==
  ASSUME NEW z, NEW W, NEW need, Lined(z, W, need), \A d \in W : need[d] \in Nat
  PROVE  /\ IsFiniteSet(z.granted) /\ z.granted \subseteq W
         /\ \A d \in z.granted : need[d] \in Nat
         /\ SumFunctionOnSet(need, z.granted) \in Nat
<1>1. z.granted \in SUBSET Conn /\ z.granted \subseteq W
  BY DEF Lined
<1>2. IsFiniteSet(z.granted)
  BY <1>1, FS_Subset, AdmissionConstants
<1> QED BY <1>1, <1>2, SumType

LEMMA OwnChanged ==
  ASSUME NEW own, \A d \in Conn : own[d] \in Nat, NEW own2, NEW c \in Conn, own2[c] \in Nat,
         Changed(own, own2, c)
  PROVE  /\ \A d \in Conn : own2[d] \in Nat
         /\ SumFunctionOnSet(own, Conn) \in Nat /\ own[c] <= SumFunctionOnSet(own, Conn)
         /\ SumFunctionOnSet(own2, Conn) = SumFunctionOnSet(own, Conn) - own[c] + own2[c]
<1>1. IsFiniteSet(Conn)
  BY AdmissionConstants
<1>2. \A d \in Conn : own2[d] \in Nat
  BY DEF Changed
<1>3. \A d \in Conn \ {c} : own2[d] = own[d]
  BY DEF Changed
<1> QED BY <1>1, <1>2, <1>3, SumType, SumBound, SumChange

\* Somebody who does not wait here moves.
LEMMA KeptSame ==
  ASSUME NEW C \in Nat, NEW z, NEW W, NEW own, NEW need, Kept(z, W, own, need, C),
         NEW c \in Conn, c \notin W, NEW own2, NEW need2, Changed(own, own2, c), Changed(need, need2, c),
         own2[c] = own[c]
  PROVE  Kept(z, W \ {c}, own2, need2, C)
<1>1. W \ {c} = W /\ W \subseteq Conn /\ own2[c] \in Nat
  BY DEF Kept, Lined
<1>2. \A d \in W : need2[d] = need[d]
  BY <1>1 DEF Changed
<1>3. Lined(z, W, need2) /\ \A d \in W : need2[d] \in Nat
  BY <1>2, LinedSame DEF Kept
<1>4. IsFiniteSet(z.granted) /\ z.granted \subseteq W
  <2>1. Lined(z, W, need) /\ \A d \in W : need[d] \in Nat
    BY DEF Kept
  <2> QED BY <2>1, GrantsFinite
<1>5. SumFunctionOnSet(need2, z.granted) = SumFunctionOnSet(need, z.granted)
  <2>1. \A d \in z.granted : need[d] \in Nat /\ need2[d] = need[d]
    BY <1>2, <1>4 DEF Kept
  <2> QED BY <1>4, <2>1, SumSame
<1>6. /\ \A d \in Conn : own2[d] \in Nat
      /\ SumFunctionOnSet(own2, Conn) = SumFunctionOnSet(own, Conn)
  <2>1. /\ \A d \in Conn : own2[d] \in Nat
        /\ SumFunctionOnSet(own, Conn) \in Nat /\ own[c] \in Nat
        /\ SumFunctionOnSet(own2, Conn) = SumFunctionOnSet(own, Conn) - own[c] + own2[c]
    BY <1>1, OwnChanged DEF Kept
  <2> DEFINE S == SumFunctionOnSet(own, Conn)
             T == SumFunctionOnSet(own2, Conn)
  <2> HIDE DEF S, T
  <2>2. T = S
    BY <2>1 DEF S, T
  <2> QED BY <2>1, <2>2 DEF S, T
<1> QED BY <1>1, <1>3, <1>5, <1>6 DEF Kept

\* A granted waiter goes on with what it asked for.
LEMMA KeptTaken ==
  ASSUME NEW C \in Nat, NEW z, NEW W, NEW own, NEW need, Kept(z, W, own, need, C),
         NEW c \in z.granted, NEW own2, NEW need2, Changed(own, own2, c), Changed(need, need2, c),
         own2[c] = own[c] + need[c]
  PROVE  Kept(Taken(z, c), W \ {c}, own2, need2, C)
<1> DEFINE y == Taken(z, c)
<1>1. Lined(z, W, need) /\ \A d \in W : need[d] \in Nat
  BY DEF Kept
<1>2. c \in W /\ W \subseteq Conn /\ z.granted \subseteq W
  BY <1>1 DEF Lined
<1>3. Lined(y, W \ {c}, need) /\ y.held = z.held /\ y.granted = z.granted \ {c}
  BY <1>1, TakenLined
<1> HIDE DEF y
<1>4. \A d \in W \ {c} : need2[d] = need[d]
  BY <1>2 DEF Changed
<1>5. Lined(y, W \ {c}, need2) /\ \A d \in W \ {c} : need2[d] \in Nat
  BY <1>1, <1>3, <1>4, LinedSame
<1>6. IsFiniteSet(z.granted) /\ \A d \in z.granted : need[d] \in Nat
  BY <1>1, GrantsFinite
<1>7. IsFiniteSet(z.granted \ {c})
  BY <1>6, FS_RemoveElement
<1>8. SumFunctionOnSet(need, z.granted) = need[c] + SumFunctionOnSet(need, z.granted \ {c})
  BY <1>6, SumRemove
<1>9. SumFunctionOnSet(need2, y.granted) = SumFunctionOnSet(need, z.granted \ {c})
  <2>1. \A d \in z.granted \ {c} : need[d] \in Nat /\ need2[d] = need[d]
    BY <1>2, <1>4, <1>6
  <2> QED BY <1>3, <1>7, <2>1, SumSame
<1>10. SumFunctionOnSet(need, z.granted \ {c}) \in Nat /\ need[c] \in Nat
  BY <1>6, <1>7, SumType
<1>11. c \in Conn /\ own[c] \in Nat /\ own2[c] \in Nat
  BY <1>2, <1>10 DEF Kept
<1>12. /\ \A d \in Conn : own2[d] \in Nat
       /\ SumFunctionOnSet(own, Conn) \in Nat
       /\ SumFunctionOnSet(own2, Conn) = SumFunctionOnSet(own, Conn) - own[c] + own2[c]
  BY <1>11, OwnChanged DEF Kept
<1>13. z.held = SumFunctionOnSet(own, Conn) + SumFunctionOnSet(need, z.granted) /\ z.held <= C
  BY DEF Kept
<1>14. y.held = SumFunctionOnSet(own2, Conn) + SumFunctionOnSet(need2, y.granted)
  <2> DEFINE S == SumFunctionOnSet(own, Conn)
             T == SumFunctionOnSet(own2, Conn)
             A == SumFunctionOnSet(need, z.granted)
             B == SumFunctionOnSet(need, z.granted \ {c})
             D == SumFunctionOnSet(need2, y.granted)
  <2>1. S \in Nat /\ B \in Nat /\ need[c] \in Nat /\ own[c] \in Nat
        /\ T = S - own[c] + (own[c] + need[c]) /\ A = need[c] + B /\ D = B /\ y.held = S + A
    BY <1>3, <1>8, <1>9, <1>10, <1>11, <1>12, <1>13
  <2> HIDE DEF S, T, A, B, D
  <2>2. y.held = T + D
    BY <2>1
  <2> QED BY <2>2 DEF T, D
<1> QED BY <1>3, <1>5, <1>12, <1>13, <1>14 DEF Kept, y

\* The first k entries leave; what the granted ones asked for is held.
LEMMA BytesGranted ==
  ASSUME NEW z, NEW W, NEW need, Lined(z, W, need), \A d \in W : need[d] \in Nat,
         NEW k \in 0..Len(z.queue)
  PROVE  /\ BytesOf(z.queue, k) \in Nat
         /\ BytesOf(z.queue, k) = SumFunctionOnSet(need, Woken(z, k))
         /\ IsFiniteSet(Woken(z, k))
         /\ \A i \in Live(z.queue) \cap 1..k :
              (\A j \in Live(z.queue) \cap 1..k : j <= i)
                => BytesOf(z.queue, i) = BytesOf(z.queue, k)
         /\ Live(z.queue) \cap 1..k = {} => BytesOf(z.queue, k) = 0
         /\ \A j \in Live(z.queue) :
              (k < j /\ \A i \in Live(z.queue) : k < i => j <= i)
                => BytesOf(z.queue, j) = BytesOf(z.queue, k) + z.queue[j].bytes
<1> DEFINE q == z.queue
           f == [i \in DOMAIN q |-> q[i].bytes]
           L(j) == Live(q) \cap 1..j
<1>1. q \in Seq(BufferWaiter)
  BY CensusFields DEF Lined
<1>2. /\ Len(q) \in Nat /\ DOMAIN q = 1..Len(q) /\ Live(q) \subseteq 1..Len(q)
      /\ \A i \in 1..Len(q) : q[i].bytes \in Nat
  BY <1>1, Queue
<1>3. \A i \in 1..Len(q) : f[i] = q[i].bytes /\ f[i] \in Nat
  BY <1>2
<1>4. \A i \in 1..Len(q) : i \notin Live(q) => f[i] = 0
  BY <1>2, <1>3 DEF Lined
<1> DEFINE B(j) == BytesOf(q, j)
<1> HIDE DEF f
<1>5. ASSUME NEW j \in 0..Len(q)
      PROVE  /\ IsFiniteSet(1..j) /\ L(j) \in SUBSET (1..j) /\ 1..j \subseteq 1..Len(q)
             /\ B(j) = SumFunctionOnSet(f, 1..j) /\ B(j) = SumFunctionOnSet(f, L(j)) /\ B(j) \in Nat
  <2>1. IsFiniteSet(1..j) /\ 1..j \subseteq 1..Len(q) /\ L(j) \in SUBSET (1..j)
    <3>1. j \in Nat /\ j <= Len(q)
      BY <1>2
    <3>2. IsFiniteSet(1..j)
      BY <3>1, FS_Interval
    <3>3. 1..j \subseteq 1..Len(q)
      BY <1>2, <3>1
    <3> QED BY <3>2, <3>3
  <2>2. B(j) = SumFunctionOnSet(f, 1..j)
    BY DEF BytesOf, f
  <2>3. \A i \in 1..j : f[i] \in Nat
    BY <1>3, <2>1
  <2>4. \A i \in (1..j) \ L(j) : f[i] = 0
    BY <1>4, <2>1
  <2>5. SumFunctionOnSet(f, L(j)) = SumFunctionOnSet(f, 1..j)
    BY <2>1, <2>3, <2>4, SumSupport
  <2>6. SumFunctionOnSet(f, 1..j) \in Nat
    BY <2>1, <2>3, SumType
  <2> QED BY <2>1, <2>2, <2>5, <2>6
<1>6. B(k) = SumFunctionOnSet(need, Woken(z, k)) /\ IsFiniteSet(Woken(z, k))
  <2> DEFINE g == [i \in L(k) |-> q[i].who]
  <2>1. g \in Bijection(L(k), Woken(z, k))
    <3>1. 0 \in Nat
      OBVIOUS
    <3> QED BY <3>1, DropLined
  <2>2. \A i \in L(k) : need[g[i]] = f[i] /\ f[i] \in Nat
    BY <1>2, <1>3 DEF Lined
  <2>3. IsFiniteSet(L(k))
    BY <1>5, FS_Subset
  <2> HIDE DEF g
  <2>4. SumFunctionOnSet(need, Woken(z, k)) = SumFunctionOnSet(f, L(k))
    BY <2>1, <2>2, <2>3, SumReindex
  <2>5. IsFiniteSet(Woken(z, k))
    BY <2>1, <2>3, FS_Bijection DEF ExistsBijection
  <2> QED BY <1>5, <2>4, <2>5
<1>7. ASSUME NEW i \in L(k), \A j \in L(k) : j <= i
      PROVE  B(i) = B(k)
  <2>1. i \in 0..Len(q) /\ i <= k
    BY <1>2
  <2>2. L(i) = L(k)
    <3>1. \A j \in L(k) : j \in 1..i
      BY <1>7
    <3>2. \A j \in 1..i : j \in 1..k
      BY <2>1
    <3> QED BY <3>1, <3>2
  <2> QED BY <1>5, <2>1, <2>2
<1>8. L(k) = {} => B(k) = 0
  BY <1>5, SumEmpty
<1>9. ASSUME NEW j \in Live(q), k < j, \A i \in Live(q) : k < i => j <= i
      PROVE  B(j) = B(k) + q[j].bytes
  <2>1. j \in 0..Len(q) /\ j \in 1..j /\ j \notin L(k)
    BY <1>2, <1>9
  <2>2. L(j) = L(k) \cup {j}
    <3>1. \A i \in L(j) : i \in L(k) \/ i = j
      BY <1>2, <1>9
    <3>2. \A i \in 1..k : i \in 1..j
      BY <1>2, <1>9
    <3> QED BY <2>1, <3>1, <3>2
  <2>3. IsFiniteSet(L(k)) /\ \A i \in L(k) : f[i] \in Nat
    BY <1>3, <1>5, FS_Subset
  <2>4. SumFunctionOnSet(f, L(k) \cup {j}) = f[j] + SumFunctionOnSet(f, L(k))
    BY <1>2, <1>3, <2>1, <2>3, SumAdd
  <2>5. B(j) = f[j] + B(k) /\ f[j] = q[j].bytes /\ f[j] \in Nat /\ B(k) \in Nat
    BY <1>2, <1>3, <1>5, <2>1, <2>2, <2>4
  <2> HIDE DEF B
  <2> QED BY <2>5
<1>10. B(k) \in Nat
  BY <1>5
<1> QED BY <1>6, <1>7, <1>8, <1>9, <1>10

\* What stands first in a queue whose first k entries have left.
LEMMA FirstLeft ==
  ASSUME NEW q \in Seq(BufferWaiter), NEW k \in 0..Len(q), Live(SubSeq(q, k + 1, Len(q))) # {}
  PROVE  LET p == SubSeq(q, k + 1, Len(q))
             j == k + Min(Live(p))
         IN  /\ j \in Live(q) /\ k < j /\ p[Min(Live(p))] = q[j]
             /\ \A i \in Live(q) : k < i => j <= i
<1> DEFINE n == Len(q)
           p == SubSeq(q, k + 1, n)
           m == Min(Live(p))
<1>1. n \in Nat /\ k \in Nat /\ k <= n /\ DOMAIN q = 1..n /\ \A i \in 1..n : q[i] \in BufferWaiter
  BY Queue
<1>2. \A i \in (k + 1)..n : q[i] \in BufferWaiter
  BY <1>1
<1> HIDE DEF n
<1>3. p \in Seq(BufferWaiter) /\ Len(p) = (IF k + 1 <= n THEN n - (k + 1) + 1 ELSE 0)
      /\ \A i \in 1..(n - (k + 1) + 1) : p[i] = q[(k + 1) + i - 1]
  BY <1>1, <1>2, SubSeqProperties
<1> HIDE DEF p
<1>4. Len(p) = n - k
  BY <1>1, <1>3
<1>5. \A i \in 1..(n - k) : p[i] = q[k + i]
  <2>1. \A i \in 1..(n - k) : (k + 1) + i - 1 = k + i /\ i \in 1..(n - (k + 1) + 1)
    BY <1>1
  <2> QED BY <1>3, <2>1
<1>6. DOMAIN p = 1..(n - k) /\ Live(p) \subseteq 1..(n - k)
  BY <1>3, <1>4, Queue
<1>7. m \in Live(p) /\ \A i \in Live(p) : m <= i
  BY <1>3, FirstLive DEF p, n
<1> HIDE DEF m
<1>8. k + m \in 1..n /\ k < k + m /\ p[m] = q[k + m]
  BY <1>1, <1>5, <1>6, <1>7
<1>9. k + m \in Live(q)
  BY <1>1, <1>7, <1>8 DEF Live
<1>10. ASSUME NEW i \in Live(q), k < i
       PROVE  k + m <= i
  <2>1. i \in 1..n /\ q[i].who # Gone
    BY <1>1 DEF Live
  <2>2. i - k \in 1..(n - k) /\ k + (i - k) = i
    BY <1>1, <1>10, <2>1
  <2>3. i - k \in Live(p)
    BY <1>5, <1>6, <2>1, <2>2 DEF Live
  <2>4. m \in Nat /\ m <= i - k
    BY <1>6, <1>7, <2>3
  <2> QED BY <1>1, <2>1, <2>4
<1> QED BY <1>8, <1>9, <1>10 DEF m, p, n

\* A release grants those at the front for as long as they fit.
LEMMA GrantKept ==
  ASSUME NEW C \in Nat, NEW z, NEW W, NEW own, NEW need, Kept(z, W, own, need, C)
  PROVE  /\ Kept(GrantWithin(C, z), W, own, need, C)
         /\ Blocked(GrantWithin(C, z), C)
         /\ GrantWithin(C, z).waiting <= z.waiting
<1> DEFINE q == z.queue
           T == {j \in 0..Len(q) : \A i \in Live(q) : i <= j => z.held + BytesOf(q, i) <= C}
<1>1. Lined(z, W, need) /\ \A d \in W : need[d] \in Nat
  BY DEF Kept
<1>2. z.held \in Nat /\ q \in Seq(BufferWaiter) /\ z.held <= C
  BY <1>1, CensusFields DEF Kept, Lined
<1>3. Len(q) \in Nat /\ Live(q) \subseteq 1..Len(q) /\ \A i \in 1..Len(q) : q[i].bytes \in Nat
  BY <1>2, Queue
<1>4. PICK k \in T : k = Max(T) /\ \A j \in T : j <= k
  <2>1. T \subseteq 0..Len(q) /\ 0 \in T
    BY <1>3
  <2>2. \E d \in T : \A e \in T : e <= d
    BY <1>3, <2>1, Greatest
  <2> QED BY <2>2 DEF Max
<1>5. PICK h : h = z.held + BytesOf(q, k)
  OBVIOUS
<1> DEFINE y == Dropped(z, k, h)
<1>13. GrantWithin(C, z) = y
  BY <1>4, <1>5 DEF GrantWithin, Dropped, Woken
<1>6. k \in 0..Len(q) /\ \A i \in Live(q) : i <= k => z.held + BytesOf(q, i) <= C
  BY <1>4
<1>7. BytesOf(q, k) \in Nat /\ IsFiniteSet(Woken(z, k))
      /\ BytesOf(q, k) = SumFunctionOnSet(need, Woken(z, k))
  BY <1>1, <1>6, BytesGranted
<1>8. h \in Nat /\ h <= C
  <2>1. CASE Live(q) \cap 1..k = {}
    <3>1. BytesOf(q, k) = 0
      BY <1>1, <1>6, <2>1, BytesGranted
    <3> QED BY <1>2, <1>5, <3>1
  <2>2. CASE Live(q) \cap 1..k # {}
    <3> DEFINE A == Live(q) \cap 1..k
    <3>1. A \subseteq 0..Len(q)
      BY <1>3
    <3>2. PICK i \in A : \A j \in A : j <= i
      BY <1>3, <2>2, <3>1, Greatest
    <3>3. BytesOf(q, i) = BytesOf(q, k)
      BY <1>1, <1>6, <3>2, BytesGranted
    <3>4. i <= k
      BY <1>3, <3>2
    <3> QED BY <1>2, <1>5, <1>6, <1>7, <3>2, <3>3, <3>4
  <2> QED BY <2>1, <2>2
<1> HIDE DEF T
<1>9. /\ Lined(y, W, need) /\ y.held = h /\ y.waiting <= z.waiting
      /\ y.granted = z.granted \cup Woken(z, k)
      /\ Woken(z, k) \subseteq W \ z.granted
      /\ y.queue = SubSeq(q, k + 1, Len(q))
  <2>1. Lined(z, W, need) /\ k \in 0..Len(z.queue) /\ h \in Nat
    BY <1>1, <1>6, <1>8
  <2>2. Lined(y, W, need)
    BY <2>1, DropLined
  <2>3. y.held = h
    BY <2>1 DEF Dropped
  <2>4. y.waiting <= z.waiting
    BY <2>1, DropLined
  <2>5. y.granted = z.granted \cup Woken(z, k)
    BY <2>1 DEF Dropped
  <2>6. Woken(z, k) \subseteq W \ z.granted
    BY <2>1, DropLined
  <2>7. y.queue = SubSeq(q, k + 1, Len(q))
    BY <2>1, DropLined
  <2> QED BY <2>2, <2>3, <2>4, <2>5, <2>6, <2>7
<1> HIDE DEF y
<1>10. y.held = SumFunctionOnSet(own, Conn) + SumFunctionOnSet(need, y.granted)
  <2>1. /\ IsFiniteSet(z.granted) /\ \A d \in z.granted : need[d] \in Nat
        /\ SumFunctionOnSet(need, z.granted) \in Nat
    BY <1>1, GrantsFinite
  <2>2. z.granted \cap Woken(z, k) = {} /\ \A d \in Woken(z, k) : need[d] \in Nat
    BY <1>1, <1>9
  <2>3. SumFunctionOnSet(need, z.granted \cup Woken(z, k))
          = SumFunctionOnSet(need, z.granted) + SumFunctionOnSet(need, Woken(z, k))
    BY <1>7, <2>1, <2>2, SumUnion
  <2>4. z.held = SumFunctionOnSet(own, Conn) + SumFunctionOnSet(need, z.granted)
        /\ SumFunctionOnSet(own, Conn) \in Nat
    <3>1. \A d \in Conn : own[d] \in Nat
      BY DEF Kept
    <3> QED BY <3>1, SumType, AdmissionConstants DEF Kept
  <2> DEFINE S == SumFunctionOnSet(own, Conn)
             A == SumFunctionOnSet(need, z.granted)
             B == SumFunctionOnSet(need, y.granted)
             D == BytesOf(q, k)
  <2>5. S \in Nat /\ A \in Nat /\ D \in Nat /\ h = (S + A) + D /\ B = A + D
    <3>1. B = A + D
      BY <1>7, <1>9, <2>3, Zenon
    <3>2. h = (S + A) + D
      BY <1>5, <2>4, Zenon
    <3> QED BY <1>7, <2>1, <2>4, <3>1, <3>2
  <2> HIDE DEF S, A, B, D
  <2>6. h = S + B
    BY <2>5
  <2> QED BY <1>9, <2>6 DEF S, B
<1>11. Kept(y, W, own, need, C)
  BY <1>1, <1>8, <1>9, <1>10 DEF Kept
<1>12. Blocked(y, C)
  <2> SUFFICES ASSUME Live(y.queue) # {} PROVE ~ Claims(y, y.queue[Min(Live(y.queue))].bytes, C)
    BY DEF Blocked
  <2> DEFINE p == SubSeq(q, k + 1, Len(q))
             j == k + Min(Live(p))
  <2>1. j \in Live(q) /\ k < j /\ p[Min(Live(p))] = q[j] /\ \A i \in Live(q) : k < i => j <= i
    BY <1>2, <1>6, <1>9, FirstLeft
  <2>2. BytesOf(q, j) = BytesOf(q, k) + q[j].bytes
    BY <1>1, <1>6, <2>1, BytesGranted
  <2> HIDE DEF j, p
  <2>3. j \in 0..Len(q) /\ j \notin T
    BY <1>3, <1>4, <1>6, <2>1 DEF T
  <2>4. PICK i \in Live(q) : i <= j /\ ~ (z.held + BytesOf(q, i) <= C)
    BY <2>3 DEF T
  <2>5. i = j
    BY <1>3, <1>6, <2>1, <2>4
  <2>6. ~ (h + q[j].bytes <= C)
    BY <1>2, <1>3, <1>5, <1>7, <2>1, <2>2, <2>4, <2>5
  <2> QED BY <1>9, <2>1, <2>6 DEF Claims, p
<1> QED BY <1>9, <1>11, <1>12, <1>13

\* Blocked needs no more than that more is held, or that fewer wait for as much.
LEMMA BlockedSame ==
  ASSUME NEW C, NEW z, NEW y, Blocked(z, C), y.queue = z.queue, y.held = z.held
  PROVE  Blocked(y, C)
BY DEF Blocked, Claims

LEMMA BlockedAlike ==
  ASSUME NEW C \in Nat, NEW n \in Nat, NEW z, NEW W, NEW need, Lined(z, W, need),
         \A d \in W : need[d] = n
  PROVE  Blocked(z, C) <=> (Live(z.queue) # {} => ~ (z.held + n <= C))
<1>1. z.queue \in Seq(BufferWaiter)
  BY CensusFields DEF Lined
<1>2. ASSUME Live(z.queue) # {}
      PROVE  z.queue[Min(Live(z.queue))].bytes = n
  <2>1. Min(Live(z.queue)) \in Live(z.queue)
    BY <1>1, <1>2, FirstLive
  <2> QED BY <2>1 DEF Lined
<1> QED BY <1>2 DEF Blocked, Claims

\* More is claimed within the ceiling.
LEMMA KeptClaim ==
  ASSUME NEW C \in Nat, NEW z, NEW W, NEW own, NEW need, Kept(z, W, own, need, C),
         NEW c \in Conn, c \notin W, NEW own2, NEW need2, Changed(own, own2, c), Changed(need, need2, c),
         NEW n \in Nat, own2[c] = own[c] + n, Claims(z, n, C)
  PROVE  /\ Kept(Claim(z, n), W \ {c}, own2, need2, C) /\ Claim(z, n).waiting = z.waiting
         /\ Blocked(z, C) => Blocked(Claim(z, n), C)
<1> DEFINE y == Claim(z, n)
<1>1. W \ {c} = W /\ W \subseteq Conn
  BY DEF Kept, Lined
<1>2. \A d \in W : need2[d] = need[d]
  BY <1>1 DEF Changed
<1>3. Lined(z, W, need2) /\ \A d \in W : need2[d] \in Nat
  BY <1>2, LinedSame DEF Kept
<1>4. /\ IsFiniteSet(z.granted) /\ z.granted \subseteq W
      /\ \A d \in z.granted : need2[d] \in Nat
      /\ SumFunctionOnSet(need2, z.granted) \in Nat
  BY <1>3, GrantsFinite
<1>5. SumFunctionOnSet(need2, z.granted) = SumFunctionOnSet(need, z.granted)
  <2>1. \A d \in z.granted : need[d] \in Nat /\ need2[d] = need[d]
    BY <1>2, <1>4 DEF Kept
  <2> QED BY <1>4, <2>1, SumSame
<1>6. own[c] \in Nat /\ own2[c] \in Nat
  BY DEF Kept
<1>7. /\ \A d \in Conn : own2[d] \in Nat
      /\ SumFunctionOnSet(own, Conn) \in Nat
      /\ SumFunctionOnSet(own2, Conn) = SumFunctionOnSet(own, Conn) - own[c] + own2[c]
  BY <1>6, OwnChanged DEF Kept
<1>8. /\ Lined(y, W, need2) /\ y.held = z.held + n
      /\ y.granted = z.granted /\ y.queue = z.queue /\ y.waiting = z.waiting
  BY <1>3, ClaimLined
<1>9. z.held = SumFunctionOnSet(own, Conn) + SumFunctionOnSet(need, z.granted)
  BY DEF Kept
<1>10. z.held \in Nat /\ z.queue \in Seq(BufferWaiter)
  BY <1>3, CensusFields DEF Lined
<1>11. y.held <= C
  BY <1>8 DEF Claims
<1> HIDE DEF y
<1>12. y.held = SumFunctionOnSet(own2, Conn) + SumFunctionOnSet(need2, y.granted)
  <2> DEFINE S == SumFunctionOnSet(own, Conn)
             T == SumFunctionOnSet(own2, Conn)
             A == SumFunctionOnSet(need, z.granted)
             D == SumFunctionOnSet(need2, y.granted)
  <2>1. A = D
    BY <1>5, <1>8
  <2>2. S \in Nat /\ A \in Nat /\ own[c] \in Nat /\ T = S - own[c] + (own[c] + n)
        /\ y.held = (S + A) + n
    BY <1>4, <1>5, <1>6, <1>7, <1>8, <1>9
  <2> HIDE DEF S, T, A, D
  <2>3. y.held = T + D
    BY <2>1, <2>2
  <2> QED BY <2>3 DEF T, D
<1>13. Kept(y, W, own2, need2, C)
  BY <1>3, <1>7, <1>8, <1>11, <1>12 DEF Kept
<1>14. Blocked(z, C) => Blocked(y, C)
  <2> SUFFICES ASSUME Blocked(z, C), Live(z.queue) # {}
               PROVE  ~ Claims(y, z.queue[Min(Live(z.queue))].bytes, C)
    BY <1>8 DEF Blocked
  <2> DEFINE m == Min(Live(z.queue))
  <2>1. m \in Live(z.queue)
    BY <1>10, FirstLive
  <2>2. z.queue[m].bytes \in Nat
    BY <1>10, <2>1, Queue
  <2>3. ~ (z.held + z.queue[m].bytes <= C)
    BY DEF Blocked, Claims
  <2> HIDE DEF m
  <2>4. ~ (y.held + z.queue[m].bytes <= C)
    BY <1>8, <1>10, <2>2, <2>3
  <2> QED BY <2>4 DEF Claims, m
<1> QED BY <1>1, <1>8, <1>13, <1>14 DEF y

\* Somebody who finds no room queues.
LEMMA KeptEnqueue ==
  ASSUME NEW C \in Nat, NEW z, NEW W, NEW own, NEW need, Kept(z, W, own, need, C),
         NEW c \in Conn, c \notin W, NEW own2, NEW need2, Changed(own, own2, c), Changed(need, need2, c),
         own2[c] = own[c], NEW n \in Nat, need2[c] = n, ~ Claims(z, n, C)
  PROVE  /\ Kept(Enqueue(z, c, n), W \cup {c}, own2, need2, C)
         /\ Enqueue(z, c, n).waiting = z.waiting + 1
         /\ Blocked(z, C) => Blocked(Enqueue(z, c, n), C)
<1> DEFINE y == Enqueue(z, c, n)
<1>1. Kept(z, W, own2, need2, C)
  <2>1. Kept(z, W \ {c}, own2, need2, C)
    BY KeptSame
  <2>2. W \ {c} = W
    OBVIOUS
  <2> QED BY <2>1, <2>2
<1>2. Lined(z, W, need2)
  BY <1>1 DEF Kept
<1>3. /\ Lined(y, W \cup {c}, need2) /\ y.held = z.held
      /\ y.granted = z.granted /\ y.waiting = z.waiting + 1
      /\ \A ceiling : Blocked(z, ceiling) /\ ~ Claims(z, n, ceiling) => Blocked(y, ceiling)
  BY <1>2, EnqueueLined
<1> HIDE DEF y
<1>4. Kept(y, W \cup {c}, own2, need2, C)
  <2>1. \A d \in W \cup {c} : need2[d] \in Nat
    BY <1>1 DEF Kept
  <2> QED BY <1>1, <1>3, <2>1 DEF Kept
<1> QED BY <1>3, <1>4 DEF y

\* A waiter whose time has run out leaves.
LEMMA KeptAbandon ==
  ASSUME NEW C \in Nat, NEW z, NEW W, NEW own, NEW need, Kept(z, W, own, need, C),
         NEW c \in W \ z.granted, NEW own2, NEW need2, Changed(own, own2, c), Changed(need, need2, c),
         own2[c] = own[c]
  PROVE  Kept(Abandon(z, c), W \ {c}, own2, need2, C) /\ Abandon(z, c).waiting <= z.waiting
<1> DEFINE y == Abandon(z, c)
<1>1. Lined(z, W, need) /\ W \subseteq Conn /\ z.granted \subseteq W /\ c \in Conn
  BY DEF Kept, Lined
<1>2. /\ Lined(y, W \ {c}, need) /\ y.held = z.held /\ y.granted = z.granted
      /\ y.waiting = z.waiting - 1 /\ Live(y.queue) \subseteq Live(z.queue)
  BY <1>1, AbandonLined
<1>3. z.waiting \in Nat
  BY <1>1, CensusFields DEF Lined
<1> HIDE DEF y
<1>4. Kept(y, W \ {c}, own, need, C)
  <2>1. \A d \in W \ {c} : need[d] \in Nat
    BY DEF Kept
  <2> QED BY <1>2, <2>1 DEF Kept
<1>5. Kept(y, (W \ {c}) \ {c}, own2, need2, C)
  BY <1>1, <1>4, KeptSame
<1>6. (W \ {c}) \ {c} = W \ {c}
  OBVIOUS
<1> QED BY <1>2, <1>3, <1>5, <1>6 DEF y

\* Where all wait for as much, nobody fits in once the first has left.
LEMMA AbandonBlocked ==
  ASSUME NEW C \in Nat, NEW n \in Nat, NEW z, NEW W, NEW need, Lined(z, W, need),
         \A d \in W : need[d] = n, Blocked(z, C), NEW c \in W \ z.granted
  PROVE  Blocked(Abandon(z, c), C)
<1> DEFINE y == Abandon(z, c)
<1>1. /\ Lined(y, W \ {c}, need) /\ y.held = z.held /\ Live(y.queue) \subseteq Live(z.queue)
  BY AbandonLined
<1>2. \A d \in W \ {c} : need[d] = n
  OBVIOUS
<1>3. Live(z.queue) # {} => ~ (z.held + n <= C)
  BY BlockedAlike
<1> HIDE DEF y
<1>4. Live(y.queue) # {} => ~ (y.held + n <= C)
  BY <1>1, <1>3
<1>5. Blocked(y, C)
  BY <1>1, <1>2, <1>4, BlockedAlike
<1> QED BY <1>5 DEF y

\* Part of what somebody owns is given back, and offered to those who wait.
LEMMA KeptRelease ==
  ASSUME NEW C \in Nat, NEW z, NEW W, NEW own, NEW need, Kept(z, W, own, need, C),
         NEW c \in Conn, c \notin W, NEW own2, NEW need2, Changed(own, own2, c), Changed(need, need2, c),
         NEW n \in Nat, own2[c] \in Nat, own2[c] = own[c] - n
  PROVE  /\ Kept(Release(z, n, C), W \ {c}, own2, need2, C)
         /\ Blocked(Release(z, n, C), C) /\ Release(z, n, C).waiting <= z.waiting
<1> DEFINE x == [z EXCEPT !.held = z.held - n]
<1>1. z \in Census
  BY DEF Kept, Lined
<1>2. x = [held |-> z.held - n, waiting |-> z.waiting, queue |-> z.queue, granted |-> z.granted]
  BY <1>1, CensusUpdates
<1>3. W \ {c} = W /\ W \subseteq Conn
  BY DEF Kept, Lined
<1>4. \A d \in W : need2[d] = need[d]
  BY <1>3 DEF Changed
<1>5. Lined(z, W, need2) /\ \A d \in W : need2[d] \in Nat
  BY <1>4, LinedSame DEF Kept
<1>6. /\ IsFiniteSet(z.granted) /\ z.granted \subseteq W
      /\ \A d \in z.granted : need2[d] \in Nat
      /\ SumFunctionOnSet(need2, z.granted) \in Nat
  BY <1>5, GrantsFinite
<1>7. SumFunctionOnSet(need2, z.granted) = SumFunctionOnSet(need, z.granted)
  <2>1. \A d \in z.granted : need[d] \in Nat /\ need2[d] = need[d]
    BY <1>4, <1>6 DEF Kept
  <2> QED BY <1>6, <2>1, SumSame
<1>8. own[c] \in Nat /\ n <= own[c]
  <2>1. own[c] \in Nat
    BY DEF Kept
  <2> QED BY <2>1
<1>9. /\ \A d \in Conn : own2[d] \in Nat
      /\ SumFunctionOnSet(own, Conn) \in Nat /\ own[c] <= SumFunctionOnSet(own, Conn)
      /\ SumFunctionOnSet(own2, Conn) = SumFunctionOnSet(own, Conn) - own[c] + own2[c]
  BY OwnChanged DEF Kept
<1>10. z.held = SumFunctionOnSet(own, Conn) + SumFunctionOnSet(need, z.granted) /\ z.held <= C
  BY DEF Kept
<1>11. /\ z.held \in Nat /\ z.waiting \in Nat /\ z.queue \in Seq(BufferWaiter)
       /\ z.granted \in SUBSET Conn
  BY <1>1, CensusFields
<1>12. z.held - n \in Nat /\ z.held - n <= C
       /\ z.held - n = SumFunctionOnSet(own2, Conn) + SumFunctionOnSet(need2, z.granted)
  <2> DEFINE S == SumFunctionOnSet(own, Conn)
             T == SumFunctionOnSet(own2, Conn)
             D == SumFunctionOnSet(need2, z.granted)
             o == own[c]
             h == z.held
  <2>1. S \in Nat /\ D \in Nat /\ o \in Nat /\ T = S - o + (o - n) /\ h = S + D
        /\ o <= S /\ n <= o /\ h <= C
    BY <1>6, <1>7, <1>8, <1>9, <1>10
  <2> HIDE DEF S, T, D, o, h
  <2>2. h - n = T + D
    BY <2>1
  <2>3. h - n \in Nat
    BY <2>1
  <2>4. h - n <= C
    BY <2>1
  <2> QED BY <2>2, <2>3, <2>4 DEF T, D, h
<1> HIDE DEF x
<1>13. /\ x \in Census /\ x.held = z.held - n /\ x.waiting = z.waiting
       /\ x.queue = z.queue /\ x.granted = z.granted
  BY <1>2, <1>11, <1>12, MakeCensus
<1>14. Lined(x, W, need2)
  BY <1>5, <1>13 DEF Lined
<1>15. Kept(x, W, own2, need2, C)
  BY <1>5, <1>9, <1>12, <1>13, <1>14 DEF Kept
<1>16. Release(z, n, C) = GrantWithin(C, x)
  BY DEF Release, x
<1> QED BY <1>3, <1>13, <1>15, <1>16, GrantKept

\* A slot given back goes to the first waiter, if there is one.
LEMMA KeptSlot ==
  ASSUME NEW C \in Nat, NEW z, NEW W, NEW own, NEW need, Kept(z, W, own, need, C), Blocked(z, C),
         \A d \in W : need[d] = 1,
         NEW c \in Conn, c \notin W, NEW own2, NEW need2, Changed(own, own2, c), Changed(need, need2, c),
         own[c] = 1, own2[c] = 0
  PROVE  /\ Kept(ReleaseSlot(z), W \ {c}, own2, need2, C)
         /\ Blocked(ReleaseSlot(z), C) /\ ReleaseSlot(z).waiting <= z.waiting
<1> DEFINE q == z.queue
           y == ReleaseSlot(z)
<1>1. Lined(z, W, need) /\ W \ {c} = W /\ W \subseteq Conn /\ \A d \in W : need[d] \in Nat
  BY DEF Kept, Lined
<1>2. \A d \in W : need2[d] = need[d] /\ need2[d] = 1
  BY <1>1 DEF Changed
<1>3. Lined(z, W, need2)
  BY <1>1, <1>2, LinedSame
<1>4. /\ IsFiniteSet(z.granted) /\ z.granted \subseteq W
      /\ SumFunctionOnSet(need, z.granted) \in Nat
  BY <1>1, GrantsFinite
<1>5. SumFunctionOnSet(need2, z.granted) = SumFunctionOnSet(need, z.granted)
  <2>1. \A d \in z.granted : need[d] \in Nat /\ need2[d] = need[d]
    BY <1>1, <1>2, <1>4
  <2> QED BY <1>4, <2>1, SumSame
<1>6. /\ \A d \in Conn : own2[d] \in Nat
      /\ SumFunctionOnSet(own, Conn) \in Nat /\ own[c] <= SumFunctionOnSet(own, Conn)
      /\ SumFunctionOnSet(own2, Conn) = SumFunctionOnSet(own, Conn) - own[c] + own2[c]
  <2>1. own2[c] \in Nat
    OBVIOUS
  <2> QED BY <2>1, OwnChanged DEF Kept
<1>7. z.held = SumFunctionOnSet(own, Conn) + SumFunctionOnSet(need, z.granted) /\ z.held <= C
  BY DEF Kept
<1>8. /\ z.held \in Nat /\ z.waiting \in Nat /\ q \in Seq(BufferWaiter)
  BY <1>1, CensusFields DEF Lined
<1>9. /\ Len(q) \in Nat /\ Live(q) \subseteq 1..Len(q)
      /\ \A i \in 1..Len(q) : q[i].bytes \in Nat
  BY <1>8, Queue
<1> DEFINE S == SumFunctionOnSet(own, Conn)
           T == SumFunctionOnSet(own2, Conn)
           G == SumFunctionOnSet(need2, z.granted)
           h == z.held
<1>10. S \in Nat /\ G \in Nat /\ T = S - 1 /\ h = S + G /\ 1 <= S /\ h <= C /\ h \in Nat
  <2>1. T = S - 1 + 0
    BY <1>6
  <2>2. S \in Nat /\ G \in Nat /\ h = S + G /\ 1 <= S /\ h <= C /\ h \in Nat
    BY <1>4, <1>5, <1>6, <1>7, <1>8
  <2> HIDE DEF S, T, G, h
  <2> QED BY <2>1, <2>2
<1>11. CASE Live(q) = {}
  <2>0. PICK n \in 0..Len(q), g \in Nat : n = Len(q) /\ g = h - 1
    <3>1. Len(q) \in 0..Len(q) /\ h - 1 \in Nat
      BY <1>9, <1>10
    <3> QED BY <3>1
  <2> DEFINE x == Dropped(z, n, g)
  <2>2. Woken(z, n) = {}
    BY <1>11 DEF Woken
  <2>3. /\ Lined(x, W, need2) /\ x.waiting <= z.waiting
        /\ x.queue = SubSeq(q, Len(q) + 1, Len(q))
    <3>1. x.queue = SubSeq(q, Len(q) + 1, Len(q))
      BY <2>0 DEF Dropped
    <3>2. Lined(x, W, need2)
      BY <1>3, DropLined
    <3>3. x.waiting <= z.waiting
      BY <1>3, DropLined
    <3> QED BY <3>1, <3>2, <3>3
  <2>4. x.held = h - 1 /\ x.granted = z.granted
    BY <2>0, <2>2 DEF Dropped
  <2>5. SubSeq(q, Len(q) + 1, Len(q)) = << >>
    BY <1>8, <1>9
  <2>6. y = x
    <3>1. z.waiting - Cardinality({}) = z.waiting
      <4>1. Cardinality({}) = 0
        BY FS_EmptySet
      <4> QED BY <1>8, <4>1
    <3>2. z.granted \cup {} = z.granted
      OBVIOUS
    <3>3. x = [held |-> h - 1, waiting |-> z.waiting, queue |-> << >>, granted |-> z.granted]
      BY <2>0, <2>2, <2>5, <3>1, <3>2 DEF Dropped
    <3> HIDE DEF x
    <3> QED BY <1>11, <3>3 DEF ReleaseSlot
  <2> HIDE DEF x, y
  <2>7. x.held <= C /\ x.held = T + G
    <3> HIDE DEF T, G, S, h
    <3> QED BY <1>10, <2>4
  <2>8. Kept(x, W, own2, need2, C)
    BY <1>2, <1>6, <2>3, <2>4, <2>7 DEF Kept
  <2>9. Blocked(x, C)
    <3>1. Live(x.queue) = {}
      BY <2>3, <2>5 DEF Live
    <3> QED BY <3>1 DEF Blocked
  <2> QED BY <1>1, <2>3, <2>6, <2>8, <2>9 DEF y
<1>12. CASE Live(q) # {}
  <2> DEFINE k == Min(Live(q))
             U == Woken(z, k)
             x == Dropped(z, k, h)
             w == q[k].who
  <2>1. k \in Live(q) /\ \A j \in Live(q) : k <= j
    BY <1>8, <1>12, FirstLive
  <2>2. k \in 0..Len(q) /\ Live(q) \cap 1..k = {k}
    <3>1. \A j \in Live(q) \cap 1..k : j = k
      BY <1>9, <2>1
    <3> HIDE DEF k
    <3>2. k \in 0..Len(q) /\ k \in 1..k
      BY <1>9, <2>1
    <3>3. k \in Live(q) \cap 1..k
      BY <2>1, <3>2
    <3>4. Live(q) \cap 1..k = {k}
      BY Zenon, <3>1, <3>3
    <3> QED BY <3>2, <3>4
  <2>3. U = {w}
    BY <2>2 DEF Woken
  <2>4. /\ Lined(x, W, need2) /\ x.waiting <= z.waiting
        /\ U \subseteq W \ z.granted
    <3>1. PICK m \in 0..Len(q), g \in Nat : m = k /\ g = h
      <4> HIDE DEF k, h
      <4> QED BY <1>10, <2>2
    <3>2. Lined(Dropped(z, m, g), W, need2)
      BY <1>3, DropLined
    <3>3. Dropped(z, m, g).waiting <= z.waiting
      BY <1>3, DropLined
    <3>4. Woken(z, m) \subseteq W \ z.granted
      BY <1>3, DropLined
    <3> QED BY <3>1, <3>2, <3>3, <3>4
  <2>5. x.held = h /\ x.granted = z.granted \cup {w}
    BY <2>3 DEF Dropped
  <2>6. y = x
    <3>1. Cardinality({w}) = 1
      BY FS_Singleton
    <3>2. x = [held |-> h, waiting |-> z.waiting - 1, queue |-> SubSeq(q, k + 1, Len(q)),
               granted |-> z.granted \cup {w}]
      BY <2>3, <3>1 DEF Dropped
    <3> HIDE DEF x
    <3> QED BY <1>12, <3>2 DEF ReleaseSlot
  <2> HIDE DEF x, y, U, k
  <2>7. w \notin z.granted /\ w \in W
    BY <2>3, <2>4
  <2> HIDE DEF w
  <2>8. x.held = T + SumFunctionOnSet(need2, x.granted)
    <3>1. \A d \in z.granted : need2[d] \in Nat
      BY <1>2, <1>4
    <3>2. need2[w] = 1
      BY <1>2, <2>7
    <3>3. SumFunctionOnSet(need2, z.granted \cup {w}) = need2[w] + SumFunctionOnSet(need2, z.granted)
      BY <1>4, <2>7, <3>1, <3>2, SumAdd
    <3> DEFINE E == SumFunctionOnSet(need2, x.granted)
    <3>4. E = 1 + G
      BY <2>5, <3>2, <3>3
    <3> HIDE DEF E, S, T, G, h
    <3>5. x.held = T + E
      BY <1>10, <2>5, <3>4
    <3> QED BY <3>5 DEF E
  <2>9. Kept(x, W, own2, need2, C)
    BY <1>2, <1>6, <1>7, <2>4, <2>5, <2>8 DEF Kept
  <2>10. Blocked(x, C)
    <3>1. ~ (z.held + 1 <= C)
      BY <1>1, <1>12, BlockedAlike
    <3>2. ~ (x.held + 1 <= C) /\ \A d \in W : need2[d] = 1
      BY <1>2, <2>5, <3>1
    <3> QED BY <2>4, <3>2, BlockedAlike
  <2> QED BY <1>1, <2>4, <2>6, <2>9, <2>10 DEF y
<1> QED BY <1>11, <1>12

-----------------------------------------------------------------------------
(* The invariant *)

\* What a connection's task may leave behind.
Fits(s) ==
  /\ s \in ConnState /\ s.len <= s.charged
  /\ s.at = "closed" => s = Closed
  /\ s.phase # "header" => s.len > 0
  /\ s.at \in {"reading", "waiting", "refused"} =>
       /\ s.phase = "fixed" => s.len < s.end /\ s.end <= MaxRequest
       /\ s.phase = "chunked" => s.len <= MaxRequest
  /\ s.at \in {"reading", "waiting"} /\ s.phase = "header" => s.len <= MaxHeader
  /\ s.at = "reading" => /\ s.charged >= readBufferTarget(s)
                         /\ s.phase = "header" => s.charged <= MaxHeader + Chunk
  /\ s.at = "waiting" => s.charged < readBufferTarget(s) /\ s.charged <= MaxHeader + Chunk
  /\ s.at = "refused" => s.phase # "header"
  /\ s.at \in {"accepted", "answering", "queued", "calling", "room"} =>
       s.phase = "header" /\ s.charged = s.len /\ s.len <= Chunk
  /\ s.charge # "uncharged" => s.at \in {"calling", "answering"}

At(cn, p) == {c \in Conn : cn[c].at = p}

Charged(cn) == [c \in Conn |-> cn[c].charged]
Asked(cn) == [c \in Conn |-> IF cn[c].at = "waiting" THEN readBufferTarget(cn[c]) - cn[c].charged ELSE 0]
InSlot(cn) == [c \in Conn |-> IF cn[c].at \in {"calling", "room"} THEN 1 ELSE 0]
OneEach == [c \in Conn |-> 1]
Owing(cn) == [c \in Conn |-> IF cn[c].charge = "held" THEN Answer ELSE 0]
AnswerEach == [c \in Conn |-> Answer]

BudgetOK(cn, b) == Kept(b, At(cn, "waiting"), Charged(cn), Asked(cn), Ceiling) /\ b.waiting <= MaxQueuedReads
SlotsOK(cn, b) == Kept(b, At(cn, "queued"), InSlot(cn), OneEach, MaxCalls) /\ Blocked(b, MaxCalls)
EgressOK(cn, b) == Kept(b, At(cn, "room"), Owing(cn), AnswerEach, EgressCeiling) /\ Blocked(b, EgressCeiling)
Offered(cn, b) == Blocked(b, Ceiling) \/ \E c \in Conn : cn[c].at = "refused"
Counted(cn, a, u) == /\ a = Cardinality({c \in Conn : cn[c].at # "closed"})
                     /\ u = Cardinality({c \in Conn : cn[c].held})

\* A connection's part of all this.
Base(cn, a, u) ==
  /\ cn \in [Conn -> ConnState] /\ \A c \in Conn : Fits(cn[c])
  /\ Counted(cn, a, u)

IInv ==
  /\ Base(conn, active, unframed)
  /\ BudgetOK(conn, budget) /\ Offered(conn, budget)
  /\ SlotsOK(conn, slots) /\ EgressOK(conn, egress)

LEMMA Limits ==
  /\ Ceiling \in Nat /\ Chunk \in Nat /\ MaxHeader \in Nat /\ MaxRequest \in Nat
  /\ MaxQueuedReads \in Nat /\ MaxCalls \in Nat /\ Answer \in Nat /\ EgressCeiling \in Nat
  /\ 1 <= Chunk /\ 1 <= MaxHeader /\ 1 <= MaxRequest /\ 1 <= Answer
  /\ IsFiniteSet(Conn)
BY AdmissionConstants

LEMMA Fields ==
  ASSUME NEW s \in ConnState
  PROVE  /\ s.at \in Parks /\ s.len \in Nat /\ s.charged \in Nat
         /\ s.phase \in {"header", "fixed", "chunked"} /\ s.end \in Nat
         /\ s.held \in BOOLEAN /\ s.charge \in Charge
BY DEF ConnState

LEMMA Target ==
  ASSUME NEW s \in ConnState
  PROVE  /\ readBufferTarget(s) \in Nat
         /\ s.phase = "header" => readBufferTarget(s) = s.len + Chunk
         /\ s.phase = "fixed" /\ s.end <= MaxRequest => readBufferTarget(s) = s.end
         /\ s.phase = "chunked" => readBufferTarget(s) = MaxRequest + Chunk
<1>1. s.len \in Nat /\ s.end \in Nat /\ s.phase \in {"header", "fixed", "chunked"}
  BY Fields
<1>2. CASE s.phase = "header"
  BY <1>1, <1>2, Limits DEF readBufferTarget
<1>3. CASE s.phase = "fixed"
  BY <1>1, <1>3, Limits DEF readBufferTarget, Smaller
<1>4. CASE s.phase = "chunked"
  BY <1>1, <1>4, Limits DEF readBufferTarget
<1> QED BY <1>1, <1>2, <1>3, <1>4

\* One connection moves.
Set(cn, c, s) == [cn EXCEPT ![c] = s]

LEMMA Move ==
  ASSUME NEW cn \in [Conn -> ConnState], NEW c \in Conn, NEW s \in ConnState
  PROVE  /\ Set(cn, c, s) \in [Conn -> ConnState] /\ Set(cn, c, s)[c] = s
         /\ \A d \in Conn \ {c} : Set(cn, c, s)[d] = cn[d]
         /\ \A t \in ConnState : Set(Set(cn, c, s), c, t) = Set(cn, c, t)
         /\ Set(cn, c, cn[c]) = cn
<1>1. /\ Set(cn, c, s) \in [Conn -> ConnState] /\ Set(cn, c, s)[c] = s
      /\ \A d \in Conn \ {c} : Set(cn, c, s)[d] = cn[d]
  BY DEF Set
<1>2. \A t \in ConnState : Set(Set(cn, c, s), c, t) = Set(cn, c, t)
  BY DEF Set
<1>3. Set(cn, c, cn[c]) = cn
  BY DEF Set
<1> QED BY <1>1, <1>2, <1>3

LEMMA MovePlaces ==
  ASSUME NEW cn \in [Conn -> ConnState], NEW c \in Conn, NEW s \in ConnState, NEW p
  PROVE  /\ s.at = p => At(Set(cn, c, s), p) = At(cn, p) \cup {c}
         /\ s.at # p => At(Set(cn, c, s), p) = At(cn, p) \ {c}
         /\ cn[c].at = p => c \in At(cn, p)
         /\ cn[c].at # p => c \notin At(cn, p)
<1>1. Set(cn, c, s)[c] = s /\ \A d \in Conn \ {c} : Set(cn, c, s)[d] = cn[d]
  BY Move
<1> QED BY <1>1 DEF At

LEMMA MoveOwns ==
  ASSUME NEW cn \in [Conn -> ConnState], NEW c \in Conn, NEW s \in ConnState
  PROVE  LET x == Set(cn, c, s)
         IN  /\ Changed(Charged(cn), Charged(x), c)
             /\ Charged(cn)[c] = cn[c].charged /\ Charged(x)[c] = s.charged
             /\ Changed(Asked(cn), Asked(x), c)
             /\ cn[c].at = "waiting" => Asked(cn)[c] = readBufferTarget(cn[c]) - cn[c].charged
             /\ s.at = "waiting" => Asked(x)[c] = readBufferTarget(s) - s.charged
             /\ Changed(InSlot(cn), InSlot(x), c)
             /\ InSlot(cn)[c] = (IF cn[c].at \in {"calling", "room"} THEN 1 ELSE 0)
             /\ InSlot(x)[c] = (IF s.at \in {"calling", "room"} THEN 1 ELSE 0)
             /\ Changed(Owing(cn), Owing(x), c)
             /\ Owing(cn)[c] = (IF cn[c].charge = "held" THEN Answer ELSE 0)
             /\ Owing(x)[c] = (IF s.charge = "held" THEN Answer ELSE 0)
<1> DEFINE x == Set(cn, c, s)
<1>1. x[c] = s /\ \A d \in Conn \ {c} : x[d] = cn[d]
  BY Move
<1> HIDE DEF x
<1>2. Changed(Charged(cn), Charged(x), c) /\ Charged(cn)[c] = cn[c].charged /\ Charged(x)[c] = s.charged
  BY <1>1 DEF Changed, Charged
<1>3. /\ Changed(Asked(cn), Asked(x), c)
      /\ cn[c].at = "waiting" => Asked(cn)[c] = readBufferTarget(cn[c]) - cn[c].charged
      /\ s.at = "waiting" => Asked(x)[c] = readBufferTarget(s) - s.charged
  BY <1>1 DEF Changed, Asked
<1>4. /\ Changed(InSlot(cn), InSlot(x), c)
      /\ InSlot(cn)[c] = (IF cn[c].at \in {"calling", "room"} THEN 1 ELSE 0)
      /\ InSlot(x)[c] = (IF s.at \in {"calling", "room"} THEN 1 ELSE 0)
  BY <1>1 DEF Changed, InSlot
<1>5. /\ Changed(Owing(cn), Owing(x), c)
      /\ Owing(cn)[c] = (IF cn[c].charge = "held" THEN Answer ELSE 0)
      /\ Owing(x)[c] = (IF s.charge = "held" THEN Answer ELSE 0)
  BY <1>1 DEF Changed, Owing
<1> QED BY <1>2, <1>3, <1>4, <1>5 DEF x

-----------------------------------------------------------------------------
(* One connection's move, at each census *)

LEMMA BudgetStays ==
  ASSUME NEW cn \in [Conn -> ConnState], NEW c \in Conn, NEW s \in ConnState, NEW b, BudgetOK(cn, b),
         cn[c].at # "waiting", s.at # "waiting", s.charged = cn[c].charged
  PROVE  BudgetOK(Set(cn, c, s), b)
<1> DEFINE x == Set(cn, c, s)
<1>1. /\ At(x, "waiting") = At(cn, "waiting") \ {c} /\ c \notin At(cn, "waiting")
  BY MovePlaces
<1>2. /\ Changed(Charged(cn), Charged(x), c) /\ Charged(x)[c] = Charged(cn)[c]
      /\ Changed(Asked(cn), Asked(x), c)
  BY MoveOwns
<1>3. Kept(b, At(cn, "waiting"), Charged(cn), Asked(cn), Ceiling)
  BY DEF BudgetOK
<1> HIDE DEF x
<1>4. Kept(b, At(x, "waiting"), Charged(x), Asked(x), Ceiling)
  BY <1>1, <1>2, <1>3, KeptSame, Limits
<1> QED BY <1>4 DEF BudgetOK, x

LEMMA BudgetClaims ==
  ASSUME NEW cn \in [Conn -> ConnState], NEW c \in Conn, NEW s \in ConnState, NEW b, BudgetOK(cn, b),
         cn[c].at # "waiting", s.at # "waiting",
         NEW n \in Nat, s.charged = cn[c].charged + n, Claims(b, n, Ceiling)
  PROVE  /\ BudgetOK(Set(cn, c, s), Claim(b, n))
         /\ Blocked(b, Ceiling) => Blocked(Claim(b, n), Ceiling)
<1> DEFINE x == Set(cn, c, s)
<1>1. /\ At(x, "waiting") = At(cn, "waiting") \ {c} /\ c \notin At(cn, "waiting")
  BY MovePlaces
<1>2. /\ Changed(Charged(cn), Charged(x), c) /\ Charged(x)[c] = Charged(cn)[c] + n
      /\ Changed(Asked(cn), Asked(x), c)
  BY MoveOwns
<1>3. /\ Kept(b, At(cn, "waiting"), Charged(cn), Asked(cn), Ceiling)
      /\ b.waiting <= MaxQueuedReads
  BY DEF BudgetOK
<1> HIDE DEF x
<1>4. /\ Kept(Claim(b, n), At(x, "waiting"), Charged(x), Asked(x), Ceiling)
      /\ Claim(b, n).waiting = b.waiting
      /\ Blocked(b, Ceiling) => Blocked(Claim(b, n), Ceiling)
  BY <1>1, <1>2, <1>3, KeptClaim, Limits
<1> QED BY <1>3, <1>4 DEF BudgetOK, x

LEMMA BudgetEnqueues ==
  ASSUME NEW cn \in [Conn -> ConnState], NEW c \in Conn, NEW s \in ConnState, NEW b, BudgetOK(cn, b),
         cn[c].at # "waiting", s.at = "waiting", s.charged = cn[c].charged,
         NEW n \in Nat, n = readBufferTarget(s) - s.charged, ~ Claims(b, n, Ceiling),
         b.waiting < MaxQueuedReads
  PROVE  /\ BudgetOK(Set(cn, c, s), Enqueue(b, c, n))
         /\ Blocked(b, Ceiling) => Blocked(Enqueue(b, c, n), Ceiling)
<1> DEFINE x == Set(cn, c, s)
<1>1. /\ At(x, "waiting") = At(cn, "waiting") \cup {c} /\ c \notin At(cn, "waiting")
  <2>1. x[c] = s /\ \A d \in Conn \ {c} : x[d] = cn[d]
    BY Move
  <2> HIDE DEF x
  <2>2. At(x, "waiting") = At(cn, "waiting") \cup {c}
    BY <2>1 DEF At
  <2>3. c \notin At(cn, "waiting")
    BY DEF At
  <2> QED BY <2>2, <2>3
<1>2. /\ Changed(Charged(cn), Charged(x), c) /\ Charged(x)[c] = Charged(cn)[c]
      /\ Changed(Asked(cn), Asked(x), c) /\ Asked(x)[c] = n
  BY MoveOwns
<1>3. Kept(b, At(cn, "waiting"), Charged(cn), Asked(cn), Ceiling)
  BY DEF BudgetOK
<1> HIDE DEF x
<1>4. /\ Kept(Enqueue(b, c, n), At(x, "waiting"), Charged(x), Asked(x), Ceiling)
      /\ Enqueue(b, c, n).waiting = b.waiting + 1
      /\ Blocked(b, Ceiling) => Blocked(Enqueue(b, c, n), Ceiling)
  BY <1>1, <1>2, <1>3, KeptEnqueue, Limits
<1>5. b.waiting \in Nat
  BY <1>3, CensusFields DEF Kept, Lined
<1>6. Enqueue(b, c, n).waiting <= MaxQueuedReads
  BY <1>4, <1>5, Limits
<1> QED BY <1>4, <1>6 DEF BudgetOK, x

LEMMA BudgetTaken ==
  ASSUME NEW cn \in [Conn -> ConnState], NEW c \in Conn, NEW s \in ConnState, NEW b, BudgetOK(cn, b),
         cn[c].at = "waiting", c \in b.granted, s.at # "waiting",
         s.charged = readBufferTarget(cn[c])
  PROVE  /\ BudgetOK(Set(cn, c, s), Taken(b, c))
         /\ Blocked(b, Ceiling) => Blocked(Taken(b, c), Ceiling)
<1> DEFINE x == Set(cn, c, s)
<1>1. At(x, "waiting") = At(cn, "waiting") \ {c}
  BY MovePlaces
<1>2. /\ Changed(Charged(cn), Charged(x), c)
      /\ Charged(x)[c] = Charged(cn)[c] + Asked(cn)[c]
      /\ Changed(Asked(cn), Asked(x), c)
  <2>1. /\ Changed(Charged(cn), Charged(x), c) /\ Changed(Asked(cn), Asked(x), c)
        /\ Charged(x)[c] = readBufferTarget(cn[c]) /\ Charged(cn)[c] = cn[c].charged
        /\ Asked(cn)[c] = readBufferTarget(cn[c]) - cn[c].charged
    BY MoveOwns
  <2>2. readBufferTarget(cn[c]) \in Nat /\ cn[c].charged \in Nat
    BY Target, Fields
  <2> QED BY <2>1, <2>2
<1>3. /\ Kept(b, At(cn, "waiting"), Charged(cn), Asked(cn), Ceiling)
      /\ b.waiting <= MaxQueuedReads
  BY DEF BudgetOK
<1> HIDE DEF x
<1>4. Kept(Taken(b, c), At(x, "waiting"), Charged(x), Asked(x), Ceiling)
  BY <1>1, <1>2, <1>3, KeptTaken, Limits
<1>5. /\ Taken(b, c).waiting = b.waiting /\ Taken(b, c).queue = b.queue
      /\ Taken(b, c).held = b.held
  BY <1>3, TakenLined DEF Kept
<1>6. Blocked(b, Ceiling) => Blocked(Taken(b, c), Ceiling)
  BY <1>5, BlockedSame
<1> QED BY <1>3, <1>4, <1>5, <1>6 DEF BudgetOK, x

LEMMA BudgetAbandons ==
  ASSUME NEW cn \in [Conn -> ConnState], NEW c \in Conn, NEW s \in ConnState, NEW b, BudgetOK(cn, b),
         cn[c].at = "waiting", c \notin b.granted, s.at # "waiting", s.charged = cn[c].charged
  PROVE  BudgetOK(Set(cn, c, s), Abandon(b, c))
<1> DEFINE x == Set(cn, c, s)
<1>1. At(x, "waiting") = At(cn, "waiting") \ {c} /\ c \in At(cn, "waiting") \ b.granted
  BY MovePlaces
<1>2. /\ Changed(Charged(cn), Charged(x), c) /\ Charged(x)[c] = Charged(cn)[c]
      /\ Changed(Asked(cn), Asked(x), c)
  BY MoveOwns
<1>3. /\ Kept(b, At(cn, "waiting"), Charged(cn), Asked(cn), Ceiling)
      /\ b.waiting <= MaxQueuedReads
  BY DEF BudgetOK
<1> HIDE DEF x
<1>4. /\ Kept(Abandon(b, c), At(x, "waiting"), Charged(x), Asked(x), Ceiling)
      /\ Abandon(b, c).waiting <= b.waiting
  BY <1>1, <1>2, <1>3, KeptAbandon, Limits
<1>5. b.waiting \in Nat /\ Abandon(b, c).waiting \in Nat
  BY <1>3, <1>4, CensusFields DEF Kept, Lined
<1>6. Abandon(b, c).waiting <= MaxQueuedReads
  BY <1>3, <1>4, <1>5, Limits
<1> QED BY <1>4, <1>6 DEF BudgetOK, x

LEMMA BudgetReleases ==
  ASSUME NEW cn \in [Conn -> ConnState], NEW c \in Conn, NEW s \in ConnState, NEW b, BudgetOK(cn, b),
         cn[c].at # "waiting", s.at # "waiting",
         NEW n \in Nat, s.charged = cn[c].charged - n
  PROVE  /\ BudgetOK(Set(cn, c, s), Release(b, n, Ceiling))
         /\ Blocked(Release(b, n, Ceiling), Ceiling)
<1> DEFINE x == Set(cn, c, s)
<1>1. /\ At(x, "waiting") = At(cn, "waiting") \ {c} /\ c \notin At(cn, "waiting")
  BY MovePlaces
<1>2. /\ Changed(Charged(cn), Charged(x), c) /\ Charged(x)[c] = Charged(cn)[c] - n
      /\ Changed(Asked(cn), Asked(x), c) /\ Charged(x)[c] \in Nat
  BY MoveOwns, Fields
<1>3. /\ Kept(b, At(cn, "waiting"), Charged(cn), Asked(cn), Ceiling)
      /\ b.waiting <= MaxQueuedReads
  BY DEF BudgetOK
<1> HIDE DEF x
<1>4. /\ Kept(Release(b, n, Ceiling), At(x, "waiting"), Charged(x), Asked(x), Ceiling)
      /\ Release(b, n, Ceiling).waiting <= b.waiting
      /\ Blocked(Release(b, n, Ceiling), Ceiling)
  BY <1>1, <1>2, <1>3, KeptRelease, Limits
<1>5. b.waiting \in Nat /\ Release(b, n, Ceiling).waiting \in Nat
  BY <1>3, <1>4, CensusFields DEF Kept, Lined
<1>6. Release(b, n, Ceiling).waiting <= MaxQueuedReads
  BY <1>3, <1>4, <1>5, Limits
<1> QED BY <1>4, <1>6 DEF BudgetOK, x

LEMMA SlotsStays ==
  ASSUME NEW cn \in [Conn -> ConnState], NEW c \in Conn, NEW s \in ConnState, NEW b, SlotsOK(cn, b),
         cn[c].at # "queued", s.at # "queued",
         cn[c].at \in {"calling", "room"} <=> s.at \in {"calling", "room"}
  PROVE  SlotsOK(Set(cn, c, s), b)
<1> DEFINE x == Set(cn, c, s)
<1>1. /\ At(x, "queued") = At(cn, "queued") \ {c}
      /\ c \notin At(cn, "queued")
  <2>1. x[c] = s /\ \A d \in Conn \ {c} : x[d] = cn[d]
    BY Move
  <2> HIDE DEF x
  <2>2. At(x, "queued") = At(cn, "queued") \ {c}
    BY <2>1 DEF At
  <2>3. c \notin At(cn, "queued")
    BY DEF At
  <2> QED BY <2>2, <2>3
<1>2. /\ Changed(InSlot(cn), InSlot(x), c) /\ Changed(OneEach, OneEach, c)
      /\ \A d \in Conn : OneEach[d] = 1
  BY MoveOwns DEF Changed, OneEach
<1>3. InSlot(x)[c] = InSlot(cn)[c]
  <2>1. InSlot(cn)[c] = (IF cn[c].at \in {"calling", "room"} THEN 1 ELSE 0)
    BY MoveOwns
  <2>2. InSlot(x)[c] = (IF s.at \in {"calling", "room"} THEN 1 ELSE 0)
    BY MoveOwns
  <2> HIDE DEF x
  <2> QED BY <1>2, <2>1, <2>2, Limits
<1>4. Kept(b, At(cn, "queued"), InSlot(cn), OneEach, MaxCalls) /\ Blocked(b, MaxCalls)
  BY DEF SlotsOK
<1>5. At(cn, "queued") \subseteq Conn
  BY DEF At
<1> HIDE DEF x
<1>6. Kept(b, At(x, "queued"), InSlot(x), OneEach, MaxCalls)
  BY <1>1, <1>2, <1>3, <1>4, KeptSame, Limits
<1>7. Blocked(b, MaxCalls)
  BY <1>4
<1> QED BY <1>6, <1>7 DEF SlotsOK, x

LEMMA SlotsClaims ==
  ASSUME NEW cn \in [Conn -> ConnState], NEW c \in Conn, NEW s \in ConnState, NEW b, SlotsOK(cn, b),
         cn[c].at \notin {"queued", "calling", "room"},
         s.at = "calling", Claims(b, 1, MaxCalls)
  PROVE  SlotsOK(Set(cn, c, s), Claim(b, 1))
<1> DEFINE x == Set(cn, c, s)
<1>1. /\ At(x, "queued") = At(cn, "queued") \ {c}
      /\ c \notin At(cn, "queued")
  <2>1. x[c] = s /\ \A d \in Conn \ {c} : x[d] = cn[d]
    BY Move
  <2> HIDE DEF x
  <2>2. At(x, "queued") = At(cn, "queued") \ {c}
    BY <2>1 DEF At
  <2>3. c \notin At(cn, "queued")
    BY DEF At
  <2> QED BY <2>2, <2>3
<1>2. /\ Changed(InSlot(cn), InSlot(x), c) /\ Changed(OneEach, OneEach, c)
      /\ \A d \in Conn : OneEach[d] = 1
  BY MoveOwns DEF Changed, OneEach
<1>3. InSlot(x)[c] = InSlot(cn)[c] + 1
  <2>1. InSlot(cn)[c] = (IF cn[c].at \in {"calling", "room"} THEN 1 ELSE 0)
    BY MoveOwns
  <2>2. InSlot(x)[c] = (IF s.at \in {"calling", "room"} THEN 1 ELSE 0)
    BY MoveOwns
  <2> HIDE DEF x
  <2> QED BY <1>2, <2>1, <2>2, Limits
<1>4. Kept(b, At(cn, "queued"), InSlot(cn), OneEach, MaxCalls) /\ Blocked(b, MaxCalls)
  BY DEF SlotsOK
<1>5. At(cn, "queued") \subseteq Conn
  BY DEF At
<1> HIDE DEF x
<1> DEFINE W == At(cn, "queued")
           O == InSlot(cn)
           P == InSlot(x)
<1>10. PICK n \in Nat : n = 1
  OBVIOUS
<1>11. /\ Kept(b, W, O, OneEach, MaxCalls) /\ c \notin W /\ Changed(O, P, c)
       /\ Changed(OneEach, OneEach, c) /\ P[c] = O[c] + n /\ Claims(b, n, MaxCalls)
  BY <1>1, <1>2, <1>3, <1>4, <1>10
<1>12. At(x, "queued") = W \ {c}
  BY <1>1
<1>13. MaxCalls \in Nat
  BY Limits
<1> HIDE DEF W, O, P
<1>8. /\ Kept(Claim(b, n), W \ {c}, P, OneEach, MaxCalls)
      /\ Blocked(b, MaxCalls) => Blocked(Claim(b, n), MaxCalls)
  BY <1>11, <1>13, KeptClaim
<1>6. Kept(Claim(b, 1), At(x, "queued"), InSlot(x), OneEach, MaxCalls)
  BY <1>8, <1>10, <1>12 DEF P
<1>7. Blocked(Claim(b, 1), MaxCalls)
  BY <1>4, <1>8, <1>10
<1> QED BY <1>6, <1>7 DEF SlotsOK, x

LEMMA SlotsEnqueues ==
  ASSUME NEW cn \in [Conn -> ConnState], NEW c \in Conn, NEW s \in ConnState, NEW b, SlotsOK(cn, b),
         cn[c].at \notin {"queued", "calling", "room"},
         s.at = "queued", ~ Claims(b, 1, MaxCalls)
  PROVE  SlotsOK(Set(cn, c, s), Enqueue(b, c, 1))
<1> DEFINE x == Set(cn, c, s)
<1>1. /\ At(x, "queued") = At(cn, "queued") \cup {c}
      /\ c \notin At(cn, "queued")
  <2>1. x[c] = s /\ \A d \in Conn \ {c} : x[d] = cn[d]
    BY Move
  <2> HIDE DEF x
  <2>2. At(x, "queued") = At(cn, "queued") \cup {c}
    BY <2>1 DEF At
  <2>3. c \notin At(cn, "queued")
    BY DEF At
  <2> QED BY <2>2, <2>3
<1>2. /\ Changed(InSlot(cn), InSlot(x), c) /\ Changed(OneEach, OneEach, c)
      /\ \A d \in Conn : OneEach[d] = 1
  BY MoveOwns DEF Changed, OneEach
<1>3. InSlot(x)[c] = InSlot(cn)[c]
  <2>1. InSlot(cn)[c] = (IF cn[c].at \in {"calling", "room"} THEN 1 ELSE 0)
    BY MoveOwns
  <2>2. InSlot(x)[c] = (IF s.at \in {"calling", "room"} THEN 1 ELSE 0)
    BY MoveOwns
  <2> HIDE DEF x
  <2> QED BY <1>2, <2>1, <2>2, Limits
<1>4. Kept(b, At(cn, "queued"), InSlot(cn), OneEach, MaxCalls) /\ Blocked(b, MaxCalls)
  BY DEF SlotsOK
<1>5. At(cn, "queued") \subseteq Conn
  BY DEF At
<1> HIDE DEF x
<1>8. /\ Kept(Enqueue(b, c, 1), At(x, "queued"), InSlot(x), OneEach, MaxCalls)
      /\ Enqueue(b, c, 1).waiting = b.waiting + 1
      /\ Blocked(b, MaxCalls) => Blocked(Enqueue(b, c, 1), MaxCalls)
  BY <1>1, <1>2, <1>3, <1>4, KeptEnqueue, Limits
<1>6. Kept(Enqueue(b, c, 1), At(x, "queued"), InSlot(x), OneEach, MaxCalls)
  BY <1>8
<1>7. Blocked(Enqueue(b, c, 1), MaxCalls)
  BY <1>4, <1>8
<1> QED BY <1>6, <1>7 DEF SlotsOK, x

LEMMA SlotsTaken ==
  ASSUME NEW cn \in [Conn -> ConnState], NEW c \in Conn, NEW s \in ConnState, NEW b, SlotsOK(cn, b),
         cn[c].at = "queued", c \in b.granted, s.at = "calling"
  PROVE  SlotsOK(Set(cn, c, s), Taken(b, c))
<1> DEFINE x == Set(cn, c, s)
<1>1. /\ At(x, "queued") = At(cn, "queued") \ {c}
      /\ c \in At(cn, "queued")
  <2>1. x[c] = s /\ \A d \in Conn \ {c} : x[d] = cn[d]
    BY Move
  <2> HIDE DEF x
  <2>2. At(x, "queued") = At(cn, "queued") \ {c}
    BY <2>1 DEF At
  <2>3. c \in At(cn, "queued")
    BY DEF At
  <2> QED BY <2>2, <2>3
<1>2. /\ Changed(InSlot(cn), InSlot(x), c) /\ Changed(OneEach, OneEach, c)
      /\ \A d \in Conn : OneEach[d] = 1
  BY MoveOwns DEF Changed, OneEach
<1>3. InSlot(x)[c] = InSlot(cn)[c] + OneEach[c]
  <2>1. InSlot(cn)[c] = (IF cn[c].at \in {"calling", "room"} THEN 1 ELSE 0)
    BY MoveOwns
  <2>2. InSlot(x)[c] = (IF s.at \in {"calling", "room"} THEN 1 ELSE 0)
    BY MoveOwns
  <2> HIDE DEF x
  <2> QED BY <1>2, <2>1, <2>2, Limits
<1>4. Kept(b, At(cn, "queued"), InSlot(cn), OneEach, MaxCalls) /\ Blocked(b, MaxCalls)
  BY DEF SlotsOK
<1>5. At(cn, "queued") \subseteq Conn
  BY DEF At
<1> HIDE DEF x
<1>6. Kept(Taken(b, c), At(x, "queued"), InSlot(x), OneEach, MaxCalls)
  BY <1>1, <1>2, <1>3, <1>4, KeptTaken, Limits
<1>7. Blocked(Taken(b, c), MaxCalls)
  <2>1. Taken(b, c).queue = b.queue /\ Taken(b, c).held = b.held
    BY <1>4, TakenLined DEF Kept
  <2> QED BY <1>4, <2>1, BlockedSame
<1> QED BY <1>6, <1>7 DEF SlotsOK, x

LEMMA SlotsAbandons ==
  ASSUME NEW cn \in [Conn -> ConnState], NEW c \in Conn, NEW s \in ConnState, NEW b, SlotsOK(cn, b),
         cn[c].at = "queued", c \notin b.granted,
         s.at \notin {"queued", "calling", "room"}
  PROVE  SlotsOK(Set(cn, c, s), Abandon(b, c))
<1> DEFINE x == Set(cn, c, s)
<1>1. /\ At(x, "queued") = At(cn, "queued") \ {c}
      /\ c \in At(cn, "queued")
  <2>1. x[c] = s /\ \A d \in Conn \ {c} : x[d] = cn[d]
    BY Move
  <2> HIDE DEF x
  <2>2. At(x, "queued") = At(cn, "queued") \ {c}
    BY <2>1 DEF At
  <2>3. c \in At(cn, "queued")
    BY DEF At
  <2> QED BY <2>2, <2>3
<1>2. /\ Changed(InSlot(cn), InSlot(x), c) /\ Changed(OneEach, OneEach, c)
      /\ \A d \in Conn : OneEach[d] = 1
  BY MoveOwns DEF Changed, OneEach
<1>3. InSlot(x)[c] = InSlot(cn)[c]
  <2>1. InSlot(cn)[c] = (IF cn[c].at \in {"calling", "room"} THEN 1 ELSE 0)
    BY MoveOwns
  <2>2. InSlot(x)[c] = (IF s.at \in {"calling", "room"} THEN 1 ELSE 0)
    BY MoveOwns
  <2> HIDE DEF x
  <2> QED BY <1>2, <2>1, <2>2, Limits
<1>4. Kept(b, At(cn, "queued"), InSlot(cn), OneEach, MaxCalls) /\ Blocked(b, MaxCalls)
  BY DEF SlotsOK
<1>5. At(cn, "queued") \subseteq Conn
  BY DEF At
<1> HIDE DEF x
<1>8. \A d \in At(cn, "queued") : OneEach[d] = 1
  BY <1>2, <1>5
<1>9. Kept(Abandon(b, c), At(x, "queued"), InSlot(x), OneEach, MaxCalls) /\ Abandon(b, c).waiting <= b.waiting
  BY <1>1, <1>2, <1>3, <1>4, KeptAbandon, Limits
<1>6. Kept(Abandon(b, c), At(x, "queued"), InSlot(x), OneEach, MaxCalls)
  BY <1>9
<1>7. Blocked(Abandon(b, c), MaxCalls)
  <2>1. Lined(b, At(cn, "queued"), OneEach) /\ c \in At(cn, "queued") \ b.granted
    BY <1>1, <1>4 DEF Kept
  <2> QED BY <1>4, <1>8, <2>1, AbandonBlocked, Limits
<1> QED BY <1>6, <1>7 DEF SlotsOK, x

LEMMA SlotsReleases ==
  ASSUME NEW cn \in [Conn -> ConnState], NEW c \in Conn, NEW s \in ConnState, NEW b, SlotsOK(cn, b),
         cn[c].at \in {"calling", "room"}, s.at \notin {"queued", "calling", "room"}
  PROVE  SlotsOK(Set(cn, c, s), ReleaseSlot(b))
<1> DEFINE x == Set(cn, c, s)
<1>1. /\ At(x, "queued") = At(cn, "queued") \ {c}
      /\ c \notin At(cn, "queued")
  <2>1. x[c] = s /\ \A d \in Conn \ {c} : x[d] = cn[d]
    BY Move
  <2> HIDE DEF x
  <2>2. At(x, "queued") = At(cn, "queued") \ {c}
    BY <2>1 DEF At
  <2>3. c \notin At(cn, "queued")
    BY DEF At
  <2> QED BY <2>2, <2>3
<1>2. /\ Changed(InSlot(cn), InSlot(x), c) /\ Changed(OneEach, OneEach, c)
      /\ \A d \in Conn : OneEach[d] = 1
  BY MoveOwns DEF Changed, OneEach
<1>3. InSlot(cn)[c] = 1 /\ InSlot(x)[c] = 0
  <2>1. InSlot(cn)[c] = (IF cn[c].at \in {"calling", "room"} THEN 1 ELSE 0)
    BY MoveOwns
  <2>2. InSlot(x)[c] = (IF s.at \in {"calling", "room"} THEN 1 ELSE 0)
    BY MoveOwns
  <2> HIDE DEF x
  <2> QED BY <1>2, <2>1, <2>2, Limits
<1>4. Kept(b, At(cn, "queued"), InSlot(cn), OneEach, MaxCalls) /\ Blocked(b, MaxCalls)
  BY DEF SlotsOK
<1>5. At(cn, "queued") \subseteq Conn
  BY DEF At
<1> HIDE DEF x
<1>8. \A d \in At(cn, "queued") : OneEach[d] = 1
  BY <1>2, <1>5
<1>6. Kept(ReleaseSlot(b), At(x, "queued"), InSlot(x), OneEach, MaxCalls)
  BY <1>1, <1>2, <1>3, <1>4, <1>8, KeptSlot, Limits
<1>7. Blocked(ReleaseSlot(b), MaxCalls)
  BY <1>1, <1>2, <1>3, <1>4, <1>8, KeptSlot, Limits
<1> QED BY <1>6, <1>7 DEF SlotsOK, x

LEMMA EgressStays ==
  ASSUME NEW cn \in [Conn -> ConnState], NEW c \in Conn, NEW s \in ConnState, NEW b, EgressOK(cn, b),
         cn[c].at # "room", s.at # "room",
         cn[c].charge = "held" <=> s.charge = "held"
  PROVE  EgressOK(Set(cn, c, s), b)
<1> DEFINE x == Set(cn, c, s)
<1>1. /\ At(x, "room") = At(cn, "room") \ {c}
      /\ c \notin At(cn, "room")
  <2>1. x[c] = s /\ \A d \in Conn \ {c} : x[d] = cn[d]
    BY Move
  <2> HIDE DEF x
  <2>2. At(x, "room") = At(cn, "room") \ {c}
    BY <2>1 DEF At
  <2>3. c \notin At(cn, "room")
    BY DEF At
  <2> QED BY <2>2, <2>3
<1>2. /\ Changed(Owing(cn), Owing(x), c) /\ Changed(AnswerEach, AnswerEach, c)
      /\ \A d \in Conn : AnswerEach[d] = Answer
  BY MoveOwns DEF Changed, AnswerEach
<1>3. Owing(x)[c] = Owing(cn)[c]
  <2>1. Owing(cn)[c] = (IF cn[c].charge = "held" THEN Answer ELSE 0)
    BY MoveOwns
  <2>2. Owing(x)[c] = (IF s.charge = "held" THEN Answer ELSE 0)
    BY MoveOwns
  <2> HIDE DEF x
  <2> QED BY <1>2, <2>1, <2>2, Limits
<1>4. Kept(b, At(cn, "room"), Owing(cn), AnswerEach, EgressCeiling) /\ Blocked(b, EgressCeiling)
  BY DEF EgressOK
<1>5. At(cn, "room") \subseteq Conn
  BY DEF At
<1> HIDE DEF x
<1>6. Kept(b, At(x, "room"), Owing(x), AnswerEach, EgressCeiling)
  BY <1>1, <1>2, <1>3, <1>4, KeptSame, Limits
<1>7. Blocked(b, EgressCeiling)
  BY <1>4
<1> QED BY <1>6, <1>7 DEF EgressOK, x

LEMMA EgressClaims ==
  ASSUME NEW cn \in [Conn -> ConnState], NEW c \in Conn, NEW s \in ConnState, NEW b, EgressOK(cn, b),
         cn[c].at # "room", s.at # "room", cn[c].charge # "held",
         s.charge = "held", Claims(b, Answer, EgressCeiling)
  PROVE  EgressOK(Set(cn, c, s), Claim(b, Answer))
<1> DEFINE x == Set(cn, c, s)
<1>1. /\ At(x, "room") = At(cn, "room") \ {c}
      /\ c \notin At(cn, "room")
  <2>1. x[c] = s /\ \A d \in Conn \ {c} : x[d] = cn[d]
    BY Move
  <2> HIDE DEF x
  <2>2. At(x, "room") = At(cn, "room") \ {c}
    BY <2>1 DEF At
  <2>3. c \notin At(cn, "room")
    BY DEF At
  <2> QED BY <2>2, <2>3
<1>2. /\ Changed(Owing(cn), Owing(x), c) /\ Changed(AnswerEach, AnswerEach, c)
      /\ \A d \in Conn : AnswerEach[d] = Answer
  BY MoveOwns DEF Changed, AnswerEach
<1>3. Owing(x)[c] = Owing(cn)[c] + Answer
  <2>1. Owing(cn)[c] = (IF cn[c].charge = "held" THEN Answer ELSE 0)
    BY MoveOwns
  <2>2. Owing(x)[c] = (IF s.charge = "held" THEN Answer ELSE 0)
    BY MoveOwns
  <2> HIDE DEF x
  <2> QED BY <1>2, <2>1, <2>2, Limits
<1>4. Kept(b, At(cn, "room"), Owing(cn), AnswerEach, EgressCeiling) /\ Blocked(b, EgressCeiling)
  BY DEF EgressOK
<1>5. At(cn, "room") \subseteq Conn
  BY DEF At
<1> HIDE DEF x
<1> DEFINE W == At(cn, "room")
           O == Owing(cn)
           P == Owing(x)
<1>10. PICK n \in Nat : n = Answer
  BY Limits
<1>11. /\ Kept(b, W, O, AnswerEach, EgressCeiling) /\ c \notin W /\ Changed(O, P, c)
       /\ Changed(AnswerEach, AnswerEach, c) /\ P[c] = O[c] + n /\ Claims(b, n, EgressCeiling)
  BY <1>1, <1>2, <1>3, <1>4, <1>10
<1>12. At(x, "room") = W \ {c}
  BY <1>1
<1>13. EgressCeiling \in Nat
  BY Limits
<1> HIDE DEF W, O, P
<1>8. /\ Kept(Claim(b, n), W \ {c}, P, AnswerEach, EgressCeiling)
      /\ Blocked(b, EgressCeiling) => Blocked(Claim(b, n), EgressCeiling)
  BY <1>11, <1>13, KeptClaim
<1>6. Kept(Claim(b, Answer), At(x, "room"), Owing(x), AnswerEach, EgressCeiling)
  BY <1>8, <1>10, <1>12 DEF P
<1>7. Blocked(Claim(b, Answer), EgressCeiling)
  BY <1>4, <1>8, <1>10
<1> QED BY <1>6, <1>7 DEF EgressOK, x

LEMMA EgressEnqueues ==
  ASSUME NEW cn \in [Conn -> ConnState], NEW c \in Conn, NEW s \in ConnState, NEW b, EgressOK(cn, b),
         cn[c].at # "room", s.at = "room", cn[c].charge # "held",
         s.charge # "held", ~ Claims(b, Answer, EgressCeiling)
  PROVE  EgressOK(Set(cn, c, s), Enqueue(b, c, Answer))
<1> DEFINE x == Set(cn, c, s)
<1>1. /\ At(x, "room") = At(cn, "room") \cup {c}
      /\ c \notin At(cn, "room")
  <2>1. x[c] = s /\ \A d \in Conn \ {c} : x[d] = cn[d]
    BY Move
  <2> HIDE DEF x
  <2>2. At(x, "room") = At(cn, "room") \cup {c}
    BY <2>1 DEF At
  <2>3. c \notin At(cn, "room")
    BY DEF At
  <2> QED BY <2>2, <2>3
<1>2. /\ Changed(Owing(cn), Owing(x), c) /\ Changed(AnswerEach, AnswerEach, c)
      /\ \A d \in Conn : AnswerEach[d] = Answer
  BY MoveOwns DEF Changed, AnswerEach
<1>3. Owing(x)[c] = Owing(cn)[c]
  <2>1. Owing(cn)[c] = (IF cn[c].charge = "held" THEN Answer ELSE 0)
    BY MoveOwns
  <2>2. Owing(x)[c] = (IF s.charge = "held" THEN Answer ELSE 0)
    BY MoveOwns
  <2> HIDE DEF x
  <2> QED BY <1>2, <2>1, <2>2, Limits
<1>4. Kept(b, At(cn, "room"), Owing(cn), AnswerEach, EgressCeiling) /\ Blocked(b, EgressCeiling)
  BY DEF EgressOK
<1>5. At(cn, "room") \subseteq Conn
  BY DEF At
<1> HIDE DEF x
<1>8. /\ Kept(Enqueue(b, c, Answer), At(x, "room"), Owing(x), AnswerEach, EgressCeiling)
      /\ Enqueue(b, c, Answer).waiting = b.waiting + 1
      /\ Blocked(b, EgressCeiling) => Blocked(Enqueue(b, c, Answer), EgressCeiling)
  BY <1>1, <1>2, <1>3, <1>4, KeptEnqueue, Limits
<1>6. Kept(Enqueue(b, c, Answer), At(x, "room"), Owing(x), AnswerEach, EgressCeiling)
  BY <1>8
<1>7. Blocked(Enqueue(b, c, Answer), EgressCeiling)
  BY <1>4, <1>8
<1> QED BY <1>6, <1>7 DEF EgressOK, x

LEMMA EgressTaken ==
  ASSUME NEW cn \in [Conn -> ConnState], NEW c \in Conn, NEW s \in ConnState, NEW b, EgressOK(cn, b),
         cn[c].at = "room", c \in b.granted, s.at # "room", cn[c].charge # "held",
         s.charge = "held"
  PROVE  EgressOK(Set(cn, c, s), Taken(b, c))
<1> DEFINE x == Set(cn, c, s)
<1>1. /\ At(x, "room") = At(cn, "room") \ {c}
      /\ c \in At(cn, "room")
  <2>1. x[c] = s /\ \A d \in Conn \ {c} : x[d] = cn[d]
    BY Move
  <2> HIDE DEF x
  <2>2. At(x, "room") = At(cn, "room") \ {c}
    BY <2>1 DEF At
  <2>3. c \in At(cn, "room")
    BY DEF At
  <2> QED BY <2>2, <2>3
<1>2. /\ Changed(Owing(cn), Owing(x), c) /\ Changed(AnswerEach, AnswerEach, c)
      /\ \A d \in Conn : AnswerEach[d] = Answer
  BY MoveOwns DEF Changed, AnswerEach
<1>3. Owing(x)[c] = Owing(cn)[c] + AnswerEach[c]
  <2>1. Owing(cn)[c] = (IF cn[c].charge = "held" THEN Answer ELSE 0)
    BY MoveOwns
  <2>2. Owing(x)[c] = (IF s.charge = "held" THEN Answer ELSE 0)
    BY MoveOwns
  <2> HIDE DEF x
  <2> QED BY <1>2, <2>1, <2>2, Limits
<1>4. Kept(b, At(cn, "room"), Owing(cn), AnswerEach, EgressCeiling) /\ Blocked(b, EgressCeiling)
  BY DEF EgressOK
<1>5. At(cn, "room") \subseteq Conn
  BY DEF At
<1> HIDE DEF x
<1>6. Kept(Taken(b, c), At(x, "room"), Owing(x), AnswerEach, EgressCeiling)
  BY <1>1, <1>2, <1>3, <1>4, KeptTaken, Limits
<1>7. Blocked(Taken(b, c), EgressCeiling)
  <2>1. Taken(b, c).queue = b.queue /\ Taken(b, c).held = b.held
    BY <1>4, TakenLined DEF Kept
  <2> QED BY <1>4, <2>1, BlockedSame
<1> QED BY <1>6, <1>7 DEF EgressOK, x

LEMMA EgressAbandons ==
  ASSUME NEW cn \in [Conn -> ConnState], NEW c \in Conn, NEW s \in ConnState, NEW b, EgressOK(cn, b),
         cn[c].at = "room", c \notin b.granted, s.at # "room", cn[c].charge # "held",
         s.charge # "held"
  PROVE  EgressOK(Set(cn, c, s), Abandon(b, c))
<1> DEFINE x == Set(cn, c, s)
<1>1. /\ At(x, "room") = At(cn, "room") \ {c}
      /\ c \in At(cn, "room")
  <2>1. x[c] = s /\ \A d \in Conn \ {c} : x[d] = cn[d]
    BY Move
  <2> HIDE DEF x
  <2>2. At(x, "room") = At(cn, "room") \ {c}
    BY <2>1 DEF At
  <2>3. c \in At(cn, "room")
    BY DEF At
  <2> QED BY <2>2, <2>3
<1>2. /\ Changed(Owing(cn), Owing(x), c) /\ Changed(AnswerEach, AnswerEach, c)
      /\ \A d \in Conn : AnswerEach[d] = Answer
  BY MoveOwns DEF Changed, AnswerEach
<1>3. Owing(x)[c] = Owing(cn)[c]
  <2>1. Owing(cn)[c] = (IF cn[c].charge = "held" THEN Answer ELSE 0)
    BY MoveOwns
  <2>2. Owing(x)[c] = (IF s.charge = "held" THEN Answer ELSE 0)
    BY MoveOwns
  <2> HIDE DEF x
  <2> QED BY <1>2, <2>1, <2>2, Limits
<1>4. Kept(b, At(cn, "room"), Owing(cn), AnswerEach, EgressCeiling) /\ Blocked(b, EgressCeiling)
  BY DEF EgressOK
<1>5. At(cn, "room") \subseteq Conn
  BY DEF At
<1> HIDE DEF x
<1>8. \A d \in At(cn, "room") : AnswerEach[d] = Answer
  BY <1>2, <1>5
<1>9. Kept(Abandon(b, c), At(x, "room"), Owing(x), AnswerEach, EgressCeiling) /\ Abandon(b, c).waiting <= b.waiting
  BY <1>1, <1>2, <1>3, <1>4, KeptAbandon, Limits
<1>6. Kept(Abandon(b, c), At(x, "room"), Owing(x), AnswerEach, EgressCeiling)
  BY <1>9
<1>7. Blocked(Abandon(b, c), EgressCeiling)
  <2>1. Lined(b, At(cn, "room"), AnswerEach) /\ c \in At(cn, "room") \ b.granted
    BY <1>1, <1>4 DEF Kept
  <2> QED BY <1>4, <1>8, <2>1, AbandonBlocked, Limits
<1> QED BY <1>6, <1>7 DEF EgressOK, x

LEMMA EgressReleases ==
  ASSUME NEW cn \in [Conn -> ConnState], NEW c \in Conn, NEW s \in ConnState, NEW b, EgressOK(cn, b),
         cn[c].at # "room", s.at # "room", cn[c].charge = "held",
         s.charge # "held"
  PROVE  EgressOK(Set(cn, c, s), Release(b, Answer, EgressCeiling))
<1> DEFINE x == Set(cn, c, s)
<1>1. /\ At(x, "room") = At(cn, "room") \ {c}
      /\ c \notin At(cn, "room")
  <2>1. x[c] = s /\ \A d \in Conn \ {c} : x[d] = cn[d]
    BY Move
  <2> HIDE DEF x
  <2>2. At(x, "room") = At(cn, "room") \ {c}
    BY <2>1 DEF At
  <2>3. c \notin At(cn, "room")
    BY DEF At
  <2> QED BY <2>2, <2>3
<1>2. /\ Changed(Owing(cn), Owing(x), c) /\ Changed(AnswerEach, AnswerEach, c)
      /\ \A d \in Conn : AnswerEach[d] = Answer
  BY MoveOwns DEF Changed, AnswerEach
<1>3. Owing(x)[c] = Owing(cn)[c] - Answer /\ Owing(x)[c] \in Nat
  <2>1. Owing(cn)[c] = (IF cn[c].charge = "held" THEN Answer ELSE 0)
    BY MoveOwns
  <2>2. Owing(x)[c] = (IF s.charge = "held" THEN Answer ELSE 0)
    BY MoveOwns
  <2> HIDE DEF x
  <2> QED BY <1>2, <2>1, <2>2, Limits
<1>4. Kept(b, At(cn, "room"), Owing(cn), AnswerEach, EgressCeiling) /\ Blocked(b, EgressCeiling)
  BY DEF EgressOK
<1>5. At(cn, "room") \subseteq Conn
  BY DEF At
<1> HIDE DEF x
<1>10. PICK n \in Nat : n = Answer
  BY Limits
<1> DEFINE W == At(cn, "room")
           O == Owing(cn)
           P == Owing(x)
<1>11. /\ Kept(b, W, O, AnswerEach, EgressCeiling) /\ c \notin W /\ Changed(O, P, c)
       /\ Changed(AnswerEach, AnswerEach, c) /\ P[c] = O[c] - n /\ P[c] \in Nat
  BY <1>1, <1>2, <1>3, <1>4, <1>10
<1>12. At(x, "room") = W \ {c}
  BY <1>1
<1>13. EgressCeiling \in Nat
  BY Limits
<1> HIDE DEF W, O, P
<1>8. /\ Kept(Release(b, n, EgressCeiling), W \ {c}, P, AnswerEach, EgressCeiling)
      /\ Blocked(Release(b, n, EgressCeiling), EgressCeiling)
  BY <1>11, <1>13, KeptRelease
<1>6. Kept(Release(b, Answer, EgressCeiling), At(x, "room"), Owing(x), AnswerEach, EgressCeiling)
  BY <1>8, <1>10, <1>12 DEF P
<1>7. Blocked(Release(b, Answer, EgressCeiling), EgressCeiling)
  BY <1>8, <1>10
<1> QED BY <1>6, <1>7 DEF EgressOK, x

-----------------------------------------------------------------------------
(* The turns *)

LEMMA Parked ==
  ASSUME NEW s \in ConnState, NEW p \in Parks
  PROVE  /\ [s EXCEPT !.at = p] \in ConnState /\ [s EXCEPT !.at = p].at = p
         /\ [s EXCEPT !.at = p].len = s.len /\ [s EXCEPT !.at = p].charged = s.charged
         /\ [s EXCEPT !.at = p].phase = s.phase /\ [s EXCEPT !.at = p].end = s.end
         /\ [s EXCEPT !.at = p].held = s.held /\ [s EXCEPT !.at = p].charge = s.charge
         /\ readBufferTarget([s EXCEPT !.at = p]) = readBufferTarget(s)
<1> DEFINE x == [s EXCEPT !.at = p]
<1>1. x \in ConnState /\ x.at = p /\ x.len = s.len /\ x.charged = s.charged
  BY DEF ConnState
<1>2. x.phase = s.phase /\ x.end = s.end /\ x.held = s.held /\ x.charge = s.charge
  BY DEF ConnState
<1> HIDE DEF x
<1>3. readBufferTarget(x) = readBufferTarget(s)
  BY <1>1, <1>2 DEF readBufferTarget
<1> QED BY <1>1, <1>2, <1>3 DEF x

LEMMA ClosedFits ==
  Closed \in ConnState /\ Closed.at = "closed" /\ Closed.charged = 0 /\ Closed.charge = "uncharged"
  /\ ~ Closed.held /\ Fits(Closed)
<1>1. Closed \in ConnState
  BY DEF Closed, ConnState, Parks, Charge
<1>2. /\ Closed.at = "closed" /\ Closed.charged = 0 /\ Closed.charge = "uncharged" /\ ~ Closed.held
      /\ Closed.len = 0 /\ Closed.phase = "header"
  BY DEF Closed
<1> QED BY <1>1, <1>2 DEF Fits

LEMMA BaseMoves ==
  ASSUME Base(conn, active, unframed), NEW c \in Conn, NEW s, Fits(s),
         conn[c].at # "closed", s.held => conn[c].held, Becomes(c, s)
  PROVE  /\ conn' = Set(conn, c, s) /\ s \in ConnState /\ conn \in [Conn -> ConnState]
         /\ conn[c] \in ConnState /\ Base(conn', active', unframed')
<1>1. conn \in [Conn -> ConnState] /\ \A d \in Conn : Fits(conn[d])
  BY DEF Base
<1>2. s \in ConnState /\ conn[c] \in ConnState
  BY <1>1 DEF Fits
<1>3. conn' = Set(conn, c, s)
  BY DEF Becomes, Set
<1> DEFINE x == Set(conn, c, s)
<1>4. x \in [Conn -> ConnState] /\ x[c] = s /\ \A d \in Conn \ {c} : x[d] = conn[d]
  BY <1>1, <1>2, Move
<1> HIDE DEF x
<1>5. \A d \in Conn : Fits(x[d])
  BY <1>1, <1>4
<1> DEFINE A == {d \in Conn : conn[d].at # "closed"}
           B == {d \in Conn : x[d].at # "closed"}
           H == {d \in Conn : conn[d].held}
           J == {d \in Conn : x[d].held}
<1>6. /\ IsFiniteSet(A) /\ IsFiniteSet(H) /\ Cardinality(A) = active /\ Cardinality(H) = unframed
  <2>1. A \in SUBSET Conn /\ H \in SUBSET Conn
    OBVIOUS
  <2>2. IsFiniteSet(A) /\ IsFiniteSet(H)
    BY <2>1, Limits, FS_Subset
  <2> QED BY <2>2 DEF Base, Counted
<1>7. Cardinality(B) = active'
  <2>1. CASE s.at = "closed"
    <3>1. B = A \ {c} /\ c \in A
      BY <1>4, <2>1
    <3>2. Cardinality(A \ {c}) = Cardinality(A) - 1
      BY <1>6, <3>1, FS_RemoveElement
    <3>3. active' = active - 1
      BY <2>1 DEF Becomes
    <3> QED BY <1>6, <3>1, <3>2, <3>3
  <2>2. CASE s.at # "closed"
    <3>1. B = A
      BY <1>4, <2>2
    <3>2. active' = active
      BY <2>2 DEF Becomes
    <3> QED BY <1>6, <3>1, <3>2
  <2> QED BY <2>1, <2>2
<1>8. Cardinality(J) = unframed'
  <2>1. CASE conn[c].held /\ ~ s.held
    <3>1. J = H \ {c} /\ c \in H
      BY <1>4, <2>1
    <3>2. Cardinality(H \ {c}) = Cardinality(H) - 1
      BY <1>6, <3>1, FS_RemoveElement
    <3>3. unframed' = unframed - 1
      BY <2>1 DEF Becomes
    <3> QED BY <1>6, <3>1, <3>2, <3>3
  <2>2. CASE ~ (conn[c].held /\ ~ s.held)
    <3>1. s.held <=> conn[c].held
      BY <2>2
    <3>2. J = H
      BY <1>4, <3>1
    <3>3. unframed' = unframed
      BY <2>2 DEF Becomes
    <3> QED BY <1>6, <3>2, <3>3
  <2> QED BY <2>1, <2>2
<1>9. Counted(x, active', unframed')
  BY <1>7, <1>8 DEF Counted
<1>10. Base(x, active', unframed')
  BY <1>4, <1>5, <1>9 DEF Base
<1> QED BY <1>1, <1>2, <1>3, <1>10 DEF x

LEMMA OfferedMoves ==
  ASSUME NEW cn \in [Conn -> ConnState], NEW c \in Conn, NEW s \in ConnState, NEW b, NEW y,
         Offered(cn, b), cn[c].at # "refused", Blocked(b, Ceiling) => Blocked(y, Ceiling)
  PROVE  Offered(Set(cn, c, s), y)
<1>1. \A d \in Conn \ {c} : Set(cn, c, s)[d] = cn[d]
  BY Move
<1> QED BY <1>1 DEF Offered

LEMMA OfferedWhenRefused ==
  ASSUME NEW cn \in [Conn -> ConnState], NEW c \in Conn, NEW s \in ConnState, NEW b, s.at = "refused"
  PROVE  Offered(Set(cn, c, s), b)
<1>1. Set(cn, c, s)[c] = s
  BY Move
<1> QED BY <1>1 DEF Offered

\* What a turn of c's task leaves of everything but the answers' budget.
Settled(c) ==
  /\ Base(conn', active', unframed')
  /\ BudgetOK(conn', budget') /\ Offered(conn', budget') /\ SlotsOK(conn', slots')
  /\ \E t \in ConnState : conn' = Set(conn, c, t) /\ t.charge # "held" /\ t.at # "room"

Elsewhere(c) == conn[c].at \notin {"closed", "queued", "calling", "room"}

LEMMA RetireKeeps ==
  ASSUME Base(conn, active, unframed), SlotsOK(conn, slots), NEW c \in Conn, Elsewhere(c),
         NEW s \in ConnState, NEW b, NEW t \in ConnState, t.at # "waiting", t.charged = s.charged,
         BudgetOK(Set(conn, c, t), b), Retire(c, s, b)
  PROVE  Settled(c)
<1>1. Becomes(c, Closed) /\ budget' = Release(b, s.charged, Ceiling) /\ slots' = slots
  BY DEF Retire
<1>2. /\ Closed \in ConnState /\ Closed.at = "closed" /\ Closed.charged = 0
      /\ Closed.charge = "uncharged" /\ ~ Closed.held /\ Fits(Closed)
  BY ClosedFits
<1>3. /\ conn' = Set(conn, c, Closed) /\ conn \in [Conn -> ConnState] /\ conn[c] \in ConnState
      /\ Base(conn', active', unframed')
  BY <1>1, <1>2, BaseMoves DEF Elsewhere
<1> DEFINE x == Set(conn, c, t)
<1>4. /\ x \in [Conn -> ConnState] /\ x[c] = t /\ Set(x, c, Closed) = Set(conn, c, Closed)
  BY <1>2, <1>3, Move
<1>5. s.charged \in Nat /\ 0 = t.charged - s.charged
  BY Fields
<1> HIDE DEF x
<1>6. BudgetOK(Set(x, c, Closed), Release(b, s.charged, Ceiling))
      /\ Blocked(Release(b, s.charged, Ceiling), Ceiling)
  BY <1>2, <1>4, <1>5, BudgetReleases DEF x
<1>7. BudgetOK(conn', budget') /\ Offered(conn', budget')
  BY <1>1, <1>3, <1>4, <1>6 DEF Offered
<1>8. SlotsOK(conn', slots')
  BY <1>1, <1>2, <1>3, SlotsStays DEF Elsewhere
<1> QED BY <1>2, <1>3, <1>7, <1>8 DEF Settled

LEMMA RefuseKeeps ==
  ASSUME Base(conn, active, unframed), SlotsOK(conn, slots), NEW c \in Conn, Elsewhere(c),
         NEW s \in ConnState, NEW b, NEW t \in ConnState, t.at # "waiting", t.charged = s.charged,
         BudgetOK(Set(conn, c, t), b), refuseOverBudget(c, s, b),
         s.phase # "header" => Fits([s EXCEPT !.at = "refused"]),
         s.held => conn[c].held, s.charge = "uncharged"
  PROVE  Settled(c)
<1>1. CASE s.phase = "header"
  BY <1>1, RetireKeeps DEF refuseOverBudget
<1>2. CASE s.phase # "header"
  <2> DEFINE r == [s EXCEPT !.at = "refused"]
  <2>1. Becomes(c, r) /\ budget' = b /\ slots' = slots
    BY <1>2 DEF refuseOverBudget
  <2>0. "refused" \in Parks
    BY DEF Parks
  <2>8. /\ r \in ConnState /\ r.at = "refused" /\ r.charged = s.charged /\ r.held = s.held
        /\ r.charge = s.charge
    BY <2>0, Parked
  <2>9. Fits(r)
    BY <1>2
  <2> HIDE DEF r
  <2>2. /\ r \in ConnState /\ r.at = "refused" /\ r.charged = s.charged /\ r.held = s.held
        /\ r.charge = "uncharged" /\ Fits(r)
    BY <2>8, <2>9
  <2>3. /\ conn' = Set(conn, c, r) /\ conn \in [Conn -> ConnState] /\ conn[c] \in ConnState
        /\ Base(conn', active', unframed')
    BY <2>1, <2>2, BaseMoves DEF Elsewhere
  <2> DEFINE x == Set(conn, c, t)
  <2>4. /\ x \in [Conn -> ConnState] /\ x[c] = t /\ Set(x, c, r) = Set(conn, c, r)
    BY <2>2, <2>3, Move
  <2> HIDE DEF x
  <2>5. BudgetOK(Set(x, c, r), b)
    BY <2>2, <2>4, BudgetStays DEF x
  <2>6. Offered(Set(conn, c, r), b)
    BY <2>2, <2>3, OfferedWhenRefused
  <2>7. SlotsOK(Set(conn, c, r), slots)
    BY <2>2, <2>3, SlotsStays DEF Elsewhere
  <2> QED BY <2>1, <2>2, <2>3, <2>4, <2>5, <2>6, <2>7 DEF Settled
<1> QED BY <1>1, <1>2

\* A state field by field.
Is(x, at, len, charged, phase, end, held, charge) ==
  /\ x.at = at /\ x.len = len /\ x.charged = charged /\ x.phase = phase
  /\ x.end = end /\ x.held = held /\ x.charge = charge

LEMMA Charging ==
  ASSUME NEW s \in ConnState, NEW a \in Parks, NEW k \in Nat
  PROVE  LET x == [s EXCEPT !.at = a, !.charged = k]
         IN  x \in ConnState /\ Is(x, a, s.len, k, s.phase, s.end, s.held, s.charge)
<1> DEFINE x == [s EXCEPT !.at = a, !.charged = k]
<1>1. PICK a0 \in Parks, l0 \in Nat, k0 \in Nat, p0 \in {"header", "fixed", "chunked"}, e0 \in Nat, h0 \in BOOLEAN, g0 \in Charge :
        s = [at |-> a0, len |-> l0, charged |-> k0, phase |-> p0,
     end |-> e0, held |-> h0, charge |-> g0]
  BY DEF ConnState
<1>2. /\ s.at = a0 /\ s.len = l0 /\ s.charged = k0 /\ s.phase = p0
      /\ s.end = e0 /\ s.held = h0 /\ s.charge = g0
  BY <1>1
<1>3. x = [at |-> a, len |-> l0, charged |-> k, phase |-> p0,
     end |-> e0, held |-> h0, charge |-> g0]
  <2> DEFINE x1 == [s EXCEPT !.at = a]
             x2 == [x1 EXCEPT !.charged = k]
  <2>0. x = x2
    OBVIOUS
  <2>1. x1 = [at |-> a, len |-> l0, charged |-> k0, phase |-> p0,
     end |-> e0, held |-> h0, charge |-> g0]
    BY <1>1
  <2> HIDE DEF x1
  <2>2. x2 = [at |-> a, len |-> l0, charged |-> k, phase |-> p0,
     end |-> e0, held |-> h0, charge |-> g0]
    BY <2>1
  <2> HIDE DEF x2
  <2> QED BY <2>0, <2>2
<1> HIDE DEF x
<1>4. x \in ConnState /\ Is(x, a, l0, k, p0, e0, h0, g0)
  <2>1. x \in ConnState
    BY <1>3 DEF ConnState
  <2>2. Is(x, a, l0, k, p0, e0, h0, g0)
    BY <1>3 DEF Is
  <2> QED BY <2>1, <2>2
<1> QED BY <1>2, <1>4 DEF x

LEMMA Letting ==
  ASSUME NEW s \in ConnState, NEW a \in Parks, NEW h \in BOOLEAN
  PROVE  LET x == [s EXCEPT !.at = a, !.held = h]
         IN  x \in ConnState /\ Is(x, a, s.len, s.charged, s.phase, s.end, h, s.charge)
<1> DEFINE x == [s EXCEPT !.at = a, !.held = h]
<1>1. PICK a0 \in Parks, l0 \in Nat, k0 \in Nat, p0 \in {"header", "fixed", "chunked"}, e0 \in Nat, h0 \in BOOLEAN, g0 \in Charge :
        s = [at |-> a0, len |-> l0, charged |-> k0, phase |-> p0,
     end |-> e0, held |-> h0, charge |-> g0]
  BY DEF ConnState
<1>2. /\ s.at = a0 /\ s.len = l0 /\ s.charged = k0 /\ s.phase = p0
      /\ s.end = e0 /\ s.held = h0 /\ s.charge = g0
  BY <1>1
<1>3. x = [at |-> a, len |-> l0, charged |-> k0, phase |-> p0,
     end |-> e0, held |-> h, charge |-> g0]
  <2> DEFINE x1 == [s EXCEPT !.at = a]
             x2 == [x1 EXCEPT !.held = h]
  <2>0. x = x2
    OBVIOUS
  <2>1. x1 = [at |-> a, len |-> l0, charged |-> k0, phase |-> p0,
     end |-> e0, held |-> h0, charge |-> g0]
    BY <1>1
  <2> HIDE DEF x1
  <2>2. x2 = [at |-> a, len |-> l0, charged |-> k0, phase |-> p0,
     end |-> e0, held |-> h, charge |-> g0]
    BY <2>1
  <2> HIDE DEF x2
  <2> QED BY <2>0, <2>2
<1> HIDE DEF x
<1>4. x \in ConnState /\ Is(x, a, l0, k0, p0, e0, h, g0)
  <2>1. x \in ConnState
    BY <1>3 DEF ConnState
  <2>2. Is(x, a, l0, k0, p0, e0, h, g0)
    BY <1>3 DEF Is
  <2> QED BY <2>1, <2>2
<1> QED BY <1>2, <1>4 DEF x

LEMMA Fixing ==
  ASSUME NEW s \in ConnState, NEW p \in {"header", "fixed", "chunked"}, NEW e \in Nat, NEW h \in BOOLEAN
  PROVE  LET x == [s EXCEPT !.phase = p, !.end = e, !.held = h]
         IN  x \in ConnState /\ Is(x, s.at, s.len, s.charged, p, e, h, s.charge)
<1> DEFINE x == [s EXCEPT !.phase = p, !.end = e, !.held = h]
<1>1. PICK a0 \in Parks, l0 \in Nat, k0 \in Nat, p0 \in {"header", "fixed", "chunked"}, e0 \in Nat, h0 \in BOOLEAN, g0 \in Charge :
        s = [at |-> a0, len |-> l0, charged |-> k0, phase |-> p0,
     end |-> e0, held |-> h0, charge |-> g0]
  BY DEF ConnState
<1>2. /\ s.at = a0 /\ s.len = l0 /\ s.charged = k0 /\ s.phase = p0
      /\ s.end = e0 /\ s.held = h0 /\ s.charge = g0
  BY <1>1
<1>3. x = [at |-> a0, len |-> l0, charged |-> k0, phase |-> p,
     end |-> e, held |-> h, charge |-> g0]
  <2> DEFINE x1 == [s EXCEPT !.phase = p]
             x2 == [x1 EXCEPT !.end = e]
             x3 == [x2 EXCEPT !.held = h]
  <2>0. x = x3
    OBVIOUS
  <2>1. x1 = [at |-> a0, len |-> l0, charged |-> k0, phase |-> p,
     end |-> e0, held |-> h0, charge |-> g0]
    BY <1>1
  <2> HIDE DEF x1
  <2>2. x2 = [at |-> a0, len |-> l0, charged |-> k0, phase |-> p,
     end |-> e, held |-> h0, charge |-> g0]
    BY <2>1
  <2> HIDE DEF x2
  <2>3. x3 = [at |-> a0, len |-> l0, charged |-> k0, phase |-> p,
     end |-> e, held |-> h, charge |-> g0]
    BY <2>2
  <2> HIDE DEF x3
  <2> QED BY <2>0, <2>3
<1> HIDE DEF x
<1>4. x \in ConnState /\ Is(x, a0, l0, k0, p, e, h, g0)
  <2>1. x \in ConnState
    BY <1>3 DEF ConnState
  <2>2. Is(x, a0, l0, k0, p, e, h, g0)
    BY <1>3 DEF Is
  <2> QED BY <2>1, <2>2
<1> QED BY <1>2, <1>4 DEF x

LEMMA Chunking ==
  ASSUME NEW s \in ConnState, NEW p \in {"header", "fixed", "chunked"}, NEW h \in BOOLEAN
  PROVE  LET x == [s EXCEPT !.phase = p, !.held = h]
         IN  x \in ConnState /\ Is(x, s.at, s.len, s.charged, p, s.end, h, s.charge)
<1> DEFINE x == [s EXCEPT !.phase = p, !.held = h]
<1>1. PICK a0 \in Parks, l0 \in Nat, k0 \in Nat, p0 \in {"header", "fixed", "chunked"}, e0 \in Nat, h0 \in BOOLEAN, g0 \in Charge :
        s = [at |-> a0, len |-> l0, charged |-> k0, phase |-> p0,
     end |-> e0, held |-> h0, charge |-> g0]
  BY DEF ConnState
<1>2. /\ s.at = a0 /\ s.len = l0 /\ s.charged = k0 /\ s.phase = p0
      /\ s.end = e0 /\ s.held = h0 /\ s.charge = g0
  BY <1>1
<1>3. x = [at |-> a0, len |-> l0, charged |-> k0, phase |-> p,
     end |-> e0, held |-> h, charge |-> g0]
  <2> DEFINE x1 == [s EXCEPT !.phase = p]
             x2 == [x1 EXCEPT !.held = h]
  <2>0. x = x2
    OBVIOUS
  <2>1. x1 = [at |-> a0, len |-> l0, charged |-> k0, phase |-> p,
     end |-> e0, held |-> h0, charge |-> g0]
    BY <1>1
  <2> HIDE DEF x1
  <2>2. x2 = [at |-> a0, len |-> l0, charged |-> k0, phase |-> p,
     end |-> e0, held |-> h, charge |-> g0]
    BY <2>1
  <2> HIDE DEF x2
  <2> QED BY <2>0, <2>2
<1> HIDE DEF x
<1>4. x \in ConnState /\ Is(x, a0, l0, k0, p, e0, h, g0)
  <2>1. x \in ConnState
    BY <1>3 DEF ConnState
  <2>2. Is(x, a0, l0, k0, p, e0, h, g0)
    BY <1>3 DEF Is
  <2> QED BY <2>1, <2>2
<1> QED BY <1>2, <1>4 DEF x

LEMMA Rebasing ==
  ASSUME NEW s \in ConnState, NEW a \in Parks, NEW l \in Nat, NEW k \in Nat, NEW p \in {"header", "fixed", "chunked"}, NEW e \in Nat, NEW h \in BOOLEAN
  PROVE  LET x == [[s EXCEPT !.len = l, !.charged = k, !.phase = p, !.end = e, !.held = h] EXCEPT !.at = a]
         IN  x \in ConnState /\ Is(x, a, l, k, p, e, h, s.charge)
<1> DEFINE x == [[s EXCEPT !.len = l, !.charged = k, !.phase = p, !.end = e, !.held = h] EXCEPT !.at = a]
<1>1. PICK a0 \in Parks, l0 \in Nat, k0 \in Nat, p0 \in {"header", "fixed", "chunked"}, e0 \in Nat, h0 \in BOOLEAN, g0 \in Charge :
        s = [at |-> a0, len |-> l0, charged |-> k0, phase |-> p0,
     end |-> e0, held |-> h0, charge |-> g0]
  BY DEF ConnState
<1>2. /\ s.at = a0 /\ s.len = l0 /\ s.charged = k0 /\ s.phase = p0
      /\ s.end = e0 /\ s.held = h0 /\ s.charge = g0
  BY <1>1
<1>3. x = [at |-> a, len |-> l, charged |-> k, phase |-> p,
     end |-> e, held |-> h, charge |-> g0]
  <2> DEFINE x1 == [s EXCEPT !.len = l]
             x2 == [x1 EXCEPT !.charged = k]
             x3 == [x2 EXCEPT !.phase = p]
             x4 == [x3 EXCEPT !.end = e]
             x5 == [x4 EXCEPT !.held = h]
             x6 == [x5 EXCEPT !.at = a]
  <2>0. x = x6
    OBVIOUS
  <2>1. x1 = [at |-> a0, len |-> l, charged |-> k0, phase |-> p0,
     end |-> e0, held |-> h0, charge |-> g0]
    BY <1>1
  <2> HIDE DEF x1
  <2>2. x2 = [at |-> a0, len |-> l, charged |-> k, phase |-> p0,
     end |-> e0, held |-> h0, charge |-> g0]
    BY <2>1
  <2> HIDE DEF x2
  <2>3. x3 = [at |-> a0, len |-> l, charged |-> k, phase |-> p,
     end |-> e0, held |-> h0, charge |-> g0]
    BY <2>2
  <2> HIDE DEF x3
  <2>4. x4 = [at |-> a0, len |-> l, charged |-> k, phase |-> p,
     end |-> e, held |-> h0, charge |-> g0]
    BY <2>3
  <2> HIDE DEF x4
  <2>5. x5 = [at |-> a0, len |-> l, charged |-> k, phase |-> p,
     end |-> e, held |-> h, charge |-> g0]
    BY <2>4
  <2> HIDE DEF x5
  <2>6. x6 = [at |-> a, len |-> l, charged |-> k, phase |-> p,
     end |-> e, held |-> h, charge |-> g0]
    BY <2>5
  <2> HIDE DEF x6
  <2> QED BY <2>0, <2>6
<1> HIDE DEF x
<1>4. x \in ConnState /\ Is(x, a, l, k, p, e, h, g0)
  <2>1. x \in ConnState
    BY <1>3 DEF ConnState
  <2>2. Is(x, a, l, k, p, e, h, g0)
    BY <1>3 DEF Is
  <2> QED BY <2>1, <2>2
<1> QED BY <1>2, <1>4 DEF x

LEMMA Filling ==
  ASSUME NEW s \in ConnState, NEW l \in Nat
  PROVE  LET x == [s EXCEPT !.len = l]
         IN  x \in ConnState /\ Is(x, s.at, l, s.charged, s.phase, s.end, s.held, s.charge)
<1> DEFINE x == [s EXCEPT !.len = l]
<1>1. PICK a0 \in Parks, l0 \in Nat, k0 \in Nat, p0 \in {"header", "fixed", "chunked"}, e0 \in Nat, h0 \in BOOLEAN, g0 \in Charge :
        s = [at |-> a0, len |-> l0, charged |-> k0, phase |-> p0,
     end |-> e0, held |-> h0, charge |-> g0]
  BY DEF ConnState
<1>2. /\ s.at = a0 /\ s.len = l0 /\ s.charged = k0 /\ s.phase = p0
      /\ s.end = e0 /\ s.held = h0 /\ s.charge = g0
  BY <1>1
<1>3. x = [at |-> a0, len |-> l, charged |-> k0, phase |-> p0,
     end |-> e0, held |-> h0, charge |-> g0]
  BY <1>1
<1> HIDE DEF x
<1>4. x \in ConnState /\ Is(x, a0, l, k0, p0, e0, h0, g0)
  <2>1. x \in ConnState
    BY <1>3 DEF ConnState
  <2>2. Is(x, a0, l, k0, p0, e0, h0, g0)
    BY <1>3 DEF Is
  <2> QED BY <2>1, <2>2
<1> QED BY <1>2, <1>4 DEF x

LEMMA Discharging ==
  ASSUME NEW s \in ConnState, NEW g \in Charge
  PROVE  LET x == [s EXCEPT !.charge = g]
         IN  x \in ConnState /\ Is(x, s.at, s.len, s.charged, s.phase, s.end, s.held, g)
<1> DEFINE x == [s EXCEPT !.charge = g]
<1>1. PICK a0 \in Parks, l0 \in Nat, k0 \in Nat, p0 \in {"header", "fixed", "chunked"}, e0 \in Nat, h0 \in BOOLEAN, g0 \in Charge :
        s = [at |-> a0, len |-> l0, charged |-> k0, phase |-> p0,
     end |-> e0, held |-> h0, charge |-> g0]
  BY DEF ConnState
<1>2. /\ s.at = a0 /\ s.len = l0 /\ s.charged = k0 /\ s.phase = p0
      /\ s.end = e0 /\ s.held = h0 /\ s.charge = g0
  BY <1>1
<1>3. x = [at |-> a0, len |-> l0, charged |-> k0, phase |-> p0,
     end |-> e0, held |-> h0, charge |-> g]
  BY <1>1
<1> HIDE DEF x
<1>4. x \in ConnState /\ Is(x, a0, l0, k0, p0, e0, h0, g)
  <2>1. x \in ConnState
    BY <1>3 DEF ConnState
  <2>2. Is(x, a0, l0, k0, p0, e0, h0, g)
    BY <1>3 DEF Is
  <2> QED BY <2>1, <2>2
<1> QED BY <1>2, <1>4 DEF x

LEMMA Answering ==
  ASSUME NEW s \in ConnState, NEW a \in Parks, NEW g \in Charge
  PROVE  LET x == [s EXCEPT !.at = a, !.charge = g]
         IN  x \in ConnState /\ Is(x, a, s.len, s.charged, s.phase, s.end, s.held, g)
<1> DEFINE x == [s EXCEPT !.at = a, !.charge = g]
<1>1. PICK a0 \in Parks, l0 \in Nat, k0 \in Nat, p0 \in {"header", "fixed", "chunked"}, e0 \in Nat, h0 \in BOOLEAN, g0 \in Charge :
        s = [at |-> a0, len |-> l0, charged |-> k0, phase |-> p0,
     end |-> e0, held |-> h0, charge |-> g0]
  BY DEF ConnState
<1>2. /\ s.at = a0 /\ s.len = l0 /\ s.charged = k0 /\ s.phase = p0
      /\ s.end = e0 /\ s.held = h0 /\ s.charge = g0
  BY <1>1
<1>3. x = [at |-> a, len |-> l0, charged |-> k0, phase |-> p0,
     end |-> e0, held |-> h0, charge |-> g]
  <2> DEFINE x1 == [s EXCEPT !.at = a]
             x2 == [x1 EXCEPT !.charge = g]
  <2>0. x = x2
    OBVIOUS
  <2>1. x1 = [at |-> a, len |-> l0, charged |-> k0, phase |-> p0,
     end |-> e0, held |-> h0, charge |-> g0]
    BY <1>1
  <2> HIDE DEF x1
  <2>2. x2 = [at |-> a, len |-> l0, charged |-> k0, phase |-> p0,
     end |-> e0, held |-> h0, charge |-> g]
    BY <2>1
  <2> HIDE DEF x2
  <2> QED BY <2>0, <2>2
<1> HIDE DEF x
<1>4. x \in ConnState /\ Is(x, a, l0, k0, p0, e0, h0, g)
  <2>1. x \in ConnState
    BY <1>3 DEF ConnState
  <2>2. Is(x, a, l0, k0, p0, e0, h0, g)
    BY <1>3 DEF Is
  <2> QED BY <2>1, <2>2
<1> QED BY <1>2, <1>4 DEF x

Sound == /\ Base(conn, active, unframed)
         /\ BudgetOK(conn, budget) /\ Offered(conn, budget) /\ SlotsOK(conn, slots)

\* A task that scans or answers, with s as its state.
Here(c, s) == /\ conn[c].at \in {"accepted", "reading", "answering"}
              /\ s.charged = conn[c].charged /\ (s.held => conn[c].held)

\* What is about to read more.
Ready(s) ==
  /\ s \in ConnState /\ s.len <= s.charged /\ s.charge = "uncharged"
  /\ s.phase = "header" => s.len <= MaxHeader /\ s.charged <= MaxHeader + Chunk
  /\ s.phase # "header" => s.len > 0
  /\ s.phase = "fixed" => s.len < s.end /\ s.end <= MaxRequest
  /\ s.phase = "chunked" => s.len <= MaxRequest
  /\ s.charged < readBufferTarget(s) => s.charged <= MaxHeader + Chunk

LEMMA MovesOn ==
  ASSUME Sound, NEW c \in Conn, conn[c].at \in {"accepted", "reading", "answering"},
         NEW x, Fits(x), x.held => conn[c].held, Becomes(c, x), x.charge = "uncharged",
         x.at \in {"reading", "waiting", "rejected"},
         BudgetOK(Set(conn, c, x), budget'), Blocked(budget, Ceiling) => Blocked(budget', Ceiling),
         slots' = slots
  PROVE  Settled(c)
<1>1. /\ conn' = Set(conn, c, x) /\ x \in ConnState /\ conn \in [Conn -> ConnState]
      /\ conn[c] \in ConnState /\ Base(conn', active', unframed')
  BY BaseMoves DEF Sound
<1>2. Offered(Set(conn, c, x), budget')
  BY <1>1, OfferedMoves DEF Sound
<1>3. SlotsOK(Set(conn, c, x), slots)
  BY <1>1, SlotsStays DEF Sound
<1> QED BY <1>1, <1>2, <1>3 DEF Settled

LEMMA ReadMoreKeeps ==
  ASSUME Sound, NEW c \in Conn, NEW s, Ready(s), Here(c, s), readMore(c, s)
  PROVE  Settled(c)
<1>1. /\ s \in ConnState /\ s.len \in Nat /\ s.charged \in Nat /\ s.end \in Nat
      /\ s.phase \in {"header", "fixed", "chunked"} /\ readBufferTarget(s) \in Nat
  BY Fields, Target DEF Ready
<1>2. /\ conn \in [Conn -> ConnState] /\ conn[c] \in ConnState /\ BudgetOK(conn, budget)
      /\ conn[c].at \in {"accepted", "reading", "answering"}
      /\ s.charged = conn[c].charged /\ (s.held => conn[c].held)
  BY DEF Sound, Base, Here
<1>9. {"reading", "refused", "waiting"} \subseteq Parks
  BY DEF Parks
<1> DEFINE owed == readBufferTarget(s) - s.charged
<1>3. CASE owed <= 0 /\ Becomes(c, [s EXCEPT !.at = "reading"]) /\ UNCHANGED <<budget, slots>>
  <2> DEFINE x == [s EXCEPT !.at = "reading"]
  <2>1. /\ x \in ConnState /\ x.at = "reading" /\ x.len = s.len /\ x.charged = s.charged
        /\ x.phase = s.phase /\ x.end = s.end /\ x.held = s.held /\ x.charge = s.charge
        /\ readBufferTarget(x) = readBufferTarget(s)
    BY <1>1, <1>9, Parked
  <2>2. Becomes(c, x)
    BY <1>3
  <2> HIDE DEF x
  <2>3. s.charged >= readBufferTarget(s)
    BY <1>1, <1>3
  <2>4. Fits(x)
    BY <2>1, <2>3 DEF Fits, Ready
  <2>5. BudgetOK(Set(conn, c, x), budget)
    BY <1>2, <2>1, BudgetStays
  <2> QED BY <1>2, <1>3, <2>1, <2>2, <2>4, <2>5, MovesOn DEF Ready
<1>4. CASE /\ owed > 0 /\ Claims(budget, owed, Ceiling)
           /\ Becomes(c, [s EXCEPT !.at = "reading", !.charged = s.charged + owed])
           /\ budget' = Claim(budget, owed)
           /\ UNCHANGED slots
  <2> DEFINE y == s.charged + owed
             x == [s EXCEPT !.at = "reading", !.charged = y]
  <2>1. y = readBufferTarget(s) /\ owed \in Nat
    BY <1>1, <1>4
  <2>2. Becomes(c, x)
    BY <1>4
  <2>3. y \in Nat /\ "reading" \in Parks
    BY <1>1, <2>1 DEF Parks
  <2> HIDE DEF y
  <2>4. x \in ConnState /\ Is(x, "reading", s.len, y, s.phase, s.end, s.held, s.charge)
    BY <1>1, <2>3, Charging
  <2> HIDE DEF x
  <2>5. /\ x.at = "reading" /\ x.len = s.len /\ x.charged = y
        /\ x.phase = s.phase /\ x.end = s.end /\ x.held = s.held /\ x.charge = s.charge
    BY <2>4 DEF Is
  <2>6. readBufferTarget(x) = y
    BY <2>1, <2>5 DEF readBufferTarget
  <2>7. s.len <= y /\ (s.phase = "header" => y <= MaxHeader + Chunk)
    <3>1. s.charged < y /\ s.len <= s.charged
      BY <1>1, <1>4, <2>1 DEF Ready
    <3>2. s.phase = "header" => y = s.len + Chunk /\ s.len <= MaxHeader
      BY <1>1, <2>1, Target DEF Ready
    <3> QED BY <1>1, <2>1, <3>1, <3>2, Limits
  <2>8. Fits(x)
    BY <1>1, <2>1, <2>4, <2>5, <2>6, <2>7 DEF Fits, Ready
  <2>9. PICK n \in Nat : n = owed
    BY <2>1
  <2>10. x.charged = conn[c].charged + n /\ Claims(budget, n, Ceiling)
    BY <1>2, <1>4, <2>5, <2>9 DEF y
  <2>11. /\ BudgetOK(Set(conn, c, x), Claim(budget, n))
         /\ Blocked(budget, Ceiling) => Blocked(Claim(budget, n), Ceiling)
    BY <1>2, <2>4, <2>5, <2>10, BudgetClaims
  <2>12. BudgetOK(Set(conn, c, x), budget') /\ (Blocked(budget, Ceiling) => Blocked(budget', Ceiling))
    BY <1>4, <2>9, <2>11
  <2> QED BY <1>2, <1>4, <2>2, <2>5, <2>8, <2>12, MovesOn DEF Ready
<1>5. CASE owed > 0 /\ refuseOverBudget(c, s, budget)
  <2>1. Set(conn, c, conn[c]) = conn
    BY <1>2, Move
  <2>2. BudgetOK(Set(conn, c, conn[c]), budget) /\ conn[c].at # "waiting" /\ conn[c].charged = s.charged
    BY <1>2, <2>1
  <2>3. s.phase # "header" => Fits([s EXCEPT !.at = "refused"])
    <3> DEFINE x == [s EXCEPT !.at = "refused"]
    <3>1. /\ x \in ConnState /\ x.at = "refused" /\ x.len = s.len /\ x.charged = s.charged
          /\ x.phase = s.phase /\ x.end = s.end /\ x.held = s.held /\ x.charge = s.charge
      BY <1>1, <1>9, Parked
    <3> HIDE DEF x
    <3>2. s.phase # "header" => Fits(x)
      BY <3>1 DEF Fits, Ready
    <3> QED BY <3>2 DEF x
  <2>4. Elsewhere(c) /\ s.charge = "uncharged"
    BY <1>2 DEF Elsewhere, Ready
  <2>5. Base(conn, active, unframed) /\ SlotsOK(conn, slots)
    BY DEF Sound
  <2> QED BY <1>1, <1>2, <1>5, <2>2, <2>3, <2>4, <2>5, RefuseKeeps
<1>6. CASE /\ owed > 0 /\ ~ Claims(budget, owed, Ceiling) /\ budget.waiting < MaxQueuedReads
           /\ Becomes(c, [s EXCEPT !.at = "waiting"])
           /\ budget' = Enqueue(budget, c, owed)
           /\ UNCHANGED slots
  <2> DEFINE x == [s EXCEPT !.at = "waiting"]
  <2>1. /\ x \in ConnState /\ x.at = "waiting" /\ x.len = s.len /\ x.charged = s.charged
        /\ x.phase = s.phase /\ x.end = s.end /\ x.held = s.held /\ x.charge = s.charge
        /\ readBufferTarget(x) = readBufferTarget(s)
    BY <1>1, <1>9, Parked
  <2>2. Becomes(c, x)
    BY <1>6
  <2> HIDE DEF x
  <2>3. s.charged < readBufferTarget(s) /\ owed \in Nat
    BY <1>1, <1>6
  <2>4. Fits(x)
    BY <2>1, <2>3 DEF Fits, Ready
  <2>5. PICK n \in Nat : n = owed
    BY <2>3
  <2>6. n = readBufferTarget(x) - x.charged /\ ~ Claims(budget, n, Ceiling)
    BY <1>6, <2>1, <2>5
  <2>7. /\ BudgetOK(Set(conn, c, x), Enqueue(budget, c, n))
        /\ Blocked(budget, Ceiling) => Blocked(Enqueue(budget, c, n), Ceiling)
    BY <1>2, <1>6, <2>1, <2>6, BudgetEnqueues
  <2>8. BudgetOK(Set(conn, c, x), budget') /\ (Blocked(budget, Ceiling) => Blocked(budget', Ceiling))
    BY <1>6, <2>5, <2>7
  <2> QED BY <1>2, <1>6, <2>1, <2>2, <2>4, <2>8, MovesOn DEF Ready
<1> QED BY <1>3, <1>4, <1>5, <1>6 DEF readMore

\* What is about to be scanned, its last fresh bytes for the first time.
Framed(s, fresh) ==
  /\ s \in ConnState /\ s.len <= s.charged /\ s.charge = "uncharged"
  /\ fresh \in Nat /\ fresh <= Chunk /\ fresh <= s.len
  /\ s.phase = "header" => s.charged <= MaxHeader + Chunk
  /\ s.phase # "header" => s.len > 0
  /\ s.phase = "fixed" => s.len <= s.end /\ s.end <= MaxRequest /\ s.end <= s.charged
  /\ s.phase = "chunked" => MaxRequest + Chunk <= s.charged

LEMMA RespondKeeps ==
  ASSUME Sound, NEW c \in Conn, NEW s, NEW fresh, Framed(s, fresh), Here(c, s),
         NEW b \in Boundaries(s, fresh), respond(c, s, b)
  PROVE  Settled(c)
<1>1. /\ s \in ConnState /\ s.len \in Nat /\ s.charged \in Nat /\ s.end \in Nat
      /\ s.phase \in {"header", "fixed", "chunked"} /\ s.charge = "uncharged" /\ s.len <= s.charged
      /\ fresh \in Nat /\ fresh <= Chunk /\ fresh <= s.len
  BY Fields DEF Framed
<1>2. /\ conn \in [Conn -> ConnState] /\ conn[c] \in ConnState /\ BudgetOK(conn, budget)
      /\ SlotsOK(conn, slots) /\ conn[c].at \in {"accepted", "reading", "answering"}
      /\ s.charged = conn[c].charged
  BY DEF Sound, Base, Here
<1> DEFINE keep == s.len - b
<1>3. keep \in Nat /\ keep <= Chunk /\ keep <= s.len
  <2>1. CASE s.phase = "fixed"
    <3>1. b = s.len
      BY <2>1 DEF Boundaries
    <3> QED BY <1>1, <3>1, Limits
  <2>2. CASE s.phase # "fixed"
    <3>1. b \in s.len - fresh + 1 .. s.len
      BY <2>2 DEF Boundaries
    <3> QED BY <1>1, <3>1, Limits
  <2> QED BY <2>1, <2>2
<1> DEFINE rest(at) == [[s EXCEPT !.len = keep, !.charged = keep, !.phase = "header",
                                  !.end = 0, !.held = FALSE] EXCEPT !.at = at]
<1>4. /\ budget' = Release(budget, s.charged - keep, Ceiling)
      /\ \/ Becomes(c, rest("answering")) /\ slots' = slots
         \/ Claims(slots, 1, MaxCalls) /\ Becomes(c, rest("calling")) /\ slots' = Claim(slots, 1)
         \/ ~ Claims(slots, 1, MaxCalls) /\ Becomes(c, rest("queued")) /\ slots' = Enqueue(slots, c, 1)
  BY DEF respond
<1>5. PICK k \in Nat : k = keep
  BY <1>3
<1>6. ASSUME NEW p \in {"answering", "calling", "queued"}
      PROVE  /\ rest(p) \in ConnState /\ Is(rest(p), p, k, k, "header", 0, FALSE, "uncharged")
             /\ Fits(rest(p))
  <2>1. p \in Parks /\ 0 \in Nat /\ FALSE \in BOOLEAN /\ "header" \in {"header", "fixed", "chunked"}
    BY DEF Parks
  <2>2. rest(p) \in ConnState /\ Is(rest(p), p, k, k, "header", 0, FALSE, s.charge)
    BY <1>1, <1>5, <2>1, Rebasing
  <2> HIDE DEF rest
  <2>3. Is(rest(p), p, k, k, "header", 0, FALSE, "uncharged")
    BY <1>1, <2>2
  <2>4. k <= Chunk
    BY <1>3, <1>5
  <2>5. Fits(rest(p))
    BY <2>2, <2>3, <2>4 DEF Fits, Is
  <2> QED BY <2>2, <2>3, <2>5
<1> HIDE DEF rest
<1>7. ASSUME NEW p \in {"answering", "calling", "queued"}, Becomes(c, rest(p)),
             SlotsOK(Set(conn, c, rest(p)), slots')
      PROVE  Settled(c)
  <2> DEFINE x == rest(p)
  <2>1. /\ x \in ConnState /\ Fits(x) /\ x.at = p /\ x.charged = k /\ x.held = FALSE
        /\ x.charge = "uncharged"
    BY <1>6 DEF Is
  <2> HIDE DEF x
  <2>2. Becomes(c, x) /\ SlotsOK(Set(conn, c, x), slots')
    BY <1>7 DEF x
  <2>3. conn' = Set(conn, c, x) /\ Base(conn', active', unframed')
    BY <1>2, <2>1, <2>2, BaseMoves DEF Sound
  <2>4. PICK n \in Nat : n = s.charged - keep
    BY <1>1, <1>3
  <2>5. x.charged = conn[c].charged - n
    BY <1>1, <1>2, <1>3, <1>5, <2>1, <2>4
  <2>6. BudgetOK(Set(conn, c, x), Release(budget, n, Ceiling)) /\ Blocked(Release(budget, n, Ceiling), Ceiling)
    BY <1>2, <2>1, <2>5, BudgetReleases
  <2>7. budget' = Release(budget, n, Ceiling)
    BY <1>4, <2>4
  <2>8. Offered(conn', budget')
    BY <2>6, <2>7 DEF Offered
  <2> QED BY <2>1, <2>2, <2>3, <2>6, <2>7, <2>8 DEF Settled
<1>8. CASE Becomes(c, rest("answering")) /\ slots' = slots
  <2>1. rest("answering") \in ConnState /\ rest("answering").at = "answering"
    BY <1>6 DEF Is
  <2>2. SlotsOK(Set(conn, c, rest("answering")), slots)
    BY <1>2, <2>1, SlotsStays
  <2> QED BY <1>7, <1>8, <2>2
<1>9. CASE Claims(slots, 1, MaxCalls) /\ Becomes(c, rest("calling")) /\ slots' = Claim(slots, 1)
  <2>1. rest("calling") \in ConnState /\ rest("calling").at = "calling"
    BY <1>6 DEF Is
  <2>2. SlotsOK(Set(conn, c, rest("calling")), Claim(slots, 1))
    BY <1>2, <1>9, <2>1, SlotsClaims
  <2> QED BY <1>7, <1>9, <2>2
<1>10. CASE ~ Claims(slots, 1, MaxCalls) /\ Becomes(c, rest("queued")) /\ slots' = Enqueue(slots, c, 1)
  <2>1. rest("queued") \in ConnState /\ rest("queued").at = "queued"
    BY <1>6 DEF Is
  <2>2. SlotsOK(Set(conn, c, rest("queued")), Enqueue(slots, c, 1))
    BY <1>2, <1>10, <2>1, SlotsEnqueues
  <2> QED BY <1>7, <1>10, <2>2
<1> QED BY <1>4, <1>8, <1>9, <1>10

LEMMA NeedsMoreReady ==
  ASSUME NEW s, NEW fresh, Framed(s, fresh), NEW r \in NeedsMore(s)
  PROVE  Ready(r) /\ r.charged = s.charged /\ (r.held => s.held)
<1>1. /\ s \in ConnState /\ s.len \in Nat /\ s.charged \in Nat /\ s.end \in Nat
      /\ s.phase \in {"header", "fixed", "chunked"} /\ s.charge = "uncharged" /\ s.len <= s.charged
      /\ s.held \in BOOLEAN /\ s.at \in Parks
  BY Fields DEF Framed
<1>2. CASE s.phase = "header" /\ r = s /\ s.len <= MaxHeader
  BY <1>1, <1>2 DEF Framed, Ready
<1>3. ASSUME NEW e \in {n \in s.len + 1 .. MaxRequest : s.len > 0}, s.phase = "header",
             r = [s EXCEPT !.phase = "fixed", !.end = e, !.held = FALSE]
      PROVE  Ready(r) /\ r.charged = s.charged /\ (r.held => s.held)
  <2>1. e \in Nat /\ s.len < e /\ e <= MaxRequest /\ s.len > 0
    BY <1>1, Limits
  <2>2. FALSE \in BOOLEAN /\ "fixed" \in {"header", "fixed", "chunked"}
    OBVIOUS
  <2> DEFINE x == [s EXCEPT !.phase = "fixed", !.end = e, !.held = FALSE]
  <2>3. x \in ConnState /\ Is(x, s.at, s.len, s.charged, "fixed", e, FALSE, s.charge)
    BY <1>1, <2>1, <2>2, Fixing
  <2>4. r = x
    BY <1>3
  <2> HIDE DEF x
  <2>5. /\ x \in ConnState /\ x.len = s.len /\ x.charged = s.charged /\ x.phase = "fixed"
        /\ x.end = e /\ x.held = FALSE /\ x.charge = s.charge
    BY <2>3 DEF Is
  <2>6. s.charged <= MaxHeader + Chunk
    BY <1>3 DEF Framed
  <2>7. Ready(x)
    BY <1>1, <2>1, <2>5, <2>6 DEF Ready
  <2>8. x.charged = s.charged /\ (x.held => s.held)
    BY <2>5
  <2> QED BY <2>4, <2>7, <2>8, Zenon
<1>4. CASE s.phase = "header" /\ s.len \in 1..MaxRequest /\ r = [s EXCEPT !.phase = "chunked", !.held = FALSE]
  <2>1. s.len > 0 /\ s.len <= MaxRequest
    BY <1>1, <1>4, Limits
  <2>2. FALSE \in BOOLEAN /\ "chunked" \in {"header", "fixed", "chunked"}
    OBVIOUS
  <2> DEFINE x == [s EXCEPT !.phase = "chunked", !.held = FALSE]
  <2>3. x \in ConnState /\ Is(x, s.at, s.len, s.charged, "chunked", s.end, FALSE, s.charge)
    BY <1>1, <2>2, Chunking
  <2>4. r = x
    BY <1>4
  <2> HIDE DEF x
  <2>5. /\ x \in ConnState /\ x.len = s.len /\ x.charged = s.charged /\ x.phase = "chunked"
        /\ x.held = FALSE /\ x.charge = s.charge
    BY <2>3 DEF Is
  <2>6. s.charged <= MaxHeader + Chunk
    BY <1>4 DEF Framed
  <2>7. Ready(x)
    BY <1>1, <2>1, <2>5, <2>6 DEF Ready
  <2>8. x.charged = s.charged /\ (x.held => s.held)
    BY <2>5
  <2> QED BY <2>4, <2>7, <2>8, Zenon
<1>5. CASE s.phase = "fixed" /\ r = s /\ s.len < s.end
  <2>1. readBufferTarget(s) = s.end /\ s.end <= s.charged /\ s.end <= MaxRequest /\ s.len > 0
    BY <1>1, <1>5, Target DEF Framed
  <2> QED BY <1>1, <1>5, <2>1 DEF Ready
<1>6. CASE s.phase = "chunked" /\ r = s /\ s.len <= MaxRequest
  <2>1. readBufferTarget(s) = MaxRequest + Chunk /\ MaxRequest + Chunk <= s.charged /\ s.len > 0
    BY <1>1, <1>6, Target DEF Framed
  <2> QED BY <1>1, <1>6, <2>1, Limits DEF Ready
<1>7. \/ s.phase = "header" /\ r = s /\ s.len <= MaxHeader
      \/ s.phase = "header" /\ \E e \in {n \in s.len + 1 .. MaxRequest : s.len > 0} :
           r = [s EXCEPT !.phase = "fixed", !.end = e, !.held = FALSE]
      \/ s.phase = "header" /\ s.len \in 1..MaxRequest /\ r = [s EXCEPT !.phase = "chunked", !.held = FALSE]
      \/ s.phase = "fixed" /\ r = s /\ s.len < s.end
      \/ s.phase = "chunked" /\ r = s /\ s.len <= MaxRequest
  <2>1. CASE s.phase = "header"
    BY <2>1 DEF NeedsMore
  <2>2. CASE s.phase = "fixed"
    BY <2>2 DEF NeedsMore
  <2>3. CASE s.phase = "chunked"
    BY <2>3 DEF NeedsMore
  <2> QED BY <1>1, <2>1, <2>2, <2>3
<1> QED BY <1>2, <1>3, <1>4, <1>5, <1>6, <1>7

LEMMA FrameLoopKeeps ==
  ASSUME Sound, NEW c \in Conn, NEW s, NEW fresh, Framed(s, fresh), Here(c, s), frameLoop(c, s, fresh)
  PROVE  Settled(c)
<1>1. CASE \E b \in Boundaries(s, fresh) : respond(c, s, b)
  BY <1>1, RespondKeeps
<1>2. CASE Fails(s) /\ Becomes(c, [s EXCEPT !.at = "rejected", !.held = FALSE]) /\ UNCHANGED <<budget, slots>>
  <2> DEFINE x == [s EXCEPT !.at = "rejected", !.held = FALSE]
  <2>1. s \in ConnState /\ "rejected" \in Parks /\ FALSE \in BOOLEAN
    BY DEF Framed, Parks
  <2>2. x \in ConnState /\ Is(x, "rejected", s.len, s.charged, s.phase, s.end, FALSE, s.charge)
    BY <2>1, Letting
  <2>3. Becomes(c, x)
    BY <1>2
  <2> HIDE DEF x
  <2>4. /\ x.at = "rejected" /\ x.len = s.len /\ x.charged = s.charged /\ x.phase = s.phase
        /\ x.held = FALSE /\ x.charge = s.charge
    BY <2>2 DEF Is
  <2>5. Fits(x)
    BY <2>2, <2>4 DEF Fits, Framed
  <2>6. conn \in [Conn -> ConnState] /\ BudgetOK(conn, budget)
        /\ conn[c].at \in {"accepted", "reading", "answering"} /\ s.charged = conn[c].charged
    BY DEF Sound, Base, Here
  <2>7. BudgetOK(Set(conn, c, x), budget)
    BY <2>2, <2>4, <2>6, BudgetStays
  <2>8. x.charge = "uncharged"
    BY <2>4 DEF Framed
  <2> QED BY <1>2, <2>3, <2>4, <2>5, <2>6, <2>7, <2>8, MovesOn
<1>3. CASE \E r \in NeedsMore(s) : readMore(c, r)
  <2>1. PICK r \in NeedsMore(s) : readMore(c, r)
    BY <1>3
  <2>2. Ready(r) /\ r.charged = s.charged /\ (r.held => s.held)
    BY NeedsMoreReady
  <2>3. Here(c, r)
    BY <2>2 DEF Here
  <2> QED BY <2>1, <2>2, <2>3, ReadMoreKeeps
<1> QED BY <1>1, <1>2, <1>3 DEF frameLoop

\* What the invariant says of one connection.
LEMMA OfOne ==
  ASSUME IInv, NEW c \in Conn
  PROVE  /\ conn \in [Conn -> ConnState] /\ conn[c] \in ConnState /\ Fits(conn[c])
         /\ Sound /\ Base(conn, active, unframed) /\ BudgetOK(conn, budget) /\ Offered(conn, budget)
         /\ SlotsOK(conn, slots) /\ EgressOK(conn, egress) /\ Set(conn, c, conn[c]) = conn
         /\ conn[c].len \in Nat /\ conn[c].charged \in Nat /\ conn[c].end \in Nat
         /\ conn[c].phase \in {"header", "fixed", "chunked"} /\ conn[c].at \in Parks
         /\ conn[c].held \in BOOLEAN /\ conn[c].charge \in Charge
<1>1. conn \in [Conn -> ConnState] /\ conn[c] \in ConnState /\ Fits(conn[c])
  BY DEF IInv, Base
<1>2. Set(conn, c, conn[c]) = conn
  BY <1>1, Move
<1>3. /\ conn[c].len \in Nat /\ conn[c].charged \in Nat /\ conn[c].end \in Nat
      /\ conn[c].phase \in {"header", "fixed", "chunked"} /\ conn[c].at \in Parks
      /\ conn[c].held \in BOOLEAN /\ conn[c].charge \in Charge
  BY <1>1, Fields
<1> QED BY <1>1, <1>2, <1>3 DEF IInv, Sound

LEMMA SettledKeeps ==
  ASSUME IInv, NEW c \in Conn, Settled(c), conn[c].at # "room", conn[c].charge # "held", egress' = egress
  PROVE  IInv'
<1>1. PICK t \in ConnState : conn' = Set(conn, c, t) /\ t.charge # "held" /\ t.at # "room"
  BY DEF Settled
<1>2. EgressOK(Set(conn, c, t), egress)
  BY <1>1, OfOne, EgressStays
<1>3. EgressOK(conn', egress')
  BY <1>1, <1>2
<1> QED BY <1>3 DEF Settled, IInv

LEMMA RetireAsItIs ==
  ASSUME IInv, NEW c \in Conn, Elsewhere(c), conn[c].at # "waiting",
         NEW s \in ConnState, s.charged = conn[c].charged, Retire(c, s, budget)
  PROVE  Settled(c)
<1>1. /\ Base(conn, active, unframed) /\ SlotsOK(conn, slots) /\ conn[c] \in ConnState
      /\ Set(conn, c, conn[c]) = conn /\ BudgetOK(conn, budget)
  BY OfOne
<1>2. BudgetOK(Set(conn, c, conn[c]), budget) /\ conn[c].charged = s.charged
  BY <1>1
<1> QED BY <1>1, <1>2, RetireKeeps

LEMMA AcceptKeeps == ASSUME IInv, NEW c \in Conn, Accept(c) PROVE IInv'
<1> DEFINE x == [Closed EXCEPT !.at = "accepted", !.held = TRUE]
<1>1. /\ conn' = Set(conn, c, x) /\ active' = active + 1 /\ unframed' = unframed + 1
      /\ budget' = budget /\ slots' = slots /\ egress' = egress
  BY DEF Accept, Set
<1>2. x \in ConnState /\ Is(x, "accepted", Closed.len, Closed.charged, Closed.phase, Closed.end, TRUE, Closed.charge)
  <2>1. Closed \in ConnState /\ "accepted" \in Parks /\ TRUE \in BOOLEAN
    BY ClosedFits DEF Parks
  <2> QED BY <2>1, Letting
<1> HIDE DEF x
<1>3. /\ x.at = "accepted" /\ x.len = 0 /\ x.charged = 0 /\ x.phase = "header" /\ x.held = TRUE
      /\ x.charge = "uncharged"
  <2>1. Closed.len = 0 /\ Closed.charged = 0 /\ Closed.phase = "header" /\ Closed.charge = "uncharged"
    BY DEF Closed
  <2> QED BY <1>2, <2>1 DEF Is
<1>4. Fits(x)
  BY <1>2, <1>3, Limits DEF Fits
<1>5. /\ conn \in [Conn -> ConnState] /\ BudgetOK(conn, budget) /\ Offered(conn, budget)
      /\ SlotsOK(conn, slots) /\ EgressOK(conn, egress) /\ Base(conn, active, unframed)
  BY OfOne
<1>6. conn[c].at = "closed" /\ conn[c].charged = 0 /\ conn[c].charge = "uncharged" /\ ~ conn[c].held
  <2>1. conn[c].at = "closed" /\ conn[c] = Closed
    BY OfOne DEF Accept, Fits
  <2> QED BY <2>1, ClosedFits, Zenon
<1>7. BudgetOK(Set(conn, c, x), budget)
  BY <1>2, <1>3, <1>5, <1>6, BudgetStays
<1>8. Offered(Set(conn, c, x), budget)
  BY <1>2, <1>5, <1>6, OfferedMoves
<1>9. SlotsOK(Set(conn, c, x), slots)
  BY <1>2, <1>3, <1>5, <1>6, SlotsStays
<1>10. EgressOK(Set(conn, c, x), egress)
  BY <1>2, <1>3, <1>5, <1>6, EgressStays
<1>11. Base(Set(conn, c, x), active + 1, unframed + 1)
  <2> DEFINE y == Set(conn, c, x)
             A == {d \in Conn : conn[d].at # "closed"}
             B == {d \in Conn : y[d].at # "closed"}
             H == {d \in Conn : conn[d].held}
             J == {d \in Conn : y[d].held}
  <2>1. y \in [Conn -> ConnState] /\ y[c] = x /\ \A d \in Conn \ {c} : y[d] = conn[d]
    BY <1>2, <1>5, Move
  <2> HIDE DEF y
  <2>2. /\ IsFiniteSet(A) /\ IsFiniteSet(H) /\ Cardinality(A) = active /\ Cardinality(H) = unframed
    <3>1. A \in SUBSET Conn /\ H \in SUBSET Conn
      OBVIOUS
    <3>2. IsFiniteSet(A) /\ IsFiniteSet(H)
      BY <3>1, Limits, FS_Subset
    <3> QED BY <1>5, <3>2 DEF Base, Counted
  <2>3. B = A \cup {c} /\ c \notin A
    BY <1>3, <1>6, <2>1
  <2>4. J = H \cup {c} /\ c \notin H
    BY <1>3, <1>6, <2>1
  <2>5. Cardinality(B) = active + 1
    BY <2>2, <2>3, FS_AddElement
  <2>6. Cardinality(J) = unframed + 1
    BY <2>2, <2>4, FS_AddElement
  <2>7. \A d \in Conn : Fits(y[d])
    BY <1>4, <1>5, <2>1 DEF Base
  <2> QED BY <2>1, <2>5, <2>6, <2>7 DEF Base, Counted, y
<1> QED BY <1>1, <1>7, <1>8, <1>9, <1>10, <1>11 DEF IInv

LEMMA ServeKeeps == ASSUME IInv, NEW c \in Conn, Serve(c) PROVE IInv'
<1>1. conn[c].at = "accepted" /\ egress' = egress
  BY DEF Serve
<1>2. conn[c].charge = "uncharged"
  BY <1>1, OfOne DEF Fits, Charge
<1>3. Settled(c)
  <2>1. CASE Retire(c, conn[c], budget)
    BY <1>1, <2>1, OfOne, RetireAsItIs DEF Elsewhere
  <2>2. CASE frameLoop(c, conn[c], 0)
    <3>1. Framed(conn[c], 0)
      BY <1>1, <1>2, OfOne, Limits DEF Fits, Framed
    <3>2. Here(c, conn[c])
      BY <1>1 DEF Here
    <3> QED BY <2>2, <3>1, <3>2, OfOne, FrameLoopKeeps
  <2> QED BY <2>1, <2>2 DEF Serve
<1> QED BY <1>1, <1>2, <1>3, SettledKeeps

LEMMA ReceiveKeeps == ASSUME IInv, NEW c \in Conn, Receive(c) PROVE IInv'
<1> DEFINE o == conn[c]
<1>1. o.at = "reading" /\ egress' = egress
  BY DEF Receive
<1>2. PICK n \in 1..readSizeFor(o) : frameLoop(c, [o EXCEPT !.len = o.len + n], n)
  BY DEF Receive
<1>3. /\ o \in ConnState /\ o.len \in Nat /\ o.charged \in Nat /\ o.end \in Nat
      /\ o.phase \in {"header", "fixed", "chunked"} /\ Fits(o)
  BY OfOne
<1>4. o.charge = "uncharged"
  BY <1>1, OfOne DEF Fits, Charge
<1>5. /\ n \in Nat /\ 1 <= n /\ n <= Chunk
      /\ (o.phase = "fixed" => o.len + n <= o.end /\ o.end <= MaxRequest)
      /\ (o.phase = "chunked" => o.len <= MaxRequest)
  BY <1>1, <1>3, Limits DEF readSizeFor, Smaller, Fits
<1>6. o.len + n <= o.charged
  <2>1. o.charged >= readBufferTarget(o)
    BY <1>1, <1>3 DEF Fits
  <2> QED BY <1>3, <1>5, <2>1, Target, Limits
<1>7. PICK l \in Nat : l = o.len + n
  BY <1>3, <1>5
<1> DEFINE x == [o EXCEPT !.len = l]
<1>8. x \in ConnState /\ Is(x, o.at, l, o.charged, o.phase, o.end, o.held, o.charge)
  BY <1>3, Filling
<1>9. frameLoop(c, x, n)
  BY <1>2, <1>7
<1> HIDE DEF x
<1>10. /\ x.len = l /\ x.charged = o.charged /\ x.phase = o.phase /\ x.end = o.end
       /\ x.held = o.held /\ x.charge = o.charge
  BY <1>8 DEF Is
<1>11. Framed(x, n)
  <2>1. /\ x.len <= x.charged /\ n <= x.len /\ 0 < x.len
    BY <1>3, <1>5, <1>6, <1>7, <1>10
  <2>2. x.phase = "header" => x.charged <= MaxHeader + Chunk
    BY <1>1, <1>3, <1>10 DEF Fits
  <2>3. x.phase = "fixed" => x.len <= x.end /\ x.end <= MaxRequest /\ x.end <= x.charged
    <3> SUFFICES ASSUME x.phase = "fixed" PROVE x.len <= x.end /\ x.end <= MaxRequest /\ x.end <= x.charged
      OBVIOUS
    <3>1. o.charged >= readBufferTarget(o) /\ readBufferTarget(o) = o.end
      BY <1>1, <1>3, <1>5, <1>10, Target DEF Fits
    <3> QED BY <1>3, <1>5, <1>7, <1>10, <3>1
  <2>4. x.phase = "chunked" => MaxRequest + Chunk <= x.charged
    <3> SUFFICES ASSUME x.phase = "chunked" PROVE MaxRequest + Chunk <= x.charged
      OBVIOUS
    <3>1. o.charged >= readBufferTarget(o) /\ readBufferTarget(o) = MaxRequest + Chunk
      BY <1>1, <1>3, <1>10, Target DEF Fits
    <3> QED BY <1>3, <1>10, <3>1, Limits
  <2> QED BY <1>4, <1>5, <1>8, <1>10, <2>1, <2>2, <2>3, <2>4 DEF Framed
<1>12. Here(c, x)
  BY <1>1, <1>10 DEF Here
<1>13. Settled(c)
  BY <1>9, <1>11, <1>12, OfOne, FrameLoopKeeps
<1> QED BY <1>1, <1>4, <1>13, SettledKeeps

LEMMA ReadEndsKeeps == ASSUME IInv, NEW c \in Conn, ReadEnds(c) \/ RefusalEnds(c) PROVE IInv'
<1>1. conn[c].at \in {"reading", "refused", "rejected"} /\ egress' = egress /\ Retire(c, conn[c], budget)
  BY DEF ReadEnds, RefusalEnds
<1>2. conn[c].charge = "uncharged"
  BY <1>1, OfOne DEF Fits, Charge
<1>3. Settled(c)
  BY <1>1, OfOne, RetireAsItIs DEF Elsewhere
<1> QED BY <1>1, <1>2, <1>3, SettledKeeps

LEMMA ReadAdmittedKeeps == ASSUME IInv, NEW c \in Conn, ReadAdmitted(c) PROVE IInv'
<1> DEFINE o == conn[c]
<1>1. o.at = "waiting" /\ c \in budget.granted /\ egress' = egress /\ slots' = slots
      /\ budget' = Taken(budget, c)
  BY DEF ReadAdmitted
<1>2. /\ o \in ConnState /\ o.len \in Nat /\ o.charged \in Nat /\ o.end \in Nat
      /\ o.phase \in {"header", "fixed", "chunked"} /\ Fits(o) /\ conn \in [Conn -> ConnState]
  BY OfOne
<1>3. o.charge = "uncharged"
  BY <1>1, OfOne DEF Fits, Charge
<1>4. PICK y \in Nat : y = readBufferTarget(o)
  BY <1>2, Target
<1> DEFINE x == [o EXCEPT !.at = "reading", !.charged = y]
<1>5. Becomes(c, x)
  BY <1>4 DEF ReadAdmitted
<1>6. x \in ConnState /\ Is(x, "reading", o.len, y, o.phase, o.end, o.held, o.charge)
  <2>1. "reading" \in Parks
    BY DEF Parks
  <2> QED BY <1>2, <2>1, Charging
<1> HIDE DEF x
<1>7. /\ x.at = "reading" /\ x.len = o.len /\ x.charged = y /\ x.phase = o.phase /\ x.end = o.end
      /\ x.held = o.held /\ x.charge = o.charge
  BY <1>6 DEF Is
<1>8. readBufferTarget(x) = y
  BY <1>4, <1>7 DEF readBufferTarget
<1>9. Fits(x)
  <2>1. o.charged < y /\ o.len <= o.charged
    BY <1>1, <1>2, <1>4 DEF Fits
  <2>2. o.phase = "header" => y = o.len + Chunk /\ o.len <= MaxHeader
    BY <1>1, <1>2, <1>4, Target DEF Fits
  <2>3. o.len <= y /\ (o.phase = "header" => y <= MaxHeader + Chunk) /\ y >= y
    BY <1>2, <2>1, <2>2, Limits
  <2>4. /\ o.phase # "header" => o.len > 0
        /\ o.phase = "fixed" => o.len < o.end /\ o.end <= MaxRequest
        /\ o.phase = "chunked" => o.len <= MaxRequest
    BY <1>1, <1>2 DEF Fits
  <2> QED BY <1>3, <1>6, <1>7, <1>8, <2>2, <2>3, <2>4 DEF Fits
<1>10. conn' = Set(conn, c, x) /\ Base(conn', active', unframed')
  BY <1>1, <1>5, <1>7, <1>9, OfOne, BaseMoves
<1>11. /\ BudgetOK(Set(conn, c, x), Taken(budget, c))
       /\ Blocked(budget, Ceiling) => Blocked(Taken(budget, c), Ceiling)
  BY <1>1, <1>2, <1>4, <1>6, <1>7, OfOne, BudgetTaken
<1>12. Offered(Set(conn, c, x), Taken(budget, c))
  BY <1>1, <1>2, <1>6, <1>11, OfOne, OfferedMoves
<1>13. SlotsOK(Set(conn, c, x), slots)
  BY <1>1, <1>2, <1>6, <1>7, OfOne, SlotsStays
<1>14. Settled(c)
  BY <1>1, <1>3, <1>6, <1>7, <1>10, <1>11, <1>12, <1>13 DEF Settled
<1> QED BY <1>1, <1>3, <1>14, SettledKeeps

LEMMA ReadWaitRunsOutKeeps == ASSUME IInv, NEW c \in Conn, ReadWaitRunsOut(c) PROVE IInv'
<1> DEFINE o == conn[c]
           t == [o EXCEPT !.at = "rejected"]
           x == [o EXCEPT !.at = "refused"]
           b == Abandon(budget, c)
<1>1. o.at = "waiting" /\ c \notin budget.granted /\ egress' = egress /\ refuseOverBudget(c, o, b)
  BY DEF ReadWaitRunsOut
<1>2. o \in ConnState /\ Fits(o) /\ conn \in [Conn -> ConnState] /\ BudgetOK(conn, budget)
      /\ Base(conn, active, unframed) /\ SlotsOK(conn, slots)
  BY OfOne
<1>3. o.charge = "uncharged"
  BY <1>1, OfOne DEF Fits, Charge
<1>0. {"rejected", "refused"} \subseteq Parks
  BY DEF Parks
<1>4. t \in ConnState /\ t.at = "rejected" /\ t.charged = o.charged
  BY <1>2, <1>0, Parked
<1>5. /\ x \in ConnState /\ x.at = "refused" /\ x.len = o.len /\ x.charged = o.charged
      /\ x.phase = o.phase /\ x.end = o.end /\ x.held = o.held /\ x.charge = o.charge
  BY <1>2, <1>0, Parked
<1> HIDE DEF t
<1>6. BudgetOK(Set(conn, c, t), b)
  BY <1>1, <1>2, <1>4, BudgetAbandons
<1>7. o.phase # "header" => Fits(x)
  <2> HIDE DEF x
  <2> QED BY <1>1, <1>2, <1>3, <1>5 DEF Fits
<1>8. Elsewhere(c)
  BY <1>1 DEF Elsewhere
<1> HIDE DEF b
<1>9. Settled(c)
  BY <1>1, <1>2, <1>3, <1>4, <1>6, <1>7, <1>8, RefuseKeeps
<1> QED BY <1>1, <1>3, <1>9, SettledKeeps

LEMMA AnswerEndsKeeps == ASSUME IInv, NEW c \in Conn, AnswerEnds(c) PROVE IInv'
<1> DEFINE o == conn[c]
           s == [o EXCEPT !.charge = "uncharged"]
<1>1. /\ o.at = "answering"
      /\ egress' = IF o.charge = "held" THEN Release(egress, Answer, EgressCeiling) ELSE egress
      /\ Retire(c, s, budget) \/ frameLoop(c, s, s.len)
  BY DEF AnswerEnds
<1>2. o \in ConnState /\ Fits(o) /\ conn \in [Conn -> ConnState] /\ o.len \in Nat /\ EgressOK(conn, egress)
      /\ Sound
  BY OfOne
<1>3. s \in ConnState /\ Is(s, o.at, o.len, o.charged, o.phase, o.end, o.held, "uncharged")
  <2>1. "uncharged" \in Charge
    BY DEF Charge
  <2> QED BY <1>2, <2>1, Discharging
<1> HIDE DEF s
<1>4. /\ s.at = o.at /\ s.len = o.len /\ s.charged = o.charged /\ s.phase = o.phase /\ s.end = o.end
      /\ s.held = o.held /\ s.charge = "uncharged"
  BY <1>3 DEF Is
<1>5. Settled(c)
  <2>1. CASE Retire(c, s, budget)
    BY <1>1, <1>3, <1>4, <2>1, RetireAsItIs DEF Elsewhere
  <2>2. CASE frameLoop(c, s, s.len)
    <3>1. Framed(s, s.len)
      <4>1. o.phase = "header" /\ o.charged = o.len /\ o.len <= Chunk
        BY <1>1, <1>2 DEF Fits
      <4> QED BY <1>2, <1>3, <1>4, <4>1, Limits DEF Framed
    <3>2. Here(c, s)
      BY <1>1, <1>4 DEF Here
    <3> QED BY <1>2, <2>2, <3>1, <3>2, FrameLoopKeeps
  <2> QED BY <1>1, <2>1, <2>2
<1>6. PICK t \in ConnState : conn' = Set(conn, c, t) /\ t.charge # "held" /\ t.at # "room"
  BY <1>5 DEF Settled
<1>7. EgressOK(Set(conn, c, t), egress')
  <2>1. CASE o.charge = "held"
    <3>1. EgressOK(Set(conn, c, t), Release(egress, Answer, EgressCeiling))
      BY <1>1, <1>2, <1>6, <2>1, EgressReleases
    <3> QED BY <1>1, <2>1, <3>1
  <2>2. CASE o.charge # "held"
    <3>1. EgressOK(Set(conn, c, t), egress)
      BY <1>1, <1>2, <1>6, <2>2, EgressStays
    <3> QED BY <1>1, <2>2, <3>1
  <2> QED BY <2>1, <2>2
<1>8. EgressOK(conn', egress')
  BY <1>6, <1>7
<1> QED BY <1>5, <1>8 DEF Settled, IInv

\* A step of a call, that leaves the budget of reads alone.
LEMMA CallSteps ==
  ASSUME IInv, NEW c \in Conn, conn[c].at \in {"queued", "calling", "room"},
         NEW x \in ConnState, NEW p, NEW g, p \in {"answering", "calling", "room"},
         Is(x, p, conn[c].len, conn[c].charged, conn[c].phase, conn[c].end, conn[c].held, g),
         g # "uncharged" => p # "room", Becomes(c, x), budget' = budget
  PROVE  /\ conn' = Set(conn, c, x) /\ Base(conn', active', unframed')
         /\ BudgetOK(conn', budget') /\ Offered(conn', budget')
<1>1. conn \in [Conn -> ConnState] /\ Fits(conn[c]) /\ BudgetOK(conn, budget) /\ Offered(conn, budget)
      /\ Base(conn, active, unframed)
  BY OfOne
<1>2. /\ x.at = p /\ x.len = conn[c].len /\ x.charged = conn[c].charged /\ x.phase = conn[c].phase
      /\ x.end = conn[c].end /\ x.held = conn[c].held /\ x.charge = g
  BY DEF Is
<1>3. Fits(x)
  BY <1>1, <1>2 DEF Fits
<1>4. conn' = Set(conn, c, x) /\ Base(conn', active', unframed')
  BY <1>1, <1>2, <1>3, BaseMoves
<1>5. BudgetOK(Set(conn, c, x), budget)
  BY <1>1, <1>2, BudgetStays
<1>6. Offered(Set(conn, c, x), budget)
  BY <1>1, OfferedMoves
<1> QED BY <1>4, <1>5, <1>6

LEMMA Unchanged ==
  ASSUME NEW s \in ConnState, NEW p \in Parks
  PROVE  LET x == [s EXCEPT !.at = p]
         IN  x \in ConnState /\ Is(x, p, s.len, s.charged, s.phase, s.end, s.held, s.charge)
BY Parked DEF Is

LEMMA CallAdmittedKeeps == ASSUME IInv, NEW c \in Conn, CallAdmitted(c) PROVE IInv'
<1> DEFINE o == conn[c]
           x == [o EXCEPT !.at = "calling"]
<1>1. /\ o.at = "queued" /\ c \in slots.granted /\ Becomes(c, x) /\ slots' = Taken(slots, c)
      /\ budget' = budget /\ egress' = egress
  BY DEF CallAdmitted
<1>2. /\ conn \in [Conn -> ConnState] /\ o \in ConnState /\ Fits(o)
      /\ SlotsOK(conn, slots) /\ EgressOK(conn, egress)
  BY OfOne
<1>3. "calling" \in Parks /\ o.charge = "uncharged"
  BY <1>1, OfOne DEF Parks, Fits, Charge
<1>4. x \in ConnState /\ Is(x, "calling", o.len, o.charged, o.phase, o.end, o.held, o.charge)
  BY <1>2, <1>3, Unchanged
<1> HIDE DEF x
<1>5. x.at = "calling" /\ x.charge = o.charge
  BY <1>4 DEF Is
<1>6. /\ conn' = Set(conn, c, x) /\ Base(conn', active', unframed')
      /\ BudgetOK(conn', budget') /\ Offered(conn', budget')
  BY <1>1, <1>3, <1>4, CallSteps
<1>7. SlotsOK(Set(conn, c, x), Taken(slots, c))
  BY <1>1, <1>2, <1>4, <1>5, SlotsTaken
<1>8. EgressOK(Set(conn, c, x), egress)
  BY <1>1, <1>2, <1>4, <1>5, EgressStays
<1> QED BY <1>1, <1>6, <1>7, <1>8 DEF IInv

LEMMA CallWaitRunsOutKeeps == ASSUME IInv, NEW c \in Conn, CallWaitRunsOut(c) PROVE IInv'
<1> DEFINE o == conn[c]
           x == [o EXCEPT !.at = "answering"]
<1>1. /\ o.at = "queued" /\ c \notin slots.granted /\ Becomes(c, x) /\ slots' = Abandon(slots, c)
      /\ budget' = budget /\ egress' = egress
  BY DEF CallWaitRunsOut
<1>2. /\ conn \in [Conn -> ConnState] /\ o \in ConnState /\ Fits(o)
      /\ SlotsOK(conn, slots) /\ EgressOK(conn, egress)
  BY OfOne
<1>3. "answering" \in Parks /\ o.charge = "uncharged"
  BY <1>1, OfOne DEF Parks, Fits, Charge
<1>4. x \in ConnState /\ Is(x, "answering", o.len, o.charged, o.phase, o.end, o.held, o.charge)
  BY <1>2, <1>3, Unchanged
<1> HIDE DEF x
<1>5. x.at = "answering" /\ x.charge = o.charge
  BY <1>4 DEF Is
<1>6. /\ conn' = Set(conn, c, x) /\ Base(conn', active', unframed')
      /\ BudgetOK(conn', budget') /\ Offered(conn', budget')
  BY <1>1, <1>3, <1>4, CallSteps
<1>7. SlotsOK(Set(conn, c, x), Abandon(slots, c))
  BY <1>1, <1>2, <1>4, <1>5, SlotsAbandons
<1>8. EgressOK(Set(conn, c, x), egress)
  BY <1>1, <1>2, <1>4, <1>5, EgressStays
<1> QED BY <1>1, <1>6, <1>7, <1>8 DEF IInv

LEMMA CallEndsKeeps == ASSUME IInv, NEW c \in Conn, CallEnds(c) PROVE IInv'
<1> DEFINE o == conn[c]
           x == [o EXCEPT !.at = "answering"]
<1>1. /\ o.at = "calling" /\ Becomes(c, x) /\ slots' = ReleaseSlot(slots)
      /\ budget' = budget /\ egress' = egress
  BY DEF CallEnds
<1>2. /\ conn \in [Conn -> ConnState] /\ o \in ConnState /\ Fits(o)
      /\ SlotsOK(conn, slots) /\ EgressOK(conn, egress)
  BY OfOne
<1>3. "answering" \in Parks
  BY DEF Parks
<1>4. x \in ConnState /\ Is(x, "answering", o.len, o.charged, o.phase, o.end, o.held, o.charge)
  BY <1>2, <1>3, Unchanged
<1> HIDE DEF x
<1>5. x.at = "answering" /\ x.charge = o.charge
  BY <1>4 DEF Is
<1>6. /\ conn' = Set(conn, c, x) /\ Base(conn', active', unframed')
      /\ BudgetOK(conn', budget') /\ Offered(conn', budget')
  BY <1>1, <1>4, CallSteps
<1>7. SlotsOK(Set(conn, c, x), ReleaseSlot(slots))
  BY <1>1, <1>2, <1>4, <1>5, SlotsReleases
<1>8. EgressOK(Set(conn, c, x), egress)
  BY <1>1, <1>2, <1>4, <1>5, EgressStays
<1> QED BY <1>1, <1>6, <1>7, <1>8 DEF IInv

LEMMA AnswerGrowsKeeps == ASSUME IInv, NEW c \in Conn, AnswerGrows(c) PROVE IInv'
<1> DEFINE o == conn[c]
<1>1. o.at = "calling" /\ o.charge = "uncharged" /\ budget' = budget /\ slots' = slots
  BY DEF AnswerGrows
<1>2. /\ conn \in [Conn -> ConnState] /\ o \in ConnState /\ Fits(o)
      /\ SlotsOK(conn, slots) /\ EgressOK(conn, egress)
  BY OfOne
<1>3. CASE /\ Claims(egress, Answer, EgressCeiling)
           /\ Becomes(c, [o EXCEPT !.charge = "held"]) /\ egress' = Claim(egress, Answer)
  <2> DEFINE x == [o EXCEPT !.charge = "held"]
  <2>1. Becomes(c, x) /\ "held" \in Charge
    BY <1>3 DEF Charge
  <2>2. x \in ConnState /\ Is(x, o.at, o.len, o.charged, o.phase, o.end, o.held, "held")
    BY <1>2, <2>1, Discharging
  <2> HIDE DEF x
  <2>3. x.at = "calling" /\ x.charge = "held" /\ Is(x, "calling", o.len, o.charged, o.phase, o.end, o.held, "held")
    BY <1>1, <2>2 DEF Is
  <2>4. /\ conn' = Set(conn, c, x) /\ Base(conn', active', unframed')
        /\ BudgetOK(conn', budget') /\ Offered(conn', budget')
    BY <1>1, <2>1, <2>2, <2>3, CallSteps
  <2>5. SlotsOK(Set(conn, c, x), slots)
    BY <1>1, <1>2, <2>2, <2>3, SlotsStays
  <2>6. EgressOK(Set(conn, c, x), Claim(egress, Answer))
    BY <1>1, <1>2, <1>3, <2>2, <2>3, EgressClaims
  <2> QED BY <1>1, <1>3, <2>4, <2>5, <2>6 DEF IInv
<1>4. CASE /\ ~ Claims(egress, Answer, EgressCeiling)
           /\ Becomes(c, [o EXCEPT !.at = "room"]) /\ egress' = Enqueue(egress, c, Answer)
  <2> DEFINE x == [o EXCEPT !.at = "room"]
  <2>1. Becomes(c, x) /\ "room" \in Parks
    BY <1>4 DEF Parks
  <2>2. x \in ConnState /\ Is(x, "room", o.len, o.charged, o.phase, o.end, o.held, o.charge)
    BY <1>2, <2>1, Unchanged
  <2> HIDE DEF x
  <2>3. x.at = "room" /\ x.charge = "uncharged"
    BY <1>1, <2>2 DEF Is
  <2>4. /\ conn' = Set(conn, c, x) /\ Base(conn', active', unframed')
        /\ BudgetOK(conn', budget') /\ Offered(conn', budget')
    BY <1>1, <2>1, <2>2, CallSteps
  <2>5. SlotsOK(Set(conn, c, x), slots)
    BY <1>1, <1>2, <2>2, <2>3, SlotsStays
  <2>6. EgressOK(Set(conn, c, x), Enqueue(egress, c, Answer))
    BY <1>1, <1>2, <1>4, <2>2, <2>3, EgressEnqueues
  <2> QED BY <1>1, <1>4, <2>4, <2>5, <2>6 DEF IInv
<1> QED BY <1>3, <1>4 DEF AnswerGrows

LEMMA RoomAdmittedKeeps == ASSUME IInv, NEW c \in Conn, RoomAdmitted(c) PROVE IInv'
<1> DEFINE o == conn[c]
           x == [o EXCEPT !.at = "calling", !.charge = "held"]
<1>1. /\ o.at = "room" /\ c \in egress.granted /\ Becomes(c, x) /\ egress' = Taken(egress, c)
      /\ budget' = budget /\ slots' = slots
  BY DEF RoomAdmitted
<1>2. /\ conn \in [Conn -> ConnState] /\ o \in ConnState /\ Fits(o)
      /\ SlotsOK(conn, slots) /\ EgressOK(conn, egress)
  BY OfOne
<1>3. "calling" \in Parks /\ "held" \in Charge /\ o.charge = "uncharged"
  BY <1>1, OfOne DEF Parks, Fits, Charge
<1>4. x \in ConnState /\ Is(x, "calling", o.len, o.charged, o.phase, o.end, o.held, "held")
  BY <1>2, <1>3, Answering
<1> HIDE DEF x
<1>5. x.at = "calling" /\ x.charge = "held"
  BY <1>4 DEF Is
<1>6. /\ conn' = Set(conn, c, x) /\ Base(conn', active', unframed')
      /\ BudgetOK(conn', budget') /\ Offered(conn', budget')
  BY <1>1, <1>4, CallSteps
<1>7. SlotsOK(Set(conn, c, x), slots)
  BY <1>1, <1>2, <1>4, <1>5, SlotsStays
<1>8. EgressOK(Set(conn, c, x), Taken(egress, c))
  BY <1>1, <1>2, <1>3, <1>4, <1>5, EgressTaken
<1> QED BY <1>1, <1>6, <1>7, <1>8 DEF IInv

LEMMA RoomWaitRunsOutKeeps == ASSUME IInv, NEW c \in Conn, RoomWaitRunsOut(c) PROVE IInv'
<1> DEFINE o == conn[c]
           x == [o EXCEPT !.at = "answering", !.charge = "refused"]
<1>1. /\ o.at = "room" /\ c \notin egress.granted /\ Becomes(c, x) /\ egress' = Abandon(egress, c)
      /\ budget' = budget /\ slots' = ReleaseSlot(slots)
  BY DEF RoomWaitRunsOut
<1>2. /\ conn \in [Conn -> ConnState] /\ o \in ConnState /\ Fits(o)
      /\ SlotsOK(conn, slots) /\ EgressOK(conn, egress)
  BY OfOne
<1>3. "answering" \in Parks /\ "refused" \in Charge /\ o.charge = "uncharged"
  BY <1>1, OfOne DEF Parks, Fits, Charge
<1>4. x \in ConnState /\ Is(x, "answering", o.len, o.charged, o.phase, o.end, o.held, "refused")
  BY <1>2, <1>3, Answering
<1> HIDE DEF x
<1>5. x.at = "answering" /\ x.charge = "refused"
  BY <1>4 DEF Is
<1>6. /\ conn' = Set(conn, c, x) /\ Base(conn', active', unframed')
      /\ BudgetOK(conn', budget') /\ Offered(conn', budget')
  BY <1>1, <1>4, CallSteps
<1>7. SlotsOK(Set(conn, c, x), ReleaseSlot(slots))
  BY <1>1, <1>2, <1>4, <1>5, SlotsReleases
<1>8. EgressOK(Set(conn, c, x), Abandon(egress, c))
  BY <1>1, <1>2, <1>3, <1>4, <1>5, EgressAbandons
<1> QED BY <1>1, <1>6, <1>7, <1>8 DEF IInv

LEMMA InitHolds == Init => IInv
<1> SUFFICES ASSUME Init PROVE IInv
  OBVIOUS
<1>1. conn = [c \in Conn |-> Closed] /\ active = 0 /\ unframed = 0
      /\ budget = newCensus /\ slots = newCensus /\ egress = newCensus
  BY DEF Init
<1>2. /\ Closed \in ConnState /\ Closed.at = "closed" /\ Closed.charged = 0 /\ Closed.charge = "uncharged"
      /\ ~ Closed.held /\ Fits(Closed)
  BY ClosedFits
<1>3. conn \in [Conn -> ConnState] /\ \A c \in Conn : conn[c] = Closed
  BY <1>1, <1>2
<1>4. Base(conn, active, unframed)
  <2>1. {c \in Conn : conn[c].at # "closed"} = {} /\ {c \in Conn : conn[c].held} = {}
    BY <1>2, <1>3
  <2>2. Cardinality({}) = 0
    BY FS_EmptySet
  <2>3. Counted(conn, active, unframed)
    BY <1>1, <2>1, <2>2 DEF Counted
  <2>4. \A c \in Conn : Fits(conn[c])
    BY <1>2, <1>3, Zenon
  <2> QED BY <1>3, <2>3, <2>4 DEF Base
<1> DEFINE z == newCensus
<1>5. z = [held |-> 0, waiting |-> 0, queue |-> << >>, granted |-> {}]
  BY DEF newCensus
<1> HIDE DEF z
<1>6. /\ z.held = 0 /\ z.waiting = 0 /\ z.queue = << >> /\ z.granted = {} /\ z \in Census
  <2>1. << >> \in Seq(BufferWaiter)
    OBVIOUS
  <2>2. {} \in SUBSET Conn /\ 0 \in Nat
    OBVIOUS
  <2> QED BY <1>5, <2>1, <2>2, MakeCensus
<1>7. Live(z.queue) = {}
  BY <1>6 DEF Live
<1>8. ASSUME NEW need
      PROVE  Lined(z, {}, need)
  <2>1. Cardinality(Live(z.queue)) = 0
    BY <1>7, FS_EmptySet
  <2>2. DOMAIN z.queue = {}
    BY <1>6
  <2> QED BY <1>6, <1>7, <2>1, <2>2 DEF Lined
<1>9. ASSUME NEW own, \A d \in Conn : own[d] = 0, NEW need, NEW C \in Nat
      PROVE  Kept(z, {}, own, need, C)
  <2>1. SumFunctionOnSet(own, Conn) = 0
    <3>1. {} \in SUBSET Conn /\ \A d \in Conn : own[d] \in Nat
      BY <1>9
    <3>2. SumFunctionOnSet(own, {}) = SumFunctionOnSet(own, Conn)
      BY <1>9, <3>1, SumSupport, Limits
    <3> QED BY <3>2, SumEmpty
  <2>2. SumFunctionOnSet(need, {}) = 0
    BY SumEmpty
  <2>3. Lined(z, {}, need)
    BY <1>8
  <2> QED BY <1>6, <1>9, <2>1, <2>2, <2>3 DEF Kept
<1>10. Blocked(z, Ceiling) /\ Blocked(z, MaxCalls) /\ Blocked(z, EgressCeiling)
  BY <1>7 DEF Blocked
<1>11. At(conn, "waiting") = {} /\ At(conn, "queued") = {} /\ At(conn, "room") = {}
  BY <1>2, <1>3 DEF At
<1>12. /\ \A d \in Conn : Charged(conn)[d] = 0
       /\ \A d \in Conn : InSlot(conn)[d] = 0
       /\ \A d \in Conn : Owing(conn)[d] = 0
  BY <1>2, <1>3 DEF Charged, InSlot, Owing
<1>13. BudgetOK(conn, z) /\ SlotsOK(conn, z) /\ EgressOK(conn, z) /\ Offered(conn, z)
  <2>1. Kept(z, {}, Charged(conn), Asked(conn), Ceiling)
    BY <1>9, <1>12, Limits
  <2>2. Kept(z, {}, InSlot(conn), OneEach, MaxCalls)
    BY <1>9, <1>12, Limits
  <2>3. Kept(z, {}, Owing(conn), AnswerEach, EgressCeiling)
    BY <1>9, <1>12, Limits
  <2>4. z.waiting <= MaxQueuedReads
    BY <1>6, Limits
  <2> QED BY <1>10, <1>11, <2>1, <2>2, <2>3, <2>4 DEF BudgetOK, SlotsOK, EgressOK, Offered
<1> QED BY <1>1, <1>4, <1>13 DEF IInv, z

LEMMA NextKeeps == IInv /\ [Next]_vars => IInv'
<1> SUFFICES ASSUME IInv, [Next]_vars PROVE IInv'
  OBVIOUS
<1>1. CASE UNCHANGED vars
  BY <1>1 DEF vars, IInv
<1>2. CASE Next
  <2>1. PICK c \in Conn : \/ Accept(c) \/ Serve(c) \/ Receive(c) \/ AnswerGrows(c)
                          \/ Ends(c) \/ Admitted(c) \/ RunsOut(c)
    BY <1>2 DEF Next
  <2>2. CASE Accept(c)
    BY <2>2, AcceptKeeps
  <2>3. CASE Serve(c)
    BY <2>3, ServeKeeps
  <2>4. CASE Receive(c)
    BY <2>4, ReceiveKeeps
  <2>5. CASE AnswerGrows(c)
    BY <2>5, AnswerGrowsKeeps
  <2>6. CASE Ends(c)
    BY <2>6, ReadEndsKeeps, AnswerEndsKeeps, CallEndsKeeps DEF Ends
  <2>7. CASE Admitted(c)
    BY <2>7, ReadAdmittedKeeps, CallAdmittedKeeps, RoomAdmittedKeeps DEF Admitted
  <2>8. CASE RunsOut(c)
    BY <2>8, ReadWaitRunsOutKeeps, CallWaitRunsOutKeeps, RoomWaitRunsOutKeeps DEF RunsOut
  <2> QED BY <2>1, <2>2, <2>3, <2>4, <2>5, <2>6, <2>7, <2>8
<1> QED BY <1>1, <1>2

\* The inductive invariant holds in every reachable state: each census's held
\* is what is owned and granted, its queue is who is parked at it, and a
\* connection's buffer, scan and park fit together.
THEOREM Invariance == Spec => []IInv
BY InitHolds, NextKeeps, PTL DEF Spec

-----------------------------------------------------------------------------
(* What follows from the invariant *)

LEMMA InvType == IInv => TypeOK
<1> SUFFICES ASSUME IInv PROVE TypeOK
  OBVIOUS
<1>1. conn \in [Conn -> ConnState] /\ Counted(conn, active, unframed)
  BY DEF IInv, Base
<1>2. active \in Nat /\ unframed \in Nat
  <2>1. \A S \in SUBSET Conn : Cardinality(S) \in Nat
    BY Limits, FS_Subset, FS_CardinalityType
  <2> QED BY <1>1, <2>1 DEF Counted
<1>3. budget \in Census /\ slots \in Census /\ egress \in Census
  BY DEF IInv, BudgetOK, SlotsOK, EgressOK, Kept, Lined
<1> QED BY <1>1, <1>2, <1>3 DEF TypeOK

LEMMA GrantedAreParked ==
  ASSUME NEW z, NEW p, NEW own, NEW need, NEW C, Kept(z, At(conn, p), own, need, C)
  PROVE  Resuming(p, z) = z.granted
<1>1. z.granted \subseteq At(conn, p)
  BY DEF Kept, Lined
<1> QED BY <1>1 DEF Resuming, At

LEMMA InvCharges == IInv => ChargesCoverBuffers
<1> SUFFICES ASSUME IInv PROVE ChargesCoverBuffers
  OBVIOUS
<1>1. Kept(budget, At(conn, "waiting"), Charged(conn), Asked(conn), Ceiling)
  BY DEF IInv, BudgetOK
<1>2. budget.held <= Ceiling
  BY <1>1 DEF Kept
<1>3. budget.held = SumFunctionOnSet([c \in Conn |-> conn[c].charged], Conn)
                      + SumFunctionOnSet([c \in Conn |-> Owed(c)], Resuming("waiting", budget))
  <2> DEFINE f == [c \in Conn |-> Owed(c)]
             g == Asked(conn)
             G == budget.granted
  <2>1. Resuming("waiting", budget) = G
    BY <1>1, GrantedAreParked
  <2>2. Lined(budget, At(conn, "waiting"), Asked(conn)) /\ \A d \in At(conn, "waiting") : Asked(conn)[d] \in Nat
    BY <1>1 DEF Kept
  <2>3. IsFiniteSet(G) /\ G \subseteq At(conn, "waiting") /\ \A d \in G : g[d] \in Nat
    BY <2>2, GrantsFinite
  <2>4. \A d \in G : f[d] = g[d]
    BY <2>3 DEF At, Asked, Owed
  <2> HIDE DEF f, g, G
  <2>5. SumFunctionOnSet(f, G) = SumFunctionOnSet(g, G)
    BY <2>3, <2>4, SumSame
  <2>6. budget.held = SumFunctionOnSet(Charged(conn), Conn) + SumFunctionOnSet(g, G)
    BY <1>1 DEF Kept, g, G
  <2>7. Charged(conn) = [c \in Conn |-> conn[c].charged]
    BY DEF Charged
  <2> QED BY <2>1, <2>5, <2>6, <2>7 DEF f
<1>4. ASSUME NEW c \in Conn
      PROVE  conn[c].charged >= conn[c].len + (IF conn[c].at = "reading" THEN readSizeFor(conn[c]) ELSE 0)
  <2> DEFINE o == conn[c]
  <2>1. /\ o \in ConnState /\ Fits(o) /\ o.len \in Nat /\ o.charged \in Nat /\ o.end \in Nat
        /\ o.phase \in {"header", "fixed", "chunked"}
    BY OfOne
  <2>2. CASE o.at = "reading"
    <3>1. o.charged >= readBufferTarget(o)
      BY <2>1, <2>2 DEF Fits
    <3>2. CASE o.phase = "header"
      <4>1. readBufferTarget(o) = o.len + Chunk /\ readSizeFor(o) = Chunk
        BY <2>1, <3>2, Target DEF readSizeFor
      <4> QED BY <2>2, <3>1, <4>1
    <3>3. CASE o.phase = "fixed"
      <4>1. readBufferTarget(o) = o.end
        BY <2>1, <2>2, <3>3, Target DEF Fits
      <4>2. readSizeFor(o) <= o.end - o.len
        BY <2>1, <3>3, Limits DEF readSizeFor, Smaller
      <4>3. readSizeFor(o) \in Int
        BY <2>1, <3>3, Limits DEF readSizeFor, Smaller
      <4> QED BY <2>1, <2>2, <3>1, <4>1, <4>2, <4>3
    <3>4. CASE o.phase = "chunked"
      <4>1. readBufferTarget(o) = MaxRequest + Chunk /\ readSizeFor(o) = Chunk /\ o.len <= MaxRequest
        BY <2>1, <2>2, <3>4, Target DEF readSizeFor, Fits
      <4> QED BY <2>1, <2>2, <3>1, <4>1, Limits
    <3> QED BY <2>1, <3>2, <3>3, <3>4
  <2>3. CASE o.at # "reading"
    <3>1. o.len <= o.charged
      BY <2>1 DEF Fits
    <3> QED BY <2>1, <2>3, <3>1
  <2> QED BY <2>2, <2>3
<1> QED BY <1>2, <1>3, <1>4 DEF ChargesCoverBuffers

LEMMA InvHeadroom == IInv => HeadroomIsOffered
<1> SUFFICES ASSUME IInv PROVE HeadroomIsOffered
  OBVIOUS
<1>1. budget.waiting = Cardinality(Live(budget.queue))
  BY DEF IInv, BudgetOK, Kept, Lined
<1>2. Blocked(budget, Ceiling) \/ \E c \in Conn : conn[c].at = "refused"
  BY DEF IInv, Offered
<1> QED BY <1>1, <1>2 DEF HeadroomIsOffered, Blocked

LEMMA Product == ASSUME NEW a \in Nat, NEW b \in Nat, NEW k \in Nat, a <= b PROVE a * k <= b * k
OBVIOUS

LEMMA InvSaturated == IInv => SaturatedIsAWait
<1> SUFFICES ASSUME IInv, Live(budget.queue) # {},
                    \A c \in Conn : IF conn[c].at = "waiting" THEN c \notin budget.granted
                                    ELSE ~ (conn[c].charged > 0)
             PROVE  FALSE
  BY DEF SaturatedIsAWait
<1> DEFINE q == budget.queue
           W == At(conn, "waiting")
           f == Charged(conn)
           k == MaxHeader + Chunk
<1>1. Kept(budget, W, f, Asked(conn), Ceiling) /\ Lined(budget, W, Asked(conn)) /\ budget.waiting <= MaxQueuedReads
  BY DEF IInv, BudgetOK, Kept
<1>2. budget.granted = {}
  <2>1. budget.granted \subseteq W
    BY <1>1 DEF Lined
  <2> QED BY <2>1 DEF At
<1>3. IsFiniteSet(W) /\ Cardinality(W) = budget.waiting /\ budget.waiting \in Nat /\ W \in SUBSET Conn
  <2>1. W \ budget.granted = W
    BY <1>2
  <2>2. W \in SUBSET Conn
    BY DEF At
  <2> QED BY <1>1, <2>1, <2>2, WaitersCounted
<1>4. \A c \in Conn : f[c] \in Nat /\ f[c] = conn[c].charged
  BY OfOne DEF Charged
<1>5. \A c \in Conn \ W : f[c] = 0
  BY <1>4 DEF At
<1>6. budget.held = SumFunctionOnSet(f, W)
  <2>1. SumFunctionOnSet(f, W) = SumFunctionOnSet(f, Conn)
    BY <1>3, <1>4, <1>5, SumSupport, Limits
  <2>2. SumFunctionOnSet(Asked(conn), budget.granted) = 0
    BY <1>2, SumEmpty
  <2>3. SumFunctionOnSet(f, Conn) \in Nat
    BY <1>4, SumType, Limits
  <2>4. budget.held = SumFunctionOnSet(f, Conn) + SumFunctionOnSet(Asked(conn), budget.granted)
    BY <1>1 DEF Kept
  <2> DEFINE S == SumFunctionOnSet(f, Conn)
  <2>5. budget.held = S + 0
    BY <2>2, <2>4
  <2> HIDE DEF S
  <2>6. budget.held = S
    BY <2>3, <2>5 DEF S
  <2> QED BY <2>1, <2>6 DEF S
<1>7. Blocked(budget, Ceiling)
  <2>1. ASSUME NEW c \in Conn, conn[c].at = "refused"
        PROVE  FALSE
    <3>1. conn[c].charged = 0
      BY <2>1, OfOne
    <3>2. conn[c].len > 0 /\ conn[c].len <= conn[c].charged
      BY <2>1, OfOne DEF Fits
    <3> QED BY <3>1, <3>2, OfOne
  <2> QED BY <2>1 DEF IInv, Offered
<1> DEFINE m == Min(Live(q))
           w == q[m].who
<1>8. m \in Live(q) /\ q \in Seq(BufferWaiter)
  BY <1>1, CensusFields, FirstLive DEF Lined
<1>9. w \in W /\ q[m].bytes = Asked(conn)[w] /\ w \in Conn
  BY <1>1, <1>3, <1>8 DEF Lined
<1>10. ~ (budget.held + Asked(conn)[w] <= Ceiling)
  BY <1>7, <1>9 DEF Blocked, Claims
<1> HIDE DEF m, w
<1> DEFINE o == conn[w]
<1>11. /\ o \in ConnState /\ Fits(o) /\ o.at = "waiting" /\ o.len \in Nat /\ o.charged \in Nat /\ o.end \in Nat
       /\ o.phase \in {"header", "fixed", "chunked"}
  BY <1>9, OfOne DEF At
<1>12. Asked(conn)[w] = readBufferTarget(o) - o.charged /\ readBufferTarget(o) \in Nat
  BY <1>9, <1>11, Target DEF Asked
<1>13. k \in Nat /\ MaxQueuedReads * k + MaxRequest + Chunk <= Ceiling /\ MaxQueuedReads * k \in Nat
  BY AdmissionConstants, Limits
<1>14. \A c \in W : f[c] <= k
  <2>1. \A c \in W : conn[c].charged <= k /\ c \in Conn
    BY OfOne DEF Fits, At
  <2> QED BY <1>4, <2>1
<1>15. Cardinality(W) * k <= MaxQueuedReads * k
  BY <1>1, <1>3, <1>13, Product, Limits
<1>16. CASE o.phase # "header"
  <2>1. readBufferTarget(o) <= MaxRequest + Chunk
    <3>1. o.phase = "fixed" \/ o.phase = "chunked"
      BY <1>11, <1>16
    <3>2. o.phase = "fixed" => o.end <= MaxRequest
      BY <1>11 DEF Fits
    <3> QED BY <1>11, <3>1, <3>2, Target, Limits
  <2>2. SumFunctionOnSet(f, W) <= Cardinality(W) * k /\ SumFunctionOnSet(f, W) \in Nat
    <3>1. \A c \in W : f[c] \in Nat /\ f[c] <= k
      BY <1>3, <1>4, <1>14
    <3> HIDE DEF k
    <3> QED BY <1>3, <1>13, <3>1, SumAtMost, SumType
  <2> DEFINE S == SumFunctionOnSet(f, W)
             P == Cardinality(W) * k
             Q == MaxQueuedReads * k
             t == readBufferTarget(o)
             a == Asked(conn)[w]
             h == budget.held
  <2>3. P \in Nat
    <3>1. Cardinality(W) \in Nat
      BY <1>3
    <3> HIDE DEF W, k
    <3> QED BY <1>13, <3>1
  <2>4. /\ S \in Nat /\ P \in Nat /\ Q \in Nat /\ t \in Nat /\ o.charged \in Nat
        /\ S <= P /\ P <= Q /\ h = S /\ a = t - o.charged /\ t <= MaxRequest + Chunk
        /\ Q + MaxRequest + Chunk <= Ceiling
    BY <1>6, <1>11, <1>12, <1>13, <1>15, <2>1, <2>2, <2>3
  <2> HIDE DEF S, P, Q, t, a, h, o, k, W, f
  <2>5. h + a <= Ceiling
    BY <2>4, Limits
  <2> QED BY <1>10, <2>5 DEF h, a
<1>17. CASE o.phase = "header"
  <2> DEFINE t == readBufferTarget(o)
             g == [c \in Conn |-> IF c = w THEN t ELSE f[c]]
  <2>1. t \in Nat /\ t <= k
    <3>1. t = o.len + Chunk /\ o.len <= MaxHeader
      BY <1>11, <1>17, Target DEF Fits
    <3> QED BY <1>11, <3>1, Limits
  <2>2. /\ \A c \in W : g[c] \in Nat /\ f[c] \in Nat /\ g[c] <= k
        /\ \A c \in W \ {w} : g[c] = f[c]
        /\ g[w] = t /\ f[w] = o.charged
    <3> HIDE DEF f, W, k, t
    <3> QED BY <1>3, <1>4, <1>9, <1>14, <2>1
  <2> HIDE DEF g, t, k, f, W
  <2>3. SumFunctionOnSet(g, W) = SumFunctionOnSet(f, W) - f[w] + g[w]
    <3>1. IsFiniteSet(W) /\ w \in W
      BY <1>3, <1>9
    <3>2. \A c \in W : f[c] \in Nat /\ g[c] \in Nat
      BY <2>2
    <3>3. \A c \in W \ {w} : g[c] = f[c]
      BY <2>2
    <3> QED BY <3>1, <3>2, <3>3, SumChange
  <2>4. SumFunctionOnSet(g, W) <= Cardinality(W) * k
    BY <1>3, <1>13, <2>2, SumAtMost
  <2>5. SumFunctionOnSet(f, W) \in Nat /\ SumFunctionOnSet(g, W) \in Nat
    BY <1>3, <2>2, SumType
  <2>6. Cardinality(W) * k \in Nat
    BY <1>3, <1>13
  <2> DEFINE S == SumFunctionOnSet(f, W)
             T == SumFunctionOnSet(g, W)
             P == Cardinality(W) * k
             Q == MaxQueuedReads * k
             a == Asked(conn)[w]
             h == budget.held
  <2>7. /\ S \in Nat /\ T \in Nat /\ P \in Nat /\ Q \in Nat /\ t \in Nat /\ o.charged \in Nat
        /\ T = S - o.charged + t /\ T <= P /\ P <= Q /\ h = S /\ a = t - o.charged
        /\ Q + MaxRequest + Chunk <= Ceiling
    BY <1>6, <1>11, <1>12, <1>13, <1>15, <2>1, <2>2, <2>3, <2>4, <2>5, <2>6 DEF t
  <2> HIDE DEF S, T, P, Q, a, h, o
  <2>8. h + a <= Ceiling
    BY <2>7, Limits
  <2> QED BY <1>10, <2>8 DEF h, a
<1> QED BY <1>16, <1>17

\* How many own something, each as much.
LEMMA Owners ==
  ASSUME NEW n \in Nat, NEW f, NEW S \in SUBSET Conn,
         \A c \in S : f[c] = n, \A c \in Conn \ S : f[c] = 0
  PROVE  IsFiniteSet(S) /\ Cardinality(S) \in Nat /\ SumFunctionOnSet(f, Conn) = Cardinality(S) * n
<1>1. IsFiniteSet(S) /\ Cardinality(S) \in Nat
  BY Limits, FS_Subset, FS_CardinalityType
<1>2. \A c \in Conn : f[c] \in Nat
  OBVIOUS
<1>3. SumFunctionOnSet(f, S) = SumFunctionOnSet(f, Conn)
  BY <1>2, SumSupport, Limits
<1>4. SumFunctionOnSet(f, S) = Cardinality(S) * n
  BY <1>1, SumAtMost
<1> QED BY <1>1, <1>3, <1>4

LEMMA Grantees ==
  ASSUME NEW n \in Nat, NEW f, NEW S \in SUBSET Conn, \A c \in S : f[c] = n
  PROVE  IsFiniteSet(S) /\ Cardinality(S) \in Nat /\ SumFunctionOnSet(f, S) = Cardinality(S) * n
<1>1. IsFiniteSet(S) /\ Cardinality(S) \in Nat
  BY Limits, FS_Subset, FS_CardinalityType
<1>2. SumFunctionOnSet(f, S) = Cardinality(S) * n
  BY <1>1, SumAtMost
<1> QED BY <1>1, <1>2

LEMMA InvSlots == IInv => SlotsAreOwned
<1> SUFFICES ASSUME IInv PROVE SlotsAreOwned
  OBVIOUS
<1> DEFINE S == {c \in Conn : conn[c].at \in {"calling", "room"}}
           G == slots.granted
           W == At(conn, "queued")
<1>1. Kept(slots, W, InSlot(conn), OneEach, MaxCalls) /\ Blocked(slots, MaxCalls)
      /\ Lined(slots, W, OneEach)
  BY DEF IInv, SlotsOK, Kept
<1>2. Resuming("queued", slots) = G /\ G \in SUBSET Conn /\ W \subseteq Conn
  BY <1>1, GrantedAreParked DEF Lined
<1>3. SumFunctionOnSet(InSlot(conn), Conn) = Cardinality(S) * 1 /\ Cardinality(S) \in Nat
  <2>1. (\A c \in S : InSlot(conn)[c] = 1) /\ (\A c \in Conn \ S : InSlot(conn)[c] = 0)
    BY DEF InSlot
  <2>2. S \in SUBSET Conn
    OBVIOUS
  <2> HIDE DEF S
  <2> QED BY <2>1, <2>2, Owners
<1>4. SumFunctionOnSet(OneEach, G) = Cardinality(G) * 1 /\ Cardinality(G) \in Nat
  <2>1. \A c \in G : OneEach[c] = 1
    BY <1>2 DEF OneEach
  <2> QED BY <1>2, <2>1, Grantees
<1>5. slots.held = SumFunctionOnSet(InSlot(conn), Conn) + SumFunctionOnSet(OneEach, G)
      /\ slots.held <= MaxCalls
  BY <1>1 DEF Kept
<1>6. slots.held = Cardinality(S) + Cardinality(G)
  <2> HIDE DEF S, G
  <2> QED BY <1>3, <1>4, <1>5
<1>7. slots.waiting = Cardinality(Live(slots.queue))
  BY <1>1 DEF Lined
<1>8. slots.waiting > 0 => slots.held = MaxCalls
  <2> SUFFICES ASSUME slots.waiting > 0 PROVE slots.held = MaxCalls
    OBVIOUS
  <2>1. Live(slots.queue) # {}
    BY <1>1, WaitersCounted
  <2>2. \A d \in W : OneEach[d] = 1
    BY <1>2 DEF OneEach
  <2>3. ~ (slots.held + 1 <= MaxCalls)
    BY <1>1, <2>1, <2>2, BlockedAlike, Limits
  <2>4. slots.held \in Nat
    BY <1>1, CensusFields DEF Lined
  <2> QED BY <1>5, <2>3, <2>4, Limits
<1> QED BY <1>2, <1>5, <1>6, <1>7, <1>8 DEF SlotsAreOwned

LEMMA InvAnswers == IInv => AnswersAreCharged
<1> SUFFICES ASSUME IInv PROVE AnswersAreCharged
  OBVIOUS
<1> DEFINE H == {c \in Conn : conn[c].charge = "held"}
           G == egress.granted
           W == At(conn, "room")
<1>1. Kept(egress, W, Owing(conn), AnswerEach, EgressCeiling) /\ Blocked(egress, EgressCeiling)
      /\ Lined(egress, W, AnswerEach)
  BY DEF IInv, EgressOK, Kept
<1>2. Resuming("room", egress) = G /\ G \in SUBSET Conn /\ W \subseteq Conn
  BY <1>1, GrantedAreParked DEF Lined
<1>3. SumFunctionOnSet(Owing(conn), Conn) = Cardinality(H) * Answer /\ Cardinality(H) \in Nat
  <2>1. (\A c \in H : Owing(conn)[c] = Answer) /\ (\A c \in Conn \ H : Owing(conn)[c] = 0)
    BY DEF Owing
  <2>2. H \in SUBSET Conn
    OBVIOUS
  <2> HIDE DEF H
  <2> QED BY <2>1, <2>2, Owners, Limits
<1>4. SumFunctionOnSet(AnswerEach, G) = Cardinality(G) * Answer /\ Cardinality(G) \in Nat
  <2>1. \A c \in G : AnswerEach[c] = Answer
    BY <1>2 DEF AnswerEach
  <2> QED BY <1>2, <2>1, Grantees, Limits
<1>5. egress.held = SumFunctionOnSet(Owing(conn), Conn) + SumFunctionOnSet(AnswerEach, G)
      /\ egress.held <= EgressCeiling
  BY <1>1 DEF Kept
<1>6. egress.held = Answer * (Cardinality(H) + Cardinality(G))
  <2>1. PICK h \in Nat, g \in Nat : h = Cardinality(H) /\ g = Cardinality(G)
    BY <1>3, <1>4
  <2>2. egress.held = h * Answer + g * Answer
    BY <1>3, <1>4, <1>5, <2>1
  <2>3. h * Answer + g * Answer = Answer * (h + g)
    BY Limits
  <2> QED BY <2>1, <2>2, <2>3
<1>7. egress.waiting = Cardinality(Live(egress.queue))
  BY <1>1 DEF Lined
<1>8. egress.waiting <= MaxCalls
  <2> DEFINE S == {c \in Conn : conn[c].at \in {"calling", "room"}}
             U == W \ G
  <2>1. Cardinality(U) = egress.waiting
    BY <1>1, WaitersCounted
  <2>2. U \in SUBSET S /\ S \in SUBSET Conn
    BY <1>2 DEF At
  <2>3. IsFiniteSet(S) /\ Cardinality(S) \in Nat
    BY <2>2, Limits, FS_Subset, FS_CardinalityType
  <2>4. Cardinality(U) <= Cardinality(S) /\ Cardinality(U) \in Nat
    <3> HIDE DEF S, U
    <3> QED BY <2>2, <2>3, FS_Subset, FS_CardinalityType
  <2>5. SlotsAreOwned
    BY InvSlots
  <2>6. slots.held = Cardinality(S) + Cardinality(Resuming("queued", slots)) /\ slots.held <= MaxCalls
    BY <2>5 DEF SlotsAreOwned
  <2>7. Cardinality(Resuming("queued", slots)) \in Nat
    <3>1. Resuming("queued", slots) \in SUBSET Conn
      BY DEF Resuming
    <3> QED BY <3>1, Limits, FS_Subset, FS_CardinalityType
  <2> HIDE DEF S, U
  <2> QED BY <2>1, <2>3, <2>4, <2>6, <2>7, Limits
<1>9. egress.waiting > 0 => ~ Claims(egress, Answer, EgressCeiling)
  <2> SUFFICES ASSUME egress.waiting > 0 PROVE ~ Claims(egress, Answer, EgressCeiling)
    OBVIOUS
  <2>1. Live(egress.queue) # {}
    BY <1>1, WaitersCounted
  <2>2. \A d \in W : AnswerEach[d] = Answer
    BY <1>2 DEF AnswerEach
  <2>3. ~ (egress.held + Answer <= EgressCeiling)
    BY <1>1, <2>1, <2>2, BlockedAlike, Limits
  <2> QED BY <2>3 DEF Claims
<1> QED BY <1>2, <1>5, <1>6, <1>7, <1>8, <1>9 DEF AnswersAreCharged

-----------------------------------------------------------------------------
\* Type correctness.
THEOREM TypeCorrect == Spec => []TypeOK
BY Invariance, InvType, PTL

\* The budget is exactly what the connections are charged for and what was
\* granted to reads that have not resumed, never past its ceiling, and a charge
\* covers the buffered bytes and the read in flight (readBufferCharged).
THEOREM BudgetIsWhatIsCharged == Spec => []ChargesCoverBuffers
BY Invariance, InvCharges, PTL

\* Nobody waits beside headroom unless a refusal is still being sent, whose
\* retirement makes the offer (refuseOverBudget, grantBufferHeadroom).
THEOREM HeadroomReachesWaiters == Spec => []HeadroomIsOffered
BY Invariance, InvHeadroom, PTL

\* While a read waits, somebody who does not wait is charged or was granted:
\* the queue's bound leaves room for one request (maxQueuedBufferedReads).
THEOREM SaturationEnds == Spec => []SaturatedIsAWait
BY Invariance, InvSaturated, PTL

\* Slots are exactly the calls in flight or handed one, and none is idle while
\* a call waits (releaseProxiedCall).
THEOREM SlotsBelongToCalls == Spec => []SlotsAreOwned
BY Invariance, InvSlots, PTL

\* The egress budget is exactly what calls hold for their answers or were
\* granted, with no more waiting than there are slots (settleEgressCharge).
THEOREM EgressBelongsToAnswers == Spec => []AnswersAreCharged
BY Invariance, InvAnswers, PTL
=============================================================================
