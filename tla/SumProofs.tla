----------------------------- MODULE SumProofs -----------------------------
(***************************************************************************)
(* Sums: what the fold of a function over a finite set comes to.  The      *)
(* induction over the set is by sets of numbers and of subsets, which need *)
(* no operator for a parameter.                                            *)
(***************************************************************************)
EXTENDS Integers, Sequences, FiniteSets, Functions, FiniteSetTheorems, WellFoundedInduction, TLAPS

-----------------------------------------------------------------------------
(* Induction *)

\* A set of numbers that has 0 and every successor has them all.
LEMMA AllNumbers ==
  ASSUME NEW H \in SUBSET Nat, 0 \in H, \A n \in H : n + 1 \in H
  PROVE  H = Nat
<1> SUFFICES ASSUME Nat \ H # {} PROVE FALSE
  OBVIOUS
<1>1. IsWellFoundedOn(OpToRel(<, Nat), Nat)
  BY NatLessThanWellFounded
<1>2. PICK n \in Nat \ H : \A m \in Nat \ H : ~(<<m, n>> \in OpToRel(<, Nat))
  BY <1>1, WFMin
<1>n. n \in Nat /\ n \notin H /\ n # 0
  OBVIOUS
<1>3. n - 1 \in Nat /\ n - 1 < n /\ (n - 1) + 1 = n
  BY <1>n
<1>4. <<n - 1, n>> \in OpToRel(<, Nat)
  BY <1>3 DEF OpToRel
<1>5. n - 1 \in H
  BY <1>2, <1>3, <1>4
<1>6. n \in H
  BY <1>3, <1>5
<1>7. QED
  BY <1>2, <1>6

\* A set of subsets that has each one whose proper subsets it has has them all.
LEMMA AllSubsets ==
  ASSUME NEW S, IsFiniteSet(S), NEW H \in SUBSET SUBSET S,
         \A s \in SUBSET S : (\A t \in SUBSET s : t # s => t \in H) => s \in H
  PROVE  H = SUBSET S
<1> DEFINE small(n) == \A s \in SUBSET S : Cardinality(s) < n => s \in H
           N == {n \in Nat : small(n)}
<1>0. \A s \in SUBSET S : IsFiniteSet(s) /\ Cardinality(s) \in Nat
  BY FS_Subset, FS_CardinalityType
<1>1. 0 \in N
  <2>1. \A s \in SUBSET S : ~(Cardinality(s) < 0)
    BY <1>0
  <2>2. QED
    BY <2>1
<1>2. ASSUME NEW n \in N PROVE n + 1 \in N
  <2>1. n \in Nat /\ small(n)
    OBVIOUS
  <2> SUFFICES ASSUME NEW s \in SUBSET S, Cardinality(s) < n + 1 PROVE s \in H
    BY <2>1
  <2>2. ASSUME NEW t \in SUBSET s, t # s PROVE t \in H
    <3>1. Cardinality(t) < Cardinality(s)
      BY <1>0, <2>2, FS_Subset
    <3>2. Cardinality(t) < n /\ t \in SUBSET S
      BY <1>0, <2>1, <3>1
    <3>3. QED
      BY <2>1, <3>2
  <2>3. QED
    BY <2>2
<1>3. N = Nat
  <2> HIDE DEF N
  <2>1. N \in SUBSET Nat
    BY DEF N
  <2>2. QED
    BY <1>1, <1>2, <2>1, AllNumbers
<1>4. ASSUME NEW s \in SUBSET S PROVE s \in H
  <2>1. Cardinality(s) + 1 \in N /\ Cardinality(s) < Cardinality(s) + 1
    BY <1>0, <1>3
  <2>2. QED
    BY <2>1
<1>5. QED
  BY <1>4

-----------------------------------------------------------------------------
(* Recursion *)

\* A set of numbers that has each one whose predecessors it has has them all.
LEMMA StrongNumbers ==
  ASSUME NEW H \in SUBSET Nat,
         \A n \in Nat : (\A m \in Nat : m < n => m \in H) => n \in H
  PROVE  H = Nat
<1> DEFINE N == {n \in Nat : \A m \in Nat : m < n => m \in H}
<1>1. 0 \in N
  OBVIOUS
<1>2. ASSUME NEW n \in N PROVE n + 1 \in N
  <2>1. n \in H /\ n + 1 \in Nat
    OBVIOUS
  <2>2. \A m \in Nat : m < n + 1 => m < n \/ m = n
    OBVIOUS
  <2>3. QED
    BY <2>1, <2>2
<1>3. N = Nat
  <2> HIDE DEF N
  <2>1. N \in SUBSET Nat
    BY DEF N
  <2>2. QED
    BY <1>1, <1>2, <2>1, AllNumbers
<1>4. QED
  BY <1>3

(* B[d][h] makes the value at d of the values h has at what has a lower     *)
(* rank.                                                                    *)
IsRecursion(D, V, rank, B) ==
  /\ V # {} /\ rank \in [D -> Nat] /\ B \in [D -> [[D -> V] -> V]]
  /\ \A d \in D : \A f, g \in [D -> V] :
       (\A e \in D : rank[e] < rank[d] => f[e] = g[e]) => B[d][f] = B[d][g]

\* What is defined by such a recursion exists.
LEMMA Recursion ==
  ASSUME NEW D, NEW V, NEW rank, NEW B, IsRecursion(D, V, rank, B)
  PROVE  \E h \in [D -> V] : \A d \in D : h[d] = B[d][h]
<1>0. /\ V # {} /\ rank \in [D -> Nat] /\ B \in [D -> [[D -> V] -> V]]
      /\ \A d \in D : \A f, g \in [D -> V] :
           (\A e \in D : rank[e] < rank[d] => f[e] = g[e]) => B[d][f] = B[d][g]
  BY DEF IsRecursion
<1> USE <1>0
<1> DEFINE good(h, n) == h \in [D -> V] /\ \A d \in D : rank[d] < n => h[d] = B[d][h]
<1>1. ASSUME NEW h, NEW k, NEW n \in Nat, good(h, n), good(k, n)
      PROVE  \A d \in D : rank[d] < n => h[d] = k[d]
  <2> DEFINE H == {r \in Nat : \A d \in D : rank[d] = r /\ r < n => h[d] = k[d]}
  <2>1. ASSUME NEW r \in Nat, \A m \in Nat : m < r => m \in H PROVE r \in H
    <3> SUFFICES ASSUME NEW d \in D, rank[d] = r, r < n PROVE h[d] = k[d]
      OBVIOUS
    <3>1. \A e \in D : rank[e] < rank[d] => h[e] = k[e]
      <4> SUFFICES ASSUME NEW e \in D, rank[e] < rank[d] PROVE h[e] = k[e]
        OBVIOUS
      <4>1. rank[e] \in Nat /\ rank[e] < r /\ rank[e] < n
        OBVIOUS
      <4>2. rank[e] \in H
        BY <2>1, <4>1
      <4>3. QED
        BY <4>1, <4>2
    <3> HIDE DEF H
    <3>2. h[d] = B[d][h] /\ k[d] = B[d][k] /\ h \in [D -> V] /\ k \in [D -> V]
      BY <1>1
    <3>3. QED
      BY <3>1, <3>2
  <2>2. H = Nat
    <3> HIDE DEF H
    <3>1. H \in SUBSET Nat
      BY DEF H
    <3>2. QED
      BY <2>1, <3>1, StrongNumbers
  <2>3. \A d \in D : rank[d] \in H
    BY <2>2
  <2>4. QED
    BY <2>3
<1>2. ASSUME NEW n \in Nat PROVE \E h : good(h, n)
  <2> DEFINE N == {m \in Nat : \E h : good(h, m)}
  <2>1. 0 \in N
    <3>1. PICK v \in V : TRUE
      OBVIOUS
    <3>2. good([d \in D |-> v], 0)
      OBVIOUS
    <3>3. QED
      BY <3>2
  <2>2. ASSUME NEW m \in N PROVE m + 1 \in N
    <3>1. m \in Nat /\ m + 1 \in Nat
      OBVIOUS
    <3>2. PICK h : good(h, m)
      OBVIOUS
    <3> DEFINE k == [d \in D |-> B[d][h]]
    <3>3. k \in [D -> V]
      BY <3>2
    <3>4. ASSUME NEW d \in D, rank[d] < m + 1 PROVE k[d] = B[d][k]
      <4>1. \A e \in D : rank[e] < rank[d] => h[e] = k[e]
        BY <3>1, <3>2, <3>4
      <4> HIDE DEF k
      <4>2. B[d][h] = B[d][k]
        BY <3>2, <3>3, <4>1
      <4>3. QED
        BY <4>2 DEF k
    <3> HIDE DEF k
    <3>5. good(k, m + 1)
      BY <3>3, <3>4
    <3>6. QED
      BY <3>1, <3>5
  <2>3. N = Nat
    <3> HIDE DEF N
    <3>1. N \in SUBSET Nat
      BY DEF N
    <3>2. QED
      BY <2>1, <2>2, <3>1, AllNumbers
  <2>4. QED
    BY <2>3
<1> HIDE DEF good
<1> DEFINE part(n) == CHOOSE h : good(h, n)
<1>3. \A n \in Nat : good(part(n), n)
  BY <1>2
<1> HIDE DEF part
<1> DEFINE h == [d \in D |-> B[d][part(rank[d])]]
<1>4. \A n \in Nat : part(n) \in [D -> V]
  BY <1>3 DEF good
<1>5. h \in [D -> V]
  BY <1>4
<1>6. ASSUME NEW d \in D PROVE h[d] = B[d][h]
  <2>1. \A e \in D : rank[e] < rank[d] => part(rank[d])[e] = h[e]
    <3> SUFFICES ASSUME NEW e \in D, rank[e] < rank[d] PROVE part(rank[d])[e] = h[e]
      OBVIOUS
    <3>1. part(rank[d])[e] = B[e][part(rank[d])]
      BY <1>3 DEF good
    <3>2. good(part(rank[d]), rank[e])
      <4>1. good(part(rank[d]), rank[d]) /\ rank[d] \in Nat /\ rank[e] \in Nat
        BY <1>3
      <4>2. \A c \in D : rank[c] < rank[e] => rank[c] < rank[d]
        OBVIOUS
      <4>3. QED
        BY <4>1, <4>2 DEF good
    <3>3. \A c \in D : rank[c] < rank[e] => part(rank[d])[c] = part(rank[e])[c]
      BY <1>1, <1>3, <3>2
    <3>4. B[e][part(rank[d])] = B[e][part(rank[e])]
      <4>1. part(rank[d]) \in [D -> V] /\ part(rank[e]) \in [D -> V]
        BY <1>4
      <4>2. QED
        BY <3>3, <4>1, Zenon
    <3>5. QED
      BY <3>1, <3>4
  <2>2. part(rank[d]) \in [D -> V] /\ h[d] = B[d][part(rank[d])]
    BY <1>4
  <2> HIDE DEF h
  <2>3. QED
    BY <1>5, <2>1, <2>2
<1>7. QED
  BY <1>5, <1>6

-----------------------------------------------------------------------------
(* The fold *)

Pick(s) == CHOOSE x \in s : TRUE
IsSum(h, g, S) ==
  h = [s \in SUBSET S |-> IF s = {} THEN 0 ELSE g[Pick(s)] + h[s \ {Pick(s)}]]

\* The recursive function that the fold is made of exists.
LEMMA SumExists ==
  ASSUME NEW S, IsFiniteSet(S), NEW g, \A x \in S : g[x] \in Int
  PROVE  \E h \in [SUBSET S -> Int] : IsSum(h, g, S)
<1> DEFINE good(h, n) == \A s \in SUBSET S : Cardinality(s) <= n =>
                           h[s] = IF s = {} THEN 0 ELSE g[Pick(s)] + h[s \ {Pick(s)}]
           N == {n \in Nat : \E h \in [SUBSET S -> Int] : good(h, n)}
<1>0. \A s \in SUBSET S : IsFiniteSet(s) /\ Cardinality(s) \in Nat /\ Cardinality(s) <= Cardinality(S)
  BY FS_Subset, FS_CardinalityType
<1>p. ASSUME NEW s \in SUBSET S, s # {}
      PROVE  Pick(s) \in s /\ s \ {Pick(s)} \in SUBSET S /\ Cardinality(s \ {Pick(s)}) = Cardinality(s) - 1
  <2>1. Pick(s) \in s
    BY <1>p DEF Pick
  <2>2. QED
    BY <1>0, <2>1, FS_RemoveElement
<1>1. 0 \in N
  <2> DEFINE z == [s \in SUBSET S |-> 0]
  <2>1. \A s \in SUBSET S : Cardinality(s) <= 0 => s = {}
    BY <1>0, FS_EmptySet
  <2>2. z \in [SUBSET S -> Int] /\ good(z, 0)
    BY <2>1
  <2>3. QED
    BY <2>2
<1>2. ASSUME NEW n \in N PROVE n + 1 \in N
  <2>1. n \in Nat
    OBVIOUS
  <2>2. PICK h \in [SUBSET S -> Int] : good(h, n)
    OBVIOUS
  <2> DEFINE k == [s \in SUBSET S |-> IF Cardinality(s) = n + 1 THEN g[Pick(s)] + h[s \ {Pick(s)}] ELSE h[s]]
  <2>e. \A s \in SUBSET S : Cardinality(s) = n + 1 => s # {}
    <3>1. Cardinality({}) = 0 /\ n + 1 # 0
      BY <2>1, FS_EmptySet
    <3>2. QED
      BY <3>1
  <2>3. k \in [SUBSET S -> Int]
    <3>1. ASSUME NEW s \in SUBSET S, Cardinality(s) = n + 1 PROVE g[Pick(s)] + h[s \ {Pick(s)}] \in Int
      <4>1. g[Pick(s)] \in Int /\ s \ {Pick(s)} \in SUBSET S
        BY <1>p, <2>e, <3>1
      <4>2. h[s \ {Pick(s)}] \in Int
        BY <4>1
      <4>3. QED
        BY <4>1, <4>2
    <3>2. QED
      BY <3>1
  <2>4. good(k, n + 1)
    <3> SUFFICES ASSUME NEW s \in SUBSET S, Cardinality(s) <= n + 1
                 PROVE  k[s] = IF s = {} THEN 0 ELSE g[Pick(s)] + k[s \ {Pick(s)}]
      OBVIOUS
    <3>1. CASE s = {}
      <4>1. Cardinality(s) = 0 /\ k[s] = h[s]
        BY <2>1, <3>1, FS_EmptySet
      <4>2. QED
        BY <2>1, <2>2, <3>1, <4>1
    <3>2. CASE s # {}
      <4>1. k[s \ {Pick(s)}] = h[s \ {Pick(s)}]
        BY <1>0, <1>p, <2>1, <3>2
      <4>2. k[s] = g[Pick(s)] + h[s \ {Pick(s)}]
        BY <1>0, <2>1, <2>2, <3>2
      <4>3. QED
        BY <3>2, <4>1, <4>2
    <3>3. QED
      BY <3>1, <3>2
  <2>5. n + 1 \in Nat
    BY <2>1
  <2> HIDE DEF k
  <2>6. QED
    BY <2>3, <2>4, <2>5
<1>3. N = Nat
  <2> HIDE DEF N
  <2>1. N \in SUBSET Nat
    BY DEF N
  <2>2. QED
    BY <1>1, <1>2, <2>1, AllNumbers
<1>4. Cardinality(S) \in N
  BY <1>0, <1>3
<1>5. PICK h \in [SUBSET S -> Int] : good(h, Cardinality(S))
  BY <1>4
<1>6. \A s \in SUBSET S : h[s] = IF s = {} THEN 0 ELSE g[Pick(s)] + h[s \ {Pick(s)}]
  BY <1>0, <1>5
<1>7. QED
  BY <1>6 DEF IsSum

\* SumFunctionOnSet is it.
LEMMA SumIsSum ==
  ASSUME NEW S, IsFiniteSet(S), NEW g, \A x \in S : g[x] \in Int
  PROVE  \E h \in [SUBSET S -> Int] : IsSum(h, g, S) /\ SumFunctionOnSet(g, S) = h[S]
<1> DEFINE h == CHOOSE h : IsSum(h, g, S)
<1>1. SumFunctionOnSet(g, S) = h[S]
  BY DEF SumFunctionOnSet, FoldFunctionOnSet, MapThenFoldSet, IsSum, Pick
<1>2. \E k : IsSum(k, g, S)
  BY SumExists
<1>3. IsSum(h, g, S)
  BY <1>2
<1> HIDE DEF h
<1> DEFINE H == {s \in SUBSET S : h[s] \in Int}
<1>4. ASSUME NEW s \in SUBSET S, \A t \in SUBSET s : t # s => t \in H
      PROVE  s \in H
  <2>1. CASE s = {}
    BY <1>3, <2>1 DEF IsSum
  <2>2. CASE s # {}
    <3>1. Pick(s) \in s /\ Pick(s) \in S
      BY <2>2 DEF Pick
    <3>2. s \ {Pick(s)} \in SUBSET s /\ s \ {Pick(s)} # s
      BY <3>1
    <3>3. h[s \ {Pick(s)}] \in Int /\ g[Pick(s)] \in Int
      BY <1>4, <3>1, <3>2
    <3>4. h[s] = g[Pick(s)] + h[s \ {Pick(s)}]
      BY <1>3, <2>2 DEF IsSum
    <3>5. QED
      BY <3>3, <3>4
  <2>3. QED
    BY <2>1, <2>2
<1>5. H = SUBSET S
  <2> HIDE DEF H
  <2>1. H \in SUBSET SUBSET S
    BY DEF H
  <2>2. QED
    BY <1>4, <2>1, AllSubsets
<1>6. h \in [SUBSET S -> Int]
  BY <1>3, <1>5 DEF IsSum
<1>7. QED
  BY <1>1, <1>3, <1>6

\* A sum is the first element and the sum of the others.
LEMMA SumPick ==
  ASSUME NEW S, IsFiniteSet(S), NEW g, \A x \in S : g[x] \in Int
  PROVE  /\ SumFunctionOnSet(g, S) \in Int
         /\ S = {} => SumFunctionOnSet(g, S) = 0
         /\ S # {} => SumFunctionOnSet(g, S) = g[Pick(S)] + SumFunctionOnSet(g, S \ {Pick(S)})
<1>1. PICK h \in [SUBSET S -> Int] : IsSum(h, g, S) /\ SumFunctionOnSet(g, S) = h[S]
  BY SumIsSum
<1>2. SumFunctionOnSet(g, S) \in Int
  BY <1>1
<1>3. S = {} => SumFunctionOnSet(g, S) = 0
  BY <1>1 DEF IsSum
<1>4. ASSUME S # {}
      PROVE  SumFunctionOnSet(g, S) = g[Pick(S)] + SumFunctionOnSet(g, S \ {Pick(S)})
  <2> DEFINE T == S \ {Pick(S)}
  <2>1. T \in SUBSET S /\ IsFiniteSet(T)
    BY FS_Subset
  <2>2. \A x \in T : g[x] \in Int
    OBVIOUS
  <2>3. PICK k \in [SUBSET T -> Int] : IsSum(k, g, T) /\ SumFunctionOnSet(g, T) = k[T]
    BY <2>1, <2>2, SumIsSum
  <2> DEFINE H == {s \in SUBSET T : h[s] = k[s]}
  <2> HIDE DEF T
  <2>4. ASSUME NEW s \in SUBSET T, \A t \in SUBSET s : t # s => t \in H
        PROVE  s \in H
    <3>1. s \in SUBSET S
      BY <2>1
    <3>2. h[s] = IF s = {} THEN 0 ELSE g[Pick(s)] + h[s \ {Pick(s)}]
      BY <1>1, <3>1 DEF IsSum
    <3>3. k[s] = IF s = {} THEN 0 ELSE g[Pick(s)] + k[s \ {Pick(s)}]
      BY <2>3 DEF IsSum
    <3>4. s # {} => s \ {Pick(s)} \in H
      <4>1. s # {} => Pick(s) \in s
        BY DEF Pick
      <4>2. s # {} => s \ {Pick(s)} \in SUBSET s /\ s \ {Pick(s)} # s
        BY <4>1
      <4>3. QED
        BY <2>4, <4>2
    <3>5. QED
      BY <3>2, <3>3, <3>4
  <2>5. H = SUBSET T
    <3> HIDE DEF H
    <3>1. H \in SUBSET SUBSET T
      BY DEF H
    <3>2. QED
      BY <2>1, <2>4, <3>1, AllSubsets
  <2>6. h[T] = k[T]
    BY <2>5
  <2>7. h[S] = g[Pick(S)] + h[T]
    BY <1>1, <1>4 DEF IsSum, T
  <2>8. QED
    BY <1>1, <2>3, <2>6, <2>7 DEF T
<1>5. QED
  BY <1>2, <1>3, <1>4

\* And any element with the sum of the others: the order does not matter.
LEMMA SumTake ==
  ASSUME NEW S, IsFiniteSet(S), NEW g, \A x \in S : g[x] \in Int, NEW e \in S
  PROVE  SumFunctionOnSet(g, S) = g[e] + SumFunctionOnSet(g, S \ {e})
<1> DEFINE sum(s) == SumFunctionOnSet(g, s)
           H == {s \in SUBSET S : \A x \in s : sum(s) = g[x] + sum(s \ {x})}
<1>0. \A s \in SUBSET S : IsFiniteSet(s) /\ \A x \in s : g[x] \in Int
  BY FS_Subset
<1>1. ASSUME NEW s \in SUBSET S
      PROVE  sum(s) \in Int /\ (s # {} => Pick(s) \in s /\ sum(s) = g[Pick(s)] + sum(s \ {Pick(s)}))
  <2>1. s # {} => Pick(s) \in s
    BY DEF Pick
  <2>2. QED
    BY <1>0, <2>1, SumPick
<1> HIDE DEF sum
<1>2. ASSUME NEW s \in SUBSET S, \A t \in SUBSET s : t # s => t \in H
      PROVE  s \in H
  <2> SUFFICES ASSUME NEW x \in s PROVE sum(s) = g[x] + sum(s \ {x})
    OBVIOUS
  <2> DEFINE p == Pick(s)
  <2>1. p \in s /\ sum(s) = g[p] + sum(s \ {p})
    BY <1>1
  <2> HIDE DEF p
  <2>2. CASE x = p
    BY <2>1, <2>2
  <2>3. CASE x # p
    <3>1. s \ {p} \in SUBSET s /\ s \ {p} # s /\ x \in s \ {p}
      BY <2>1, <2>3
    <3>2. s \ {x} \in SUBSET s /\ s \ {x} # s /\ p \in s \ {x}
      BY <2>1, <2>3
    <3>3. sum(s \ {p}) = g[x] + sum((s \ {p}) \ {x})
      BY <1>2, <3>1
    <3>4. sum(s \ {x}) = g[p] + sum((s \ {x}) \ {p})
      BY <1>2, <3>2
    <3>5. (s \ {p}) \ {x} = (s \ {x}) \ {p} /\ (s \ {x}) \ {p} \in SUBSET S
      OBVIOUS
    <3>6. g[x] \in Int /\ g[p] \in Int /\ sum((s \ {x}) \ {p}) \in Int
      BY <1>1, <2>1, <3>5
    <3>7. sum((s \ {p}) \ {x}) = sum((s \ {x}) \ {p})
      BY <3>5, Zenon
    <3>8. sum(s) = g[p] + (g[x] + sum((s \ {x}) \ {p}))
      BY <2>1, <3>3, <3>7
    <3>9. QED
      BY <3>4, <3>6, <3>8
  <2>4. QED
    BY <2>2, <2>3
<1>3. H = SUBSET S
  <2> HIDE DEF H
  <2>1. H \in SUBSET SUBSET S
    BY DEF H
  <2>2. QED
    BY <1>2, <2>1, AllSubsets
<1>4. S \in H
  BY <1>3
<1>5. QED
  BY <1>4 DEF sum

\* The sum over two sets that are apart.
LEMMA SumUnion ==
  ASSUME NEW S, IsFiniteSet(S), NEW T, IsFiniteSet(T), S \cap T = {},
         NEW g, \A x \in S \cup T : g[x] \in Int
  PROVE  SumFunctionOnSet(g, S \cup T) = SumFunctionOnSet(g, S) + SumFunctionOnSet(g, T)
<1> DEFINE H == {s \in SUBSET T : SumFunctionOnSet(g, S \cup s) = SumFunctionOnSet(g, S) + SumFunctionOnSet(g, s)}
<1>0. \A s \in SUBSET T : IsFiniteSet(s) /\ IsFiniteSet(S \cup s) /\ \A x \in S \cup s : g[x] \in Int
  BY FS_Subset, FS_Union
<1>1. ASSUME NEW s \in SUBSET T, \A t \in SUBSET s : t # s => t \in H
      PROVE  s \in H
  <2>1. CASE s = {}
    <3>1. SumFunctionOnSet(g, s) = 0 /\ SumFunctionOnSet(g, S) \in Int
      BY <1>0, <2>1, SumPick
    <3>2. S \cup s = S
      BY <2>1
    <3>3. SumFunctionOnSet(g, S \cup s) = SumFunctionOnSet(g, S)
      BY <3>2, Zenon
    <3>4. QED
      BY <3>1, <3>3
  <2>2. CASE s # {}
    <3>1. PICK x \in s : TRUE
      BY <2>2
    <3>2. s \ {x} \in H
      BY <1>1
    <3>3. (S \cup s) \ {x} = S \cup (s \ {x})
      OBVIOUS
    <3>n. SumFunctionOnSet(g, (S \cup s) \ {x}) = SumFunctionOnSet(g, S \cup (s \ {x}))
      BY <3>3, Zenon
    <3>4. SumFunctionOnSet(g, S \cup s) = g[x] + SumFunctionOnSet(g, S \cup (s \ {x}))
      <4>1. IsFiniteSet(S \cup s) /\ (\A y \in S \cup s : g[y] \in Int) /\ x \in S \cup s
        BY <1>0
      <4>2. SumFunctionOnSet(g, S \cup s) = g[x] + SumFunctionOnSet(g, (S \cup s) \ {x})
        BY <4>1, SumTake
      <4>3. QED
        BY <3>n, <4>2
    <3>5. SumFunctionOnSet(g, s) = g[x] + SumFunctionOnSet(g, s \ {x})
      BY <1>0, SumTake
    <3>6. g[x] \in Int /\ SumFunctionOnSet(g, S) \in Int /\ SumFunctionOnSet(g, s \ {x}) \in Int
      <4>1. s \ {x} \in SUBSET T /\ IsFiniteSet(s \ {x}) /\ (\A y \in s \ {x} : g[y] \in Int) /\ (\A y \in S : g[y] \in Int)
        BY <1>0
      <4>2. QED
        BY <4>1, SumPick
    <3>7. QED
      BY <3>2, <3>4, <3>5, <3>6
  <2>3. QED
    BY <2>1, <2>2
<1>2. H = SUBSET T
  <2> HIDE DEF H
  <2>1. H \in SUBSET SUBSET T
    BY DEF H
  <2>2. QED
    BY <1>1, <2>1, AllSubsets
<1>3. T \in H
  BY <1>2
<1>4. QED
  BY <1>3

\* A sum of less is less.
LEMMA SumMonotone ==
  ASSUME NEW S, IsFiniteSet(S), NEW f, NEW g,
         \A x \in S : f[x] \in Int /\ g[x] \in Int /\ f[x] <= g[x]
  PROVE  SumFunctionOnSet(f, S) <= SumFunctionOnSet(g, S)
<1> DEFINE H == {s \in SUBSET S : SumFunctionOnSet(f, s) <= SumFunctionOnSet(g, s)}
<1>0. \A s \in SUBSET S : IsFiniteSet(s) /\ (\A x \in s : f[x] \in Int) /\ \A x \in s : g[x] \in Int
  BY FS_Subset
<1>1. ASSUME NEW s \in SUBSET S, \A t \in SUBSET s : t # s => t \in H
      PROVE  s \in H
  <2>1. CASE s = {}
    <3>1. SumFunctionOnSet(f, s) = 0 /\ SumFunctionOnSet(g, s) = 0
      BY <1>0, <2>1, SumPick
    <3>2. QED
      BY <3>1
  <2>2. CASE s # {}
    <3>1. PICK x \in s : TRUE
      BY <2>2
    <3>2. s \ {x} \in H
      BY <1>1
    <3>3. /\ SumFunctionOnSet(f, s) = f[x] + SumFunctionOnSet(f, s \ {x})
          /\ SumFunctionOnSet(g, s) = g[x] + SumFunctionOnSet(g, s \ {x})
      BY <1>0, SumTake
    <3>4. SumFunctionOnSet(f, s \ {x}) \in Int /\ SumFunctionOnSet(g, s \ {x}) \in Int
      <4>1. s \ {x} \in SUBSET S
        OBVIOUS
      <4>2. QED
        BY <1>0, <4>1, SumPick
    <3>5. QED
      BY <3>2, <3>3, <3>4
  <2>3. QED
    BY <2>1, <2>2
<1>2. H = SUBSET S
  <2> HIDE DEF H
  <2>1. H \in SUBSET SUBSET S
    BY DEF H
  <2>2. QED
    BY <1>1, <2>1, AllSubsets
<1>3. S \in H
  BY <1>2
<1>4. QED
  BY <1>3

\* A sum depends only on the summands.
LEMMA SumSame ==
  ASSUME NEW S, IsFiniteSet(S), NEW f, NEW g, \A x \in S : f[x] \in Int /\ g[x] = f[x]
  PROVE  SumFunctionOnSet(f, S) = SumFunctionOnSet(g, S)
<1>1. SumFunctionOnSet(f, S) <= SumFunctionOnSet(g, S) /\ SumFunctionOnSet(g, S) <= SumFunctionOnSet(f, S)
  <2>1. (\A x \in S : f[x] \in Int /\ g[x] \in Int /\ f[x] <= g[x]) /\ \A x \in S : g[x] \in Int /\ f[x] \in Int /\ g[x] <= f[x]
    OBVIOUS
  <2>2. QED
    BY <2>1, SumMonotone
<1>2. SumFunctionOnSet(f, S) \in Int /\ SumFunctionOnSet(g, S) \in Int
  BY SumPick
<1>3. QED
  BY <1>1, <1>2

\* The sum of sums.
LEMMA SumPlus ==
  ASSUME NEW S, IsFiniteSet(S), NEW f, NEW g, NEW h,
         \A x \in S : f[x] \in Int /\ g[x] \in Int /\ h[x] = f[x] + g[x]
  PROVE  SumFunctionOnSet(h, S) = SumFunctionOnSet(f, S) + SumFunctionOnSet(g, S)
<1> DEFINE H == {s \in SUBSET S : SumFunctionOnSet(h, s) = SumFunctionOnSet(f, s) + SumFunctionOnSet(g, s)}
<1>0. \A s \in SUBSET S : /\ IsFiniteSet(s)
                          /\ \A x \in s : f[x] \in Int
                          /\ \A x \in s : g[x] \in Int
                          /\ \A x \in s : h[x] \in Int
  <2>1. \A x \in S : h[x] \in Int
    OBVIOUS
  <2>2. QED
    BY <2>1, FS_Subset
<1>1. ASSUME NEW s \in SUBSET S, \A t \in SUBSET s : t # s => t \in H
      PROVE  s \in H
  <2>1. CASE s = {}
    <3>1. SumFunctionOnSet(f, s) = 0 /\ SumFunctionOnSet(g, s) = 0 /\ SumFunctionOnSet(h, s) = 0
      BY <1>0, <2>1, SumPick
    <3>2. QED
      BY <3>1
  <2>2. CASE s # {}
    <3>1. PICK x \in s : TRUE
      BY <2>2
    <3>2. s \ {x} \in H
      BY <1>1
    <3>3. /\ SumFunctionOnSet(f, s) = f[x] + SumFunctionOnSet(f, s \ {x})
          /\ SumFunctionOnSet(g, s) = g[x] + SumFunctionOnSet(g, s \ {x})
          /\ SumFunctionOnSet(h, s) = h[x] + SumFunctionOnSet(h, s \ {x})
      BY <1>0, SumTake
    <3>4. SumFunctionOnSet(f, s \ {x}) \in Int /\ SumFunctionOnSet(g, s \ {x}) \in Int
      <4>1. s \ {x} \in SUBSET S
        OBVIOUS
      <4>2. QED
        BY <1>0, <4>1, SumPick
    <3>5. QED
      BY <3>2, <3>3, <3>4
  <2>3. QED
    BY <2>1, <2>2
<1>2. H = SUBSET S
  <2> HIDE DEF H
  <2>1. H \in SUBSET SUBSET S
    BY DEF H
  <2>2. QED
    BY <1>1, <2>1, AllSubsets
<1>3. S \in H
  BY <1>2
<1>4. QED
  BY <1>3

\* A sum of natural numbers is one; of nothing but 0 it is 0.
LEMMA SumNat ==
  ASSUME NEW S, IsFiniteSet(S), NEW g, \A x \in S : g[x] \in Nat
  PROVE  /\ SumFunctionOnSet(g, S) \in Nat
         /\ (\A x \in S : g[x] = 0) => SumFunctionOnSet(g, S) = 0
<1> DEFINE sum(s) == SumFunctionOnSet(g, s)
           H == {s \in SUBSET S : sum(s) \in Nat /\ ((\A x \in S : g[x] = 0) => sum(s) = 0)}
<1>0. \A s \in SUBSET S : IsFiniteSet(s) /\ \A x \in s : g[x] \in Int
  BY FS_Subset
<1>1. ASSUME NEW s \in SUBSET S, \A t \in SUBSET s : t # s => t \in H
      PROVE  s \in H
  <2>1. CASE s = {}
    BY <1>0, <2>1, SumPick
  <2>2. CASE s # {}
    <3>1. PICK x \in s : TRUE
      BY <2>2
    <3>2. s \ {x} \in H
      BY <1>1
    <3>3. sum(s) = g[x] + sum(s \ {x})
      BY <1>0, SumTake
    <3> HIDE DEF sum
    <3>4. QED
      BY <3>2, <3>3
  <2>3. QED
    BY <2>1, <2>2
<1>2. H = SUBSET S
  <2> HIDE DEF H
  <2>1. H \in SUBSET SUBSET S
    BY DEF H
  <2>2. QED
    BY <1>1, <2>1, AllSubsets
<1>3. S \in H
  BY <1>2
<1>4. QED
  BY <1>3

-----------------------------------------------------------------------------
(* Sums of sequences *)

\* A sum does not depend on where the terms are.
LEMMA SumShift ==
  ASSUME NEW s \in Seq(Int), NEW l \in Nat, NEW g, \A i \in 1 .. Len(s) : g[l + i] = s[i]
  PROVE  SumFunctionOnSet(g, l + 1 .. l + Len(s)) = SumFunctionOnSet(s, 1 .. Len(s))
<1> DEFINE N == {n \in Nat : n <= Len(s) =>
                   SumFunctionOnSet(g, l + 1 .. l + n) = SumFunctionOnSet(s, 1 .. n)}
<1>0. Len(s) \in Nat /\ \A i \in 1 .. Len(s) : s[i] \in Int
  OBVIOUS
<1>1. 0 \in N
  <2>1. l + 1 .. l + 0 = {} /\ 1 .. 0 = {}
    OBVIOUS
  <2>2. SumFunctionOnSet(g, {}) = 0 /\ SumFunctionOnSet(s, {}) = 0
    BY SumPick, FS_EmptySet
  <2>3. QED
    BY <2>1, <2>2, Zenon
<1>2. ASSUME NEW n \in N PROVE n + 1 \in N
  <2>0. n \in Nat
    OBVIOUS
  <2> SUFFICES ASSUME n + 1 <= Len(s)
               PROVE  SumFunctionOnSet(g, l + 1 .. l + (n + 1)) = SumFunctionOnSet(s, 1 .. n + 1)
    BY <2>0
  <2>1. SumFunctionOnSet(g, l + 1 .. l + n) = SumFunctionOnSet(s, 1 .. n)
    BY <1>0, <2>0
  <2> DEFINE X == l + 1 .. l + (n + 1)
             Y == 1 .. n + 1
  <2>2. X \ {l + (n + 1)} = l + 1 .. l + n /\ Y \ {n + 1} = 1 .. n
    <3>1. \A i \in Int : i \in X /\ i # l + (n + 1) <=> i \in l + 1 .. l + n
      BY <2>0
    <3>2. \A i \in Int : i \in Y /\ i # n + 1 <=> i \in 1 .. n
      BY <2>0
    <3>3. X \subseteq Int /\ Y \subseteq Int /\ l + 1 .. l + n \subseteq Int /\ 1 .. n \subseteq Int
      OBVIOUS
    <3> HIDE DEF X, Y
    <3>4. QED
      BY <3>1, <3>2, <3>3
  <2>3. l + (n + 1) \in X /\ n + 1 \in Y /\ IsFiniteSet(X) /\ IsFiniteSet(Y)
    BY <2>0, FS_Interval
  <2>4. (\A i \in X : g[i] \in Int) /\ \A i \in Y : s[i] \in Int
    <3>1. \A i \in X : i - l \in 1 .. Len(s) /\ i = l + (i - l)
      BY <1>0, <2>0
    <3>2. \A i \in Y : i \in 1 .. Len(s)
      BY <1>0, <2>0
    <3>3. ASSUME NEW i \in X PROVE g[i] \in Int
      BY <1>0, <3>1
    <3>4. QED
      BY <1>0, <3>2, <3>3
  <2>5. g[l + (n + 1)] = s[n + 1]
    BY <1>0, <2>0
  <2> HIDE DEF X, Y
  <2>6. SumFunctionOnSet(g, X) = g[l + (n + 1)] + SumFunctionOnSet(g, X \ {l + (n + 1)})
    BY <2>3, <2>4, SumTake
  <2>7. SumFunctionOnSet(s, Y) = s[n + 1] + SumFunctionOnSet(s, Y \ {n + 1})
    BY <2>3, <2>4, SumTake
  <2>8. SumFunctionOnSet(g, X \ {l + (n + 1)}) = SumFunctionOnSet(s, Y \ {n + 1})
    BY <2>1, <2>2, Zenon
  <2>9. QED
    BY <2>5, <2>6, <2>7, <2>8 DEF X, Y
<1>3. N = Nat
  <2> HIDE DEF N
  <2>1. N \in SUBSET Nat
    BY DEF N
  <2>2. QED
    BY <1>1, <1>2, <2>1, AllNumbers
<1>4. Len(s) \in N
  BY <1>0, <1>3
<1>5. QED
  BY <1>0, <1>4

\* The sum of a sequence is the sum of its parts.
LEMMA SumConcat ==
  ASSUME NEW s \in Seq(Int), NEW t \in Seq(Int)
  PROVE  SumFunction(s \o t) = SumFunction(s) + SumFunction(t)
<1> DEFINE S == 1 .. Len(s)
           T == Len(s) + 1 .. Len(s) + Len(t)
<1>1. /\ Len(s) \in Nat /\ Len(t) \in Nat /\ s \o t \in Seq(Int) /\ Len(s \o t) = Len(s) + Len(t)
      /\ \A i \in 1 .. Len(s) : (s \o t)[i] = s[i] /\ s[i] \in Int
      /\ \A i \in 1 .. Len(t) : (s \o t)[Len(s) + i] = t[i] /\ t[i] \in Int
  OBVIOUS
<1>2. DOMAIN (s \o t) = S \cup T /\ S \cap T = {} /\ DOMAIN s = 1 .. Len(s) /\ DOMAIN t = 1 .. Len(t)
  BY <1>1
<1>3. IsFiniteSet(S) /\ IsFiniteSet(T)
  BY <1>1, FS_Interval
<1>4. \A i \in S \cup T : (s \o t)[i] \in Int
  BY <1>1
<1> HIDE DEF S, T
<1>5. SumFunctionOnSet(s \o t, S \cup T) = SumFunctionOnSet(s \o t, S) + SumFunctionOnSet(s \o t, T)
  BY <1>2, <1>3, <1>4, SumUnion
<1>6. SumFunctionOnSet(s \o t, S) = SumFunctionOnSet(s, S)
  <2>1. \A i \in S : s[i] \in Int /\ (s \o t)[i] = s[i]
    BY <1>1 DEF S
  <2>2. QED
    BY <1>3, <2>1, SumSame
<1>7. SumFunctionOnSet(s \o t, T) = SumFunctionOnSet(t, 1 .. Len(t))
  BY <1>1, SumShift DEF T
<1>8. SumFunction(s) = SumFunctionOnSet(s, S) /\ SumFunction(t) = SumFunctionOnSet(t, 1 .. Len(t))
      /\ SumFunction(s \o t) = SumFunctionOnSet(s \o t, S \cup T)
  BY <1>2, Zenon DEF SumFunction, S
<1>9. QED
  BY <1>5, <1>6, <1>7, <1>8

\* A part of the terms sums up to no more than all of them.
LEMMA SumPart ==
  ASSUME NEW T, IsFiniteSet(T), NEW S \in SUBSET T, NEW g, \A x \in T : g[x] \in Nat
  PROVE  /\ SumFunctionOnSet(g, S) \in Nat /\ SumFunctionOnSet(g, T) \in Nat
         /\ SumFunctionOnSet(g, T) = SumFunctionOnSet(g, S) + SumFunctionOnSet(g, T \ S)
         /\ SumFunctionOnSet(g, T \ S) \in Nat
<1>1. IsFiniteSet(S) /\ IsFiniteSet(T \ S) /\ S \cap (T \ S) = {} /\ S \cup (T \ S) = T
  BY FS_Subset
<1>2. (\A x \in S : g[x] \in Nat) /\ (\A x \in T \ S : g[x] \in Nat)
  OBVIOUS
<1>3. SumFunctionOnSet(g, S) \in Nat /\ SumFunctionOnSet(g, T) \in Nat /\ SumFunctionOnSet(g, T \ S) \in Nat
  BY <1>1, <1>2, SumNat
<1>4. SumFunctionOnSet(g, S \cup (T \ S)) = SumFunctionOnSet(g, S) + SumFunctionOnSet(g, T \ S)
  <2>1. \A x \in S \cup (T \ S) : g[x] \in Int
    OBVIOUS
  <2>2. QED
    BY <1>1, <2>1, SumUnion
<1>5. SumFunctionOnSet(g, S \cup (T \ S)) = SumFunctionOnSet(g, T)
  BY <1>1, Zenon
<1>6. QED
  BY <1>3, <1>4, <1>5

\* A term is no more than the sum, and an empty sequence sums up to nothing.
LEMMA SumTerms ==
  ASSUME NEW s \in Seq(Nat)
  PROVE  /\ SumFunction(s) \in Nat
         /\ \A i \in 1 .. Len(s) : s[i] <= SumFunction(s)
         /\ s = <<>> => SumFunction(s) = 0
<1>1. DOMAIN s = 1 .. Len(s) /\ Len(s) \in Nat /\ \A i \in 1 .. Len(s) : s[i] \in Nat
  OBVIOUS
<1>2. IsFiniteSet(1 .. Len(s))
  BY <1>1, FS_Interval
<1>3. SumFunctionOnSet(s, 1 .. Len(s)) \in Nat
  BY <1>1, <1>2, SumNat
<1>4. SumFunction(s) = SumFunctionOnSet(s, 1 .. Len(s))
  BY <1>1, Zenon DEF SumFunction
<1>5. ASSUME NEW i \in 1 .. Len(s) PROVE s[i] <= SumFunction(s)
  <2>1. SumFunctionOnSet(s, 1 .. Len(s)) = s[i] + SumFunctionOnSet(s, (1 .. Len(s)) \ {i})
    <3>1. \A x \in 1 .. Len(s) : s[x] \in Int
      BY <1>1
    <3>2. QED
      BY <1>2, <3>1, SumTake
  <2>2. SumFunctionOnSet(s, (1 .. Len(s)) \ {i}) \in Nat
    <3>1. IsFiniteSet((1 .. Len(s)) \ {i}) /\ \A x \in (1 .. Len(s)) \ {i} : s[x] \in Nat
      BY <1>1, <1>2, FS_Subset
    <3>2. QED
      BY <3>1, SumNat
  <2>3. QED
    BY <1>1, <1>4, <2>1, <2>2
<1>6. s = <<>> => SumFunction(s) = 0
  <2> SUFFICES ASSUME s = <<>> PROVE SumFunction(s) = 0
    OBVIOUS
  <2>1. 1 .. Len(s) = {}
    OBVIOUS
  <2>2. QED
    BY <1>1, <1>2, <1>4, <2>1, SumPick
<1>7. QED
  BY <1>3, <1>4, <1>5, <1>6
=============================================================================
