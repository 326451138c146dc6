------------------------------ MODULE SumLemmas ------------------------------
(***************************************************************************)
(* Sums over finite sets, for the proofs of the modules that count bytes.  *)
(* SumFunctionOnSet is a recursive function over the subsets of a set; the *)
(* induction that shows what it computes is written with the least member  *)
(* of a set of subsets (WFMin), which takes sets and not operators.        *)
(***************************************************************************)
EXTENDS Integers, FiniteSets, Functions, FiniteSetTheorems,
        WellFoundedInduction, TLAPS

-----------------------------------------------------------------------------
(* Least elements: the form in which the proofs below do an induction.      *)

(* A nonempty set of finite subsets of S has a least one for inclusion.     *)
LEMMA LeastSubset ==
    ASSUME NEW S, NEW T, T \subseteq FiniteSubsetsOf(S), T # {}
    PROVE  \E s \in T : \A t \in T : t \subseteq s => t = s
<1>1. PICK s \in T : \A t \in T : <<t, s>> \notin StrictSubsetOrdering(S)
  BY FS_StrictSubsetOrderingWellFounded, WFMin
<1>2. QED BY <1>1 DEF StrictSubsetOrdering, FiniteSubsetsOf

(* A nonempty set of natural numbers has a least one.                       *)
LEMMA LeastNatural ==
    ASSUME NEW S, S \subseteq Nat, S # {}
    PROVE  \E n \in S : \A m \in S : n <= m
<1> DEFINE T == {1 .. n : n \in S}
<1>1. T \subseteq FiniteSubsetsOf(Nat) /\ T # {}
  <2>1. T # {}
    OBVIOUS
  <2>2. \A n \in S : 1 .. n \in FiniteSubsetsOf(Nat)
    BY FS_Interval DEF FiniteSubsetsOf
  <2>3. QED BY <2>1, <2>2
<1>2. PICK s \in T : \A t \in T : t \subseteq s => t = s
  <2> HIDE DEF T
  <2>1. QED BY <1>1, LeastSubset
<1>3. PICK n \in S : s = 1 .. n
  BY <1>2
<1>4. ASSUME NEW m \in S, m < n PROVE FALSE
  <2>1. 1 .. m \subseteq 1 .. n /\ n \in 1 .. n /\ n \notin 1 .. m
    BY <1>4
  <2>2. QED BY <2>1, <1>2, <1>3
<1>5. QED BY <1>4

-----------------------------------------------------------------------------
(* The recursive function of SumFunctionOnSet(F, S), and the element that   *)
(* it takes off a set.                                                      *)
Taken(s) == CHOOSE x \in s : TRUE

SumOf(it, F, s) == IF s = {} THEN 0 ELSE F[Taken(s)] + it[s \ {Taken(s)}]

Adds(it, F, S) == it = [s \in SUBSET S |-> SumOf(it, F, s)]

(* The subsets of S that have at most n elements.                           *)
Few(S, n) == {t \in SUBSET S : Cardinality(t) <= n}

LEMMA TakenIn ==
    ASSUME NEW s, s # {}
    PROVE  Taken(s) \in s
BY DEF Taken

(* Such a function exists on the subsets of at most n elements.             *)
LEMMA AddsUpTo ==
    ASSUME NEW F, NEW S, IsFiniteSet(S), NEW n \in Nat
    PROVE  \E it : it = [s \in Few(S, n) |-> SumOf(it, F, s)]
<1> DEFINE Has(k)  == \E it : it = [s \in Few(S, k) |-> SumOf(it, F, s)]
           Missing == {k \in Nat : ~Has(k)}
<1>1. SUFFICES Missing = {}
  OBVIOUS
<1>2. SUFFICES ASSUME Missing # {} PROVE FALSE
  OBVIOUS
<1>3. PICK k \in Missing : \A j \in Missing : k <= j
  <2>1. Missing \subseteq Nat
    OBVIOUS
  <2> HIDE DEF Missing
  <2>2. QED BY <1>2, <2>1, LeastNatural
<1>4. \A t \in SUBSET S : /\ Cardinality(t) \in Nat
                          /\ Cardinality(t) = 0 => t = {}
  BY FS_Subset, FS_CardinalityType, FS_EmptySet
<1>5. CASE k = 0
  <2> DEFINE g == [s \in Few(S, 0) |-> 0]
  <2>1. \A s \in Few(S, 0) : s = {}
    BY <1>4 DEF Few
  <2>2. g = [s \in Few(S, 0) |-> SumOf(g, F, s)]
    BY <2>1 DEF SumOf
  <2>3. QED BY <2>2, <1>3, <1>5
<1>6. CASE k # 0
  <2>1. k - 1 \in Nat /\ Has(k - 1)
    <3>1. k \in Nat
      BY <1>3
    <3>2. k - 1 \in Nat /\ k - 1 < k
      BY <1>6, <3>1
    <3>3. k - 1 \notin Missing
      <4> HIDE DEF Missing
      <4>1. QED BY <1>3, <3>1, <3>2
    <3>4. QED BY <3>2, <3>3
  <2>2. PICK g : g = [s \in Few(S, k - 1) |-> SumOf(g, F, s)]
    BY <2>1
  <2> DEFINE h == [s \in Few(S, k) |-> SumOf(g, F, s)]
  <2>3. ASSUME NEW s \in Few(S, k) PROVE SumOf(g, F, s) = SumOf(h, F, s)
    <3>1. CASE s = {}
      BY <3>1 DEF SumOf
    <3>2. CASE s # {}
      <4> DEFINE r == s \ {Taken(s)}
      <4>1. IsFiniteSet(s) /\ Taken(s) \in s
        BY <2>3, <3>2, FS_Subset, TakenIn DEF Few
      <4>2. Cardinality(r) = Cardinality(s) - 1
        BY <4>1, FS_RemoveElement
      <4>3. r \in Few(S, k - 1) /\ r \in Few(S, k)
        BY <4>2, <2>3, <1>4, <1>3 DEF Few
      <4>4. g[r] = SumOf(g, F, r)
        <5> HIDE DEF r
        <5>1. QED BY <2>2, <4>3
      <4>5. h[r] = SumOf(g, F, r)
        BY <4>3
      <4>6. QED BY <4>4, <4>5, <3>2 DEF SumOf
    <3>3. QED BY <3>1, <3>2
  <2>4. h = [s \in Few(S, k) |-> SumOf(h, F, s)]
    BY <2>3
  <2>5. Has(k)
    <3> HIDE DEF h
    <3>1. QED BY <2>4
  <2>6. QED BY <2>5, <1>3
<1>7. QED BY <1>5, <1>6

LEMMA AddsExists ==
    ASSUME NEW F, NEW S, IsFiniteSet(S)
    PROVE  \E it : Adds(it, F, S)
<1>1. Cardinality(S) \in Nat
  BY FS_CardinalityType
<1>2. Few(S, Cardinality(S)) = SUBSET S
  BY FS_Subset DEF Few
<1>3. \A n \in Nat : \E it : it = [s \in Few(S, n) |-> SumOf(it, F, s)]
  BY AddsUpTo
<1>4. QED BY <1>1, <1>2, <1>3 DEF Adds

(* The functions of two sets agree on the subsets of both.                  *)
LEMMA AddsAgree ==
    ASSUME NEW F, NEW S, IsFiniteSet(S), NEW T \in SUBSET S,
           NEW g, Adds(g, F, S), NEW h, Adds(h, F, T)
    PROVE  \A s \in SUBSET T : g[s] = h[s]
<1> DEFINE Bad == {s \in SUBSET T : g[s] # h[s]}
<1>1. SUFFICES ASSUME Bad # {} PROVE FALSE
  OBVIOUS
<1>2. Bad \subseteq FiniteSubsetsOf(S)
  BY FS_FiniteSubsetsOfFinite
<1>3. PICK s \in Bad : \A t \in Bad : t \subseteq s => t = s
  <2> HIDE DEF Bad
  <2>1. QED BY <1>1, <1>2, LeastSubset
<1>4. s \in SUBSET T /\ s \in SUBSET S
  OBVIOUS
<1>5. g[s] = SumOf(g, F, s) /\ h[s] = SumOf(h, F, s)
  BY <1>4 DEF Adds
<1>6. CASE s = {}
  BY <1>5, <1>6, <1>3 DEF SumOf
<1>7. CASE s # {}
  <2> DEFINE r == s \ {Taken(s)}
  <2>1. r \subseteq s /\ r # s
    BY <1>7, TakenIn
  <2>2. r \notin Bad
    BY <1>3, <2>1
  <2>3. g[r] = h[r]
    BY <2>2, <2>1, <1>4
  <2>4. QED BY <2>3, <1>5, <1>3, <1>7 DEF SumOf
<1>8. QED BY <1>6, <1>7

LEMMA SumIsIter ==
    ASSUME NEW F, NEW S, IsFiniteSet(S)
    PROVE  \E it : Adds(it, F, S) /\ SumFunctionOnSet(F, S) = it[S]
<1> DEFINE it == CHOOSE x : Adds(x, F, S)
<1>1. SumFunctionOnSet(F, S) = it[S]
  BY DEF SumFunctionOnSet, FoldFunctionOnSet, MapThenFoldSet, Adds, SumOf, Taken
<1>2. Adds(it, F, S)
  BY AddsExists
<1>3. QED BY <1>1, <1>2

-----------------------------------------------------------------------------
(* The sum over no element is 0.                                            *)
LEMMA SumEmpty ==
    ASSUME NEW F
    PROVE  SumFunctionOnSet(F, {}) = 0
<1>1. IsFiniteSet({})
  BY FS_EmptySet
<1>2. PICK it : Adds(it, F, {}) /\ SumFunctionOnSet(F, {}) = it[{}]
  BY <1>1, SumIsIter
<1>3. QED BY <1>2 DEF Adds, SumOf

LEMMA SumTaken ==
    ASSUME NEW F, NEW S, IsFiniteSet(S), S # {}
    PROVE  SumFunctionOnSet(F, S) =
              F[Taken(S)] + SumFunctionOnSet(F, S \ {Taken(S)})
<1> DEFINE T == S \ {Taken(S)}
<1>1. IsFiniteSet(T) /\ T \in SUBSET S
  BY FS_RemoveElement
<1>2. PICK g : Adds(g, F, S) /\ SumFunctionOnSet(F, S) = g[S]
  BY SumIsIter
<1>3. PICK h : Adds(h, F, T) /\ SumFunctionOnSet(F, T) = h[T]
  <2> HIDE DEF T
  <2>1. QED BY <1>1, SumIsIter
<1>4. g[T] = h[T]
  <2> HIDE DEF T
  <2>1. QED BY <1>1, <1>2, <1>3, AddsAgree
<1>5. g[S] = F[Taken(S)] + g[T]
  BY <1>2 DEF Adds, SumOf
<1>6. QED BY <1>2, <1>3, <1>4, <1>5

(* A sum of integers is an integer.                                         *)
LEMMA SumInt ==
    ASSUME NEW F, NEW S, IsFiniteSet(S), \A x \in S : F[x] \in Int
    PROVE  SumFunctionOnSet(F, S) \in Int
<1> DEFINE Bad == {s \in SUBSET S : SumFunctionOnSet(F, s) \notin Int}
<1>1. SUFFICES ASSUME Bad # {} PROVE FALSE
  OBVIOUS
<1>2. Bad \subseteq FiniteSubsetsOf(S)
  BY FS_FiniteSubsetsOfFinite
<1>3. PICK s \in Bad : \A t \in Bad : t \subseteq s => t = s
  <2> HIDE DEF Bad
  <2>1. QED BY <1>1, <1>2, LeastSubset
<1>4. s # {}
  <2>1. SumFunctionOnSet(F, {}) \in Int
    BY SumEmpty
  <2>2. QED BY <1>3, <2>1
<1>5. IsFiniteSet(s) /\ Taken(s) \in s
  BY <1>3, <1>4, FS_Subset, TakenIn
<1>6. s \ {Taken(s)} \notin Bad /\ s \ {Taken(s)} \in SUBSET S
  BY <1>3, <1>5
<1>7. SumFunctionOnSet(F, s \ {Taken(s)}) \in Int /\ F[Taken(s)] \in Int
  BY <1>6, <1>5, <1>3
<1>8. QED BY <1>7, <1>5, <1>4, <1>3, SumTaken

(* A sum of natural numbers is one.                                         *)
LEMMA SumNat ==
    ASSUME NEW F, NEW S, IsFiniteSet(S), \A x \in S : F[x] \in Nat
    PROVE  SumFunctionOnSet(F, S) \in Nat
<1> DEFINE Bad == {s \in SUBSET S : SumFunctionOnSet(F, s) \notin Nat}
<1>1. SUFFICES ASSUME Bad # {} PROVE FALSE
  OBVIOUS
<1>2. Bad \subseteq FiniteSubsetsOf(S)
  BY FS_FiniteSubsetsOfFinite
<1>3. PICK s \in Bad : \A t \in Bad : t \subseteq s => t = s
  <2> HIDE DEF Bad
  <2>1. QED BY <1>1, <1>2, LeastSubset
<1>4. s # {}
  <2>1. SumFunctionOnSet(F, {}) \in Nat
    BY SumEmpty
  <2>2. QED BY <1>3, <2>1
<1>5. IsFiniteSet(s) /\ Taken(s) \in s
  BY <1>3, <1>4, FS_Subset, TakenIn
<1>6. s \ {Taken(s)} \notin Bad /\ s \ {Taken(s)} \in SUBSET S
  BY <1>3, <1>5
<1>7. SumFunctionOnSet(F, s \ {Taken(s)}) \in Nat /\ F[Taken(s)] \in Nat
  BY <1>6, <1>5, <1>3
<1>8. QED BY <1>7, <1>5, <1>4, <1>3, SumTaken

(* A sum is the value at any element and the sum over the others.           *)
LEMMA SumRemove ==
    ASSUME NEW F, NEW S, IsFiniteSet(S), \A y \in S : F[y] \in Int, NEW x \in S
    PROVE  SumFunctionOnSet(F, S) = F[x] + SumFunctionOnSet(F, S \ {x})
<1> DEFINE Sum(s)   == SumFunctionOnSet(F, s)
           Off(s, z) == Sum(s) = F[z] + Sum(s \ {z})
           Bad      == {s \in SUBSET S : \E z \in s : ~Off(s, z)}
<1>1. SUFFICES ASSUME Bad # {} PROVE FALSE
  OBVIOUS
<1>2. Bad \subseteq FiniteSubsetsOf(S)
  BY FS_FiniteSubsetsOfFinite
<1>3. PICK s \in Bad : \A t \in Bad : t \subseteq s => t = s
  <2> HIDE DEF Bad
  <2>1. QED BY <1>1, <1>2, LeastSubset
<1>4. PICK z \in s : ~Off(s, z)
  BY <1>3
<1> DEFINE y == Taken(s)
           r == s \ {z}
           q == s \ {y}
<1>5. s \in SUBSET S /\ y \in s /\ z \in s
  BY <1>3, TakenIn
<1>6. \A t \in SUBSET s : IsFiniteSet(t) /\ Sum(t) \in Int
  BY <1>5, FS_Subset, SumInt
<1>7. Off(s, y)
  BY <1>5, <1>6, SumTaken
<1>8. y # z
  BY <1>7, <1>4
<1>9. r \notin Bad /\ q \notin Bad
  <2>1. r # s /\ q # s /\ r \subseteq s /\ q \subseteq s
    BY <1>5
  <2> HIDE DEF Bad, r, q
  <2>2. QED BY <1>3, <2>1
<1>10. Off(r, y) /\ Off(q, z)
  <2>1. r \in SUBSET S /\ q \in SUBSET S /\ y \in r /\ z \in q
    BY <1>5, <1>8
  <2> HIDE DEF Off, r, q, y
  <2>2. QED BY <1>9, <2>1
<1>11. r \ {y} = q \ {z}
  OBVIOUS
<1>12. /\ Sum(s) \in Int /\ Sum(r) \in Int /\ Sum(q) \in Int
       /\ Sum(q \ {z}) \in Int /\ F[y] \in Int /\ F[z] \in Int
  BY <1>5, <1>6
<1>13. Sum(s) = F[y] + Sum(q)
  BY <1>7
<1>14. Sum(r) = F[y] + Sum(q \ {z}) /\ Sum(q) = F[z] + Sum(q \ {z})
  BY <1>10, <1>11
<1>15. Sum(s) = F[z] + Sum(r)
  <2> HIDE DEF Sum, y, r, q
  <2>1. QED BY <1>12, <1>13, <1>14
<1>16. QED BY <1>15, <1>4

(* One element more.                                                        *)
LEMMA SumAdd ==
    ASSUME NEW F, NEW S, IsFiniteSet(S), \A y \in S : F[y] \in Int,
           NEW x, x \notin S, F[x] \in Int
    PROVE  SumFunctionOnSet(F, S \cup {x}) = F[x] + SumFunctionOnSet(F, S)
<1>1. IsFiniteSet(S \cup {x}) /\ (S \cup {x}) \ {x} = S
  BY FS_AddElement
<1>2. QED BY <1>1, SumRemove

(* A sum depends on the values at the elements only.                        *)
LEMMA SumSame ==
    ASSUME NEW F, NEW G, NEW S, IsFiniteSet(S), \A x \in S : F[x] = G[x]
    PROVE  SumFunctionOnSet(F, S) = SumFunctionOnSet(G, S)
<1> DEFINE Bad == {s \in SUBSET S : SumFunctionOnSet(F, s) # SumFunctionOnSet(G, s)}
<1>1. SUFFICES ASSUME Bad # {} PROVE FALSE
  OBVIOUS
<1>2. Bad \subseteq FiniteSubsetsOf(S)
  BY FS_FiniteSubsetsOfFinite
<1>3. PICK s \in Bad : \A t \in Bad : t \subseteq s => t = s
  <2> HIDE DEF Bad
  <2>1. QED BY <1>1, <1>2, LeastSubset
<1>4. s # {}
  <2>1. SumFunctionOnSet(F, {}) = SumFunctionOnSet(G, {})
    BY SumEmpty
  <2>2. QED BY <1>3, <2>1
<1>5. IsFiniteSet(s) /\ Taken(s) \in s
  BY <1>3, <1>4, FS_Subset, TakenIn
<1>6. s \ {Taken(s)} \notin Bad /\ s \ {Taken(s)} \in SUBSET S
  BY <1>3, <1>5
<1>7. F[Taken(s)] = G[Taken(s)]
  BY <1>5, <1>3
<1>8. QED BY <1>7, <1>6, <1>5, <1>4, <1>3, SumTaken

(* A sum is not above the sum of values that are not below.                 *)
LEMMA SumLeq ==
    ASSUME NEW F, NEW G, NEW S, IsFiniteSet(S),
           \A x \in S : F[x] \in Int /\ G[x] \in Int /\ F[x] <= G[x]
    PROVE  SumFunctionOnSet(F, S) <= SumFunctionOnSet(G, S)
<1> DEFINE Bad == {s \in SUBSET S : ~(SumFunctionOnSet(F, s) <= SumFunctionOnSet(G, s))}
<1>1. SUFFICES ASSUME Bad # {} PROVE FALSE
  OBVIOUS
<1>2. Bad \subseteq FiniteSubsetsOf(S)
  BY FS_FiniteSubsetsOfFinite
<1>3. PICK s \in Bad : \A t \in Bad : t \subseteq s => t = s
  <2> HIDE DEF Bad
  <2>1. QED BY <1>1, <1>2, LeastSubset
<1>4. s # {}
  <2>1. SumFunctionOnSet(F, {}) <= SumFunctionOnSet(G, {})
    BY SumEmpty
  <2>2. QED BY <1>3, <2>1
<1> DEFINE y == Taken(s)
           r == s \ {y}
<1>5. IsFiniteSet(s) /\ y \in s /\ IsFiniteSet(r) /\ r \in SUBSET S
  BY <1>3, <1>4, FS_Subset, TakenIn
<1>6. SumFunctionOnSet(F, r) <= SumFunctionOnSet(G, r)
  BY <1>3, <1>5
<1>7. /\ F[y] \in Int /\ G[y] \in Int /\ F[y] <= G[y]
      /\ SumFunctionOnSet(F, r) \in Int /\ SumFunctionOnSet(G, r) \in Int
  BY <1>5, <1>3, SumInt
<1>8. /\ SumFunctionOnSet(F, s) = F[y] + SumFunctionOnSet(F, r)
      /\ SumFunctionOnSet(G, s) = G[y] + SumFunctionOnSet(G, r)
  BY <1>5, <1>4, SumTaken
<1>9. QED BY <1>6, <1>7, <1>8, <1>3

(* Elements of value 0 may be left out.                                     *)
LEMMA SumSupport ==
    ASSUME NEW F, NEW S, IsFiniteSet(S), NEW T \in SUBSET S,
           \A x \in S : F[x] \in Int, \A x \in S \ T : F[x] = 0
    PROVE  SumFunctionOnSet(F, S) = SumFunctionOnSet(F, T)
<1> DEFINE Between == {s \in SUBSET S : T \subseteq s}
           Bad == {s \in Between : SumFunctionOnSet(F, s) # SumFunctionOnSet(F, T)}
<1>1. SUFFICES ASSUME Bad # {} PROVE FALSE
  OBVIOUS
<1>2. Bad \subseteq FiniteSubsetsOf(S)
  BY FS_FiniteSubsetsOfFinite
<1>3. PICK s \in Bad : \A t \in Bad : t \subseteq s => t = s
  <2> HIDE DEF Bad
  <2>1. QED BY <1>1, <1>2, LeastSubset
<1>4. PICK x \in s : x \notin T
  BY <1>3
<1> DEFINE r == s \ {x}
<1>5. IsFiniteSet(s) /\ IsFiniteSet(r) /\ r \in Between
  BY <1>3, <1>4, FS_Subset
<1>6. r \notin Bad
  <2>1. r # s /\ r \subseteq s
    OBVIOUS
  <2> HIDE DEF Bad, r
  <2>2. QED BY <2>1, <1>3
<1>7. SumFunctionOnSet(F, r) = SumFunctionOnSet(F, T)
  BY <1>5, <1>6
<1>8. SumFunctionOnSet(F, s) = F[x] + SumFunctionOnSet(F, r)
  BY <1>5, <1>3, SumRemove
<1>9. F[x] = 0 /\ SumFunctionOnSet(F, r) \in Int
  BY <1>3, <1>4, <1>5, SumInt
<1>10. QED BY <1>7, <1>8, <1>9, <1>3

(* The values at two elements change, the others do not grow: v gives up at *)
(* least r, and p comes to at most n.                                       *)
LEMMA SumMoves ==
    ASSUME NEW F, NEW G, NEW S, IsFiniteSet(S),
           \A x \in S : F[x] \in Nat /\ G[x] \in Nat,
           NEW v \in S, NEW p \in S, NEW r \in Nat, NEW n \in Nat,
           \A x \in S \ {v, p} : G[x] <= F[x],
           r <= F[v], G[p] <= n, v # p => G[v] <= F[v] - r
    PROVE  SumFunctionOnSet(G, S) <= SumFunctionOnSet(F, S) - r + n
<1> DEFINE T == S \ {p}
           R == T \ {v}
<1>1. IsFiniteSet(T) /\ IsFiniteSet(R)
  BY FS_Subset
<1>2. /\ SumFunctionOnSet(F, S) = F[p] + SumFunctionOnSet(F, T)
      /\ SumFunctionOnSet(G, S) = G[p] + SumFunctionOnSet(G, T)
  BY SumRemove
<1>3. SumFunctionOnSet(G, R) <= SumFunctionOnSet(F, R)
  BY <1>1, SumLeq
<1>4. /\ SumFunctionOnSet(F, T) \in Int /\ SumFunctionOnSet(G, T) \in Int
      /\ SumFunctionOnSet(F, R) \in Int /\ SumFunctionOnSet(G, R) \in Int
  BY <1>1, SumInt
<1>5. CASE v = p
  <2>1. T = R
    BY <1>5
  <2>2. SumFunctionOnSet(G, T) <= SumFunctionOnSet(F, T)
    BY <2>1, <1>3
  <2>3. QED BY <2>2, <1>2, <1>4, <1>5
<1>6. CASE v # p
  <2>1. /\ SumFunctionOnSet(F, T) = F[v] + SumFunctionOnSet(F, R)
        /\ SumFunctionOnSet(G, T) = G[v] + SumFunctionOnSet(G, R)
    BY <1>1, <1>6, SumRemove
  <2> HIDE DEF T, R
  <2>2. QED BY <2>1, <1>2, <1>3, <1>4, <1>6
<1>7. QED BY <1>5, <1>6
==============================================================================
