--------------------------- MODULE FootprintProofs ---------------------------
(***************************************************************************)
(* Proofs about the heap footprint, for every set of addresses, every set  *)
(* of request sizes and any number of calls.                               *)
(***************************************************************************)
EXTENDS Footprint, SumLemmas

Places == Addrs \cup {NULL}

TypeOK ==
    /\ blocks \in [DOMAIN blocks -> Nat]
    /\ DOMAIN blocks \subseteq Addrs
    /\ IsFiniteSet(DOMAIN blocks)
    /\ allocmap \in [DOMAIN allocmap -> Nat]
    /\ DOMAIN allocmap \subseteq Places
    /\ IsFiniteSet(DOMAIN allocmap)
    /\ footprint \in Nat

(* The bytes at address a that the application holds, or that a free of a   *)
(* would take off, whichever are more.                                      *)
Charge(held, known, a) ==
    LET h == IF a \in DOMAIN held THEN held[a] ELSE 0
        k == IF a \in DOMAIN known THEN known[a] ELSE 0
    IN  IF h > k THEN h ELSE k

Charges(held, known) == [a \in Places |-> Charge(held, known, a)]

Charged(held, known) ==
    SumFunctionOnSet(Charges(held, known), DOMAIN held \cup DOMAIN known)

(* The total covers the charge of every address.                            *)
CoversCharges == "realloc failed" \in past \/ footprint >= Charged(blocks, allocmap)

(* Before the first realloc or failed call, NULL has no entry and each      *)
(* block is recorded with its size.                                         *)
RecordsAreExact ==
    past = {} =>
        /\ NULL \notin DOMAIN allocmap
        /\ footprint = Live(blocks)
        /\ \A a \in DOMAIN blocks : Recorded(a) = blocks[a]

IInv == TypeOK /\ CoversCharges /\ RecordsAreExact

-----------------------------------------------------------------------------
(* Functions that are changed at one address.                               *)

LEMMA WithType ==
    ASSUME NEW D, NEW f \in [D -> Nat], NEW a, NEW n \in Nat
    PROVE  With(f, a, n) \in [D \cup {a} -> Nat]
BY DEF With

LEMMA WithValues ==
    ASSUME NEW D, NEW f \in [D -> Nat], NEW a, NEW n \in Nat
    PROVE  \A x \in D \cup {a} : With(f, a, n)[x] = IF x = a THEN n ELSE f[x]
BY DEF With

LEMMA WithoutType ==
    ASSUME NEW D, NEW f \in [D -> Nat], NEW a
    PROVE  Without(f, {a}) \in [D \ {a} -> Nat]
BY DEF Without, Restrict

(* What the application holds when a call has returned a or NULL.           *)
LEMMA HoldType ==
    ASSUME NEW D, NEW f \in [D -> Nat], NEW a \in Places, NEW n \in Nat
    PROVE  Hold(f, a, n) \in [D \cup ({a} \cap Addrs) -> Nat]
<1>1. CASE a = NULL
  <2>1. D \cup ({a} \cap Addrs) = D
    BY <1>1, NullAssumption
  <2>2. QED BY <2>1, <1>1 DEF Hold
<1>2. CASE a # NULL
  <2>1. a \in Addrs /\ {a} \cap Addrs = {a}
    BY <1>2 DEF Places
  <2>2. Hold(f, a, n) = With(f, a, n)
    BY <1>2 DEF Hold
  <2>3. QED BY <2>1, <2>2 DEF With
<1>3. QED BY <1>1, <1>2

LEMMA HoldValues ==
    ASSUME NEW D, NEW f \in [D -> Nat], D \subseteq Addrs,
           NEW a \in Places, NEW n \in Nat
    PROVE  \A x \in D \cup ({a} \cap Addrs) :
               Hold(f, a, n)[x] = IF x = a THEN n ELSE f[x]
<1>1. CASE a = NULL
  BY <1>1, NullAssumption DEF Hold
<1>2. CASE a # NULL
  <2>1. a \in Addrs /\ {a} \cap Addrs = {a}
    BY <1>2 DEF Places
  <2>2. Hold(f, a, n) = With(f, a, n)
    BY <1>2 DEF Hold
  <2>3. QED BY <2>1, <2>2, WithValues
<1>3. QED BY <1>1, <1>2

(* What the first malloc leaves in the map of its own blocks, which are free*)
(* again.                                                                   *)
LEMMA FirstMalloc ==
    ASSUME TypeOK, NEW known \in AfterFirstMalloc
    PROVE  \E K \in SUBSET (Addrs \ DOMAIN blocks) :
              /\ IsFiniteSet(K)
              /\ known \in [DOMAIN allocmap \cup K -> Nat]
              /\ \A a \in DOMAIN allocmap \cup K :
                    known[a] = IF a \in K THEN 0 ELSE allocmap[a]
<1> DEFINE M == DOMAIN allocmap
<1>1. allocmap \in [M -> Nat]
  BY DEF TypeOK
<1>2. CASE known = allocmap
  <2>1. M \cup {} = M /\ IsFiniteSet({})
    BY FS_EmptySet
  <2>2. QED BY <1>1, <1>2, <2>1
<1>3. CASE known # allocmap
  <2>1. PICK a \in Addrs \ DOMAIN blocks, b \in Addrs \ DOMAIN blocks :
           known = With(With(allocmap, a, 0), b, 0)
    BY <1>3 DEF AfterFirstMalloc
  <2> DEFINE K == {a, b}
  <2>2. K \in SUBSET (Addrs \ DOMAIN blocks) /\ IsFiniteSet(K)
    <3>1. {a, b} = {a} \cup {b}
      OBVIOUS
    <3>2. IsFiniteSet({a}) /\ IsFiniteSet({a} \cup {b})
      BY FS_Singleton, FS_AddElement
    <3>3. QED BY <3>1, <3>2
  <2>3. known \in [M \cup K -> Nat]
    BY <2>1, <1>1 DEF With
  <2>4. \A x \in M \cup K : known[x] = IF x \in K THEN 0 ELSE allocmap[x]
    BY <2>1, <1>1 DEF With
  <2>5. QED BY <2>2, <2>3, <2>4
<1>4. QED BY <1>2, <1>3

-----------------------------------------------------------------------------
(* Charges.                                                                 *)

(* f is a map from finitely many of the places in P to bytes.               *)
MapOK(f, P) ==
    /\ f \in [DOMAIN f -> Nat]
    /\ DOMAIN f \subseteq P
    /\ IsFiniteSet(DOMAIN f)

LEMMA ChargeNat ==
    ASSUME NEW held, NEW known, MapOK(held, Addrs), MapOK(known, Places), NEW a
    PROVE  /\ Charge(held, known, a) \in Nat
           /\ a \notin DOMAIN held \cup DOMAIN known => Charge(held, known, a) = 0
           /\ a \in DOMAIN held => held[a] \in Nat /\ held[a] <= Charge(held, known, a)
           /\ a \in DOMAIN known => known[a] \in Nat /\ known[a] <= Charge(held, known, a)
<1>1. /\ a \in DOMAIN held => held[a] \in Nat
      /\ a \in DOMAIN known => known[a] \in Nat
  BY DEF MapOK
<1>2. QED BY <1>1 DEF Charge

(* The charges of two places change and no other charge grows.              *)
LEMMA ChargesMove ==
    ASSUME NEW held, NEW known, MapOK(held, Addrs), MapOK(known, Places),
           NEW held2, NEW known2, MapOK(held2, Addrs), MapOK(known2, Places),
           NEW v \in Places, NEW p \in Places, NEW r \in Nat, NEW n \in Nat,
           \A x \in Places \ {v, p} :
              Charge(held2, known2, x) <= Charge(held, known, x),
           r <= Charge(held, known, v),
           Charge(held2, known2, p) <= n,
           v # p => Charge(held2, known2, v) <= Charge(held, known, v) - r
    PROVE  /\ Charged(held, known) \in Nat /\ Charged(held2, known2) \in Nat
           /\ r <= Charged(held, known)
           /\ Charged(held2, known2) <= Charged(held, known) - r + n
<1> DEFINE F == Charges(held, known)
           G == Charges(held2, known2)
           A == DOMAIN held \cup DOMAIN known
           B == DOMAIN held2 \cup DOMAIN known2
           E == ((A \cup B) \cup {v}) \cup {p}
<1>1. IsFiniteSet(A) /\ IsFiniteSet(B)
  BY FS_Union DEF MapOK
<1>2. IsFiniteSet(E)
  <2>1. IsFiniteSet(A \cup B)
    BY <1>1, FS_Union
  <2>2. IsFiniteSet((A \cup B) \cup {v})
    BY <2>1, FS_AddElement
  <2>3. QED BY <2>2, FS_AddElement
<1>3. E \subseteq Places /\ A \subseteq E /\ B \subseteq E
  BY DEF MapOK, Places
<1>4. \A x \in Places : /\ F[x] = Charge(held, known, x)
                       /\ G[x] = Charge(held2, known2, x)
  BY DEF Charges
<1>5. \A x \in Places : F[x] \in Nat /\ G[x] \in Nat
  BY <1>4, ChargeNat
<1>6. (\A x \in E \ A : F[x] = 0) /\ (\A x \in E \ B : G[x] = 0)
  BY <1>4, <1>3, ChargeNat
<1>7. Charged(held, known) = SumFunctionOnSet(F, A)
  BY DEF Charged
<1>8. Charged(held2, known2) = SumFunctionOnSet(G, B)
  BY DEF Charged
<1> HIDE DEF F, G, A, B
<1>9. /\ SumFunctionOnSet(F, E) = SumFunctionOnSet(F, A)
      /\ SumFunctionOnSet(G, E) = SumFunctionOnSet(G, B)
  <2>1. \A x \in E : F[x] \in Int /\ G[x] \in Int
    BY <1>3, <1>5
  <2> HIDE DEF E
  <2>2. QED BY <2>1, <1>2, <1>3, <1>6, SumSupport
<1>10. v \in E /\ p \in E
  OBVIOUS
<1>11. /\ \A x \in E : F[x] \in Nat /\ G[x] \in Nat
       /\ \A x \in E \ {v, p} : G[x] <= F[x]
       /\ r <= F[v] /\ G[p] <= n /\ (v # p => G[v] <= F[v] - r)
  <2> HIDE DEF E
  <2>1. QED BY <1>3, <1>4, <1>5
<1> HIDE DEF E
<1>12. SumFunctionOnSet(G, E) <= SumFunctionOnSet(F, E) - r + n
  BY <1>2, <1>10, <1>11, SumMoves
<1>13. /\ SumFunctionOnSet(F, E) \in Nat /\ SumFunctionOnSet(G, E) \in Nat
  BY <1>2, <1>11, SumNat
<1>14. r <= SumFunctionOnSet(F, E)
  <2>1. IsFiniteSet(E \ {v})
    BY <1>2, FS_RemoveElement
  <2>2. SumFunctionOnSet(F, E \ {v}) \in Nat
    BY <2>1, <1>11, SumNat
  <2>3. SumFunctionOnSet(F, E) = F[v] + SumFunctionOnSet(F, E \ {v})
    BY <1>2, <1>10, <1>11, SumRemove
  <2>4. QED BY <2>2, <2>3, <1>11, <1>10
<1>15. QED BY <1>7, <1>8, <1>9, <1>12, <1>13, <1>14

(* What the application holds is not above the charges.                     *)
LEMMA LiveBelowCharges ==
    ASSUME NEW held, NEW known, MapOK(held, Addrs), MapOK(known, Places)
    PROVE  /\ Live(held) \in Nat
           /\ Charged(held, known) \in Nat
           /\ Live(held) <= Charged(held, known)
<1> DEFINE F == Charges(held, known)
           D == DOMAIN held
           M == D \cup DOMAIN known
           H == [x \in M |-> IF x \in D THEN held[x] ELSE 0]
<1>1. IsFiniteSet(D) /\ IsFiniteSet(M) /\ D \in SUBSET M
  BY FS_Union DEF MapOK
<1>2. \A x \in M : /\ F[x] \in Nat /\ H[x] \in Nat /\ H[x] <= F[x]
  <2>1. M \subseteq Places
    BY DEF MapOK, Places
  <2>2. QED BY <2>1, ChargeNat DEF Charges
<1>3. \A x \in D : H[x] = held[x] /\ held[x] \in Nat
  BY <1>2
<1>4. \A x \in M \ D : H[x] = 0
  OBVIOUS
<1>5. Live(held) = SumFunctionOnSet(held, D) /\ Charged(held, known) = SumFunctionOnSet(F, M)
  BY DEF Live, SumFunction, Charged
<1> HIDE DEF F, D, M, H
<1>6. SumFunctionOnSet(held, D) = SumFunctionOnSet(H, D)
  BY <1>1, <1>3, SumSame
<1>7. SumFunctionOnSet(H, M) = SumFunctionOnSet(H, D)
  BY <1>1, <1>2, <1>4, SumSupport
<1>8. SumFunctionOnSet(H, M) <= SumFunctionOnSet(F, M)
  BY <1>1, <1>2, SumLeq
<1>9. SumFunctionOnSet(held, D) \in Nat /\ SumFunctionOnSet(F, M) \in Nat
  BY <1>1, <1>2, <1>3, SumNat
<1>10. QED BY <1>5, <1>6, <1>7, <1>8, <1>9

LEMMA LiveHold ==
    ASSUME NEW held, MapOK(held, Addrs), NEW a \in Addrs \ DOMAIN held, NEW n \in Nat
    PROVE  Live(Hold(held, a, n)) = Live(held) + n
<1> DEFINE D == DOMAIN held
           g == Hold(held, a, n)
<1>1. D \cup ({a} \cap Addrs) = D \cup {a} /\ a \in Places /\ D \subseteq Addrs
  BY DEF Places, MapOK
<1>2. held \in [D -> Nat] /\ IsFiniteSet(D) /\ a \notin D
  BY DEF MapOK
<1>3. g \in [D \cup {a} -> Nat]
  BY <1>1, <1>2, HoldType
<1>4. \A x \in D \cup {a} : g[x] = IF x = a THEN n ELSE held[x]
  BY <1>1, <1>2, HoldValues
<1> HIDE DEF D, g
<1>5. g[a] = n /\ \A x \in D : g[x] = held[x] /\ g[x] \in Nat
  BY <1>2, <1>3, <1>4
<1>6. SumFunctionOnSet(g, D \cup {a}) = g[a] + SumFunctionOnSet(g, D)
  BY <1>2, <1>5, SumAdd
<1>7. SumFunctionOnSet(g, D) = SumFunctionOnSet(held, D)
  BY <1>2, <1>5, SumSame
<1>8. SumFunctionOnSet(held, D) \in Nat
  BY <1>2, SumNat
<1>9. DOMAIN g = D \cup {a}
  BY <1>3
<1>10. Live(g) = SumFunctionOnSet(g, D \cup {a})
  BY <1>9 DEF Live, SumFunction
<1>11. Live(held) = SumFunctionOnSet(held, D)
  BY DEF Live, SumFunction, D
<1>12. QED BY <1>5, <1>6, <1>7, <1>8, <1>10, <1>11 DEF g

LEMMA LiveWithout ==
    ASSUME NEW held, MapOK(held, Addrs), NEW a \in DOMAIN held
    PROVE  /\ Live(held) \in Nat
           /\ held[a] \in Nat
           /\ held[a] <= Live(held)
           /\ Live(Without(held, {a})) = Live(held) - held[a]
<1> DEFINE D == DOMAIN held
           g == Without(held, {a})
<1>1. held \in [D -> Nat] /\ IsFiniteSet(D) /\ a \in D
  BY DEF MapOK
<1>2. IsFiniteSet(D \ {a})
  BY <1>1, FS_RemoveElement
<1>3. g \in [D \ {a} -> Nat] /\ \A x \in D \ {a} : g[x] = held[x]
  <2>1. g \in [D \ {a} -> Nat]
    BY <1>1, WithoutType
  <2>2. \A x \in D \ {a} : g[x] = held[x]
    BY <1>1 DEF Without, Restrict
  <2>3. QED BY <2>1, <2>2
<1> HIDE DEF D, g
<1>4. SumFunctionOnSet(held, D) = held[a] + SumFunctionOnSet(held, D \ {a})
  BY <1>1, SumRemove
<1>5. SumFunctionOnSet(g, D \ {a}) = SumFunctionOnSet(held, D \ {a})
  BY <1>2, <1>3, SumSame
<1>6. SumFunctionOnSet(held, D \ {a}) \in Nat /\ held[a] \in Nat
  BY <1>1, <1>2, SumNat
<1>7. DOMAIN g = D \ {a}
  BY <1>3
<1>8. Live(g) = SumFunctionOnSet(g, D \ {a})
  BY <1>7 DEF Live, SumFunction
<1>9. Live(held) = SumFunctionOnSet(held, D)
  BY DEF Live, SumFunction, D
<1>10. QED BY <1>4, <1>5, <1>6, <1>8, <1>9 DEF g

-----------------------------------------------------------------------------
(* The steps.                                                               *)

LEMMA TypeIsMaps ==
    TypeOK <=> MapOK(blocks, Addrs) /\ MapOK(allocmap, Places) /\ footprint \in Nat
BY DEF TypeOK, MapOK

(* The block, or NULL, that a call returns is held and recorded; K are      *)
(* unused addresses that were recorded with 0 meanwhile.                    *)
LEMMA AllocationKeeps ==
    ASSUME IInv, NEW n \in Nat, NEW ptr \in Results(DOMAIN blocks),
           NEW K \in SUBSET (Addrs \ DOMAIN blocks), IsFiniteSet(K),
           NEW known \in [DOMAIN allocmap \cup K -> Nat],
           \A a \in DOMAIN allocmap \cup K :
              known[a] = IF a \in K THEN 0 ELSE allocmap[a],
           blocks' = Hold(blocks, ptr, n),
           allocmap' = Record(known, ptr, n),
           footprint' = footprint + n,
           Remember(Failed(ptr))
    PROVE  IInv'
<1> DEFINE D == DOMAIN blocks
           M == DOMAIN allocmap
<1>1. ptr \in Places /\ ptr \notin D /\ D \subseteq Addrs
  BY NullAssumption DEF Results, Places, IInv, TypeOK
<1>2. /\ blocks \in [D -> Nat] /\ IsFiniteSet(D)
      /\ allocmap \in [M -> Nat] /\ IsFiniteSet(M) /\ M \subseteq Places
      /\ footprint \in Nat
  BY DEF IInv, TypeOK
<1>3. /\ blocks' \in [D \cup ({ptr} \cap Addrs) -> Nat]
      /\ \A x \in D \cup ({ptr} \cap Addrs) : blocks'[x] = IF x = ptr THEN n ELSE blocks[x]
  <2> DEFINE g == Hold(blocks, ptr, n)
  <2> HIDE DEF D
  <2>1. g \in [D \cup ({ptr} \cap Addrs) -> Nat]
    BY <1>1, <1>2, HoldType
  <2>2. \A x \in D \cup ({ptr} \cap Addrs) : g[x] = IF x = ptr THEN n ELSE blocks[x]
    BY <1>1, <1>2, HoldValues
  <2> HIDE DEF g
  <2>3. blocks' = g
    BY DEF g
  <2>4. QED BY <2>1, <2>2, <2>3
<1>4. /\ allocmap' \in [(M \cup K) \cup {ptr} -> Nat]
      /\ \A x \in (M \cup K) \cup {ptr} :
            allocmap'[x] = IF x = ptr THEN n ELSE IF x \in K THEN 0 ELSE allocmap[x]
  <2>1. allocmap' = With(known, ptr, n)
    BY DEF Record
  <2>2. QED BY <2>1 DEF With
<1>5. TypeOK'
  <2>1. IsFiniteSet(D \cup ({ptr} \cap Addrs))
    <3>1. CASE ptr \in Addrs
      <4>1. {ptr} \cap Addrs = {ptr}
        BY <3>1
      <4>2. QED BY <4>1, <1>2, FS_AddElement
    <3>2. CASE ptr \notin Addrs
      <4>1. D \cup ({ptr} \cap Addrs) = D
        BY <3>2
      <4>2. QED BY <4>1, <1>2
    <3>3. QED BY <3>1, <3>2
  <2>2. IsFiniteSet((M \cup K) \cup {ptr})
    BY <1>2, FS_Union, FS_AddElement
  <2>3. D \cup ({ptr} \cap Addrs) \subseteq Addrs /\ (M \cup K) \cup {ptr} \subseteq Places
    BY <1>1, <1>2 DEF Places
  <2> HIDE DEF D, M
  <2>4. DOMAIN blocks' = D \cup ({ptr} \cap Addrs) /\ DOMAIN allocmap' = (M \cup K) \cup {ptr}
    BY <1>3, <1>4
  <2>5. QED BY <1>2, <1>3, <1>4, <2>1, <2>2, <2>3, <2>4 DEF TypeOK
<1>6. CoversCharges'
  <2>1. CASE "realloc failed" \in past
    BY <2>1 DEF CoversCharges, Remember
  <2>2. CASE "realloc failed" \notin past
    <3>1. /\ MapOK(blocks, Addrs) /\ MapOK(allocmap, Places)
          /\ MapOK(blocks', Addrs) /\ MapOK(allocmap', Places)
      BY <1>5 DEF IInv, TypeOK, MapOK
    <3>2. \A x \in Places \ {ptr} :
             Charge(blocks', allocmap', x) <= Charge(blocks, allocmap, x)
      <4> SUFFICES ASSUME NEW x \in Places, x # ptr
                   PROVE  Charge(blocks', allocmap', x) <= Charge(blocks, allocmap, x)
        OBVIOUS
      <4>1. x \in DOMAIN blocks' => x \in D /\ blocks'[x] = blocks[x]
        BY <1>3
      <4>2. x \in D => x \in DOMAIN blocks'
        BY <1>3
      <4>3. x \in DOMAIN allocmap' /\ x \notin K => x \in M /\ allocmap'[x] = allocmap[x]
        BY <1>4
      <4>4. x \in K => allocmap'[x] = 0 /\ x \notin D /\ x \notin DOMAIN blocks'
        BY <1>4, <1>3
      <4>5. x \in M => x \in DOMAIN allocmap'
        BY <1>4
      <4>6. /\ x \in D => blocks[x] \in Nat
            /\ x \in M => allocmap[x] \in Nat
        BY <1>2
      <4>7. QED BY <4>1, <4>2, <4>3, <4>4, <4>5, <4>6 DEF Charge
    <3>3. Charge(blocks', allocmap', ptr) <= n
      <4>1. allocmap'[ptr] = n /\ ptr \in DOMAIN allocmap'
        BY <1>4
      <4>2. ptr \in DOMAIN blocks' => blocks'[ptr] = n
        BY <1>3
      <4>3. QED BY <4>1, <4>2 DEF Charge
    <3>4. Charge(blocks, allocmap, ptr) >= 0
      BY <3>1, ChargeNat
    <3>5. /\ Charged(blocks, allocmap) \in Nat /\ Charged(blocks', allocmap') \in Nat
          /\ Charged(blocks', allocmap') <= Charged(blocks, allocmap) - 0 + n
      <4> DEFINE F == Charged(blocks, allocmap)
                 G == Charged(blocks', allocmap')
      <4>1. \A x \in Places \ {ptr, ptr} :
               Charge(blocks', allocmap', x) <= Charge(blocks, allocmap, x)
        BY <3>2
      <4>2. QED BY <1>1, <3>1, <4>1, <3>3, <3>4, ChargesMove
    <3>6. footprint >= Charged(blocks, allocmap)
      BY <2>2 DEF IInv, CoversCharges
    <3>7. footprint' >= Charged(blocks', allocmap')
      BY <3>5, <3>6, <1>2
    <3>8. QED BY <3>7 DEF CoversCharges
  <2>3. QED BY <2>1, <2>2
<1>7. RecordsAreExact'
  <2> SUFFICES ASSUME past' = {}
               PROVE  /\ NULL \notin DOMAIN allocmap'
                      /\ footprint' = Live(blocks')
                      /\ \A a \in DOMAIN blocks' : Recorded(a)' = blocks'[a]
    BY DEF RecordsAreExact
  <2>1. past = {} /\ ptr # NULL
    BY DEF Remember, Failed
  <2>2. ptr \in Addrs \ DOMAIN blocks
    BY <2>1, <1>1 DEF Places
  <2>3. /\ NULL \notin M /\ footprint = Live(blocks)
        /\ \A a \in D : Recorded(a) = blocks[a]
    BY <2>1 DEF IInv, RecordsAreExact
  <2>4. NULL \notin DOMAIN allocmap'
    BY <1>4, <2>1, <2>3, NullAssumption
  <2>5. footprint' = Live(blocks')
    <3>1. MapOK(blocks, Addrs)
      BY DEF IInv, TypeOK, MapOK
    <3>2. QED BY <3>1, <2>2, <2>3, LiveHold
  <2>6. ASSUME NEW a \in DOMAIN blocks' PROVE Recorded(a)' = blocks'[a]
    <3>1. a \in D \cup {ptr} /\ (a # ptr => a \notin K)
      BY <1>3, <2>6
    <3>2. CASE a = ptr
      BY <3>2, <1>3, <1>4, <2>2, <2>6 DEF Recorded
    <3>3. CASE a # ptr
      <4>1. a \in D /\ blocks'[a] = blocks[a]
        BY <3>1, <3>3, <1>3
      <4>2. a \in M <=> a \in DOMAIN allocmap'
        BY <3>1, <3>3, <1>4
      <4>3. a \in M => allocmap'[a] = allocmap[a]
        BY <3>1, <3>3, <1>4
      <4>4. QED BY <4>1, <4>2, <4>3, <2>3 DEF Recorded
    <3>4. QED BY <3>2, <3>3
  <2>7. QED BY <2>4, <2>5, <2>6
<1>8. QED BY <1>5, <1>6, <1>7 DEF IInv

(* Places that are given back, or whose block moves.                        *)
LEMMA AfterReallocType ==
    ASSUME TypeOK, NEW var \in Places, NEW ptr \in Places, NEW n \in Nat,
           AfterRealloc(var, ptr, n)
    PROVE  MapOK(allocmap', Places) /\ footprint' \in Nat
<1> DEFINE M == DOMAIN allocmap
<1>1. allocmap \in [M -> Nat] /\ IsFiniteSet(M) /\ M \subseteq Places /\ footprint \in Nat
  BY DEF TypeOK
<1>2. CASE ptr \in DOMAIN allocmap
  <2>1. allocmap' = With(With(allocmap, var, 0), ptr, n)
    BY <1>2 DEF AfterRealloc
  <2>2. allocmap' \in [(M \cup {var}) \cup {ptr} -> Nat]
    BY <2>1, <1>1 DEF With
  <2>3. IsFiniteSet((M \cup {var}) \cup {ptr})
    BY <1>1, FS_AddElement
  <2>4. footprint' \in Nat
    <3>1. Recorded(var) \in Nat
      BY <1>1 DEF Recorded
    <3>2. Minus(footprint, Recorded(var)) \in Nat
      BY <3>1, <1>1 DEF Minus
    <3>3. QED BY <3>2, <1>2 DEF AfterRealloc
  <2> HIDE DEF M
  <2>5. DOMAIN allocmap' = (M \cup {var}) \cup {ptr}
    BY <2>2
  <2>6. QED BY <1>1, <2>2, <2>3, <2>4, <2>5 DEF MapOK
<1>3. CASE ptr \notin DOMAIN allocmap
  BY <1>1, <1>3 DEF AfterRealloc, MapOK
<1>4. QED BY <1>2, <1>3

LEMMA ReallocKeeps ==
    ASSUME IInv, NEW var \in DOMAIN blocks \cup {NULL}, NEW n \in Sizes, realloc(var, n)
    PROVE  IInv'
<1>1. PICK ptr \in IF var # NULL /\ n = 0 THEN {NULL}
                   ELSE Results(DOMAIN blocks \ {var}) :
         /\ blocks' = IF ptr = NULL /\ n > 0 THEN blocks
                      ELSE Hold(Without(blocks, {var}), ptr, n)
         /\ AfterRealloc(var, ptr, n)
         /\ Remember({"realloc"} \cup
              IF ptr = NULL /\ n > 0 THEN {"realloc failed"} ELSE {})
  BY DEF realloc
<1>2. n \in Nat /\ ptr \in Places /\ var \in Places
  BY SizesAssumption DEF Results, Places, IInv, TypeOK
<1>3. MapOK(blocks, Addrs) /\ MapOK(allocmap, Places) /\ TypeOK /\ footprint \in Nat
  BY TypeIsMaps DEF IInv
<1>4. MapOK(allocmap', Places) /\ footprint' \in Nat
  BY <1>1, <1>2, <1>3, AfterReallocType
<1>5. RecordsAreExact'
  BY <1>1 DEF RecordsAreExact, Remember
<1>6. CASE ptr = NULL /\ n > 0
  <2>1. blocks' = blocks /\ "realloc failed" \in past'
    BY <1>1, <1>6 DEF Remember
  <2>2. MapOK(blocks', Addrs)
    BY <2>1, <1>3
  <2>3. QED BY <2>1, <2>2, <1>4, <1>5 DEF IInv, TypeOK, MapOK, CoversCharges
<1>7. CASE ~(ptr = NULL /\ n > 0)
  <2> DEFINE W == Without(blocks, {var})
             D == DOMAIN blocks
             E == (D \ {var}) \cup ({ptr} \cap Addrs)
  <2>1. D \subseteq Addrs /\ IsFiniteSet(D) /\ blocks \in [D -> Nat]
    BY <1>3 DEF MapOK
  <2>2. /\ W \in [D \ {var} -> Nat] /\ IsFiniteSet(D \ {var})
        /\ \A x \in D \ {var} : W[x] = blocks[x]
    <3>1. W \in [D \ {var} -> Nat]
      BY <2>1, WithoutType
    <3>2. \A x \in D \ {var} : W[x] = blocks[x]
      BY <2>1 DEF Without, Restrict
    <3>3. QED BY <3>1, <3>2, <2>1, FS_RemoveElement
  <2> HIDE DEF W, D
  <2>3. /\ blocks' \in [E -> Nat]
        /\ \A x \in E : blocks'[x] = IF x = ptr THEN n ELSE blocks[x]
    <3> DEFINE g == Hold(W, ptr, n)
    <3>1. g \in [E -> Nat]
      BY <1>2, <2>2, HoldType
    <3>2. \A x \in E : g[x] = IF x = ptr THEN n ELSE W[x]
      BY <1>2, <2>1, <2>2, HoldValues
    <3>3. blocks' = g
      BY <1>1, <1>7 DEF W
    <3> HIDE DEF g
    <3>4. QED BY <3>1, <3>2, <3>3, <2>2
  <2>4. MapOK(blocks', Addrs)
    <3>1. IsFiniteSet(E)
      BY <2>2, FS_Intersection, FS_Singleton, FS_Union
    <3>2. E \subseteq Addrs
      BY <2>1
    <3> HIDE DEF E
    <3>3. QED BY <2>3, <3>1, <3>2 DEF MapOK
  <2>5. CoversCharges'
    <3>1. CASE "realloc failed" \in past
      BY <1>1, <3>1 DEF CoversCharges, Remember
    <3>2. CASE "realloc failed" \notin past
      <4> DEFINE r == IF ptr \in DOMAIN allocmap THEN Recorded(var) ELSE 0
      <4>1. /\ DOMAIN blocks' = E /\ DOMAIN blocks = D
            /\ var \notin DOMAIN blocks' \/ var = ptr
        BY <2>3 DEF D
      <4>2. /\ \A x \in Places : x \in DOMAIN allocmap => allocmap[x] \in Nat
            /\ \A x \in Places : x \in D => blocks[x] \in Nat
        BY <1>3, <2>1 DEF MapOK
      <4>3. r \in Nat /\ r <= Charge(blocks, allocmap, var)
        <5>1. Charge(blocks, allocmap, var) \in Nat
          BY <1>3, ChargeNat
        <5>2. Recorded(var) \in Nat /\ Recorded(var) <= Charge(blocks, allocmap, var)
          BY <1>3, <5>1, ChargeNat DEF Recorded
        <5>3. QED BY <5>1, <5>2
      <4>4. CASE ptr \in DOMAIN allocmap
        <5>1. /\ DOMAIN allocmap' = (DOMAIN allocmap \cup {var}) \cup {ptr}
              /\ \A x \in DOMAIN allocmap' :
                    allocmap'[x] = IF x = ptr THEN n ELSE IF x = var THEN 0 ELSE allocmap[x]
          BY <1>1, <4>4 DEF AfterRealloc, With
        <5>2. \A x \in Places \ {var, ptr} :
                 Charge(blocks', allocmap', x) <= Charge(blocks, allocmap, x)
          <6> SUFFICES ASSUME NEW x \in Places \ {var, ptr}
                       PROVE  Charge(blocks', allocmap', x) = Charge(blocks, allocmap, x)
            BY <1>3, ChargeNat
          <6>1. x \in DOMAIN blocks' <=> x \in DOMAIN blocks
            BY <4>1
          <6>2. x \in DOMAIN blocks' => blocks'[x] = blocks[x]
            BY <4>1, <2>3
          <6>3. x \in DOMAIN allocmap' <=> x \in DOMAIN allocmap
            BY <5>1
          <6>4. x \in DOMAIN allocmap' => allocmap'[x] = allocmap[x]
            BY <5>1
          <6>5. QED BY <6>1, <6>2, <6>3, <6>4 DEF Charge
        <5>3. Charge(blocks', allocmap', ptr) <= n
          <6>1. ptr \in DOMAIN allocmap' /\ allocmap'[ptr] = n
            BY <5>1
          <6>2. ptr \in DOMAIN blocks' => blocks'[ptr] = n
            BY <2>3, <4>1
          <6>3. QED BY <6>1, <6>2, <1>2 DEF Charge
        <5>4. var # ptr => Charge(blocks', allocmap', var) <= Charge(blocks, allocmap, var) - r
          <6> SUFFICES ASSUME var # ptr
                       PROVE  Charge(blocks', allocmap', var) <= Charge(blocks, allocmap, var) - r
            OBVIOUS
          <6>1. var \notin DOMAIN blocks'
            BY <4>1
          <6>2. allocmap'[var] = 0
            BY <5>1
          <6>3. Charge(blocks', allocmap', var) = 0
            BY <6>1, <6>2 DEF Charge
          <6>4. Charge(blocks, allocmap, var) \in Nat
            BY <1>3, ChargeNat
          <6>5. QED BY <6>3, <6>4, <4>3
        <5> HIDE DEF r
        <5>5. /\ Charged(blocks, allocmap) \in Nat /\ Charged(blocks', allocmap') \in Nat
              /\ r <= Charged(blocks, allocmap)
              /\ Charged(blocks', allocmap') <= Charged(blocks, allocmap) - r + n
          BY <1>2, <1>3, <1>4, <2>4, <4>3, <5>2, <5>3, <5>4, ChargesMove
        <5>6. footprint >= Charged(blocks, allocmap)
          BY <3>2 DEF IInv, CoversCharges
        <5>7. footprint' = Minus(footprint, r) + n
          BY <1>1, <4>4 DEF AfterRealloc, r
        <5>8. footprint' >= Charged(blocks', allocmap')
          BY <5>5, <5>6, <5>7, <1>2, <1>3, <4>3 DEF Minus
        <5>9. QED BY <5>8 DEF CoversCharges
      <4>5. CASE ptr \notin DOMAIN allocmap
        <5>1. allocmap' = allocmap /\ footprint' = footprint + n /\ r = 0
          BY <1>1, <4>5 DEF AfterRealloc
        <5>2. \A x \in Places \ {var, ptr} :
                 Charge(blocks', allocmap', x) <= Charge(blocks, allocmap, x)
          <6> SUFFICES ASSUME NEW x \in Places \ {var, ptr}
                       PROVE  Charge(blocks', allocmap', x) = Charge(blocks, allocmap, x)
            BY <1>3, ChargeNat
          <6>1. x \in DOMAIN blocks' <=> x \in DOMAIN blocks
            BY <4>1
          <6>2. x \in DOMAIN blocks' => blocks'[x] = blocks[x]
            BY <4>1, <2>3
          <6>3. QED BY <6>1, <6>2, <5>1 DEF Charge
        <5>3. Charge(blocks', allocmap', ptr) <= n
          <6>1. ptr \notin DOMAIN allocmap'
            BY <5>1, <4>5
          <6>2. ptr \in DOMAIN blocks' => blocks'[ptr] = n
            BY <2>3, <4>1
          <6>3. QED BY <6>1, <6>2, <1>2 DEF Charge
        <5>4. var # ptr => Charge(blocks', allocmap', var) <= Charge(blocks, allocmap, var) - r
          <6> SUFFICES ASSUME var # ptr
                       PROVE  Charge(blocks', allocmap', var) <= Charge(blocks, allocmap, var)
            BY <5>1, <1>3, ChargeNat
          <6>1. var \notin DOMAIN blocks'
            BY <4>1
          <6>2. Charge(blocks, allocmap, var) \in Nat
            BY <1>3, ChargeNat
          <6>3. CASE var \in DOMAIN allocmap
            <7>1. Charge(blocks', allocmap', var) = allocmap[var]
              BY <6>1, <6>3, <5>1, <4>2, <1>2 DEF Charge
            <7>2. QED BY <7>1, <6>3, <1>3, ChargeNat
          <6>4. CASE var \notin DOMAIN allocmap
            <7>1. Charge(blocks', allocmap', var) = 0
              BY <6>1, <6>4, <5>1 DEF Charge
            <7>2. QED BY <7>1, <6>2
          <6>5. QED BY <6>3, <6>4
        <5> HIDE DEF r
        <5>5. /\ Charged(blocks, allocmap) \in Nat /\ Charged(blocks', allocmap') \in Nat
              /\ Charged(blocks', allocmap') <= Charged(blocks, allocmap) - r + n
          BY <1>2, <1>3, <1>4, <2>4, <4>3, <5>2, <5>3, <5>4, ChargesMove
        <5>6. footprint >= Charged(blocks, allocmap)
          BY <3>2 DEF IInv, CoversCharges
        <5>7. footprint' >= Charged(blocks', allocmap')
          BY <5>5, <5>6, <5>1, <1>2, <1>3
        <5>8. QED BY <5>7 DEF CoversCharges
      <4>6. QED BY <4>4, <4>5
    <3>3. QED BY <3>1, <3>2
  <2>6. QED BY <2>4, <2>5, <1>4, <1>5 DEF IInv, TypeOK, MapOK
<1>8. QED BY <1>6, <1>7

LEMMA FreeKeeps ==
    ASSUME IInv, NEW ptr \in DOMAIN blocks \cup {NULL}, free(ptr)
    PROVE  IInv'
<1> DEFINE D == DOMAIN blocks
           M == DOMAIN allocmap
           r == IF ptr \in M THEN allocmap[ptr] ELSE 0
<1>1. /\ blocks' = Without(blocks, {ptr}) /\ AfterFree(ptr) /\ past' = past
  BY DEF free
<1>2. MapOK(blocks, Addrs) /\ MapOK(allocmap, Places) /\ footprint \in Nat
  BY TypeIsMaps DEF IInv
<1>3. /\ D \subseteq Addrs /\ IsFiniteSet(D) /\ blocks \in [D -> Nat]
      /\ M \subseteq Places /\ IsFiniteSet(M) /\ allocmap \in [M -> Nat]
      /\ ptr \in Places /\ r \in Nat
  BY <1>2 DEF MapOK, Places
<1>4. /\ blocks' \in [D \ {ptr} -> Nat]
      /\ \A x \in D \ {ptr} : blocks'[x] = blocks[x]
  <2>1. blocks' \in [D \ {ptr} -> Nat]
    BY <1>1, <1>3, WithoutType
  <2>2. \A x \in D \ {ptr} : blocks'[x] = blocks[x]
    BY <1>1, <1>3 DEF Without, Restrict
  <2>3. QED BY <2>1, <2>2
<1>5. /\ allocmap' \in [M -> Nat]
      /\ \A x \in M : allocmap'[x] = IF x = ptr THEN 0 ELSE allocmap[x]
  <2>1. CASE ptr \in M
    <3>1. allocmap' = With(allocmap, ptr, 0) /\ M \cup {ptr} = M
      BY <2>1, <1>1 DEF AfterFree
    <3>2. QED BY <3>1, <1>3 DEF With
  <2>2. CASE ptr \notin M
    BY <2>2, <1>1, <1>3 DEF AfterFree
  <2>3. QED BY <2>1, <2>2
<1>6. footprint' = Minus(footprint, r)
  BY <1>1, <1>2 DEF AfterFree, Minus
<1>7. /\ DOMAIN blocks' = D \ {ptr} /\ DOMAIN allocmap' = M
      /\ IsFiniteSet(D \ {ptr})
  BY <1>3, <1>4, <1>5, FS_RemoveElement
<1> HIDE DEF D, M
<1>8. MapOK(blocks', Addrs) /\ MapOK(allocmap', Places) /\ footprint' \in Nat
  BY <1>2, <1>3, <1>4, <1>5, <1>6, <1>7 DEF MapOK, Minus
<1>9. CoversCharges'
  <2>1. CASE "realloc failed" \in past
    BY <1>1, <2>1 DEF CoversCharges
  <2>2. CASE "realloc failed" \notin past
    <3>1. \A x \in Places \ {ptr, ptr} :
             Charge(blocks', allocmap', x) <= Charge(blocks, allocmap, x)
      <4> SUFFICES ASSUME NEW x \in Places \ {ptr}
                   PROVE  Charge(blocks', allocmap', x) = Charge(blocks, allocmap, x)
        BY <1>2, ChargeNat
      <4>1. /\ x \in DOMAIN blocks' <=> x \in DOMAIN blocks
            /\ x \in DOMAIN blocks' => blocks'[x] = blocks[x]
        BY <1>4, <1>7 DEF D
      <4>2. /\ x \in DOMAIN allocmap' <=> x \in DOMAIN allocmap
            /\ x \in DOMAIN allocmap' => allocmap'[x] = allocmap[x]
        BY <1>5, <1>7 DEF M
      <4>3. QED BY <4>1, <4>2 DEF Charge
    <3>2. Charge(blocks', allocmap', ptr) <= 0
      <4>1. ptr \notin DOMAIN blocks'
        BY <1>7
      <4>2. ptr \in DOMAIN allocmap' => allocmap'[ptr] = 0
        BY <1>5, <1>7
      <4>3. QED BY <4>1, <4>2 DEF Charge
    <3>3. r <= Charge(blocks, allocmap, ptr)
      BY <1>2, ChargeNat DEF M
    <3> HIDE DEF r
    <3>4. /\ Charged(blocks, allocmap) \in Nat /\ Charged(blocks', allocmap') \in Nat
          /\ r <= Charged(blocks, allocmap)
          /\ Charged(blocks', allocmap') <= Charged(blocks, allocmap) - r + 0
      BY <1>2, <1>3, <1>8, <3>1, <3>2, <3>3, ChargesMove
    <3>5. footprint >= Charged(blocks, allocmap)
      BY <2>2 DEF IInv, CoversCharges
    <3>6. footprint' >= Charged(blocks', allocmap')
      BY <3>4, <3>5, <1>2, <1>3, <1>6 DEF Minus
    <3>7. QED BY <3>6 DEF CoversCharges
  <2>3. QED BY <2>1, <2>2
<1>10. RecordsAreExact'
  <2> SUFFICES ASSUME past = {}
               PROVE  /\ NULL \notin DOMAIN allocmap'
                      /\ footprint' = Live(blocks')
                      /\ \A a \in DOMAIN blocks' : Recorded(a)' = blocks'[a]
    BY <1>1 DEF RecordsAreExact
  <2>1. /\ NULL \notin M /\ footprint = Live(blocks)
        /\ \A a \in D : (IF a \in M THEN allocmap[a] ELSE 0) = blocks[a]
    BY DEF IInv, RecordsAreExact, Recorded, D, M
  <2>2. footprint' = Live(blocks')
    <3>1. CASE ptr \in D
      <4>1. /\ Live(blocks) \in Nat /\ blocks[ptr] \in Nat /\ blocks[ptr] <= Live(blocks)
            /\ Live(blocks') = Live(blocks) - blocks[ptr]
        BY <1>1, <1>2, <3>1, LiveWithout DEF D
      <4>2. r = blocks[ptr]
        BY <3>1, <2>1
      <4>3. QED BY <4>1, <4>2, <2>1, <1>6 DEF Minus
    <3>2. CASE ptr \notin D
      <4>1. D \ {ptr} = D
        BY <3>2
      <4>2. blocks' = blocks
        BY <4>1, <1>3, <1>4
      <4>3. ptr = NULL /\ r = 0
        BY <3>2, <2>1 DEF D
      <4>4. QED BY <4>2, <4>3, <2>1, <1>2, <1>6 DEF Minus
    <3>3. QED BY <3>1, <3>2
  <2>3. ASSUME NEW a \in DOMAIN blocks' PROVE Recorded(a)' = blocks'[a]
    <3>1. a \in D /\ a # ptr /\ blocks'[a] = blocks[a]
      BY <2>3, <1>4, <1>7
    <3>2. QED BY <3>1, <2>1, <1>5, <1>7 DEF Recorded
  <2>4. QED BY <2>1, <2>2, <2>3, <1>7
<1>11. QED BY <1>8, <1>9, <1>10 DEF IInv, TypeOK, MapOK

LEMMA InitOK == Init => IInv
<1> SUFFICES ASSUME Init PROVE IInv
  OBVIOUS
<1>1. /\ DOMAIN blocks = {} /\ DOMAIN allocmap = {} /\ footprint = 0 /\ past = {}
  BY DEF Init
<1>2. IsFiniteSet({})
  BY FS_EmptySet
<1>3. TypeOK
  BY <1>1, <1>2 DEF TypeOK, Init
<1>4. Live(blocks) = 0 /\ Charged(blocks, allocmap) = 0
  BY <1>1, SumEmpty DEF Live, SumFunction, Charged
<1>5. QED BY <1>1, <1>3, <1>4 DEF IInv, CoversCharges, RecordsAreExact

LEMMA StepOK ==
    ASSUME IInv, [Next]_vars
    PROVE  IInv'
<1>1. ASSUME NEW n \in Sizes, malloc(n) PROVE IInv'
  <2>1. PICK ptr \in Results(DOMAIN blocks), known \in AfterFirstMalloc :
           /\ blocks' = Hold(blocks, ptr, n)
           /\ allocmap' = Record(known, ptr, n)
           /\ Remember(Failed(ptr))
    BY <1>1 DEF malloc
  <2>2. PICK K \in SUBSET (Addrs \ DOMAIN blocks) :
           /\ IsFiniteSet(K)
           /\ known \in [DOMAIN allocmap \cup K -> Nat]
           /\ \A a \in DOMAIN allocmap \cup K :
                 known[a] = IF a \in K THEN 0 ELSE allocmap[a]
    BY FirstMalloc DEF IInv
  <2>3. n \in Nat /\ footprint' = footprint + n
    BY <1>1, SizesAssumption DEF malloc
  <2>4. QED BY <2>1, <2>2, <2>3, AllocationKeeps
<1>2. ASSUME NEW n \in Sizes, calloc(n) PROVE IInv'
  <2>1. PICK ptr \in Results(DOMAIN blocks) :
           /\ blocks' = Hold(blocks, ptr, n)
           /\ allocmap' = Record(allocmap, ptr, n)
           /\ Remember(Failed(ptr))
    BY <1>2 DEF calloc
  <2>2. /\ {} \in SUBSET (Addrs \ DOMAIN blocks) /\ IsFiniteSet({})
        /\ allocmap \in [DOMAIN allocmap \cup {} -> Nat]
        /\ \A a \in DOMAIN allocmap \cup {} :
              allocmap[a] = IF a \in {} THEN 0 ELSE allocmap[a]
    <3>1. DOMAIN allocmap \cup {} = DOMAIN allocmap
      OBVIOUS
    <3>2. QED BY <3>1, FS_EmptySet DEF IInv, TypeOK
  <2>3. n \in Nat /\ footprint' = footprint + n
    BY <1>2, SizesAssumption DEF calloc
  <2> DEFINE K == {}
             known == allocmap
  <2>4. /\ K \in SUBSET (Addrs \ DOMAIN blocks) /\ IsFiniteSet(K)
        /\ known \in [DOMAIN allocmap \cup K -> Nat]
        /\ \A a \in DOMAIN allocmap \cup K :
              known[a] = IF a \in K THEN 0 ELSE allocmap[a]
        /\ allocmap' = Record(known, ptr, n)
    BY <2>1, <2>2
  <2> HIDE DEF K, known
  <2>5. QED BY <2>1, <2>3, <2>4, AllocationKeeps
<1>3. ASSUME NEW var \in DOMAIN blocks \cup {NULL}, NEW n \in Sizes, realloc(var, n)
      PROVE  IInv'
  BY <1>3, ReallocKeeps
<1>4. ASSUME NEW ptr \in DOMAIN blocks \cup {NULL}, free(ptr) PROVE IInv'
  BY <1>4, FreeKeeps
<1>5. CASE UNCHANGED vars
  BY <1>5 DEF vars, IInv, TypeOK, CoversCharges, RecordsAreExact, Recorded
<1>6. QED BY <1>1, <1>2, <1>3, <1>4, <1>5 DEF Next

(* The total is never below what the application holds, however addresses   *)
(* are reused, moved and lost by realloc, or given to blocks of the library,*)
(* until a realloc has failed: it covers, at each address, the larger of    *)
(* the block held there and the size a free would take off.                 *)
THEOREM NeverUndercountsHolds == Spec => []NeverUndercounts
<1>1. ASSUME IInv PROVE NeverUndercounts
  <2>1. MapOK(blocks, Addrs) /\ MapOK(allocmap, Places) /\ footprint \in Nat
    BY <1>1, TypeIsMaps DEF IInv
  <2>2. /\ Live(blocks) \in Nat /\ Charged(blocks, allocmap) \in Nat
        /\ Live(blocks) <= Charged(blocks, allocmap)
    BY <2>1, LiveBelowCharges
  <2>3. CASE "realloc failed" \notin past
    <3>1. footprint >= Charged(blocks, allocmap)
      BY <1>1, <2>3 DEF IInv, CoversCharges
    <3>2. footprint >= Live(blocks)
      BY <2>1, <2>2, <3>1
    <3>3. QED BY <3>2 DEF NeverUndercounts
  <2>4. QED BY <2>3 DEF NeverUndercounts
<1>2. QED BY <1>1, InitOK, StepOK, PTL DEF Spec

(* Without a realloc and a failed call the total is what the application    *)
(* holds, and each block can be taken off again.                            *)
THEOREM ExactWithoutReallocHolds == Spec => []ExactWithoutRealloc
<1>1. IInv => ExactWithoutRealloc
  BY DEF IInv, RecordsAreExact, ExactWithoutRealloc
<1>2. QED BY <1>1, InitOK, StepOK, PTL DEF Spec
==============================================================================
