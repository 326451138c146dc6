------------------------- MODULE ObjectMetricsProofs -------------------------
(***************************************************************************)
(* Proofs that the counters of an object are what the history of accesses  *)
(* says, for every size of object, page, line, episode and integer, every  *)
(* set of access sizes and any number of accesses.                         *)
(***************************************************************************)
EXTENDS ObjectMetrics, SequenceTheorems, SumLemmas

-----------------------------------------------------------------------------
(* Arithmetic.                                                              *)

(* Integer division by a positive number does not decrease.                 *)
LEMMA DivMonotone ==
    ASSUME NEW a \in Nat, NEW b \in Nat, a <= b, NEW p \in Nat \ {0}
    PROVE  a \div p \in Nat /\ a \div p <= b \div p
<1> DEFINE q == a \div p
           r == b \div p
<1>1. q \in Int /\ r \in Int
  OBVIOUS
<1>2. a = p * q + (a % p) /\ a % p \in 0 .. p - 1
  OBVIOUS
<1>3. b = p * r + (b % p) /\ b % p \in 0 .. p - 1
  OBVIOUS
<1> HIDE DEF q, r
<1>4. ASSUME r < q PROVE FALSE
  <2>1. r + 1 <= q
    BY <1>1, <1>4
  <2>2. p * (r + 1) <= p * q
    BY <2>1, <1>1
  <2>3. p * (r + 1) = p * r + p
    BY <1>1
  <2>4. QED BY <2>2, <2>3, <1>1, <1>2, <1>3
<1>5. q >= 0
  <2>1. ASSUME q <= -1 PROVE FALSE
    <3>1. p * q <= p * (-1)
      BY <2>1, <1>1
    <3>2. QED BY <3>1, <1>1, <1>2
  <2>2. QED BY <2>1, <1>1
<1>6. QED BY <1>1, <1>4, <1>5 DEF q, r

(* abs gives the distance when an int can hold it twice.                    *)
LEMMA AbsIsDistance ==
    ASSUME NEW a \in Int, NEW b \in Int, 2 * Distance(a, b) < INT_RANGE
    PROVE  abs(a - b) = Distance(a, b)
<1>1. INT_RANGE \in Nat \ {0}
  BY SizesAssumption
<1> DEFINE d == a - b
           low == d % INT_RANGE
<1>2. d \in Int /\ Distance(a, b) = IF d < 0 THEN -d ELSE d
  BY DEF Distance
<1>3. low = IF d < 0 THEN d + INT_RANGE ELSE d
  <2>1. CASE d >= 0
    <3>1. d < INT_RANGE
      BY <2>1, <1>1, <1>2
    <3>2. QED BY <3>1, <2>1, <1>1
  <2>2. CASE d < 0
    <3>1. d + INT_RANGE \in 0 .. INT_RANGE - 1
      BY <2>2, <1>1, <1>2
    <3>2. QED BY <3>1, <2>2, <1>1
  <2>3. QED BY <2>1, <2>2
<1> HIDE DEF low
<1>4. abs(d) = IF 2 * low < INT_RANGE THEN low
               ELSE IF 2 * low = INT_RANGE THEN - low
               ELSE INT_RANGE - low
  BY DEF abs, low
<1>5. QED BY <1>1, <1>2, <1>3, <1>4

LEMMA Constants ==
    /\ var_size \in Nat /\ PAGE_SIZE \in Nat \ {0} /\ CACHE_LINE_SIZE \in Nat \ {0}
    /\ NEIGBOUR_SIZE \in Nat /\ NEIGBOUR_INS_SIZE \in Nat \ {0}
    /\ EPISODE_LEN \in Nat \ {0} /\ INT_RANGE \in Nat \ {0}
    /\ AccessSizes \subseteq Nat
BY SizesAssumption

(* The unit of an access is one of the object's.                            *)
LEMMA UnitOfOffset ==
    ASSUME NEW addr \in Offsets, NEW unit \in Nat \ {0}
    PROVE  addr \in Nat /\ addr \div unit \in Units(unit) /\ addr \div unit \in Nat
<1>1. addr \in Nat /\ var_size \in Nat /\ addr <= var_size
  BY Constants DEF Offsets
<1>2. addr \div unit \in Nat /\ addr \div unit <= var_size \div unit /\ var_size \div unit \in Int
  BY <1>1, DivMonotone
<1>3. QED BY <1>1, <1>2 DEF Units

-----------------------------------------------------------------------------
(* What an access does to each counter.                                     *)

Counters ==
    {"spatial_count", "temperal_count", "spatial_count_cache",
     "temperal_count_cache", "access_volume", "access_ops", "reference_count",
     "read_volume", "avg_offset_bytes", "last_access_bytes",
     "last_access_stride", "seq_volume", "seq_byte_count", "stride_volume",
     "stride_count", "last_access_page", "touch_count", "page_offsets",
     "sequential_direct", "sequential_count", "dirty_flag", "dirty_count"}

Arrays == {"last_access_ins", "last_access_ins_cache", "references_perpage"}

Fields == Counters \cup Arrays

MetricsType(m) ==
    /\ DOMAIN m = Fields
    /\ \A f \in Counters : m[f] \in Int
    /\ m.last_access_ins \in [Units(PAGE_SIZE) -> Int]
    /\ m.last_access_ins_cache \in [Units(CACHE_LINE_SIZE) -> Int]
    /\ m.references_perpage \in [Units(PAGE_SIZE) -> Int]

(* m2 differs from m in the fields S only.                                  *)
Changes(m, m2, S) ==
    /\ MetricsType(m2)
    /\ \A f \in Fields \ S : m2[f] = m[f]

LEMMA CountInt == \A b \in BOOLEAN : Count(b) \in {0, 1}
BY DEF Count

LEMMA InitVariableType == MetricsType(InitVariable)
<1>1. DOMAIN InitVariable = Fields
  BY DEF InitVariable, Fields, Counters, Arrays
<1>2. \A f \in Counters : InitVariable[f] \in Int
  BY DEF InitVariable, Counters
<1>3. InitVariable.last_access_ins = [p \in Units(PAGE_SIZE) |-> - NEIGBOUR_INS_SIZE]
  BY DEF InitVariable
<1>4. InitVariable.last_access_ins_cache =
        [l \in Units(CACHE_LINE_SIZE) |-> - NEIGBOUR_INS_SIZE]
  BY DEF InitVariable
<1>5. InitVariable.references_perpage = [p \in Units(PAGE_SIZE) |-> 0]
  BY DEF InitVariable
<1>6. QED BY <1>1, <1>2, <1>3, <1>4, <1>5, Constants DEF MetricsType

LocalityFields == {"spatial_count", "temperal_count", "last_access_ins"}

CacheFields == {"spatial_count_cache", "temperal_count_cache", "last_access_ins_cache"}

SeqFields == {"seq_volume", "seq_byte_count", "stride_volume", "stride_count",
              "last_access_stride"}

PageFields == {"page_offsets", "touch_count", "references_perpage", "dirty_flag",
               "last_access_page", "sequential_count", "sequential_direct"}

LEMMA UpdateLocalityEffect ==
    ASSUME NEW m, MetricsType(m), NEW p \in Units(PAGE_SIZE), NEW now \in Nat
    PROVE  LET m2 == UpdateLocality(m, p, now)
           IN  /\ Changes(m, m2, LocalityFields)
               /\ m2.spatial_count =
                     m.spatial_count + Spatial(m.last_access_ins, p, PAGE_SIZE, now)
               /\ m2.temperal_count =
                     m.temperal_count + Count(Recent(now, m.last_access_ins[p]))
               /\ m2.last_access_ins = [m.last_access_ins EXCEPT ![p] = now]
<1> DEFINE s == Spatial(m.last_access_ins, p, PAGE_SIZE, now)
           t == Count(Recent(now, m.last_access_ins[p]))
           g == [m.last_access_ins EXCEPT ![p] = now]
           m2 == UpdateLocality(m, p, now)
<1>1. s \in Int /\ t \in Int
  BY DEF Spatial, Count
<1>2. g \in [Units(PAGE_SIZE) -> Int]
  BY DEF MetricsType
<1>3. m2 = [m EXCEPT !.spatial_count = @ + s, !.temperal_count = @ + t,
                     !.last_access_ins = g]
  BY DEF UpdateLocality
<1> HIDE DEF s, t, g, m2
<1>4. DOMAIN m2 = Fields
  BY <1>3 DEF MetricsType
<1>5. \A f \in Fields \ LocalityFields : m2[f] = m[f]
  BY <1>3 DEF MetricsType, LocalityFields
<1>6. /\ m2.spatial_count = m.spatial_count + s
      /\ m2.temperal_count = m.temperal_count + t
      /\ m2.last_access_ins = g
  BY <1>3 DEF MetricsType, Fields, Counters, Arrays
<1>7. \A f \in Counters : m2[f] \in Int
  BY <1>1, <1>5, <1>6 DEF MetricsType, Fields, Counters, LocalityFields
<1>8. /\ m2.last_access_ins_cache \in [Units(CACHE_LINE_SIZE) -> Int]
      /\ m2.references_perpage \in [Units(PAGE_SIZE) -> Int]
  BY <1>5 DEF MetricsType, Fields, Arrays, LocalityFields
<1>9. Changes(m, m2, LocalityFields)
  BY <1>2, <1>4, <1>5, <1>6, <1>7, <1>8 DEF Changes, MetricsType
<1>10. QED BY <1>6, <1>9, Zenon DEF s, t, g, m2

LEMMA UpdateLocalityCacheEffect ==
    ASSUME NEW m, MetricsType(m), NEW l \in Units(CACHE_LINE_SIZE), NEW now \in Nat
    PROVE  LET m2 == UpdateLocalityCache(m, l, now)
           IN  /\ Changes(m, m2, CacheFields)
               /\ m2.spatial_count_cache = m.spatial_count_cache +
                     Spatial(m.last_access_ins_cache, l, CACHE_LINE_SIZE, now)
               /\ m2.temperal_count_cache =
                     m.temperal_count_cache + Count(Recent(now, m.last_access_ins_cache[l]))
               /\ m2.last_access_ins_cache = [m.last_access_ins_cache EXCEPT ![l] = now]
<1> DEFINE s == Spatial(m.last_access_ins_cache, l, CACHE_LINE_SIZE, now)
           t == Count(Recent(now, m.last_access_ins_cache[l]))
           g == [m.last_access_ins_cache EXCEPT ![l] = now]
           m2 == UpdateLocalityCache(m, l, now)
<1>1. s \in Int /\ t \in Int
  BY DEF Spatial, Count
<1>2. g \in [Units(CACHE_LINE_SIZE) -> Int]
  BY DEF MetricsType
<1>3. m2 = [m EXCEPT !.spatial_count_cache = @ + s, !.temperal_count_cache = @ + t,
                     !.last_access_ins_cache = g]
  BY DEF UpdateLocalityCache
<1> HIDE DEF s, t, g, m2
<1>4. DOMAIN m2 = Fields
  BY <1>3 DEF MetricsType
<1>5. \A f \in Fields \ CacheFields : m2[f] = m[f]
  BY <1>3 DEF MetricsType, CacheFields
<1>6. /\ m2.spatial_count_cache = m.spatial_count_cache + s
      /\ m2.temperal_count_cache = m.temperal_count_cache + t
      /\ m2.last_access_ins_cache = g
  BY <1>3 DEF MetricsType, Fields, Counters, Arrays
<1>7. \A f \in Counters : m2[f] \in Int
  BY <1>1, <1>5, <1>6 DEF MetricsType, Fields, Counters, CacheFields
<1>8. /\ m2.last_access_ins \in [Units(PAGE_SIZE) -> Int]
      /\ m2.references_perpage \in [Units(PAGE_SIZE) -> Int]
  BY <1>5 DEF MetricsType, Fields, Arrays, CacheFields
<1>9. Changes(m, m2, CacheFields)
  BY <1>2, <1>4, <1>5, <1>6, <1>7, <1>8 DEF Changes, MetricsType
<1>10. QED BY <1>6, <1>9, Zenon DEF s, t, g, m2

LEMMA AbsInt ==
    ASSUME NEW d \in Int
    PROVE  abs(d) \in Int
<1>1. d % INT_RANGE \in Int /\ INT_RANGE \in Int
  BY Constants
<1>2. QED BY <1>1 DEF abs

(* Setting counters to integers keeps the type; the arrays are not counters. *)
LEMMA ChangesCounters ==
    ASSUME NEW m, MetricsType(m), NEW m2, DOMAIN m2 = Fields,
           NEW S, S \cap Arrays = {}, \A f \in S : m2[f] \in Int,
           \A f \in Fields \ S : m2[f] = m[f]
    PROVE  Changes(m, m2, S)
<1>1. \A f \in Counters : m2[f] \in Int
  BY DEF MetricsType, Fields
<1>2. \A f \in Arrays : m2[f] = m[f]
  BY DEF Fields
<1>3. QED BY <1>1, <1>2 DEF MetricsType, Changes, Arrays

LEMMA UpdateAvgOffsetBytesEffect ==
    ASSUME NEW m, MetricsType(m), NEW addr \in Nat
    PROVE  LET m2 == UpdateAvgOffsetBytes(m, addr)
           IN  /\ Changes(m, m2, {"avg_offset_bytes"})
               /\ m2.avg_offset_bytes =
                     m.avg_offset_bytes + abs(addr - m.last_access_bytes)
<1> DEFINE d == abs(addr - m.last_access_bytes)
           m2 == UpdateAvgOffsetBytes(m, addr)
<1>1. d \in Int
  <2>1. addr - m.last_access_bytes \in Int
    BY DEF MetricsType, Counters
  <2>2. QED BY <2>1, AbsInt
<1>2. m2 = [m EXCEPT !.avg_offset_bytes = @ + d]
  BY DEF UpdateAvgOffsetBytes
<1> HIDE DEF d, m2
<1>3. DOMAIN m2 = Fields /\ \A f \in Fields \ {"avg_offset_bytes"} : m2[f] = m[f]
  BY <1>2 DEF MetricsType
<1>4. m2.avg_offset_bytes = m.avg_offset_bytes + d
  BY <1>2 DEF MetricsType, Fields, Counters
<1>5. m2.avg_offset_bytes \in Int
  BY <1>1, <1>4 DEF MetricsType, Counters
<1>6. Changes(m, m2, {"avg_offset_bytes"})
  <2>1. {"avg_offset_bytes"} \cap Arrays = {}
    BY DEF Arrays
  <2>2. QED BY <1>3, <1>5, <2>1, ChangesCounters
<1>7. QED BY <1>4, <1>6, Zenon DEF d, m2

LEMMA UpdateSeqVolumeEffect ==
    ASSUME NEW m, MetricsType(m), NEW addr \in Nat, NEW size \in Nat
    PROVE  LET m2       == UpdateSeqVolume(m, addr, size)
               step     == addr - m.last_access_bytes
               isSeq    == step \in {size, - size}
               isStride == ~isSeq /\ step = m.last_access_stride
           IN  /\ Changes(m, m2, SeqFields)
               /\ m2.seq_volume = m.seq_volume + size * Count(isSeq)
               /\ m2.seq_byte_count = m.seq_byte_count + Count(isSeq)
               /\ m2.stride_volume = m.stride_volume + size * Count(isStride)
               /\ m2.stride_count = m.stride_count + Count(isStride)
               /\ m2.last_access_stride = step
<1> DEFINE step     == addr - m.last_access_bytes
           isSeq    == step \in {size, - size}
           isStride == ~isSeq /\ step = m.last_access_stride
           s  == Count(isSeq)
           t  == Count(isStride)
           sv == size * s
           tv == size * t
           m2 == UpdateSeqVolume(m, addr, size)
<1>1. step \in Int
  BY DEF MetricsType, Counters
<1>2. s \in {0, 1} /\ t \in {0, 1}
  BY DEF Count
<1>3. sv \in Int /\ tv \in Int
  BY <1>2
<1>4. m2 = [m EXCEPT !.seq_volume = @ + sv, !.seq_byte_count = @ + s,
                     !.stride_volume = @ + tv, !.stride_count = @ + t,
                     !.last_access_stride = step]
  BY DEF UpdateSeqVolume
<1> HIDE DEF step, s, t, sv, tv, m2
<1>5. DOMAIN m2 = Fields /\ \A f \in Fields \ SeqFields : m2[f] = m[f]
  BY <1>4 DEF MetricsType, SeqFields
<1>6. /\ m2.seq_volume = m.seq_volume + sv
      /\ m2.seq_byte_count = m.seq_byte_count + s
      /\ m2.stride_volume = m.stride_volume + tv
      /\ m2.stride_count = m.stride_count + t
      /\ m2.last_access_stride = step
  BY <1>4 DEF MetricsType, Fields, Counters
<1>7. \A f \in SeqFields : m2[f] \in Int
  BY <1>1, <1>2, <1>3, <1>6 DEF MetricsType, Counters, SeqFields
<1>8. Changes(m, m2, SeqFields)
  <2>1. SeqFields \cap Arrays = {}
    BY DEF SeqFields, Arrays
  <2>2. QED BY <1>5, <1>7, <2>1, ChangesCounters
<1>9. QED BY <1>6, <1>8, Zenon DEF step, s, t, sv, tv, m2

(* The access moves to page p or stays on it.                               *)
LEMMA GetPageMetricsEffect ==
    ASSUME NEW m, MetricsType(m), NEW p \in Units(PAGE_SIZE), p \in Int
    PROVE  LET m2    == GetPageMetrics(m, p)
               moves == p # m.last_access_page
               goes  == m.sequential_direct # 0 /\ Direction(m, p) = m.sequential_direct
           IN  /\ Changes(m, m2, PageFields)
               /\ moves =>
                     /\ m2.page_offsets = m.page_offsets + abs(p - m.last_access_page)
                     /\ m2.touch_count = m.touch_count + 1
                     /\ m2.references_perpage =
                           [m.references_perpage EXCEPT ![p] = m.references_perpage[p] + 1]
                     /\ m2.dirty_flag = 0
                     /\ m2.last_access_page = p
                     /\ m2.sequential_count = m.sequential_count + Count(goes)
                     /\ m2.sequential_direct = Direction(m, p)
               /\ ~moves => m2 = m
<1> DEFINE m2    == GetPageMetrics(m, p)
           moves == p # m.last_access_page
           goes  == m.sequential_direct # 0 /\ Direction(m, p) = m.sequential_direct
           c == Count(goes)
           d == Direction(m, p)
           o == abs(p - m.last_access_page)
           g == [m.references_perpage EXCEPT ![p] = m.references_perpage[p] + 1]
<1>1. m.last_access_page \in Int /\ m.page_offsets \in Int /\ m.touch_count \in Int
        /\ m.sequential_count \in Int
  BY DEF MetricsType, Counters
<1>2. c \in {0, 1} /\ d \in {0, 1, 2}
  BY DEF Count, Direction
<1>3. o \in Int
  <2>1. p - m.last_access_page \in Int
    BY <1>1
  <2>2. QED BY <2>1, AbsInt
<1>4. g \in [Units(PAGE_SIZE) -> Int]
  BY DEF MetricsType
<1>5. CASE ~moves
  <2>1. m2 = m
    BY <1>5 DEF GetPageMetrics
  <2>2. Changes(m, m2, PageFields)
    BY <2>1 DEF Changes
  <2>3. QED BY <1>5, <2>1, <2>2, Zenon
<1>6. CASE moves
  <2> DEFINE u == UpdatePageOffset(m, p)
             v == UpdateSeqCount(u, p)
  <2>1. u = [m EXCEPT !.page_offsets = @ + o]
    BY DEF UpdatePageOffset
  <2>2. m2 = TouchPage(u, p)
    BY <1>6 DEF GetPageMetrics
  <2> HIDE DEF u, o
  <2>3. /\ DOMAIN u = Fields
        /\ \A f \in Fields \ {"page_offsets"} : u[f] = m[f]
        /\ u.page_offsets = m.page_offsets + o
    BY <2>1 DEF MetricsType, Fields, Counters
  <2>4. /\ u.sequential_direct = m.sequential_direct
        /\ u.last_access_page = m.last_access_page
        /\ u.references_perpage = m.references_perpage
        /\ u.sequential_count = m.sequential_count
    BY <2>3 DEF Fields, Counters, Arrays
  <2>5. v = [u EXCEPT !.sequential_count = @ + c, !.sequential_direct = d]
    BY <2>4 DEF UpdateSeqCount, Direction
  <2> HIDE DEF v, c, d
  <2>6. /\ DOMAIN v = Fields
        /\ \A f \in Fields \ {"sequential_count", "sequential_direct"} : v[f] = u[f]
        /\ v.sequential_count = u.sequential_count + c
        /\ v.sequential_direct = d
    BY <2>3, <2>5 DEF Fields, Counters
  <2>7. m2 = [v EXCEPT !.touch_count = @ + 1, !.dirty_flag = 0,
                       !.references_perpage = [@ EXCEPT ![p] = u.references_perpage[p] + 1],
                       !.last_access_page = p]
    BY <2>2 DEF TouchPage, v
  <2>8. v.references_perpage = m.references_perpage /\ v.touch_count = m.touch_count
    BY <2>3, <2>6 DEF Fields, Counters, Arrays
  <2> DEFINE h == [v.references_perpage EXCEPT ![p] = u.references_perpage[p] + 1]
  <2>9. m2 = [v EXCEPT !.touch_count = @ + 1, !.dirty_flag = 0,
                       !.references_perpage = h, !.last_access_page = p]
    BY <2>7
  <2>10. h = g
    BY <2>4, <2>8
  <2> HIDE DEF m2, g, h
  <2>11. /\ DOMAIN m2 = Fields
         /\ \A f \in Fields \ {"touch_count", "dirty_flag", "references_perpage",
                               "last_access_page"} : m2[f] = v[f]
    BY <2>6, <2>9
  <2>12. /\ m2.touch_count = m.touch_count + 1
         /\ m2.dirty_flag = 0
         /\ m2.references_perpage = g
         /\ m2.last_access_page = p
    BY <2>6, <2>8, <2>9, <2>10 DEF Fields, Counters, Arrays
  <2>13. /\ m2.page_offsets = m.page_offsets + o
         /\ m2.sequential_count = m.sequential_count + c
         /\ m2.sequential_direct = d
    BY <2>3, <2>4, <2>6, <2>11 DEF Fields, Counters
  <2>14. \A f \in Fields \ PageFields : m2[f] = m[f]
    BY <2>3, <2>6, <2>11 DEF PageFields
  <2>15. \A f \in Counters : m2[f] \in Int
    <3>1. \A f \in Counters \ PageFields : m2[f] \in Int
      BY <2>14 DEF MetricsType, Fields
    <3>2. \A f \in PageFields \ {"references_perpage"} : m2[f] \in Int
      BY <2>12, <2>13, <1>1, <1>2, <1>3 DEF PageFields
    <3>3. QED BY <3>1, <3>2 DEF Counters
  <2>16. /\ m2.last_access_ins \in [Units(PAGE_SIZE) -> Int]
         /\ m2.last_access_ins_cache \in [Units(CACHE_LINE_SIZE) -> Int]
    BY <2>14 DEF MetricsType, Fields, Arrays, PageFields
  <2>17. MetricsType(m2)
    BY <1>4, <2>11, <2>12, <2>15, <2>16 DEF MetricsType
  <2>18. Changes(m, m2, PageFields)
    BY <2>14, <2>17 DEF Changes
  <2>19. QED BY <1>6, <2>12, <2>13, <2>18, Zenon DEF m2, g, o, c, d
<1>7. QED BY <1>5, <1>6, Zenon

(* What an access of size bytes at addr changes, by groups of counters.     *)
LocalityEffect(m, m2, p, now) ==
    /\ m2.spatial_count = m.spatial_count + Spatial(m.last_access_ins, p, PAGE_SIZE, now)
    /\ m2.temperal_count = m.temperal_count + Count(Recent(now, m.last_access_ins[p]))
    /\ m2.last_access_ins = [m.last_access_ins EXCEPT ![p] = now]

CacheEffect(m, m2, l, now) ==
    /\ m2.spatial_count_cache = m.spatial_count_cache +
          Spatial(m.last_access_ins_cache, l, CACHE_LINE_SIZE, now)
    /\ m2.temperal_count_cache =
          m.temperal_count_cache + Count(Recent(now, m.last_access_ins_cache[l]))
    /\ m2.last_access_ins_cache = [m.last_access_ins_cache EXCEPT ![l] = now]

IsSeq(m, addr, size) == addr - m.last_access_bytes \in {size, - size}

IsStride(m, addr, size) ==
    ~IsSeq(m, addr, size) /\ addr - m.last_access_bytes = m.last_access_stride

OffsetEffect(m, m2, addr, size) ==
    /\ m2.avg_offset_bytes = m.avg_offset_bytes + abs(addr - m.last_access_bytes)
    /\ m2.seq_volume = m.seq_volume + size * Count(IsSeq(m, addr, size))
    /\ m2.seq_byte_count = m.seq_byte_count + Count(IsSeq(m, addr, size))
    /\ m2.stride_volume = m.stride_volume + size * Count(IsStride(m, addr, size))
    /\ m2.stride_count = m.stride_count + Count(IsStride(m, addr, size))
    /\ m2.last_access_stride = addr - m.last_access_bytes
    /\ m2.last_access_bytes = addr

VolumeEffect(m, m2, size, flag) ==
    /\ m2.access_volume = m.access_volume + size
    /\ m2.access_ops = m.access_ops + 1
    /\ m2.reference_count = m.reference_count + 1
    /\ m2.read_volume = m.read_volume + size * Count(flag # 1)

Moves(m, p) == p # m.last_access_page

Goes(m, p) == m.sequential_direct # 0 /\ Direction(m, p) = m.sequential_direct

DirtyBefore(m, p) == IF Moves(m, p) THEN 0 ELSE m.dirty_flag

PageEffect(m, m2, p, flag) ==
    /\ Moves(m, p) =>
          /\ m2.page_offsets = m.page_offsets + abs(p - m.last_access_page)
          /\ m2.touch_count = m.touch_count + 1
          /\ m2.references_perpage =
                [m.references_perpage EXCEPT ![p] = m.references_perpage[p] + 1]
          /\ m2.last_access_page = p
          /\ m2.sequential_count = m.sequential_count + Count(Goes(m, p))
          /\ m2.sequential_direct = Direction(m, p)
    /\ ~Moves(m, p) => \A f \in PageFields \ {"dirty_flag"} : m2[f] = m[f]
    /\ m2.dirty_flag = IF flag = 1 THEN 1 ELSE DirtyBefore(m, p)
    /\ m2.dirty_count = m.dirty_count + IF flag = 1 THEN 1 - DirtyBefore(m, p) ELSE 0

LEMMA GetMetricsEffect ==
    ASSUME NEW m, MetricsType(m), NEW addr \in Offsets, NEW size \in AccessSizes,
           NEW flag \in {0, 1}, NEW now \in Nat
    PROVE  LET m2 == GetMetrics(m, addr, size, flag, now)
           IN  /\ MetricsType(m2)
               /\ LocalityEffect(m, m2, addr \div PAGE_SIZE, now)
               /\ CacheEffect(m, m2, addr \div CACHE_LINE_SIZE, now)
               /\ OffsetEffect(m, m2, addr, size)
               /\ VolumeEffect(m, m2, size, flag)
               /\ PageEffect(m, m2, addr \div PAGE_SIZE, flag)
<1> DEFINE p  == addr \div PAGE_SIZE
           l  == addr \div CACHE_LINE_SIZE
           a0 == UpdateLocalityCache(m, l, now)
           a  == UpdateLocality(a0, p, now)
           b0 == [a EXCEPT !.access_volume = @ + size, !.access_ops = @ + 1]
           b1 == UpdateAvgOffsetBytes(b0, addr)
           b  == UpdateSeqVolume(b1, addr, size)
           c  == GetPageMetrics(b, p)
           d  == IF flag = 1 THEN UpdateDirtyCount(c)
                 ELSE [c EXCEPT !.read_volume = @ + size]
           e  == [d EXCEPT !.reference_count = @ + 1, !.last_access_bytes = addr]
           m2 == GetMetrics(m, addr, size, flag, now)
<1>1. /\ p \in Units(PAGE_SIZE) /\ p \in Int /\ l \in Units(CACHE_LINE_SIZE)
      /\ addr \in Nat /\ size \in Nat
  BY UnitOfOffset, Constants
<1>2. m2 = e
  BY DEF GetMetrics
<1>3. /\ Changes(m, a0, CacheFields) /\ CacheEffect(m, a0, l, now)
  BY <1>1, UpdateLocalityCacheEffect DEF CacheEffect
<1> HIDE DEF a0
<1>4. /\ Changes(a0, a, LocalityFields) /\ LocalityEffect(a0, a, p, now)
  BY <1>1, <1>3, UpdateLocalityEffect DEF LocalityEffect, Changes
<1> HIDE DEF a
<1>5. /\ Changes(a, b0, {"access_volume", "access_ops"})
      /\ b0.access_volume = a.access_volume + size
      /\ b0.access_ops = a.access_ops + 1
  <2>1. MetricsType(a)
    BY <1>4 DEF Changes
  <2>2. /\ DOMAIN b0 = Fields
        /\ \A f \in Fields \ {"access_volume", "access_ops"} : b0[f] = a[f]
        /\ b0.access_volume = a.access_volume + size
        /\ b0.access_ops = a.access_ops + 1
    BY <2>1 DEF MetricsType, Fields, Counters
  <2> HIDE DEF b0
  <2>3. \A f \in {"access_volume", "access_ops"} : b0[f] \in Int
    BY <1>1, <2>1, <2>2 DEF MetricsType, Counters
  <2>4. {"access_volume", "access_ops"} \cap Arrays = {}
    BY DEF Arrays
  <2>5. QED BY <2>1, <2>2, <2>3, <2>4, ChangesCounters
<1> HIDE DEF b0
<1>6. /\ Changes(b0, b1, {"avg_offset_bytes"})
      /\ b1.avg_offset_bytes = b0.avg_offset_bytes + abs(addr - b0.last_access_bytes)
  BY <1>1, <1>5, UpdateAvgOffsetBytesEffect DEF Changes
<1> HIDE DEF b1
<1>7. /\ Changes(b1, b, SeqFields)
      /\ b.seq_volume = b1.seq_volume + size * Count(IsSeq(b1, addr, size))
      /\ b.seq_byte_count = b1.seq_byte_count + Count(IsSeq(b1, addr, size))
      /\ b.stride_volume = b1.stride_volume + size * Count(IsStride(b1, addr, size))
      /\ b.stride_count = b1.stride_count + Count(IsStride(b1, addr, size))
      /\ b.last_access_stride = addr - b1.last_access_bytes
  BY <1>1, <1>6, UpdateSeqVolumeEffect DEF Changes, IsSeq, IsStride
<1> HIDE DEF b
<1>8. /\ Changes(b, c, PageFields)
      /\ Moves(b, p) =>
            /\ c.page_offsets = b.page_offsets + abs(p - b.last_access_page)
            /\ c.touch_count = b.touch_count + 1
            /\ c.references_perpage =
                  [b.references_perpage EXCEPT ![p] = b.references_perpage[p] + 1]
            /\ c.dirty_flag = 0
            /\ c.last_access_page = p
            /\ c.sequential_count = b.sequential_count + Count(Goes(b, p))
            /\ c.sequential_direct = Direction(b, p)
      /\ ~Moves(b, p) => c = b
  BY <1>1, <1>7, GetPageMetricsEffect DEF Changes, Moves, Goes
<1> HIDE DEF c
<1> DEFINE DirtyFields == {"dirty_flag", "dirty_count", "read_volume"}
<1>9. /\ Changes(c, d, DirtyFields)
      /\ d.dirty_flag = IF flag = 1 THEN 1 ELSE c.dirty_flag
      /\ d.dirty_count = c.dirty_count + IF flag = 1 THEN 1 - c.dirty_flag ELSE 0
      /\ d.read_volume = c.read_volume + size * Count(flag # 1)
  <2>1. MetricsType(c)
    BY <1>8 DEF Changes
  <2>2. c.dirty_flag \in Int /\ c.dirty_count \in Int /\ c.read_volume \in Int
    BY <2>1 DEF MetricsType, Counters
  <2>3. DirtyFields \cap Arrays = {}
    BY DEF Arrays
  <2>4. CASE flag = 1
    <3>1. d = [c EXCEPT !.dirty_flag = 1, !.dirty_count = @ + 1 - c.dirty_flag]
      BY <2>4 DEF UpdateDirtyCount
    <3> HIDE DEF d
    <3>2. /\ DOMAIN d = Fields
          /\ \A f \in Fields \ DirtyFields : d[f] = c[f]
          /\ d.dirty_flag = 1 /\ d.dirty_count = c.dirty_count + 1 - c.dirty_flag
          /\ d.read_volume = c.read_volume
      BY <2>1, <3>1 DEF MetricsType, Fields, Counters
    <3>3. \A f \in DirtyFields : d[f] \in Int
      BY <2>2, <3>2
    <3>4. Changes(c, d, DirtyFields)
      BY <2>1, <2>3, <3>2, <3>3, ChangesCounters
    <3>5. size * Count(flag # 1) = 0
      BY <1>1, <2>4 DEF Count
    <3>6. QED BY <2>2, <2>4, <3>2, <3>4, <3>5
  <2>5. CASE flag # 1
    <3>1. d = [c EXCEPT !.read_volume = @ + size]
      BY <2>5
    <3> HIDE DEF d
    <3>2. /\ DOMAIN d = Fields
          /\ \A f \in Fields \ DirtyFields : d[f] = c[f]
          /\ d.dirty_flag = c.dirty_flag /\ d.dirty_count = c.dirty_count
          /\ d.read_volume = c.read_volume + size
      BY <2>1, <3>1 DEF MetricsType, Fields, Counters
    <3>3. \A f \in DirtyFields : d[f] \in Int
      BY <1>1, <2>2, <3>2
    <3>4. Changes(c, d, DirtyFields)
      BY <2>1, <2>3, <3>2, <3>3, ChangesCounters
    <3>5. size * Count(flag # 1) = size
      BY <1>1, <2>5 DEF Count
    <3>6. QED BY <2>2, <2>5, <3>2, <3>4, <3>5
  <2>6. QED BY <2>4, <2>5
<1> HIDE DEF d
<1> DEFINE LastFields == {"reference_count", "last_access_bytes"}
<1>10. /\ Changes(d, e, LastFields)
       /\ e.reference_count = d.reference_count + 1
       /\ e.last_access_bytes = addr
  <2>1. MetricsType(d)
    BY <1>9 DEF Changes
  <2>2. /\ DOMAIN e = Fields
        /\ \A f \in Fields \ LastFields : e[f] = d[f]
        /\ e.reference_count = d.reference_count + 1
        /\ e.last_access_bytes = addr
    BY <2>1 DEF MetricsType, Fields, Counters
  <2> HIDE DEF e
  <2>3. \A f \in LastFields : e[f] \in Int
    BY <1>1, <2>1, <2>2 DEF MetricsType, Counters
  <2>4. LastFields \cap Arrays = {}
    BY DEF Arrays
  <2>5. QED BY <2>1, <2>2, <2>3, <2>4, ChangesCounters
<1> HIDE DEF e
<1>11. LocalityEffect(m, e, p, now)
  <2>1. \A f \in LocalityFields : a0[f] = m[f]
    BY <1>3 DEF Changes, CacheFields, LocalityFields, Fields, Counters, Arrays
  <2>2. \A f \in LocalityFields : b[f] = a[f]
    BY <1>5, <1>6, <1>7
       DEF Changes, SeqFields, LocalityFields, Fields, Counters, Arrays
  <2>3. \A f \in LocalityFields : e[f] = b[f]
    BY <1>8, <1>9, <1>10
       DEF Changes, PageFields, LocalityFields, Fields, Counters, Arrays
  <2>4. QED BY <1>4, <2>1, <2>2, <2>3 DEF LocalityEffect, LocalityFields
<1>12. CacheEffect(m, e, l, now)
  <2>1. \A f \in CacheFields : b[f] = a0[f]
    BY <1>4, <1>5, <1>6, <1>7
       DEF Changes, SeqFields, LocalityFields, CacheFields, Fields, Counters, Arrays
  <2>2. \A f \in CacheFields : e[f] = b[f]
    BY <1>8, <1>9, <1>10
       DEF Changes, PageFields, CacheFields, Fields, Counters, Arrays
  <2>3. QED BY <1>3, <2>1, <2>2 DEF CacheEffect, CacheFields
<1> DEFINE Offs == SeqFields \cup {"last_access_bytes"}
<1>13. \A f \in Offs \cup {"avg_offset_bytes"} : b0[f] = m[f]
  BY <1>3, <1>4, <1>5
     DEF Changes, LocalityFields, CacheFields, SeqFields, Fields, Counters, Arrays
<1>14. OffsetEffect(m, e, addr, size)
  <2>1. \A f \in Offs : b1[f] = m[f]
    BY <1>6, <1>13 DEF Changes, SeqFields, Fields, Counters
  <2>2. b1.last_access_bytes = m.last_access_bytes
        /\ b1.last_access_stride = m.last_access_stride
    BY <2>1 DEF SeqFields
  <2>3. IsSeq(b1, addr, size) = IsSeq(m, addr, size)
        /\ IsStride(b1, addr, size) = IsStride(m, addr, size)
    BY <2>2 DEF IsSeq, IsStride
  <2>4. \A f \in SeqFields \cup {"avg_offset_bytes"} : e[f] = b[f]
    BY <1>8, <1>9, <1>10 DEF Changes, PageFields, SeqFields, Fields, Counters
  <2>5. b.avg_offset_bytes = m.avg_offset_bytes + abs(addr - m.last_access_bytes)
    BY <1>6, <1>7, <1>13 DEF Changes, SeqFields, Fields, Counters
  <2>6. QED BY <1>7, <1>10, <2>1, <2>2, <2>3, <2>4, <2>5 DEF OffsetEffect, SeqFields
<1>15. VolumeEffect(m, e, size, flag)
  <2>1. a.access_volume = m.access_volume /\ a.access_ops = m.access_ops
    BY <1>3, <1>4 DEF Changes, LocalityFields, CacheFields, Fields, Counters
  <2>2. e.access_volume = b0.access_volume /\ e.access_ops = b0.access_ops
    BY <1>6, <1>7, <1>8, <1>9, <1>10
       DEF Changes, SeqFields, PageFields, Fields, Counters
  <2>3. b.reference_count = m.reference_count /\ b.read_volume = m.read_volume
    BY <1>3, <1>4, <1>5, <1>6, <1>7
       DEF Changes, LocalityFields, CacheFields, SeqFields, Fields, Counters
  <2>4. d.reference_count = b.reference_count /\ c.read_volume = b.read_volume
        /\ e.read_volume = d.read_volume
    BY <1>8, <1>9, <1>10 DEF Changes, PageFields, Fields, Counters
  <2>5. QED BY <1>5, <1>9, <1>10, <2>1, <2>2, <2>3, <2>4 DEF VolumeEffect
<1>16. PageEffect(m, e, p, flag)
  <2>1. \A f \in PageFields \cup {"dirty_count"} : b[f] = m[f]
    BY <1>3, <1>4, <1>5, <1>6, <1>7
       DEF Changes, LocalityFields, CacheFields, SeqFields, PageFields,
           Fields, Counters, Arrays
  <2>2. \A f \in PageFields \ {"dirty_flag"} : e[f] = c[f]
    BY <1>9, <1>10 DEF Changes, PageFields, Fields, Counters, Arrays
  <2>3. /\ Moves(b, p) = Moves(m, p) /\ Goes(b, p) = Goes(m, p)
        /\ Direction(b, p) = Direction(m, p)
    BY <2>1 DEF Moves, Goes, Direction, PageFields
  <2>4. c.dirty_flag = DirtyBefore(m, p)
    BY <1>8, <2>1, <2>3 DEF DirtyBefore, PageFields
  <2>5. c.dirty_count = m.dirty_count
    BY <1>8, <2>1 DEF Changes, PageFields, Fields, Counters
  <2>6. e.dirty_flag = d.dirty_flag /\ e.dirty_count = d.dirty_count
    BY <1>10 DEF Changes, Fields, Counters
  <2>7. ASSUME Moves(m, p)
        PROVE  /\ e.page_offsets = m.page_offsets + abs(p - m.last_access_page)
               /\ e.touch_count = m.touch_count + 1
               /\ e.references_perpage =
                     [m.references_perpage EXCEPT ![p] = m.references_perpage[p] + 1]
               /\ e.last_access_page = p
               /\ e.sequential_count = m.sequential_count + Count(Goes(m, p))
               /\ e.sequential_direct = Direction(m, p)
    BY <1>8, <2>1, <2>2, <2>3, <2>7 DEF PageFields
  <2>8. ASSUME ~Moves(m, p)
        PROVE  \A f \in PageFields \ {"dirty_flag"} : e[f] = m[f]
    BY <1>8, <2>1, <2>2, <2>3, <2>8
  <2>9. QED BY <1>9, <2>4, <2>5, <2>6, <2>7, <2>8 DEF PageEffect
<1>17. MetricsType(e)
  BY <1>10 DEF Changes
<1>18. QED BY <1>2, <1>11, <1>12, <1>14, <1>15, <1>16, <1>17

-----------------------------------------------------------------------------
(* The history grows by one access.                                         *)

Entry == [addr : Offsets, size : AccessSizes, flag : {0, 1}, ins : Nat]

HistoryType ==
    /\ ins_count \in Nat
    /\ log \in Seq(Entry)
    /\ \A k \in DOMAIN log : log[k].ins <= ins_count
    /\ MetricsType(metrics)

(* What the proofs use of log' = Append(log, entry).                        *)
Grows(entry) ==
    /\ Len(log) \in Nat /\ DOMAIN log = 1 .. Len(log)
    /\ Len(log') = Len(log) + 1 /\ DOMAIN log' = 1 .. Len(log) + 1
    /\ \A k \in 1 .. Len(log) : log'[k] = log[k]
    /\ log'[Len(log) + 1] = entry
    /\ entry \in Entry
    /\ \A k \in 1 .. Len(log) : log[k] \in Entry

LEMMA LogGrows ==
    ASSUME log \in Seq(Entry), NEW entry \in Entry, log' = Append(log, entry)
    PROVE  Grows(entry)
<1>1. /\ Len(log') = Len(log) + 1
      /\ \A k \in 1 .. Len(log) : log'[k] = log[k]
      /\ log'[Len(log) + 1] = entry
      /\ log' \in Seq(Entry)
  BY AppendProperties
<1>2. Len(log) \in Nat /\ DOMAIN log = 1 .. Len(log) /\ DOMAIN log' = 1 .. Len(log')
      /\ log \in [1 .. Len(log) -> Entry]
  BY <1>1, LenProperties
<1>3. QED BY <1>1, <1>2 DEF Grows

(* A set of accesses that grows by the new one or not at all.               *)
With(S, k, c) == S \cup {j \in {k} : c}

LEMMA HistorySetFinite ==
    ASSUME NEW n \in Nat, NEW S, S \subseteq 1 .. n
    PROVE  IsFiniteSet(S) /\ Cardinality(S) \in Nat /\ n + 1 \notin S
<1>1. IsFiniteSet(1 .. n)
  BY FS_Interval
<1>2. IsFiniteSet(S)
  BY <1>1, FS_Subset
<1>3. QED BY <1>2, FS_CardinalityType

LEMMA CountGrows ==
    ASSUME NEW n \in Nat, NEW S, S \subseteq 1 .. n, NEW c \in BOOLEAN
    PROVE  Cardinality(With(S, n + 1, c)) = Cardinality(S) + Count(c)
<1>1. IsFiniteSet(S) /\ Cardinality(S) \in Nat /\ n + 1 \notin S
  BY HistorySetFinite
<1>2. CASE c
  <2>1. With(S, n + 1, c) = S \cup {n + 1}
    BY <1>2 DEF With
  <2>2. QED BY <1>1, <1>2, <2>1, FS_AddElement DEF Count
<1>3. CASE ~c
  <2>1. With(S, n + 1, c) = S
    BY <1>3 DEF With
  <2>2. QED BY <1>1, <1>3, <2>1 DEF Count
<1>4. QED BY <1>2, <1>3

LEMMA SumGrows ==
    ASSUME NEW S, IsFiniteSet(S), NEW k, k \notin S, NEW c \in BOOLEAN,
           NEW F, NEW G, \A x \in S : F[x] = G[x], \A x \in S : F[x] \in Int,
           G[k] \in Int
    PROVE  /\ SumFunctionOnSet(F, S) \in Int
           /\ SumFunctionOnSet(G, With(S, k, c)) =
                 SumFunctionOnSet(F, S) + IF c THEN G[k] ELSE 0
<1>1. SumFunctionOnSet(F, S) \in Int
  BY SumInt
<1>2. SumFunctionOnSet(G, S) = SumFunctionOnSet(F, S)
  BY SumSame
<1>3. CASE c
  <2>1. With(S, k, c) = S \cup {k}
    BY <1>3 DEF With
  <2>2. SumFunctionOnSet(G, S \cup {k}) = G[k] + SumFunctionOnSet(G, S)
    BY SumAdd
  <2>3. SumFunctionOnSet(G, With(S, k, c)) = G[k] + SumFunctionOnSet(F, S)
    BY <1>2, <2>1, <2>2, Zenon
  <2> DEFINE s == SumFunctionOnSet(F, S)
  <2>4. G[k] + s = s + G[k]
    <3>1. s \in Int
      BY <1>1
    <3> HIDE DEF s
    <3>2. QED BY <3>1
  <2>5. (IF c THEN G[k] ELSE 0) = G[k]
    BY <1>3, Zenon
  <2>6. QED BY <1>1, <2>3, <2>4, <2>5, Zenon
<1>4. CASE ~c
  <2>1. With(S, k, c) = S
    BY <1>4 DEF With
  <2>2. QED BY <1>1, <1>2, <1>4, <2>1
<1>5. QED BY <1>1, <1>3, <1>4

-----------------------------------------------------------------------------
(* Locality.  The last access of each unit is enough to tell whether the    *)
(* history holds a recent access to it.                                     *)

Remembers(last, unit) ==
    /\ \A k \in DOMAIN log : log[k].ins <= last[log[k].addr \div unit]
    /\ \A u \in Units(unit) :
          \/ last[u] = - NEIGBOUR_INS_SIZE
          \/ \E k \in DOMAIN log : log[k].addr \div unit = u /\ log[k].ins = last[u]

(* Some access of the history is recent at instruction now, and on a unit   *)
(* at a distance in near from u.                                            *)
Recently(u, unit, near, now) ==
    \E j \in DOMAIN log : /\ now - log[j].ins < NEIGBOUR_INS_SIZE
                          /\ log[j].addr \div unit - u \in near

LEMMA EntryFields ==
    ASSUME NEW entry \in Entry, NEW unit \in Nat \ {0}
    PROVE  /\ entry.ins \in Nat /\ entry.addr \in Offsets /\ entry.size \in AccessSizes
           /\ entry.flag \in {0, 1}
           /\ entry.addr \div unit \in Units(unit) /\ entry.addr \div unit \in Int
BY UnitOfOffset DEF Entry

LEMMA RecentIsRecently ==
    ASSUME Len(log) \in Nat, DOMAIN log = 1 .. Len(log),
           \A k \in 1 .. Len(log) : log[k] \in Entry,
           NEW unit \in Nat \ {0}, NEW last \in [Units(unit) -> Int],
           Remembers(last, unit), NEW now \in Nat, NEW u \in Units(unit)
    PROVE  Recent(now, last[u]) <=>
              \E j \in DOMAIN log : /\ now - log[j].ins < NEIGBOUR_INS_SIZE
                                    /\ log[j].addr \div unit = u
<1>1. ASSUME NEW j \in DOMAIN log, now - log[j].ins < NEIGBOUR_INS_SIZE,
             log[j].addr \div unit = u
      PROVE  now - last[u] < NEIGBOUR_INS_SIZE
  <2>1. log[j].ins <= last[u]
    BY <1>1 DEF Remembers
  <2>2. log[j].ins \in Nat /\ last[u] \in Int
    BY <1>1, EntryFields
  <2>3. QED BY <1>1, <2>1, <2>2, Constants
<1>2. ASSUME now - last[u] < NEIGBOUR_INS_SIZE
      PROVE  \E j \in DOMAIN log : /\ now - log[j].ins < NEIGBOUR_INS_SIZE
                                   /\ log[j].addr \div unit = u
  <2>1. last[u] # - NEIGBOUR_INS_SIZE
    BY <1>2, Constants
  <2>2. QED BY <1>2, <2>1 DEF Remembers
<1>3. QED BY <1>1, <1>2 DEF Recent

LEMMA SpatialIsRecently ==
    ASSUME Len(log) \in Nat, DOMAIN log = 1 .. Len(log),
           \A k \in 1 .. Len(log) : log[k] \in Entry,
           NEW unit \in Nat \ {0}, NEW last \in [Units(unit) -> Int],
           Remembers(last, unit), NEW now \in Nat, NEW u \in Units(unit), u \in Int
    PROVE  /\ Spatial(last, u, unit, now) = Count(Recently(u, unit, Beside, now))
           /\ Count(Recent(now, last[u])) = Count(Recently(u, unit, Same, now))
<1>1. \A v \in Units(unit) : v \in Int
  BY DEF Units
<1>2. \A j \in DOMAIN log : /\ log[j].addr \div unit \in Units(unit)
                            /\ log[j].addr \div unit \in Int
  BY EntryFields
<1>3. \A v \in Units(unit) : v \in Neighbours(u, unit) <=> v - u \in Beside
  BY <1>1, Constants DEF Neighbours, Beside
<1>4. \A v \in Units(unit) : v = u <=> v - u \in Same
  BY <1>1 DEF Same
<1>5. (\E v \in Neighbours(u, unit) : Recent(now, last[v]))
        = Recently(u, unit, Beside, now)
  <2>1. ASSUME NEW v \in Neighbours(u, unit), Recent(now, last[v])
        PROVE  Recently(u, unit, Beside, now)
    <3>1. v \in Units(unit)
      BY DEF Neighbours
    <3>2. PICK j \in DOMAIN log : /\ now - log[j].ins < NEIGBOUR_INS_SIZE
                                  /\ log[j].addr \div unit = v
      BY <2>1, <3>1, RecentIsRecently
    <3>3. QED BY <1>3, <3>1, <3>2 DEF Recently
  <2>2. ASSUME Recently(u, unit, Beside, now)
        PROVE  \E v \in Neighbours(u, unit) : Recent(now, last[v])
    <3>1. PICK j \in DOMAIN log : /\ now - log[j].ins < NEIGBOUR_INS_SIZE
                                  /\ log[j].addr \div unit - u \in Beside
      BY <2>2 DEF Recently
    <3> DEFINE v == log[j].addr \div unit
    <3>2. v \in Units(unit) /\ v \in Neighbours(u, unit)
      BY <1>2, <1>3, <3>1
    <3>3. Recent(now, last[v])
      BY <3>1, <3>2, RecentIsRecently
    <3>4. QED BY <3>2, <3>3
  <2>3. QED BY <2>1, <2>2 DEF Recently
<1>6. Count(Recent(now, last[u])) = Count(Recently(u, unit, Same, now))
  <2>1. \A j \in DOMAIN log :
           log[j].addr \div unit = u <=> log[j].addr \div unit - u \in Same
    BY <1>2, <1>4
  <2>2. Recent(now, last[u]) <=>
           \E j \in DOMAIN log : /\ now - log[j].ins < NEIGBOUR_INS_SIZE
                                 /\ log[j].addr \div unit = u
    BY RecentIsRecently
  <2>3. Recent(now, last[u]) <=> Recently(u, unit, Same, now)
    BY <2>1, <2>2, Zenon DEF Recently
  <2>4. QED BY <2>3, Zenon DEF Count
<1>7. QED BY <1>5, <1>6 DEF Spatial

(* The new access has a recent neighbour or not; nothing changes for the    *)
(* accesses before it.                                                      *)
LEMMA PrecededGrows ==
    ASSUME NEW entry, Grows(entry), NEW unit \in Nat \ {0}, NEW near
    PROVE  /\ Preceded(unit, near) \subseteq 1 .. Len(log)
           /\ Preceded(unit, near)' =
                 With(Preceded(unit, near), Len(log) + 1,
                      Recently(entry.addr \div unit, unit, near, entry.ins))
<1> DEFINE n == Len(log) + 1
           P(k) == \E j \in 1 .. k - 1 :
                      /\ log[k].ins - log[j].ins < NEIGBOUR_INS_SIZE
                      /\ log[j].addr \div unit - log[k].addr \div unit \in near
           Q(k) == \E j \in 1 .. k - 1 :
                      /\ log'[k].ins - log'[j].ins < NEIGBOUR_INS_SIZE
                      /\ log'[j].addr \div unit - log'[k].addr \div unit \in near
           R == Recently(entry.addr \div unit, unit, near, entry.ins)
<1>1. Preceded(unit, near) = {k \in 1 .. Len(log) : P(k)}
  BY DEF Preceded, Grows
<1>2. Preceded(unit, near)' = {k \in 1 .. n : Q(k)}
  BY DEF Preceded, Grows
<1>3. \A k \in 1 .. Len(log) : Q(k) <=> P(k)
  BY DEF Grows
<1>4. Q(n) <=> R
  BY DEF Recently, Grows
<1>5. 1 .. n = (1 .. Len(log)) \cup {n} /\ n \notin 1 .. Len(log)
  BY DEF Grows
<1> HIDE DEF P, Q, R
<1>6. {k \in 1 .. n : Q(k)} = With({k \in 1 .. Len(log) : P(k)}, n, R)
  BY <1>3, <1>4, <1>5 DEF With
<1>7. QED BY <1>1, <1>2, <1>6 DEF R

LEMMA RemembersGrows ==
    ASSUME NEW entry, Grows(entry), NEW unit \in Nat \ {0},
           NEW last \in [Units(unit) -> Int], Remembers(last, unit),
           \A k \in 1 .. Len(log) : log[k].ins <= entry.ins
    PROVE  LET last2 == [last EXCEPT ![entry.addr \div unit] = entry.ins]
           IN  /\ \A k \in DOMAIN log' : log'[k].ins <= last2[log'[k].addr \div unit]
               /\ \A v \in Units(unit) :
                     \/ last2[v] = - NEIGBOUR_INS_SIZE
                     \/ \E k \in DOMAIN log' :
                           log'[k].addr \div unit = v /\ log'[k].ins = last2[v]
<1> DEFINE last2 == [last EXCEPT ![entry.addr \div unit] = entry.ins]
           u == entry.addr \div unit
           n == Len(log) + 1
<1>1. u \in Units(unit) /\ entry.ins \in Nat
  BY EntryFields DEF Grows
<1>2. last2[u] = entry.ins /\ \A v \in Units(unit) \ {u} : last2[v] = last[v]
  BY <1>1
<1> HIDE DEF last2
<1>3. \A k \in 1 .. n : log'[k].ins <= last2[log'[k].addr \div unit]
  <2>1. log'[n].ins <= last2[log'[n].addr \div unit]
    BY <1>1, <1>2 DEF Grows
  <2>2. ASSUME NEW k \in 1 .. Len(log)
        PROVE  log'[k].ins <= last2[log'[k].addr \div unit]
    <3>1. log'[k] = log[k] /\ log[k].addr \div unit \in Units(unit)
      BY EntryFields DEF Grows
    <3>2. log[k].ins <= last[log[k].addr \div unit]
      BY DEF Remembers, Grows
    <3>3. QED BY <1>2, <3>1, <3>2
  <2>3. QED BY <2>1, <2>2 DEF Grows
<1>4. ASSUME NEW v \in Units(unit)
      PROVE  \/ last2[v] = - NEIGBOUR_INS_SIZE
             \/ \E k \in 1 .. n : log'[k].addr \div unit = v /\ log'[k].ins = last2[v]
  <2>1. CASE v = u
    <3>1. log'[n].addr \div unit = v /\ log'[n].ins = last2[v] /\ n \in 1 .. n
      BY <1>2, <2>1 DEF Grows
    <3>2. QED BY <3>1
  <2>2. CASE v # u
    <3>1. last2[v] = last[v]
      BY <1>2, <2>2
    <3>2. CASE last[v] = - NEIGBOUR_INS_SIZE
      BY <3>1, <3>2
    <3>3. CASE last[v] # - NEIGBOUR_INS_SIZE
      <4>1. PICK k \in 1 .. Len(log) : log[k].addr \div unit = v /\ log[k].ins = last[v]
        BY <3>3 DEF Remembers, Grows
      <4>2. log'[k] = log[k] /\ k \in 1 .. n
        BY DEF Grows
      <4>3. QED BY <3>1, <4>1, <4>2
    <3>4. QED BY <3>2, <3>3
  <2>3. QED BY <2>1, <2>2
<1>5. QED BY <1>3, <1>4 DEF Grows, last2

NewEntry(addr, size, flag) ==
    [addr |-> addr, size |-> size, flag |-> flag, ins |-> ins_count]

LEMMA AccessEffect ==
    ASSUME HistoryType, NEW addr \in Offsets, NEW size \in AccessSizes,
           NEW flag \in {0, 1}, Access(addr, size, flag)
    PROVE  /\ Grows(NewEntry(addr, size, flag))
           /\ HistoryType'
           /\ \A k \in 1 .. Len(log) : log[k].ins <= ins_count
           /\ LocalityEffect(metrics, metrics', addr \div PAGE_SIZE, ins_count)
           /\ CacheEffect(metrics, metrics', addr \div CACHE_LINE_SIZE, ins_count)
           /\ OffsetEffect(metrics, metrics', addr, size)
           /\ VolumeEffect(metrics, metrics', size, flag)
           /\ PageEffect(metrics, metrics', addr \div PAGE_SIZE, flag)
<1> DEFINE entry == NewEntry(addr, size, flag)
<1>1. /\ MetricsType(metrics) /\ ins_count \in Nat /\ log \in Seq(Entry)
      /\ \A k \in DOMAIN log : log[k].ins <= ins_count
  BY DEF HistoryType
<1>2. entry \in Entry /\ entry.ins = ins_count
  BY <1>1 DEF Entry, NewEntry
<1>3. /\ metrics' = GetMetrics(metrics, addr, size, flag, ins_count)
      /\ log' = Append(log, entry) /\ ins_count' = ins_count
  BY DEF Access, NewEntry
<1> HIDE DEF entry
<1>4. Grows(entry)
  BY <1>1, <1>2, <1>3, LogGrows
<1>5. \A k \in 1 .. Len(log) : log[k].ins <= ins_count
  BY <1>1, <1>4 DEF Grows
<1>6. \A k \in DOMAIN log' : log'[k].ins <= ins_count
  BY <1>1, <1>2, <1>4, <1>5 DEF Grows
<1>7. log' \in Seq(Entry)
  BY <1>1, <1>2, <1>3, AppendProperties
<1>8. /\ MetricsType(metrics')
      /\ LocalityEffect(metrics, metrics', addr \div PAGE_SIZE, ins_count)
      /\ CacheEffect(metrics, metrics', addr \div CACHE_LINE_SIZE, ins_count)
      /\ OffsetEffect(metrics, metrics', addr, size)
      /\ VolumeEffect(metrics, metrics', size, flag)
      /\ PageEffect(metrics, metrics', addr \div PAGE_SIZE, flag)
  BY <1>1, <1>3, GetMetricsEffect
<1>9. HistoryType'
  <2>1. MetricsType(metrics)' 
    BY <1>8 DEF MetricsType
  <2>2. QED BY <1>1, <1>3, <1>6, <1>7, <2>1 DEF HistoryType
<1>10. QED BY <1>4, <1>5, <1>8, <1>9 DEF entry

LocalityInv ==
    /\ LocalityMatchesHistory
    /\ Remembers(metrics.last_access_ins, PAGE_SIZE)
    /\ Remembers(metrics.last_access_ins_cache, CACHE_LINE_SIZE)

(* One of the counters counts the new access when the history does.         *)
LEMMA PrecededCount ==
    ASSUME NEW entry, Grows(entry), NEW unit \in Nat \ {0}, NEW near
    PROVE  Cardinality(Preceded(unit, near)') =
              Cardinality(Preceded(unit, near)) +
              Count(Recently(entry.addr \div unit, unit, near, entry.ins))
<1> DEFINE c == Recently(entry.addr \div unit, unit, near, entry.ins)
           S == Preceded(unit, near)
<1>1. S \subseteq 1 .. Len(log) /\ Preceded(unit, near)' = With(S, Len(log) + 1, c)
  BY PrecededGrows
<1>2. Len(log) \in Nat
  BY DEF Grows
<1>3. c \in BOOLEAN
  BY DEF Recently
<1> HIDE DEF c, S
<1>4. Cardinality(With(S, Len(log) + 1, c)) = Cardinality(S) + Count(c)
  BY <1>1, <1>2, <1>3, CountGrows
<1>5. QED BY <1>1, <1>4 DEF c, S

LEMMA AccessKeepsLocality ==
    ASSUME HistoryType, LocalityInv, NEW addr \in Offsets, NEW size \in AccessSizes,
           NEW flag \in {0, 1}, Access(addr, size, flag)
    PROVE  LocalityInv'
<1> DEFINE entry == NewEntry(addr, size, flag)
           p == addr \div PAGE_SIZE
           l == addr \div CACHE_LINE_SIZE
           Last  == metrics.last_access_ins
           LastC == metrics.last_access_ins_cache
<1>1. /\ Grows(entry)
      /\ \A k \in 1 .. Len(log) : log[k].ins <= ins_count
      /\ LocalityEffect(metrics, metrics', p, ins_count)
      /\ CacheEffect(metrics, metrics', l, ins_count)
  BY AccessEffect
<1>2. /\ entry.addr = addr /\ entry.ins = ins_count /\ ins_count \in Nat
      /\ p \in Units(PAGE_SIZE) /\ p \in Int
      /\ l \in Units(CACHE_LINE_SIZE) /\ l \in Int
  BY UnitOfOffset, Constants DEF HistoryType, NewEntry
<1>3. /\ Last \in [Units(PAGE_SIZE) -> Int] /\ LastC \in [Units(CACHE_LINE_SIZE) -> Int]
      /\ Remembers(Last, PAGE_SIZE) /\ Remembers(LastC, CACHE_LINE_SIZE)
  BY DEF HistoryType, MetricsType, LocalityInv
<1>4. /\ Len(log) \in Nat /\ DOMAIN log = 1 .. Len(log)
      /\ \A k \in 1 .. Len(log) : log[k] \in Entry
  BY <1>1 DEF Grows
<1> HIDE DEF entry
<1>5. /\ Spatial(Last, p, PAGE_SIZE, ins_count)
            = Count(Recently(p, PAGE_SIZE, Beside, ins_count))
      /\ Count(Recent(ins_count, Last[p]))
            = Count(Recently(p, PAGE_SIZE, Same, ins_count))
  BY <1>2, <1>3, <1>4, Constants, SpatialIsRecently
<1>6. /\ Spatial(LastC, l, CACHE_LINE_SIZE, ins_count)
            = Count(Recently(l, CACHE_LINE_SIZE, Beside, ins_count))
      /\ Count(Recent(ins_count, LastC[l]))
            = Count(Recently(l, CACHE_LINE_SIZE, Same, ins_count))
  BY <1>2, <1>3, <1>4, Constants, SpatialIsRecently
<1>7. /\ Cardinality(Preceded(PAGE_SIZE, Same)') = Cardinality(Preceded(PAGE_SIZE, Same))
            + Count(Recently(p, PAGE_SIZE, Same, ins_count))
      /\ Cardinality(Preceded(PAGE_SIZE, Beside)') =
            Cardinality(Preceded(PAGE_SIZE, Beside))
            + Count(Recently(p, PAGE_SIZE, Beside, ins_count))
  BY <1>1, <1>2, Constants, PrecededCount
<1>8. /\ Cardinality(Preceded(CACHE_LINE_SIZE, Same)') =
            Cardinality(Preceded(CACHE_LINE_SIZE, Same))
            + Count(Recently(l, CACHE_LINE_SIZE, Same, ins_count))
      /\ Cardinality(Preceded(CACHE_LINE_SIZE, Beside)') =
            Cardinality(Preceded(CACHE_LINE_SIZE, Beside))
            + Count(Recently(l, CACHE_LINE_SIZE, Beside, ins_count))
  BY <1>1, <1>2, Constants, PrecededCount
<1>9. LocalityMatchesHistory'
  <2>1. /\ metrics'.temperal_count = Cardinality(Preceded(PAGE_SIZE, Same)')
        /\ metrics'.spatial_count = Cardinality(Preceded(PAGE_SIZE, Beside)')
    BY <1>1, <1>5, <1>7 DEF LocalityEffect, LocalityInv, LocalityMatchesHistory
  <2>2. /\ metrics'.temperal_count_cache = Cardinality(Preceded(CACHE_LINE_SIZE, Same)')
        /\ metrics'.spatial_count_cache = Cardinality(Preceded(CACHE_LINE_SIZE, Beside)')
    BY <1>1, <1>6, <1>8 DEF CacheEffect, LocalityInv, LocalityMatchesHistory
  <2>3. Same' = Same /\ Beside' = Beside
    BY DEF Same, Beside
  <2>4. QED BY <2>1, <2>2, <2>3 DEF LocalityMatchesHistory
<1>10. Remembers(metrics.last_access_ins, PAGE_SIZE)'
  <2> DEFINE last2 == [Last EXCEPT ![entry.addr \div PAGE_SIZE] = entry.ins]
  <2>1. metrics'.last_access_ins = last2
    BY <1>1, <1>2 DEF LocalityEffect
  <2>2. \A k \in 1 .. Len(log) : log[k].ins <= entry.ins
    BY <1>1, <1>2
  <2>3. /\ Last \in [Units(PAGE_SIZE) -> Int] /\ Remembers(Last, PAGE_SIZE)
        /\ Grows(entry) /\ PAGE_SIZE \in Nat \ {0}
    BY <1>1, <1>3, Constants
  <2> HIDE DEF Last
  <2>4. /\ \A k \in DOMAIN log' : log'[k].ins <= last2[log'[k].addr \div PAGE_SIZE]
        /\ \A v \in Units(PAGE_SIZE) :
              \/ last2[v] = - NEIGBOUR_INS_SIZE
              \/ \E k \in DOMAIN log' :
                    log'[k].addr \div PAGE_SIZE = v /\ log'[k].ins = last2[v]
    BY <2>2, <2>3, RemembersGrows
  <2> HIDE DEF last2
  <2>5. QED BY <2>1, <2>4 DEF Remembers, Units
<1>11. Remembers(metrics.last_access_ins_cache, CACHE_LINE_SIZE)'
  <2> DEFINE last2 == [LastC EXCEPT ![entry.addr \div CACHE_LINE_SIZE] = entry.ins]
  <2>1. metrics'.last_access_ins_cache = last2
    BY <1>1, <1>2 DEF CacheEffect
  <2>2. \A k \in 1 .. Len(log) : log[k].ins <= entry.ins
    BY <1>1, <1>2
  <2>3. /\ LastC \in [Units(CACHE_LINE_SIZE) -> Int] /\ Remembers(LastC, CACHE_LINE_SIZE)
        /\ Grows(entry) /\ CACHE_LINE_SIZE \in Nat \ {0}
    BY <1>1, <1>3, Constants
  <2> HIDE DEF LastC
  <2>4. /\ \A k \in DOMAIN log' : log'[k].ins <= last2[log'[k].addr \div CACHE_LINE_SIZE]
        /\ \A v \in Units(CACHE_LINE_SIZE) :
              \/ last2[v] = - NEIGBOUR_INS_SIZE
              \/ \E k \in DOMAIN log' :
                    log'[k].addr \div CACHE_LINE_SIZE = v /\ log'[k].ins = last2[v]
    BY <2>2, <2>3, RemembersGrows
  <2> HIDE DEF last2
  <2>5. QED BY <2>1, <2>4 DEF Remembers, Units
<1>12. QED BY <1>9, <1>10, <1>11 DEF LocalityInv

-----------------------------------------------------------------------------
(* Pages.  An access opens a visit of its page or belongs to the visit      *)
(* opened last.                                                             *)

HistoryShape ==
    /\ Len(log) \in Nat /\ DOMAIN log = 1 .. Len(log)
    /\ \A k \in 1 .. Len(log) : log[k] \in Entry

LEMMA GrowsShape ==
    ASSUME NEW entry, Grows(entry)
    PROVE  HistoryShape
BY DEF Grows, HistoryShape

LEMMA PageType ==
    ASSUME HistoryShape, NEW k \in 0 .. Len(log)
    PROVE  /\ Page(k) \in Int
           /\ k # 0 => Page(k) \in Nat /\ Page(k) \in Units(PAGE_SIZE)
           /\ k = 0 => Page(k) = -1
<1>1. CASE k = 0
  BY <1>1 DEF Page
<1>2. CASE k # 0
  <2>1. k \in 1 .. Len(log)
    BY <1>2 DEF HistoryShape
  <2>2. log[k] \in Entry
    BY <2>1 DEF HistoryShape
  <2>3. log[k].addr \in Offsets
    BY <2>2 DEF Entry
  <2>4. log[k].addr \div PAGE_SIZE \in Nat /\ log[k].addr \div PAGE_SIZE \in Units(PAGE_SIZE)
    BY <2>3, Constants, UnitOfOffset
  <2>5. QED BY <1>2, <2>4 DEF Page
<1>3. QED BY <1>1, <1>2

LEMMA VisitsInHistory ==
    ASSUME HistoryShape
    PROVE  Visits \subseteq 1 .. Len(log)
BY DEF Visits, HistoryShape

(* A set of numbers up to n that has 0 has a greatest number.               *)
LEMMA MaxIn ==
    ASSUME NEW n \in Nat, NEW S, S \subseteq 0 .. n, 0 \in S
    PROVE  Max(S) \in S /\ \A j \in S : j <= Max(S)
<1> DEFINE Bounds == {b \in Nat : \A j \in S : j <= b}
<1>1. n \in Bounds
  OBVIOUS
<1>2. PICK b \in Bounds : \A m \in Bounds : b <= m
  <2>1. Bounds \subseteq Nat /\ Bounds # {}
    BY <1>1
  <2> HIDE DEF Bounds
  <2>2. QED BY <2>1, LeastNatural
<1>3. b \in S
  <2> SUFFICES ASSUME b \notin S PROVE FALSE
    OBVIOUS
  <2>1. b # 0 /\ b - 1 \in Nat
    OBVIOUS
  <2>2. \A j \in S : j <= b - 1
    OBVIOUS
  <2>3. b - 1 \in Bounds
    BY <2>1, <2>2
  <2>4. b <= b - 1
    BY <1>2, <2>3
  <2>5. QED BY <2>1, <2>4
<1>4. b \in S /\ \A j \in S : b >= j
  BY <1>3
<1>5. QED BY <1>4 DEF Max

LEMMA BeforeType ==
    ASSUME HistoryShape, NEW k \in Nat
    PROVE  /\ Before(k) \in 0 .. Len(log)
           /\ Before(k) = 0 \/ (Before(k) \in Visits /\ Before(k) < k)
           /\ \A j \in Visits : j < k => j <= Before(k)
           /\ k \in 0 .. Len(log) + 1 => Before(k) < k \/ k = 0
<1> DEFINE S == {0} \cup {j \in Visits : j < k}
<1>1. S \subseteq 0 .. Len(log) /\ 0 \in S /\ Len(log) \in Nat
  BY VisitsInHistory DEF HistoryShape
<1>2. Before(k) = Max(S)
  BY DEF Before
<1>3. \A j \in S : j = 0 \/ (j \in Visits /\ j < k)
  OBVIOUS
<1>4. \A j \in Visits : j < k => j \in S
  OBVIOUS
<1> HIDE DEF S
<1>5. Max(S) \in S /\ \A j \in S : j <= Max(S)
  BY <1>1, MaxIn
<1>6. Before(k) \in 0 .. Len(log)
  BY <1>1, <1>2, <1>5
<1>7. Before(k) = 0 \/ (Before(k) \in Visits /\ Before(k) < k)
  BY <1>2, <1>3, <1>5
<1>8. QED BY <1>2, <1>4, <1>5, <1>6, <1>7

(* The pages before the new access stay; the new one has its own.           *)
LEMMA PagesGrow ==
    ASSUME NEW entry, Grows(entry), NEW n \in Nat, n = Len(log) + 1
    PROVE  /\ \A k \in 0 .. Len(log) : Page(k)' = Page(k)
           /\ Page(n)' = entry.addr \div PAGE_SIZE
           /\ entry.addr \div PAGE_SIZE \in Nat
<1>1. \A k \in 1 .. Len(log) : log'[k] = log[k]
  BY DEF Grows
<1>2. \A k \in 0 .. Len(log) : k = 0 \/ k \in 1 .. Len(log)
  BY DEF Grows
<1>3. log'[n] = entry /\ n # 0
  BY DEF Grows
<1>4. entry.addr \div PAGE_SIZE \in Nat
  BY UnitOfOffset, Constants DEF Grows, Entry
<1>5. QED BY <1>1, <1>2, <1>3, <1>4 DEF Page

Opens(entry) == entry.addr \div PAGE_SIZE # Page(Len(log))

LEMMA VisitsGrow ==
    ASSUME NEW entry, Grows(entry), NEW n \in Nat, n = Len(log) + 1
    PROVE  Visits' = With(Visits, n, Opens(entry))
<1>1. /\ DOMAIN log' = 1 .. n /\ DOMAIN log = 1 .. Len(log)
      /\ Len(log) \in Nat
      /\ 1 .. n = (1 .. Len(log)) \cup {n} /\ n \notin 1 .. Len(log)
  BY DEF Grows
<1>2. \A k \in 0 .. Len(log) : Page(k)' = Page(k)
  BY PagesGrow
<1>3. \A k \in 1 .. Len(log) : k \in 0 .. Len(log) /\ k - 1 \in 0 .. Len(log)
  BY <1>1
<1>4. \A k \in 1 .. Len(log) : Page(k)' = Page(k) /\ Page(k - 1)' = Page(k - 1)
  BY <1>2, <1>3
<1>5. Page(n)' = entry.addr \div PAGE_SIZE /\ Page(n - 1)' = Page(Len(log))
  <2>1. n - 1 = Len(log) /\ n - 1 \in 0 .. Len(log)
    BY <1>1
  <2>2. QED BY <1>2, <2>1, PagesGrow
<1>6. Visits' = {k \in 1 .. n : Page(k)' # Page(k - 1)'}
  BY <1>1 DEF Visits
<1>7. Visits = {k \in 1 .. Len(log) : Page(k) # Page(k - 1)}
  BY <1>1 DEF Visits
<1>8. \A k : k \in Visits' <=> k \in With(Visits, n, Opens(entry))
  <2>1. ASSUME NEW k \in 1 .. Len(log)
        PROVE  k \in Visits' <=> k \in With(Visits, n, Opens(entry))
    BY <1>1, <1>4, <1>6, <1>7 DEF With
  <2>2. n \in Visits' <=> n \in With(Visits, n, Opens(entry))
    BY <1>1, <1>5, <1>6, <1>7 DEF With, Opens
  <2>3. ASSUME NEW k, k \notin 1 .. n
        PROVE  k \notin Visits' /\ k \notin With(Visits, n, Opens(entry))
    BY <1>1, <1>6, <1>7, <2>3 DEF With
  <2>4. QED BY <1>1, <2>1, <2>2, <2>3
<1>9. QED BY <1>8

(* The visits before an access do not depend on what comes after it.        *)
LEMMA BeforeKept ==
    ASSUME NEW entry, Grows(entry), NEW k \in 0 .. Len(log) + 1
    PROVE  Before(k)' = Before(k)
<1>1. PICK n \in Nat : n = Len(log) + 1
  BY DEF Grows
<1>2. Visits' = With(Visits, n, Opens(entry))
  BY <1>1, VisitsGrow
<1>3. Visits \subseteq 1 .. Len(log) /\ Len(log) \in Nat
  BY VisitsInHistory, GrowsShape DEF Grows
<1>4. {j \in Visits' : j < k} = {j \in Visits : j < k}
  BY <1>1, <1>2, <1>3 DEF With
<1>5. QED BY <1>4 DEF Before

(* The pages of the visit before an access, and of the visit before that.   *)
LEMMA PagesBeforeKept ==
    ASSUME NEW entry, Grows(entry), NEW k \in 0 .. Len(log) + 1
    PROVE  /\ Before(k)' = Before(k)
           /\ Before(k) \in 0 .. Len(log) /\ Before(Before(k)) \in 0 .. Len(log)
           /\ Page(Before(k))' = Page(Before(k))
           /\ Page(Before(Before(k)))' = Page(Before(Before(k)))
           /\ Page(Before(k)) \in Int /\ Page(Before(Before(k))) \in Int
<1>1. HistoryShape /\ Len(log) \in Nat
  BY GrowsShape DEF Grows
<1>2. PICK b \in 0 .. Len(log) : b = Before(k)
  BY <1>1, BeforeType
<1>3. PICK c \in 0 .. Len(log) : c = Before(b)
  BY <1>1, BeforeType
<1>4. Before(k)' = b
  BY <1>2, BeforeKept
<1>5. Before(b)' = c
  BY <1>1, <1>3, BeforeKept
<1>6. Page(b)' = Page(b) /\ Page(c)' = Page(c)
  <2>1. PICK n \in Nat : n = Len(log) + 1
    BY <1>1
  <2>2. QED BY <2>1, PagesGrow
<1>7. Before(Before(k))' = c
  BY <1>4, <1>5 DEF Before
<1>8. Page(Before(k))' = Page(b)'
  BY <1>4 DEF Page
<1>9. Page(Before(Before(k)))' = Page(c)'
  BY <1>7 DEF Page
<1>10. Before(Before(k)) = c
  BY <1>2, <1>3
<1>11. Page(b) \in Int /\ Page(c) \in Int
  BY <1>1, PageType
<1>12. QED BY <1>2, <1>3, <1>4, <1>6, <1>8, <1>9, <1>10, <1>11

Current == Before(Len(log) + 1)

LEMMA CurrentGrows ==
    ASSUME NEW entry, Grows(entry), NEW n \in Nat, n = Len(log) + 1
    PROVE  /\ Opens(entry) => Current' = n
           /\ ~Opens(entry) => Current' = Current
<1>1. Len(log') = n /\ Len(log) \in Nat
  BY DEF Grows
<1>2. Visits' = With(Visits, n, Opens(entry))
  BY VisitsGrow
<1>3. Visits \subseteq 1 .. Len(log)
  BY VisitsInHistory, GrowsShape
<1>4. Current' = Max({0} \cup {j \in Visits' : j < n + 1})
  BY <1>1 DEF Current, Before
<1>5. CASE Opens(entry)
  <2> DEFINE S == {0} \cup {j \in Visits' : j < n + 1}
  <2>1. 1 .. Len(log) \subseteq 0 .. n /\ n < n + 1 /\ n \in 0 .. n /\ 0 \in 0 .. n
    BY <1>1
  <2>2. Visits' = Visits \cup {n}
    BY <1>2, <1>5 DEF With
  <2>3. S \subseteq 0 .. n /\ 0 \in S /\ n \in S
    BY <1>3, <2>1, <2>2
  <2> HIDE DEF S
  <2>4. Max(S) \in S /\ n <= Max(S)
    BY <2>3, MaxIn
  <2>5. Max(S) \in 0 .. n
    BY <2>3, <2>4
  <2> DEFINE g == Max(S)
  <2> HIDE DEF g
  <2>6. g \in 0 .. n /\ n <= g
    BY <2>4, <2>5 DEF g
  <2>7. g = n
    BY <2>6
  <2>8. Max(S) = n
    BY <2>7 DEF g
  <2>9. QED BY <1>4, <1>5, <2>8 DEF S
<1>6. CASE ~Opens(entry)
  <2>1. Visits' = Visits
    BY <1>2, <1>6 DEF With
  <2>2. \A j \in 1 .. Len(log) : j < n /\ j < n + 1
    BY <1>1
  <2>3. {j \in Visits' : j < n + 1} = {j \in Visits : j < n}
    BY <1>3, <2>1, <2>2
  <2>4. QED BY <1>4, <1>6, <2>3 DEF Current, Before
<1>7. QED BY <1>5, <1>6

(* The page of the current visit is the page of the last access.            *)
LastPage == Page(Current) = Page(Len(log))

LEMMA LastPageGrows ==
    ASSUME NEW entry, Grows(entry), LastPage
    PROVE  LastPage'
<1>1. PICK n \in Nat : n = Len(log) + 1
  BY DEF Grows
<1>2. Len(log') = n
  BY <1>1 DEF Grows
<1>3. Page(Len(log))' = Page(n)'
  BY <1>2 DEF Page
<1>4. CASE Opens(entry)
  <2>1. Current' = n
    BY <1>1, <1>4, CurrentGrows
  <2>2. Page(Current)' = Page(n)'
    BY <2>1 DEF Page
  <2>3. QED BY <1>3, <2>2 DEF LastPage
<1>5. CASE ~Opens(entry)
  <2>1. Current' = Current /\ Current = Before(n)
    BY <1>1, <1>5, CurrentGrows DEF Current
  <2>2. Before(n)' = Before(n) /\ Page(Before(n))' = Page(Before(n))
    BY <1>1, PagesBeforeKept DEF Grows
  <2>3. Page(Current)' = Page(Before(n))'
    BY <2>1, <2>2 DEF Page
  <2>4. Page(n)' = Page(Len(log))
    BY <1>1, <1>5, PagesGrow DEF Opens
  <2>5. QED BY <1>3, <2>1, <2>2, <2>3, <2>4 DEF LastPage
<1>6. QED BY <1>4, <1>5

(* An access that opens no visit belongs to one.                            *)
LEMMA VisitExists ==
    ASSUME NEW entry, Grows(entry), ~Opens(entry)
    PROVE  Current \in Visits
<1>1. HistoryShape /\ Len(log) \in Nat
  BY GrowsShape DEF Grows
<1>2. Page(Len(log)) \in Nat
  <2>1. PICK n \in Nat : n = Len(log) + 1
    BY <1>1
  <2>2. QED BY <2>1, PagesGrow DEF Opens
<1>3. Len(log) # 0
  BY <1>1, <1>2, PageType
<1>4. Page(1) # Page(0)
  BY <1>1, <1>3, PageType
<1>5. 1 \in Visits
  BY <1>1, <1>3, <1>4 DEF Visits, HistoryShape
<1>6. 1 <= Current
  BY <1>1, <1>3, <1>5, BeforeType DEF Current
<1>7. QED BY <1>1, <1>6, BeforeType DEF Current

(* Visits that go on in the direction of the visit before.                  *)
GoesOn(k) ==
    /\ Before(k) # 0
    /\ Page(k) - Page(Before(k)) \in {-1, 1}
    /\ Page(k) - Page(Before(k)) = Page(Before(k)) - Page(Before(Before(k)))

Going == {k \in Visits : GoesOn(k)}

(* A set of visits that is told from the history up to each of them grows   *)
(* by the new access or not at all.                                         *)
LEMMA GoingGrows ==
    ASSUME NEW entry, Grows(entry), NEW n \in Nat, n = Len(log) + 1
    PROVE  /\ Going \subseteq 1 .. Len(log)
           /\ Going' = With(Going, n, Opens(entry) /\ GoesOn(n)')
<1>1. Visits' = With(Visits, n, Opens(entry)) /\ Visits \subseteq 1 .. Len(log)
  BY VisitsGrow, VisitsInHistory, GrowsShape
<1>2. n \notin 1 .. Len(log) /\ Len(log) \in Nat
  BY DEF Grows
<1>3. ASSUME NEW k \in 1 .. Len(log)
      PROVE  GoesOn(k)' <=> GoesOn(k)
  <2>1. k \in 0 .. Len(log) + 1 /\ k \in 0 .. Len(log)
    BY <1>2
  <2>2. /\ Before(k)' = Before(k) /\ Page(Before(k))' = Page(Before(k))
        /\ Page(Before(Before(k)))' = Page(Before(Before(k)))
    BY <2>1, PagesBeforeKept
  <2>3. Page(k)' = Page(k)
    BY <2>1, PagesGrow
  <2>4. QED BY <2>2, <2>3 DEF GoesOn
<1>4. Going' = {k \in Visits' : GoesOn(k)'}
  BY DEF Going
<1>5. \A k : k \in Going' <=> k \in With(Going, n, Opens(entry) /\ GoesOn(n)')
  <2>1. ASSUME NEW k \in 1 .. Len(log)
        PROVE  k \in Going' <=> k \in With(Going, n, Opens(entry) /\ GoesOn(n)')
    <3>1. k # n /\ (k \in Visits' <=> k \in Visits)
      BY <1>1, <1>2 DEF With
    <3>2. k \in Going' <=> k \in Going
      BY <1>3, <1>4, <3>1 DEF Going
    <3>3. QED BY <3>1, <3>2 DEF With
  <2>2. n \in Going' <=> n \in With(Going, n, Opens(entry) /\ GoesOn(n)')
    <3>1. n \in Visits' <=> Opens(entry)
      BY <1>1, <1>2 DEF With
    <3>2. n \notin Going
      BY <1>1, <1>2 DEF Going
    <3>3. n \in Going' <=> Opens(entry) /\ GoesOn(n)'
      BY <1>4, <3>1
    <3>4. QED BY <3>2, <3>3 DEF With
  <2>3. ASSUME NEW k, k \notin 1 .. Len(log), k # n
        PROVE  k \notin Going' /\ k \notin With(Going, n, Opens(entry) /\ GoesOn(n)')
    <3>1. k \notin Visits /\ k \notin Visits'
      BY <1>1, <2>3 DEF With
    <3>2. QED BY <1>4, <2>3, <3>1 DEF With, Going
  <2>4. QED BY <2>1, <2>2, <2>3
<1>6. QED BY <1>1, <1>5 DEF Going

Turn(q, p) == IF q = p + 1 THEN 1 ELSE IF q = p - 1 THEN 2 ELSE 0

(* The direction kept is that of the current visit.                         *)
DirectionKept == metrics.sequential_direct = Turn(Page(Current), Page(Before(Current)))

LEMMA GoesIsGoesOn ==
    ASSUME NEW entry, Grows(entry), NEW n \in Nat, n = Len(log) + 1,
           LastPage, DirectionKept, metrics.last_access_page = Page(Len(log))
    PROVE  /\ Goes(metrics, entry.addr \div PAGE_SIZE) <=> GoesOn(n)'
           /\ Direction(metrics, entry.addr \div PAGE_SIZE)
                 = Turn(Page(n)', Page(Before(n))')
<1> DEFINE q  == entry.addr \div PAGE_SIZE
           p1 == Page(Before(n))
           p2 == Page(Before(Before(n)))
<1>1. /\ Before(n)' = Before(n) /\ Page(Before(n))' = p1
      /\ Page(Before(Before(n)))' = p2 /\ p1 \in Int /\ p2 \in Int
  BY PagesBeforeKept DEF Grows
<1>2. Page(n)' = q /\ q \in Int
  BY PagesGrow
<1>3. Before(n) = Current
  BY DEF Current
<1>4. metrics.last_access_page = p1 /\ metrics.sequential_direct = Turn(p1, p2)
  BY <1>3 DEF LastPage, DirectionKept
<1>5. Before(n) = 0 => p1 = p2
  <2>1. ASSUME Before(n) = 0 PROVE p1 = p2
    <3>1. HistoryShape
      BY GrowsShape
    <3>2. Before(0) = 0
      BY <3>1, BeforeType
    <3>3. QED BY <2>1, <3>2
  <2>2. QED BY <2>1
<1>6. GoesOn(n)' <=> Before(n) # 0 /\ q - p1 \in {-1, 1} /\ q - p1 = p1 - p2
  BY <1>1, <1>2 DEF GoesOn
<1> HIDE DEF q, p1, p2
<1>7. Direction(metrics, q) = Turn(q, p1)
  BY <1>4 DEF Direction, Turn
<1>8. Goes(metrics, q) <=> Turn(p1, p2) # 0 /\ Turn(q, p1) = Turn(p1, p2)
  BY <1>4, <1>7 DEF Goes
<1>9. Turn(p1, p2) # 0 /\ Turn(q, p1) = Turn(p1, p2)
        <=> q - p1 \in {-1, 1} /\ q - p1 = p1 - p2
  BY <1>1, <1>2 DEF Turn
<1>10. p1 - p2 \in {-1, 1} => Before(n) # 0
  BY <1>1, <1>5
<1>11. Goes(metrics, q) <=> GoesOn(n)'
  BY <1>6, <1>8, <1>9, <1>10
<1>12. QED BY <1>1, <1>2, <1>7, <1>11 DEF q, p1

LEMMA DirectionGrows ==
    ASSUME NEW entry, Grows(entry), LastPage, DirectionKept,
           metrics.last_access_page = Page(Len(log)),
           Opens(entry) => metrics'.sequential_direct
                              = Direction(metrics, entry.addr \div PAGE_SIZE),
           ~Opens(entry) => metrics'.sequential_direct = metrics.sequential_direct
    PROVE  DirectionKept'
<1>1. PICK n \in Nat : n = Len(log) + 1
  BY DEF Grows
<1>2. CASE Opens(entry)
  <2>1. Current' = n
    BY <1>1, <1>2, CurrentGrows
  <2>2. Page(Current)' = Page(n)' /\ Before(Current)' = Before(n)'
    BY <2>1 DEF Page, Before
  <2>3. Page(Before(Current))' = Page(Before(n))'
    BY <2>2 DEF Page
  <2>4. QED BY <1>1, <1>2, <2>2, <2>3, GoesIsGoesOn DEF DirectionKept, Turn
<1>3. CASE ~Opens(entry)
  <2>1. Current' = Current /\ Current = Before(n)
    BY <1>1, <1>3, CurrentGrows DEF Current
  <2>2. /\ Before(n)' = Before(n) /\ Page(Before(n))' = Page(Before(n))
        /\ Page(Before(Before(n)))' = Page(Before(Before(n)))
    BY <1>1, PagesBeforeKept DEF Grows
  <2>3. Page(Current)' = Page(Before(n))' /\ Before(Current)' = Before(Before(n))'
    BY <2>1, <2>2 DEF Page, Before
  <2>4. Page(Before(Current))' = Page(Before(Before(n)))'
    BY <2>3 DEF Page
  <2>5. QED BY <1>3, <2>1, <2>2, <2>3, <2>4 DEF DirectionKept, Turn
<1>4. QED BY <1>2, <1>3

(* Visits that write.                                                       *)
Writes(k) == \E j \in VisitOf(k) : log[j].flag = 1

Dirty == {k \in Visits : Writes(k)}

(* A new access that opens a visit belongs to that one only.                *)
LEMMA WritesOpened ==
    ASSUME NEW entry, Grows(entry), NEW n \in Nat, n = Len(log) + 1, Opens(entry)
    PROVE  /\ \A k \in 1 .. Len(log) : Writes(k)' <=> Writes(k)
           /\ Writes(n)' <=> entry.flag = 1
<1>1. Visits' = Visits \cup {n} /\ Visits \subseteq 1 .. Len(log)
  BY VisitsGrow, VisitsInHistory, GrowsShape DEF With
<1>2. /\ DOMAIN log' = 1 .. n /\ DOMAIN log = 1 .. Len(log) /\ Len(log) \in Nat
      /\ \A j \in 1 .. Len(log) : log'[j] = log[j]
      /\ log'[n] = entry /\ n \notin 1 .. Len(log)
  BY DEF Grows
<1>3. ASSUME NEW k \in 1 .. Len(log)
      PROVE  VisitOf(k)' = VisitOf(k)
  <2>1. \A j \in 1 .. Len(log) : \A i \in k + 1 .. j : i \in Visits' <=> i \in Visits
    BY <1>1, <1>2
  <2>2. n \in k + 1 .. n /\ n \in Visits'
    BY <1>1, <1>2
  <2>3. VisitOf(k)' = {j \in 1 .. n : j >= k /\ \A i \in k + 1 .. j : i \notin Visits'}
    BY <1>2 DEF VisitOf
  <2>4. VisitOf(k) = {j \in 1 .. Len(log) : j >= k /\ \A i \in k + 1 .. j : i \notin Visits}
    BY <1>2 DEF VisitOf
  <2>5. \A j : j \in 1 .. n <=> j \in 1 .. Len(log) \/ j = n
    BY <1>2
  <2>6. n \notin VisitOf(k)' /\ n \notin VisitOf(k)
    BY <1>2, <2>2, <2>3, <2>4
  <2>7. \A j \in 1 .. Len(log) : j \in VisitOf(k)' <=> j \in VisitOf(k)
    BY <2>1, <2>3, <2>4, <2>5
  <2>8. VisitOf(k)' \subseteq 1 .. n /\ VisitOf(k) \subseteq 1 .. n
    BY <2>3, <2>4, <2>5
  <2>9. QED BY <2>5, <2>6, <2>7, <2>8
<1>4. ASSUME NEW k \in 1 .. Len(log)
      PROVE  Writes(k)' <=> Writes(k)
  <2>1. VisitOf(k) \subseteq 1 .. Len(log)
    BY <1>2 DEF VisitOf
  <2>2. QED BY <1>2, <1>3, <2>1 DEF Writes
<1>5. Writes(n)' <=> entry.flag = 1
  <2>1. VisitOf(n)' = {j \in 1 .. n : j >= n /\ \A i \in n + 1 .. j : i \notin Visits'}
    BY <1>2 DEF VisitOf
  <2>2. \A j \in 1 .. n : j >= n <=> j = n
    OBVIOUS
  <2>3. n \in 1 .. n /\ \A i \in n + 1 .. n : FALSE
    BY <1>2
  <2>4. VisitOf(n)' = {n}
    BY <2>1, <2>2, <2>3
  <2>5. QED BY <1>2, <2>4 DEF Writes
<1>6. QED BY <1>4, <1>5

(* A new access that opens no visit belongs to the current one only.        *)
LEMMA WritesStayed ==
    ASSUME NEW entry, Grows(entry), ~Opens(entry)
    PROVE  /\ Visits' = Visits
           /\ \A k \in Visits : Writes(k)' <=> Writes(k) \/ (k = Current /\ entry.flag = 1)
<1>1. PICK n \in Nat : n = Len(log) + 1
  BY DEF Grows
<1>2. Visits' = Visits /\ Visits \subseteq 1 .. Len(log)
  BY <1>1, VisitsGrow, VisitsInHistory, GrowsShape DEF With
<1>3. /\ DOMAIN log' = 1 .. n /\ DOMAIN log = 1 .. Len(log) /\ Len(log) \in Nat
      /\ \A j \in 1 .. Len(log) : log'[j] = log[j]
      /\ log'[n] = entry /\ n \notin 1 .. Len(log)
  BY <1>1 DEF Grows
<1>4. Current \in Visits /\ \A k \in Visits : k <= Current
  <2>1. Current \in Visits
    BY VisitExists
  <2>2. \A k \in Visits : k < n => k <= Before(n)
    BY GrowsShape, BeforeType
  <2>3. QED BY <1>1, <1>2, <1>3, <2>1, <2>2 DEF Current
<1>5. ASSUME NEW k \in Visits
      PROVE  VisitOf(k)' = VisitOf(k) \cup {j \in {n} : k = Current}
  <2>1. VisitOf(k)' = {j \in 1 .. n : j >= k /\ \A i \in k + 1 .. j : i \notin Visits}
    BY <1>2, <1>3 DEF VisitOf
  <2>2. VisitOf(k) = {j \in 1 .. Len(log) : j >= k /\ \A i \in k + 1 .. j : i \notin Visits}
    BY <1>3 DEF VisitOf
  <2>3. \A j : j \in 1 .. n <=> j \in 1 .. Len(log) \/ j = n
    BY <1>1, <1>3
  <2>4. n \in VisitOf(k)' <=> k = Current
    <3>1. k \in 1 .. Len(log) /\ Current \in 1 .. Len(log)
      BY <1>2, <1>4
    <3>2. n >= k /\ n \in 1 .. n
      BY <1>1, <1>3, <3>1
    <3>3. CASE k = Current
      <4>1. \A i \in k + 1 .. n : i \notin Visits
        BY <1>2, <1>3, <1>4, <3>1, <3>3
      <4>2. QED BY <2>1, <3>2, <3>3, <4>1
    <3>4. CASE k # Current
      <4>1. k <= Current
        BY <1>4
      <4>2. Current \in k + 1 .. n
        BY <1>1, <1>3, <3>1, <3>4, <4>1
      <4>3. QED BY <1>4, <2>1, <3>4, <4>2
    <3>5. QED BY <3>3, <3>4
  <2>5. \A j \in 1 .. Len(log) : j \in VisitOf(k)' <=> j \in VisitOf(k)
    BY <2>1, <2>2, <2>3
  <2>6. n \notin VisitOf(k) /\ VisitOf(k)' \subseteq 1 .. n /\ VisitOf(k) \subseteq 1 .. n
    BY <1>3, <2>1, <2>2, <2>3
  <2>7. \A j : j \in VisitOf(k)' <=> j \in VisitOf(k) \/ (j = n /\ k = Current)
    BY <1>3, <2>3, <2>4, <2>5, <2>6
  <2>8. QED BY <2>7
<1>6. ASSUME NEW k \in Visits
      PROVE  Writes(k)' <=> Writes(k) \/ (k = Current /\ entry.flag = 1)
  <2>1. VisitOf(k) \subseteq 1 .. Len(log)
    BY <1>3 DEF VisitOf
  <2>2. QED BY <1>3, <1>5, <2>1 DEF Writes
<1>7. QED BY <1>2, <1>6

DirtyKept ==
    /\ metrics.dirty_count = Cardinality(Dirty)
    /\ metrics.dirty_flag = Count(Current \in Dirty)

LEMMA DirtyGrows ==
    ASSUME NEW entry, Grows(entry), DirtyKept,
           LET before == IF Opens(entry) THEN 0 ELSE metrics.dirty_flag
           IN  /\ metrics'.dirty_flag = IF entry.flag = 1 THEN 1 ELSE before
               /\ metrics'.dirty_count =
                     metrics.dirty_count + IF entry.flag = 1 THEN 1 - before ELSE 0
    PROVE  DirtyKept'
<1>1. PICK n \in Nat : n = Len(log) + 1
  BY DEF Grows
<1>2. Len(log) \in Nat /\ n \notin 1 .. Len(log)
  BY <1>1 DEF Grows
<1>3. Visits \subseteq 1 .. Len(log) /\ Dirty \subseteq 1 .. Len(log)
  BY VisitsInHistory, GrowsShape DEF Dirty
<1>4. IsFiniteSet(Dirty) /\ Cardinality(Dirty) \in Nat
  BY <1>2, <1>3, HistorySetFinite
<1>5. Dirty' = {k \in Visits' : Writes(k)'}
  BY DEF Dirty
<1>6. CASE Opens(entry)
  <2>1. Visits' = Visits \cup {n}
    BY <1>1, <1>6, VisitsGrow DEF With
  <2>2. Dirty' = With(Dirty, n, entry.flag = 1)
    <3>1. /\ \A k \in Visits : Writes(k)' <=> Writes(k)
          /\ Writes(n)' <=> entry.flag = 1
      BY <1>1, <1>3, <1>6, WritesOpened
    <3>2. QED BY <1>5, <2>1, <3>1 DEF With, Dirty
  <2>3. Cardinality(With(Dirty, n, entry.flag = 1)) = Cardinality(Dirty) + Count(entry.flag = 1)
    BY <1>1, <1>2, <1>3, CountGrows
  <2>4. Current' = n
    BY <1>1, <1>6, CurrentGrows
  <2>5. (Current \in Dirty)' <=> entry.flag = 1
    BY <1>2, <1>3, <2>2, <2>4 DEF With
  <2>6. metrics'.dirty_count = Cardinality(Dirty')
    BY <1>4, <1>6, <2>2, <2>3 DEF DirtyKept, Count
  <2>7. metrics'.dirty_flag = Count(Current \in Dirty)'
    BY <1>6, <2>5 DEF Count
  <2>8. QED BY <2>6, <2>7 DEF DirtyKept
<1>7. CASE ~Opens(entry)
  <2>1. /\ Visits' = Visits
        /\ \A k \in Visits : Writes(k)' <=> Writes(k) \/ (k = Current /\ entry.flag = 1)
    BY <1>7, WritesStayed
  <2>2. Current' = Current
    BY <1>1, <1>7, CurrentGrows
  <2>3. Current \in Visits
    BY <1>7, VisitExists
  <2>4. Dirty' = Dirty \cup {j \in {Current} : entry.flag = 1}
    BY <1>5, <2>1, <2>3 DEF Dirty
  <2>5. CASE entry.flag = 1
    <3>1. Dirty' = Dirty \cup {Current}
      BY <2>4, <2>5
    <3>2. Cardinality(Dirty') = IF Current \in Dirty THEN Cardinality(Dirty)
                                ELSE Cardinality(Dirty) + 1
      BY <1>4, <3>1, FS_AddElement
    <3>3. metrics'.dirty_count = Cardinality(Dirty')
      BY <1>4, <1>7, <2>5, <3>2 DEF DirtyKept, Count
    <3>4. (Current \in Dirty)'
      BY <2>2, <3>1
    <3>5. metrics'.dirty_flag = Count(Current \in Dirty)'
      BY <2>5, <3>4 DEF Count
    <3>6. QED BY <3>3, <3>5 DEF DirtyKept
  <2>6. CASE entry.flag # 1
    <3>1. Dirty' = Dirty
      BY <2>4, <2>6
    <3>2. metrics'.dirty_count = Cardinality(Dirty')
      BY <1>4, <2>6, <3>1 DEF DirtyKept
    <3>3. metrics'.dirty_flag = Count(Current \in Dirty)'
      BY <1>7, <2>2, <2>6, <3>1 DEF DirtyKept, Count
    <3>4. QED BY <3>2, <3>3 DEF DirtyKept
  <2>7. QED BY <2>5, <2>6
<1>8. QED BY <1>6, <1>7

LEMMA JumpsGrow ==
    ASSUME NEW entry, Grows(entry), NEW n \in Nat, n = Len(log) + 1, LastPage
    PROVE  /\ \A k \in 1 .. Len(log) : Jumps'[k] = Jumps[k] /\ Jumps[k] \in Nat
           /\ Jumps'[n] = Distance(entry.addr \div PAGE_SIZE, Page(Len(log)))
           /\ Jumps'[n] \in Nat
<1>1. /\ DOMAIN log' = 1 .. n /\ DOMAIN log = 1 .. Len(log) /\ Len(log) \in Nat
      /\ n \in 1 .. n /\ \A k \in 1 .. Len(log) : k \in 1 .. n
  BY DEF Grows
<1>2. \A k \in 1 .. n : Jumps'[k] = Distance(Page(k)', Page(Before(k))')
  BY <1>1 DEF Jumps, Distance
<1>3. \A k \in 1 .. Len(log) : Jumps[k] = Distance(Page(k), Page(Before(k)))
  BY <1>1 DEF Jumps, Distance
<1>4. ASSUME NEW k \in 1 .. Len(log)
      PROVE  Jumps'[k] = Jumps[k] /\ Jumps[k] \in Nat
  <2>1. k \in 0 .. Len(log) /\ k \in 0 .. Len(log) + 1 /\ k \in 1 .. n
    BY <1>1
  <2>2. Page(k)' = Page(k) /\ Page(k) \in Int
    BY <2>1, PagesGrow, PageType, GrowsShape
  <2>3. Page(Before(k))' = Page(Before(k)) /\ Page(Before(k)) \in Int
    BY <2>1, PagesBeforeKept
  <2>4. Jumps'[k] = Jumps[k]
    BY <1>2, <1>3, <2>1, <2>2, <2>3
  <2>5. QED BY <1>3, <2>2, <2>3, <2>4 DEF Distance
<1>5. Jumps'[n] = Distance(entry.addr \div PAGE_SIZE, Page(Len(log)))
  <2>1. n \in 0 .. Len(log) + 1 /\ Before(n) = Current
    BY <1>1 DEF Current
  <2>2. Page(Before(n))' = Page(Len(log))
    BY <2>1, PagesBeforeKept DEF LastPage
  <2>3. Page(n)' = entry.addr \div PAGE_SIZE
    BY PagesGrow
  <2>4. QED BY <1>1, <1>2, <2>2, <2>3
<1>6. Jumps'[n] \in Nat
  <2>1. entry.addr \div PAGE_SIZE \in Nat
    BY PagesGrow
  <2>2. Page(Len(log)) \in Int
    BY <1>1, PageType, GrowsShape
  <2>3. QED BY <1>5, <2>1, <2>2 DEF Distance
<1>7. QED BY <1>4, <1>5, <1>6

JumpsAddUp ==
    Small(Jumps, Visits) => metrics.page_offsets = SumFunctionOnSet(Jumps, Visits)

LEMMA JumpsAddUpGrows ==
    ASSUME NEW entry, Grows(entry), LastPage, JumpsAddUp,
           metrics.page_offsets \in Int,
           Opens(entry) => metrics'.page_offsets = metrics.page_offsets
                              + abs(entry.addr \div PAGE_SIZE - Page(Len(log))),
           ~Opens(entry) => metrics'.page_offsets = metrics.page_offsets
    PROVE  JumpsAddUp'
<1> DEFINE q == entry.addr \div PAGE_SIZE
           r == Page(Len(log))
           F == Jumps
           G == Jumps'
<1>1. PICK n \in Nat : n = Len(log) + 1
  BY DEF Grows
<1>2. PICK m \in Nat : m = Len(log)
  BY DEF Grows
<1>3. Visits \subseteq 1 .. m /\ n = m + 1
  BY <1>1, <1>2, VisitsInHistory, GrowsShape
<1>4. /\ \A k \in 1 .. m : G[k] = F[k] /\ F[k] \in Nat
      /\ G[n] = Distance(q, r) /\ G[n] \in Nat
  BY <1>1, <1>2, JumpsGrow
<1>5. Visits' = With(Visits, n, Opens(entry))
  BY <1>1, VisitsGrow
<1>6. q \in Int /\ r \in Int
  <2>1. q \in Int
    BY <1>1, PagesGrow
  <2>2. r \in Int
    BY <1>2, PageType, GrowsShape
  <2>3. QED BY <2>1, <2>2
<1>7. /\ SumFunctionOnSet(F, Visits) \in Int
      /\ SumFunctionOnSet(G, With(Visits, n, Opens(entry)))
            = SumFunctionOnSet(F, Visits) + IF Opens(entry) THEN G[n] ELSE 0
  <2> DEFINE S == Visits
             c == Opens(entry)
  <2>1. c \in BOOLEAN /\ IsFiniteSet(S) /\ n \notin S
    BY <1>3, HistorySetFinite DEF Opens
  <2>2. /\ \A k \in S : F[k] = G[k]
        /\ \A k \in S : F[k] \in Int
        /\ G[n] \in Int
    BY <1>3, <1>4
  <2> HIDE DEF F, G, S, c
  <2>3. /\ SumFunctionOnSet(F, S) \in Int
        /\ SumFunctionOnSet(G, With(S, n, c)) = SumFunctionOnSet(F, S) + IF c THEN G[n] ELSE 0
    BY <2>1, <2>2, SumGrows
  <2>4. QED BY <2>3, Zenon DEF S, c
<1> HIDE DEF F, G, q, r
<1>8. ASSUME Small(G, Visits')
      PROVE  metrics'.page_offsets = SumFunctionOnSet(G, Visits')
  <2>1. Small(F, Visits)
    BY <1>3, <1>4, <1>5, <1>8 DEF Small, With
  <2>2. metrics.page_offsets = SumFunctionOnSet(F, Visits)
    BY <2>1 DEF JumpsAddUp, F
  <2>3. CASE Opens(entry)
    <3>1. 2 * G[n] < INT_RANGE
      BY <1>5, <1>8, <2>3 DEF Small, With
    <3>2. abs(q - r) = G[n]
      BY <1>4, <1>6, <3>1, AbsIsDistance
    <3>3. SumFunctionOnSet(G, Visits') = SumFunctionOnSet(F, Visits) + G[n]
      BY <1>5, <1>7, <2>3
    <3>4. metrics'.page_offsets = metrics.page_offsets + abs(q - r)
      BY <2>3 DEF q, r
    <3>5. QED BY <2>2, <3>2, <3>3, <3>4
  <2>4. CASE ~Opens(entry)
    <3>1. SumFunctionOnSet(G, Visits') = SumFunctionOnSet(F, Visits)
      BY <1>5, <1>7, <2>4
    <3>2. QED BY <2>2, <2>4, <3>1
  <2>5. QED BY <2>3, <2>4
<1>9. QED BY <1>8 DEF JumpsAddUp, G, Small

PagesInv ==
    /\ PageCountersMatchVisits
    /\ JumpsAddUp
    /\ metrics.last_access_page = Page(Len(log))
    /\ LastPage /\ DirectionKept /\ DirtyKept

(* The visits of page p.                                                    *)
VisitsTo(p) == {k \in Visits : Page(k) = p}

LEMMA VisitsToGrows ==
    ASSUME NEW entry, Grows(entry), NEW n \in Nat, n = Len(log) + 1, NEW p
    PROVE  /\ VisitsTo(p) \subseteq 1 .. Len(log)
           /\ VisitsTo(p)' = With(VisitsTo(p), n,
                                  Opens(entry) /\ entry.addr \div PAGE_SIZE = p)
<1>1. Visits' = With(Visits, n, Opens(entry)) /\ Visits \subseteq 1 .. Len(log)
  BY VisitsGrow, VisitsInHistory, GrowsShape
<1>2. n \notin 1 .. Len(log) /\ \A k \in 1 .. Len(log) : k \in 0 .. Len(log)
  BY DEF Grows
<1>3. /\ \A k \in 1 .. Len(log) : Page(k)' = Page(k)
      /\ Page(n)' = entry.addr \div PAGE_SIZE
  BY <1>2, PagesGrow
<1>4. VisitsTo(p)' = {k \in Visits' : Page(k)' = p}
  BY DEF VisitsTo
<1>5. QED BY <1>1, <1>2, <1>3, <1>4 DEF VisitsTo, With

LEMMA AccessKeepsPages ==
    ASSUME HistoryType, PagesInv, NEW addr \in Offsets, NEW size \in AccessSizes,
           NEW flag \in {0, 1}, Access(addr, size, flag)
    PROVE  PagesInv'
<1> DEFINE entry == NewEntry(addr, size, flag)
           q == addr \div PAGE_SIZE
<1>1. Grows(entry) /\ PageEffect(metrics, metrics', q, flag)
  BY AccessEffect
<1>2. /\ entry.addr = addr /\ entry.flag = flag
      /\ q \in Units(PAGE_SIZE) /\ q \in Int
  BY UnitOfOffset, Constants DEF NewEntry
<1>3. PICK n \in Nat : n = Len(log) + 1 /\ Len(log) \in Nat /\ Len(log') = n
  BY <1>1 DEF Grows
<1>4. /\ metrics.last_access_page = Page(Len(log)) /\ LastPage
      /\ DirectionKept /\ DirtyKept /\ JumpsAddUp
  BY DEF PagesInv
<1>5. /\ metrics.page_offsets \in Int /\ metrics.touch_count \in Int
      /\ metrics.references_perpage \in [Units(PAGE_SIZE) -> Int]
  BY DEF HistoryType, MetricsType, Counters
<1> HIDE DEF entry
<1>6. Moves(metrics, q) <=> Opens(entry)
  BY <1>2, <1>4 DEF Moves, Opens
<1>7. metrics'.last_access_page = Page(Len(log))'
  <2>1. Page(Len(log))' = Page(n)'
    BY <1>3 DEF Page
  <2>2. Page(n)' = q
    BY <1>1, <1>2, <1>3, PagesGrow
  <2>3. CASE Opens(entry)
    BY <1>1, <1>6, <2>1, <2>2, <2>3 DEF PageEffect
  <2>4. CASE ~Opens(entry)
    <3>1. metrics'.last_access_page = metrics.last_access_page
      BY <1>1, <1>6, <2>4 DEF PageEffect, PageFields
    <3>2. q = Page(Len(log))
      BY <1>2, <2>4 DEF Opens
    <3>3. QED BY <1>4, <2>1, <2>2, <3>1, <3>2
  <2>5. QED BY <2>3, <2>4
<1>8. LastPage'
  BY <1>1, <1>4, LastPageGrows
<1>9. DirectionKept'
  <2>1. /\ Opens(entry) => metrics'.sequential_direct = Direction(metrics, q)
        /\ ~Opens(entry) => metrics'.sequential_direct = metrics.sequential_direct
    BY <1>1, <1>6 DEF PageEffect, PageFields
  <2>2. QED BY <1>1, <1>2, <1>4, <2>1, DirectionGrows
<1>10. DirtyKept'
  <2> DEFINE before == IF Opens(entry) THEN 0 ELSE metrics.dirty_flag
  <2>1. before = DirtyBefore(metrics, q)
    BY <1>6 DEF DirtyBefore
  <2>2. /\ metrics'.dirty_flag = IF entry.flag = 1 THEN 1 ELSE before
        /\ metrics'.dirty_count = metrics.dirty_count + IF entry.flag = 1 THEN 1 - before ELSE 0
    BY <1>1, <1>2, <2>1 DEF PageEffect
  <2>3. QED BY <1>1, <1>4, <2>2, DirtyGrows
<1>11. JumpsAddUp'
  <2>1. /\ Opens(entry) => metrics'.page_offsets
              = metrics.page_offsets + abs(entry.addr \div PAGE_SIZE - Page(Len(log)))
        /\ ~Opens(entry) => metrics'.page_offsets = metrics.page_offsets
    BY <1>1, <1>2, <1>4, <1>6 DEF PageEffect, PageFields
  <2>2. QED BY <1>1, <1>4, <1>5, <2>1, JumpsAddUpGrows
<1>12. (metrics.touch_count = Cardinality(Visits))'
  <2>1. Opens(entry) \in BOOLEAN /\ Visits \subseteq 1 .. Len(log)
    BY <1>1, VisitsInHistory, GrowsShape DEF Opens
  <2>2. Visits' = With(Visits, n, Opens(entry))
    BY <1>1, <1>3, VisitsGrow
  <2>3. Cardinality(Visits') = Cardinality(Visits) + Count(Opens(entry))
    BY <1>3, <2>1, <2>2, CountGrows
  <2>4. metrics'.touch_count = metrics.touch_count + Count(Opens(entry))
    BY <1>1, <1>5, <1>6 DEF PageEffect, PageFields, Count
  <2>5. QED BY <2>3, <2>4 DEF PagesInv, PageCountersMatchVisits
<1>13. ASSUME NEW p \in Units(PAGE_SIZE)
       PROVE  metrics'.references_perpage[p] = Cardinality(VisitsTo(p)')
  <2> DEFINE c == Opens(entry) /\ entry.addr \div PAGE_SIZE = p
  <2>1. c \in BOOLEAN
    BY DEF Opens
  <2>2. VisitsTo(p) \subseteq 1 .. Len(log) /\ VisitsTo(p)' = With(VisitsTo(p), n, c)
    BY <1>1, <1>3, VisitsToGrows
  <2>3. metrics.references_perpage[p] = Cardinality(VisitsTo(p))
    BY DEF PagesInv, PageCountersMatchVisits, VisitsTo
  <2>4. metrics'.references_perpage[p] = metrics.references_perpage[p] + Count(c)
    <3>1. metrics.references_perpage[p] \in Int
      BY <1>5
    <3>2. CASE Opens(entry)
      <4>1. metrics'.references_perpage =
              [metrics.references_perpage EXCEPT ![q] = metrics.references_perpage[q] + 1]
        BY <1>1, <1>6, <3>2 DEF PageEffect
      <4>2. QED BY <1>2, <1>5, <3>1, <3>2, <4>1 DEF Count
    <3>3. CASE ~Opens(entry)
      <4>1. metrics'.references_perpage = metrics.references_perpage
        BY <1>1, <1>6, <3>3 DEF PageEffect, PageFields
      <4>2. QED BY <3>1, <3>3, <4>1 DEF Count
    <3>4. QED BY <3>2, <3>3
  <2> HIDE DEF c
  <2>5. Cardinality(With(VisitsTo(p), n, c)) = Cardinality(VisitsTo(p)) + Count(c)
    BY <1>3, <2>1, <2>2, CountGrows
  <2>6. QED BY <2>2, <2>3, <2>4, <2>5
<1>14. (metrics.sequential_count = Cardinality(Going))'
  <2> DEFINE c == Opens(entry) /\ GoesOn(n)'
  <2>1. c \in BOOLEAN
    BY DEF Opens
  <2>2. Going \subseteq 1 .. Len(log) /\ Going' = With(Going, n, c)
    BY <1>1, <1>3, GoingGrows
  <2>3. Goes(metrics, q) <=> GoesOn(n)'
    BY <1>1, <1>2, <1>3, <1>4, GoesIsGoesOn
  <2>4. metrics.sequential_count = Cardinality(Going)
    BY DEF PagesInv, PageCountersMatchVisits, Going, GoesOn
  <2>5. metrics.sequential_count \in Int
    BY DEF HistoryType, MetricsType, Counters
  <2>6. metrics'.sequential_count = metrics.sequential_count + Count(c)
    BY <1>1, <1>6, <2>3, <2>5 DEF PageEffect, PageFields, Count
  <2> HIDE DEF c
  <2>7. Cardinality(With(Going, n, c)) = Cardinality(Going) + Count(c)
    BY <1>3, <2>1, <2>2, CountGrows
  <2>8. QED BY <2>2, <2>4, <2>6, <2>7
<1>15. PageCountersMatchVisits'
  <2>1. metrics'.dirty_count = Cardinality(Dirty')
    BY <1>10 DEF DirtyKept
  <2>2. Units(PAGE_SIZE)' = Units(PAGE_SIZE)
    BY DEF Units
  <2>3. QED BY <1>12, <1>13, <1>14, <2>1, <2>2
            DEF PageCountersMatchVisits, VisitsTo, Going, GoesOn, Dirty, Writes
<1>16. QED BY <1>7, <1>8, <1>9, <1>10, <1>11, <1>15 DEF PagesInv

-----------------------------------------------------------------------------
(* Offsets.                                                                 *)

LastAddr == IF Len(log) = 0 THEN 0 ELSE log[Len(log)].addr

LEMMA StepsGrow ==
    ASSUME NEW entry, Grows(entry), NEW n \in Nat, n = Len(log) + 1
    PROVE  /\ \A k \in 0 .. Len(log) : Step(k)' = Step(k) /\ Step(k) \in Int
           /\ Step(n)' = entry.addr - LastAddr
           /\ LastAddr \in Int /\ entry.addr \in Int
<1>1. /\ Len(log) \in Nat /\ \A k \in 1 .. Len(log) : log'[k] = log[k]
      /\ log'[n] = entry
  BY DEF Grows
<1>2. /\ \A k \in 1 .. Len(log) : log[k].addr \in Int
      /\ entry.addr \in Int
  BY Constants DEF Grows, Entry, Offsets
<1>3. ASSUME NEW k \in 0 .. Len(log)
      PROVE  Step(k)' = Step(k) /\ Step(k) \in Int
  <2>1. CASE k = 0
    BY <2>1 DEF Step
  <2>2. CASE k = 1
    BY <1>1, <1>2, <2>2 DEF Step
  <2>3. CASE k # 0 /\ k # 1
    <3>1. k \in 1 .. Len(log) /\ k - 1 \in 1 .. Len(log)
      BY <1>1, <2>3
    <3>2. log'[k] = log[k] /\ log'[k - 1] = log[k - 1]
      BY <1>1, <3>1
    <3>3. QED BY <1>2, <2>3, <3>1, <3>2 DEF Step
  <2>4. QED BY <2>1, <2>2, <2>3
<1>4. Step(n)' = entry.addr - LastAddr /\ LastAddr \in Int
  <2>1. CASE Len(log) = 0
    BY <1>1, <1>2, <2>1 DEF Step, LastAddr
  <2>2. CASE Len(log) # 0
    <3>1. n # 0 /\ n # 1 /\ n - 1 = Len(log) /\ Len(log) \in 1 .. Len(log)
      BY <1>1, <2>2
    <3>2. log'[n - 1] = log[Len(log)]
      BY <1>1, <3>1
    <3>3. QED BY <1>1, <1>2, <2>2, <3>1, <3>2 DEF Step, LastAddr
  <2>3. QED BY <2>1, <2>2
<1>5. QED BY <1>2, <1>3, <1>4

LEMMA DistancesGrow ==
    ASSUME NEW entry, Grows(entry), NEW n \in Nat, n = Len(log) + 1
    PROVE  /\ \A k \in 1 .. Len(log) : Distances'[k] = Distances[k] /\ Distances[k] \in Nat
           /\ Distances'[n] = Distance(entry.addr, LastAddr)
           /\ Distances'[n] \in Nat
<1>1. /\ DOMAIN log' = 1 .. n /\ DOMAIN log = 1 .. Len(log) /\ n \in 1 .. n
      /\ \A k \in 1 .. Len(log) : k \in 1 .. n /\ k \in 0 .. Len(log)
  BY DEF Grows
<1>2. /\ \A k \in 0 .. Len(log) : Step(k)' = Step(k) /\ Step(k) \in Int
      /\ Step(n)' = entry.addr - LastAddr
      /\ LastAddr \in Int /\ entry.addr \in Int
  BY StepsGrow
<1>3. \A k \in 1 .. n : Distances'[k] = Distance(Step(k)', 0)
  BY <1>1 DEF Distances, Distance
<1>4. \A k \in 1 .. Len(log) : Distances[k] = Distance(Step(k), 0)
  BY <1>1 DEF Distances, Distance
<1>5. \A k \in 1 .. Len(log) : Distances'[k] = Distances[k] /\ Distances[k] \in Nat
  <2>1. \A k \in 1 .. Len(log) : Distances'[k] = Distances[k]
    BY <1>1, <1>2, <1>3, <1>4
  <2>2. \A k \in 1 .. Len(log) : Distances[k] \in Nat
    BY <1>1, <1>2, <1>4 DEF Distance
  <2>3. QED BY <2>1, <2>2
<1>6. Distances'[n] = Distance(entry.addr, LastAddr) /\ Distances'[n] \in Nat
  BY <1>1, <1>2, <1>3 DEF Distance
<1>7. QED BY <1>5, <1>6

(* Of the new access: it touches what the one before touched last or the    *)
(* bytes before it; it steps as far as the one before.                      *)
LEMMA SequencesGrow ==
    ASSUME NEW entry, Grows(entry), NEW n \in Nat, n = Len(log) + 1,
           metrics.last_access_bytes = LastAddr,
           metrics.last_access_stride = Step(Len(log))
    PROVE  /\ Adjacent \subseteq 1 .. Len(log) /\ Strided \subseteq 1 .. Len(log)
           /\ Adjacent' = With(Adjacent, n, IsSeq(metrics, entry.addr, entry.size))
           /\ Strided' = With(Strided, n, IsStride(metrics, entry.addr, entry.size))
<1> DEFINE a == IsSeq(metrics, entry.addr, entry.size)
           s == IsStride(metrics, entry.addr, entry.size)
<1>1. /\ DOMAIN log' = 1 .. n /\ DOMAIN log = 1 .. Len(log) /\ Len(log) \in Nat
      /\ \A k \in 1 .. Len(log) : log'[k] = log[k]
      /\ log'[n] = entry
      /\ n \notin 1 .. Len(log) /\ n - 1 = Len(log)
      /\ \A k : k \in 1 .. n <=> k \in 1 .. Len(log) \/ k = n
  BY DEF Grows
<1>2. \A k \in 1 .. Len(log) : Step(k)' = Step(k) /\ Step(k - 1)' = Step(k - 1)
  <2>1. \A k \in 1 .. Len(log) : k \in 0 .. Len(log) /\ k - 1 \in 0 .. Len(log)
    BY <1>1
  <2>2. QED BY <2>1, StepsGrow
<1>3. Step(n)' = entry.addr - metrics.last_access_bytes
      /\ Step(n - 1)' = metrics.last_access_stride
  <2>1. n - 1 \in 0 .. Len(log)
    BY <1>1
  <2>2. QED BY <1>1, <2>1, StepsGrow
<1>4. Adjacent' = {k \in 1 .. n : Step(k)' \in {log'[k].size, - log'[k].size}}
  BY <1>1 DEF Adjacent
<1>5. Adjacent = {k \in 1 .. Len(log) : Step(k) \in {log[k].size, - log[k].size}}
  BY <1>1 DEF Adjacent
<1>6. \A k \in 1 .. Len(log) : k \in Adjacent' <=> k \in Adjacent
  BY <1>1, <1>2, <1>4, <1>5
<1>7. n \in Adjacent' <=> a
  BY <1>1, <1>3, <1>4 DEF IsSeq
<1>8. Strided' = {k \in (1 .. n) \ Adjacent' : Step(k)' = Step(k - 1)'}
  BY <1>1 DEF Strided
<1>9. Strided = {k \in (1 .. Len(log)) \ Adjacent : Step(k) = Step(k - 1)}
  BY <1>1 DEF Strided
<1>10. \A k \in 1 .. Len(log) : k \in Strided' <=> k \in Strided
  BY <1>1, <1>2, <1>6, <1>8, <1>9
<1>11. n \in Strided' <=> s
  BY <1>1, <1>3, <1>7, <1>8 DEF IsStride
<1> HIDE DEF a, s
<1>12. /\ Adjacent \subseteq 1 .. Len(log) /\ Strided \subseteq 1 .. Len(log)
       /\ \A k : k \in Adjacent' => k \in 1 .. Len(log) \/ k = n
       /\ \A k : k \in Strided' => k \in 1 .. Len(log) \/ k = n
  BY <1>1, <1>4, <1>5, <1>8, <1>9
<1>13. Adjacent' = With(Adjacent, n, a)
  BY <1>1, <1>6, <1>7, <1>12 DEF With
<1>14. Strided' = With(Strided, n, s)
  BY <1>1, <1>10, <1>11, <1>12 DEF With
<1>15. QED BY <1>12, <1>13, <1>14 DEF a, s

DistancesAddUp ==
    Small(Distances, DOMAIN log) =>
       metrics.avg_offset_bytes = SumFunctionOnSet(Distances, DOMAIN log)

OffsetsInv ==
    /\ DistancesAddUp
    /\ metrics.seq_byte_count = Cardinality(Adjacent)
    /\ metrics.stride_count = Cardinality(Strided)
    /\ metrics.access_ops = Len(log) /\ metrics.reference_count = Len(log)
    /\ metrics.last_access_bytes = LastAddr
    /\ metrics.last_access_stride = Step(Len(log))

LEMMA DistancesAddUpGrows ==
    ASSUME NEW entry, Grows(entry), DistancesAddUp, metrics.avg_offset_bytes \in Int,
           metrics'.avg_offset_bytes =
              metrics.avg_offset_bytes + abs(entry.addr - LastAddr)
    PROVE  DistancesAddUp'
<1> DEFINE F == Distances
           G == Distances'
           d == abs(entry.addr - LastAddr)
           S == DOMAIN log
           T == DOMAIN log'
<1>1. PICK n \in Nat : n = Len(log) + 1
  BY DEF Grows
<1>2. /\ S = 1 .. Len(log) /\ Len(log) \in Nat /\ n \notin S
      /\ T = S \cup {n}
  BY <1>1 DEF Grows
<1>3. /\ \A k \in S : F[k] = G[k]
      /\ \A k \in S : F[k] \in Int
      /\ G[n] = Distance(entry.addr, LastAddr) /\ G[n] \in Int
  BY <1>1, <1>2, DistancesGrow
<1>4. IsFiniteSet(S)
  BY <1>2, FS_Interval
<1>5. LastAddr \in Int /\ entry.addr \in Int
  BY <1>1, StepsGrow
<1>6. metrics'.avg_offset_bytes = metrics.avg_offset_bytes + d
  OBVIOUS
<1>7. 2 * G[n] < INT_RANGE => d = G[n]
  BY <1>3, <1>5, AbsIsDistance
<1>8. Small(F, S) => metrics.avg_offset_bytes = SumFunctionOnSet(F, S)
  BY DEF DistancesAddUp
<1> HIDE DEF F, G, S, T, d
<1>9. SumFunctionOnSet(F, S) \in Int
  BY <1>3, <1>4, SumInt
<1>10. SumFunctionOnSet(G, S) = SumFunctionOnSet(F, S)
  BY <1>3, <1>4, SumSame
<1>11. SumFunctionOnSet(G, T) = G[n] + SumFunctionOnSet(G, S)
  <2>1. \A k \in S : G[k] \in Int
    BY <1>3
  <2>2. SumFunctionOnSet(G, S \cup {n}) = G[n] + SumFunctionOnSet(G, S)
    BY <1>2, <1>3, <1>4, <2>1, SumAdd
  <2>3. QED BY <1>2, <2>2
<1>12. ASSUME Small(G, T)
       PROVE  metrics'.avg_offset_bytes = SumFunctionOnSet(G, T)
  <2>1. Small(F, S) /\ 2 * G[n] < INT_RANGE
    BY <1>2, <1>3, <1>12 DEF Small
  <2>2. SumFunctionOnSet(G, T) = G[n] + SumFunctionOnSet(F, S)
    BY <1>10, <1>11
  <2>3. QED BY <1>3, <1>6, <1>7, <1>8, <1>9, <2>1, <2>2
<1>13. QED BY <1>12 DEF DistancesAddUp, Small, F, G, S, T

LEMMA AccessKeepsOffsets ==
    ASSUME HistoryType, OffsetsInv, NEW addr \in Offsets, NEW size \in AccessSizes,
           NEW flag \in {0, 1}, Access(addr, size, flag)
    PROVE  OffsetsInv'
<1> DEFINE entry == NewEntry(addr, size, flag)
           a == IsSeq(metrics, addr, size)
           s == IsStride(metrics, addr, size)
<1>1. /\ Grows(entry) /\ OffsetEffect(metrics, metrics', addr, size)
      /\ VolumeEffect(metrics, metrics', size, flag)
  BY AccessEffect
<1>2. entry.addr = addr /\ entry.size = size
  BY DEF NewEntry
<1> HIDE DEF entry
<1>3. PICK n \in Nat : n = Len(log) + 1 /\ Len(log) \in Nat /\ Len(log') = n /\ log'[n] = entry
  BY <1>1 DEF Grows
<1>4. /\ metrics.avg_offset_bytes \in Int
      /\ metrics.last_access_bytes = LastAddr
      /\ metrics.last_access_stride = Step(Len(log))
  BY DEF HistoryType, MetricsType, Counters, OffsetsInv
<1>5. DistancesAddUp'
  <2>1. metrics'.avg_offset_bytes = metrics.avg_offset_bytes + abs(entry.addr - LastAddr)
    BY <1>1, <1>2, <1>4 DEF OffsetEffect
  <2>2. QED BY <1>1, <1>4, <2>1, DistancesAddUpGrows DEF OffsetsInv
<1>6. /\ Adjacent \subseteq 1 .. Len(log) /\ Strided \subseteq 1 .. Len(log)
      /\ Adjacent' = With(Adjacent, n, a) /\ Strided' = With(Strided, n, s)
  BY <1>1, <1>2, <1>3, <1>4, SequencesGrow
<1>7. a \in BOOLEAN /\ s \in BOOLEAN
  BY DEF IsSeq, IsStride
<1> HIDE DEF a, s
<1>8. /\ Cardinality(Adjacent') = Cardinality(Adjacent) + Count(a)
      /\ Cardinality(Strided') = Cardinality(Strided) + Count(s)
  BY <1>3, <1>6, <1>7, CountGrows
<1>9. /\ metrics'.seq_byte_count = Cardinality(Adjacent')
      /\ metrics'.stride_count = Cardinality(Strided')
  BY <1>1, <1>8 DEF OffsetEffect, OffsetsInv, a, s
<1>10. metrics'.access_ops = Len(log') /\ metrics'.reference_count = Len(log')
  BY <1>1, <1>3 DEF VolumeEffect, OffsetsInv
<1>11. metrics'.last_access_bytes = LastAddr'
  BY <1>1, <1>2, <1>3 DEF OffsetEffect, LastAddr
<1>12. metrics'.last_access_stride = Step(Len(log))'
  <2>1. Step(Len(log))' = Step(n)'
    BY <1>3 DEF Step
  <2>2. QED BY <1>1, <1>2, <1>3, <1>4, <2>1, StepsGrow DEF OffsetEffect
<1>13. QED BY <1>5, <1>9, <1>10, <1>11, <1>12 DEF OffsetsInv

-----------------------------------------------------------------------------
(* Episodes.                                                                *)

(* The accesses of episode e, and the reads.                                *)
Now(e) == {k \in DOMAIN log : log[k].ins \div EPISODE_LEN = e - 1}

Reads == {k \in DOMAIN log : log[k].flag = 0}

Temporal == Preceded(CACHE_LINE_SIZE, Same)

Sizes == [k \in DOMAIN log |-> log[k].size]

LEMMA NowGrows ==
    ASSUME NEW entry, Grows(entry), NEW n \in Nat, n = Len(log) + 1, NEW e
    PROVE  /\ Now(e) \subseteq 1 .. Len(log) /\ Reads \subseteq 1 .. Len(log)
           /\ Now(e)' = With(Now(e), n, entry.ins \div EPISODE_LEN = e - 1)
           /\ Reads' = With(Reads, n, entry.flag = 0)
<1>1. /\ DOMAIN log' = (1 .. Len(log)) \cup {n} /\ DOMAIN log = 1 .. Len(log)
      /\ \A k \in 1 .. Len(log) : log'[k] = log[k]
      /\ log'[n] = entry /\ n \notin 1 .. Len(log)
  BY DEF Grows
<1>2. Now(e)' = {k \in DOMAIN log' : log'[k].ins \div EPISODE_LEN = e - 1}
  BY DEF Now
<1>3. Reads' = {k \in DOMAIN log' : log'[k].flag = 0}
  BY DEF Reads
<1>4. Now(e)' = With(Now(e), n, entry.ins \div EPISODE_LEN = e - 1)
  BY <1>1, <1>2 DEF Now, With
<1>5. Reads' = With(Reads, n, entry.flag = 0)
  BY <1>1, <1>3 DEF Reads, With
<1>6. QED BY <1>1, <1>4, <1>5 DEF Now, Reads

(* The bytes of a part of the history that the new access joins or not.     *)
LEMMA BytesGrow ==
    ASSUME NEW entry, Grows(entry), NEW n \in Nat, n = Len(log) + 1,
           NEW S, S \subseteq 1 .. Len(log), NEW T, T = S \/ T = S \cup {n}
    PROVE  /\ Bytes(S) \in Int
           /\ SumFunctionOnSet(Sizes', T) = Bytes(S) + IF n \in T THEN entry.size ELSE 0
<1> DEFINE F == Sizes
           G == Sizes'
<1>1. /\ DOMAIN log' = (1 .. Len(log)) \cup {n} /\ DOMAIN log = 1 .. Len(log)
      /\ \A k \in 1 .. Len(log) : log'[k] = log[k]
      /\ log'[n] = entry /\ n \notin 1 .. Len(log)
      /\ Len(log) \in Nat
  BY DEF Grows
<1>2. (\A k \in 1 .. Len(log) : log[k].size \in Int) /\ entry.size \in Int
  <2>1. \A x \in Entry : x.size \in AccessSizes
    BY DEF Entry
  <2>2. \A x \in AccessSizes : x \in Int
    BY Constants
  <2>3. entry \in Entry /\ \A k \in 1 .. Len(log) : log[k] \in Entry
    BY DEF Grows
  <2>4. QED BY <2>1, <2>2, <2>3
<1>3. G = [k \in DOMAIN log' |-> log'[k].size]
  BY DEF Sizes
<1>4. /\ \A k \in S : F[k] = G[k]
      /\ \A k \in S : F[k] \in Int
      /\ G[n] = entry.size /\ G[n] \in Int
  BY <1>1, <1>2, <1>3 DEF Sizes
<1>5. IsFiniteSet(S) /\ n \notin S
  BY <1>1, HistorySetFinite
<1>6. Bytes(S) = SumFunctionOnSet(F, S)
  BY DEF Bytes, Sizes
<1> HIDE DEF F, G
<1>7. SumFunctionOnSet(F, S) \in Int
  BY <1>4, <1>5, SumInt
<1>8. SumFunctionOnSet(G, S) = Bytes(S)
  BY <1>4, <1>5, <1>6, SumSame
<1>9. CASE T = S \cup {n}
  <2>1. \A k \in S : G[k] \in Int
    BY <1>4
  <2>2. SumFunctionOnSet(G, S \cup {n}) = G[n] + SumFunctionOnSet(G, S)
    BY <1>4, <1>5, <2>1, SumAdd
  <2>3. SumFunctionOnSet(G, T) = entry.size + Bytes(S)
    BY <1>4, <1>8, <1>9, <2>2
  <2>4. entry.size + Bytes(S) = Bytes(S) + entry.size
    BY <1>2, <1>6, <1>7
  <2>5. n \in T
    BY <1>9
  <2>6. QED BY <1>6, <1>7, <2>3, <2>4, <2>5 DEF G
<1>10. CASE T = S
  BY <1>5, <1>6, <1>7, <1>8, <1>10 DEF G
<1>11. QED BY <1>9, <1>10

(* What an access adds to the parts of episode e.                           *)
LEMMA AccessParts ==
    ASSUME HistoryType, LocalityInv, OffsetsInv, NEW addr \in Offsets,
           NEW size \in AccessSizes, NEW flag \in {0, 1}, Access(addr, size, flag), NEW e
    PROVE  LET now == ins_count \div EPISODE_LEN = e - 1
               r   == Recently(addr \div CACHE_LINE_SIZE, CACHE_LINE_SIZE, Same, ins_count)
           IN  /\ Bytes(Now(e))' = Bytes(Now(e)) + IF now THEN size ELSE 0
               /\ Bytes(Now(e) \cap Reads)' = Bytes(Now(e) \cap Reads)
                     + IF now /\ flag = 0 THEN size ELSE 0
               /\ Bytes(Now(e) \cap Adjacent)' = Bytes(Now(e) \cap Adjacent)
                     + IF now /\ IsSeq(metrics, addr, size) THEN size ELSE 0
               /\ Bytes(Now(e) \cap Strided)' = Bytes(Now(e) \cap Strided)
                     + IF now /\ IsStride(metrics, addr, size) THEN size ELSE 0
               /\ Cardinality(Now(e) \cap Temporal)' = Cardinality(Now(e) \cap Temporal)
                     + Count(now /\ r)
               /\ Bytes(Now(e)) \in Int /\ Bytes(Now(e) \cap Reads) \in Int
               /\ Bytes(Now(e) \cap Adjacent) \in Int /\ Bytes(Now(e) \cap Strided) \in Int
               /\ Cardinality(Now(e) \cap Temporal) \in Int
<1> DEFINE entry == NewEntry(addr, size, flag)
           now == ins_count \div EPISODE_LEN = e - 1
           r   == Recently(addr \div CACHE_LINE_SIZE, CACHE_LINE_SIZE, Same, ins_count)
           a   == IsSeq(metrics, addr, size)
           s   == IsStride(metrics, addr, size)
           w   == flag = 0
<1>1. Grows(entry)
  BY AccessEffect
<1>2. entry.addr = addr /\ entry.size = size /\ entry.flag = flag /\ entry.ins = ins_count
  BY DEF NewEntry
<1> HIDE DEF entry
<1>3. PICK n \in Nat : n = Len(log) + 1
  BY <1>1 DEF Grows
<1>4. \A X : SumFunctionOnSet(Sizes', X) =
             SumFunctionOnSet([k \in DOMAIN log' |-> log'[k].size], X)
  BY DEF Sizes
<1>5. now \in BOOLEAN /\ r \in BOOLEAN /\ a \in BOOLEAN /\ s \in BOOLEAN /\ w \in BOOLEAN
  BY DEF Recently, IsSeq, IsStride
<1>6. /\ Now(e) \subseteq 1 .. Len(log) /\ Now(e)' = With(Now(e), n, now)
      /\ Reads \subseteq 1 .. Len(log) /\ Reads' = With(Reads, n, w)
  BY <1>1, <1>2, <1>3, NowGrows
<1>7. /\ Adjacent \subseteq 1 .. Len(log) /\ Adjacent' = With(Adjacent, n, a)
      /\ Strided \subseteq 1 .. Len(log) /\ Strided' = With(Strided, n, s)
  BY <1>1, <1>2, <1>3, SequencesGrow DEF OffsetsInv
<1>8. Temporal \subseteq 1 .. Len(log) /\ Temporal' = With(Temporal, n, r)
  <2>1. /\ Preceded(CACHE_LINE_SIZE, Same) \subseteq 1 .. Len(log)
        /\ Preceded(CACHE_LINE_SIZE, Same)' =
              With(Preceded(CACHE_LINE_SIZE, Same), Len(log) + 1, r)
    BY <1>1, <1>2, Constants, PrecededGrows
  <2>2. Same' = Same
    BY DEF Same
  <2>3. Temporal' = Preceded(CACHE_LINE_SIZE, Same)'
    BY <2>2 DEF Temporal, Preceded
  <2>4. QED BY <1>3, <2>1, <2>3 DEF Temporal
<1>9. n \notin 1 .. Len(log)
  BY <1>1, <1>3 DEF Grows
<1>10. ASSUME NEW Y, Y \subseteq 1 .. Len(log), NEW Z, Z = Y \/ Z = Y \cup {n}
       PROVE  /\ SumFunctionOnSet(Sizes', Now(e)' \cap Z) =
                    Bytes(Now(e) \cap Y) + IF now /\ n \in Z THEN size ELSE 0
              /\ Bytes(Now(e) \cap Y) \in Int
              /\ Cardinality(Now(e)' \cap Z) =
                    Cardinality(Now(e) \cap Y) + Count(now /\ n \in Z)
              /\ Cardinality(Now(e) \cap Y) \in Int
  <2> DEFINE S == Now(e) \cap Y
             T == Now(e)' \cap Z
  <2>1. S \subseteq 1 .. Len(log)
    BY <1>6
  <2>2. T = S \/ T = S \cup {n}
    BY <1>6, <1>9, <1>10 DEF With
  <2>3. n \in T <=> now /\ n \in Z
    BY <1>6, <1>9 DEF With
  <2> HIDE DEF S, T, now
  <2>4. /\ Bytes(S) \in Int
        /\ SumFunctionOnSet(Sizes', T) = Bytes(S) + IF n \in T THEN entry.size ELSE 0
    <3>1. \A U : U = S \/ U = S \cup {n} =>
             /\ Bytes(S) \in Int
             /\ SumFunctionOnSet(Sizes', U) = Bytes(S) + IF n \in U THEN entry.size ELSE 0
      BY Grows(entry), n \in Nat, n = Len(log) + 1, <1>1, <1>3, <2>1, BytesGrow, Zenon
    <3>2. QED BY <2>2, <3>1, Zenon
  <2>5. IsFiniteSet(S) /\ Cardinality(S) \in Nat /\ n \notin S
    BY <1>1, <1>9, <2>1, HistorySetFinite DEF Grows
  <2>6. Cardinality(T) = Cardinality(S) + Count(n \in T)
    <3>1. CASE T = S
      BY <2>5, <3>1 DEF Count
    <3>2. CASE T = S \cup {n}
      BY <2>5, <3>2, FS_AddElement DEF Count
    <3>3. QED BY <2>2, <3>1, <3>2
  <2>7. Cardinality(S) \in Int
    BY <2>5
  <2>8. QED BY <1>2, <2>3, <2>4, <2>6, <2>7, Zenon DEF S, T, Count
<1>11. Bytes(Now(e)) \in Int
       /\ SumFunctionOnSet(Sizes', Now(e)') = Bytes(Now(e)) + IF now THEN size ELSE 0
  <2>1. /\ Now(e)' = Now(e) \/ Now(e)' = Now(e) \cup {n}
        /\ n \in Now(e)' <=> now
    BY <1>6, <1>9 DEF With
  <2>2. /\ Bytes(Now(e)) \in Int
        /\ SumFunctionOnSet(Sizes', Now(e)') =
              Bytes(Now(e)) + IF n \in Now(e)' THEN entry.size ELSE 0
    BY <1>1, <1>3, <1>6, <2>1, BytesGrow
  <2>3. QED BY <1>2, <2>1, <2>2
<1> HIDE DEF now, r, a, s, w
<1>12. Bytes(Now(e))' = Bytes(Now(e)) + IF now THEN size ELSE 0
  BY <1>4, <1>11 DEF Bytes
<1>13. /\ Bytes(Now(e) \cap Reads)' =
             Bytes(Now(e) \cap Reads) + IF now /\ w THEN size ELSE 0
       /\ Bytes(Now(e) \cap Reads) \in Int
  <2>1. Bytes(Now(e) \cap Reads)' = SumFunctionOnSet(Sizes', Now(e)' \cap Reads')
    BY <1>4 DEF Bytes
  <2>2. (Reads' = Reads \/ Reads' = Reads \cup {n}) /\ (n \in Reads' <=> w)
    BY <1>6, <1>9 DEF With
  <2>3. Reads \subseteq 1 .. Len(log)
    BY <1>6
  <2> DEFINE Y == Reads
             Z == Reads'
  <2> HIDE DEF Y, Z
  <2>4. (Z = Y \/ Z = Y \cup {n}) /\ Y \subseteq 1 .. Len(log)
    BY <2>2, <2>3 DEF Y, Z
  <2>5. /\ SumFunctionOnSet(Sizes', Now(e)' \cap Z) =
              Bytes(Now(e) \cap Y) + IF now /\ n \in Z THEN size ELSE 0
        /\ Bytes(Now(e) \cap Y) \in Int
    BY <1>10, <2>4
  <2>6. QED BY <2>1, <2>2, <2>5 DEF Y, Z
<1>14. /\ Bytes(Now(e) \cap Adjacent)' =
             Bytes(Now(e) \cap Adjacent) + IF now /\ a THEN size ELSE 0
       /\ Bytes(Now(e) \cap Adjacent) \in Int
  <2>1. Bytes(Now(e) \cap Adjacent)' = SumFunctionOnSet(Sizes', Now(e)' \cap Adjacent')
    BY <1>4 DEF Bytes
  <2>2. (Adjacent' = Adjacent \/ Adjacent' = Adjacent \cup {n}) /\ (n \in Adjacent' <=> a)
    BY <1>7, <1>9 DEF With
  <2>3. Adjacent \subseteq 1 .. Len(log)
    BY <1>7
  <2> DEFINE Y == Adjacent
             Z == Adjacent'
  <2> HIDE DEF Y, Z
  <2>4. (Z = Y \/ Z = Y \cup {n}) /\ Y \subseteq 1 .. Len(log)
    BY <2>2, <2>3 DEF Y, Z
  <2>5. /\ SumFunctionOnSet(Sizes', Now(e)' \cap Z) =
              Bytes(Now(e) \cap Y) + IF now /\ n \in Z THEN size ELSE 0
        /\ Bytes(Now(e) \cap Y) \in Int
    BY <1>10, <2>4
  <2>6. QED BY <2>1, <2>2, <2>5 DEF Y, Z
<1>15. /\ Bytes(Now(e) \cap Strided)' =
             Bytes(Now(e) \cap Strided) + IF now /\ s THEN size ELSE 0
       /\ Bytes(Now(e) \cap Strided) \in Int
  <2>1. Bytes(Now(e) \cap Strided)' = SumFunctionOnSet(Sizes', Now(e)' \cap Strided')
    BY <1>4 DEF Bytes
  <2>2. (Strided' = Strided \/ Strided' = Strided \cup {n}) /\ (n \in Strided' <=> s)
    BY <1>7, <1>9 DEF With
  <2>3. Strided \subseteq 1 .. Len(log)
    BY <1>7
  <2> DEFINE Y == Strided
             Z == Strided'
  <2> HIDE DEF Y, Z
  <2>4. (Z = Y \/ Z = Y \cup {n}) /\ Y \subseteq 1 .. Len(log)
    BY <2>2, <2>3 DEF Y, Z
  <2>5. /\ SumFunctionOnSet(Sizes', Now(e)' \cap Z) =
              Bytes(Now(e) \cap Y) + IF now /\ n \in Z THEN size ELSE 0
        /\ Bytes(Now(e) \cap Y) \in Int
    BY <1>10, <2>4
  <2>6. QED BY <2>1, <2>2, <2>5 DEF Y, Z
<1>16. /\ Cardinality(Now(e) \cap Temporal)' =
             Cardinality(Now(e) \cap Temporal) + Count(now /\ r)
       /\ Cardinality(Now(e) \cap Temporal) \in Int
  <2>1. (Temporal' = Temporal \/ Temporal' = Temporal \cup {n}) /\ (n \in Temporal' <=> r)
    BY <1>8, <1>9 DEF With
  <2> DEFINE Y == Temporal
             Z == Temporal'
  <2> HIDE DEF Y, Z
  <2>2. (Z = Y \/ Z = Y \cup {n}) /\ Y \subseteq 1 .. Len(log)
    BY <1>8, <2>1 DEF Y, Z
  <2>3. /\ Cardinality(Now(e)' \cap Z) = Cardinality(Now(e) \cap Y) + Count(now /\ n \in Z)
        /\ Cardinality(Now(e) \cap Y) \in Int
    BY <1>10, <2>2
  <2>4. QED BY <2>1, <2>3 DEF Y, Z, Count
<1>17. QED BY <1>11, <1>12, <1>13, <1>14, <1>15, <1>16, Zenon DEF now, r, a, s, w

ReportType == [volume : Int, read : Int, seq : Int, stride : Int, temporal : Int]

(* The totals since the last report are those of episode e.                 *)
Unreported(e) ==
    /\ metrics.access_volume = saved.volume + Bytes(Now(e))
    /\ metrics.read_volume = saved.read + Bytes(Now(e) \cap Reads)
    /\ metrics.seq_volume = saved.seq + Bytes(Now(e) \cap Adjacent)
    /\ metrics.stride_volume = saved.stride + Bytes(Now(e) \cap Strided)
    /\ metrics.temperal_count_cache = saved.temporal + Cardinality(Now(e) \cap Temporal)

(* A report of episode e.                                                   *)
Reports(d, e) ==
    /\ d.volume = Bytes(Now(e))
    /\ d.read = Bytes(Now(e) \cap Reads)
    /\ d.seq = Bytes(Now(e) \cap Adjacent)
    /\ d.stride = Bytes(Now(e) \cap Strided)
    /\ d.temporal = Cardinality(Now(e) \cap Temporal)

EpisodesInv ==
    /\ episodes \in Seq(ReportType) /\ saved \in ReportType
    /\ freed \in BOOLEAN
    /\ \A e \in DOMAIN episodes : Reports(episodes[e], e)
    /\ ~freed => Len(episodes) = ins_count \div EPISODE_LEN
    /\ ~freed => Unreported(Len(episodes) + 1)

LEMMA ReportsMatch ==
    EpisodesInv => EpisodesMatchHistory
<1> SUFFICES ASSUME EpisodesInv, NEW e \in DOMAIN episodes
             PROVE  LET now == {k \in DOMAIN log : log[k].ins \div EPISODE_LEN = e - 1}
                    IN  /\ episodes[e].volume = Bytes(now)
                        /\ episodes[e].read = Bytes({k \in now : log[k].flag = 0})
                        /\ episodes[e].seq = Bytes(now \cap Adjacent)
                        /\ episodes[e].stride = Bytes(now \cap Strided)
                        /\ episodes[e].temporal =
                              Cardinality(now \cap Preceded(CACHE_LINE_SIZE, Same))
  BY DEF EpisodesMatchHistory
<1>1. Reports(episodes[e], e)
  BY DEF EpisodesInv
<1>2. {k \in Now(e) : log[k].flag = 0} = Now(e) \cap Reads
  BY DEF Now, Reads
<1>3. {k \in DOMAIN log : log[k].ins \div EPISODE_LEN = e - 1} = Now(e)
  BY DEF Now
<1>4. QED BY <1>1, <1>2, <1>3 DEF Reports, Temporal

LEMMA AccessKeepsEpisodes ==
    ASSUME HistoryType, LocalityInv, OffsetsInv, EpisodesInv, NEW addr \in Offsets,
           NEW size \in AccessSizes, NEW flag \in {0, 1}, Access(addr, size, flag)
    PROVE  EpisodesInv'
<1> DEFINE l == addr \div CACHE_LINE_SIZE
           r == Recently(l, CACHE_LINE_SIZE, Same, ins_count)
<1>1. /\ ~freed /\ UNCHANGED <<ins_count, saved, episodes, freed>>
  BY DEF Access
<1>2. /\ VolumeEffect(metrics, metrics', size, flag)
      /\ OffsetEffect(metrics, metrics', addr, size)
      /\ CacheEffect(metrics, metrics', l, ins_count)
  BY AccessEffect
<1>3. PICK m \in Nat : m = Len(episodes) /\ DOMAIN episodes = 1 .. m
  BY LenProperties DEF EpisodesInv
<1>4. ins_count \div EPISODE_LEN = m /\ Unreported(m + 1)
  BY <1>1, <1>3 DEF EpisodesInv
<1>5. ASSUME NEW e \in DOMAIN episodes
      PROVE  Reports(episodes[e], e)'
  <2>1. e \in Int /\ e - 1 # m
    BY <1>3
  <2>2. ins_count \div EPISODE_LEN # e - 1
    BY <1>4, <2>1
  <2>3. /\ Bytes(Now(e))' = Bytes(Now(e)) + 0 /\ Bytes(Now(e)) \in Int
        /\ Bytes(Now(e) \cap Reads)' = Bytes(Now(e) \cap Reads) + 0
        /\ Bytes(Now(e) \cap Reads) \in Int
        /\ Bytes(Now(e) \cap Adjacent)' = Bytes(Now(e) \cap Adjacent) + 0
        /\ Bytes(Now(e) \cap Adjacent) \in Int
        /\ Bytes(Now(e) \cap Strided)' = Bytes(Now(e) \cap Strided) + 0
        /\ Bytes(Now(e) \cap Strided) \in Int
        /\ Cardinality(Now(e) \cap Temporal)' = Cardinality(Now(e) \cap Temporal) + 0
        /\ Cardinality(Now(e) \cap Temporal) \in Int
    BY <2>2, AccessParts DEF Count
  <2>4. Reports(episodes[e], e)
    BY DEF EpisodesInv
  <2>5. QED BY <1>1, <2>3, <2>4 DEF Reports
<1>6. Unreported(m + 1)'
  <2> DEFINE e == m + 1
  <2>1. ins_count \div EPISODE_LEN = e - 1
    BY <1>4
  <2>2. /\ metrics.access_volume \in Int /\ metrics.read_volume \in Int
        /\ metrics.seq_volume \in Int /\ metrics.stride_volume \in Int
        /\ metrics.temperal_count_cache \in Int
    BY DEF HistoryType, MetricsType, Counters
  <2>3. /\ saved.volume \in Int /\ saved.read \in Int /\ saved.seq \in Int
        /\ saved.stride \in Int /\ saved.temporal \in Int /\ size \in Int
    BY Constants DEF EpisodesInv, ReportType
  <2> HIDE DEF e
  <2>4. /\ Bytes(Now(e))' = Bytes(Now(e)) + size /\ Bytes(Now(e)) \in Int
        /\ Bytes(Now(e) \cap Reads)'
              = Bytes(Now(e) \cap Reads) + IF flag = 0 THEN size ELSE 0
        /\ Bytes(Now(e) \cap Reads) \in Int
        /\ Bytes(Now(e) \cap Adjacent)' = Bytes(Now(e) \cap Adjacent)
              + IF IsSeq(metrics, addr, size) THEN size ELSE 0
        /\ Bytes(Now(e) \cap Adjacent) \in Int
        /\ Bytes(Now(e) \cap Strided)' = Bytes(Now(e) \cap Strided)
              + IF IsStride(metrics, addr, size) THEN size ELSE 0
        /\ Bytes(Now(e) \cap Strided) \in Int
        /\ Cardinality(Now(e) \cap Temporal)' = Cardinality(Now(e) \cap Temporal) + Count(r)
        /\ Cardinality(Now(e) \cap Temporal) \in Int
    <3> DEFINE inside == ins_count \div EPISODE_LEN = e - 1
    <3>1. LET now == ins_count \div EPISODE_LEN = e - 1
              r1   == Recently(addr \div CACHE_LINE_SIZE, CACHE_LINE_SIZE, Same, ins_count)
          IN  /\ Bytes(Now(e))' = Bytes(Now(e)) + IF now THEN size ELSE 0
              /\ Bytes(Now(e) \cap Reads)' = Bytes(Now(e) \cap Reads)
                    + IF now /\ flag = 0 THEN size ELSE 0
              /\ Bytes(Now(e) \cap Adjacent)' = Bytes(Now(e) \cap Adjacent)
                    + IF now /\ IsSeq(metrics, addr, size) THEN size ELSE 0
              /\ Bytes(Now(e) \cap Strided)' = Bytes(Now(e) \cap Strided)
                    + IF now /\ IsStride(metrics, addr, size) THEN size ELSE 0
              /\ Cardinality(Now(e) \cap Temporal)' = Cardinality(Now(e) \cap Temporal)
                    + Count(now /\ r1)
              /\ Bytes(Now(e)) \in Int /\ Bytes(Now(e) \cap Reads) \in Int
              /\ Bytes(Now(e) \cap Adjacent) \in Int /\ Bytes(Now(e) \cap Strided) \in Int
              /\ Cardinality(Now(e) \cap Temporal) \in Int
      BY AccessParts
    <3>2. inside
      BY <2>1
    <3> HIDE DEF inside
    <3>3. QED BY <3>1, <3>2, Zenon DEF inside, Count
  <2>5. /\ size * Count(flag # 1) = IF flag = 0 THEN size ELSE 0
        /\ size * Count(IsSeq(metrics, addr, size))
              = IF IsSeq(metrics, addr, size) THEN size ELSE 0
        /\ size * Count(IsStride(metrics, addr, size))
              = IF IsStride(metrics, addr, size) THEN size ELSE 0
    BY <2>3 DEF Count
  <2>6. Count(Recent(ins_count, metrics.last_access_ins_cache[l])) = Count(r) /\ Count(r) \in Int
    <3>1. metrics.last_access_ins_cache \in [Units(CACHE_LINE_SIZE) -> Int]
          /\ Remembers(metrics.last_access_ins_cache, CACHE_LINE_SIZE) /\ ins_count \in Nat
      BY DEF HistoryType, MetricsType, LocalityInv
    <3>2. l \in Units(CACHE_LINE_SIZE) /\ l \in Int
      BY Constants, UnitOfOffset
    <3>3. /\ Len(log) \in Nat /\ DOMAIN log = 1 .. Len(log)
          /\ \A k \in 1 .. Len(log) : log[k] \in Entry
      BY AccessEffect DEF Grows
    <3>4. QED BY <3>1, <3>2, <3>3, Constants, SpatialIsRecently DEF Count
  <2>7. /\ metrics'.access_volume = metrics.access_volume + size
        /\ metrics'.read_volume = metrics.read_volume + IF flag = 0 THEN size ELSE 0
        /\ metrics'.seq_volume = metrics.seq_volume
              + IF IsSeq(metrics, addr, size) THEN size ELSE 0
        /\ metrics'.stride_volume = metrics.stride_volume
              + IF IsStride(metrics, addr, size) THEN size ELSE 0
        /\ metrics'.temperal_count_cache = metrics.temperal_count_cache + Count(r)
    BY <1>2, <2>5, <2>6 DEF VolumeEffect, OffsetEffect, CacheEffect
  <2>8. Unreported(e) /\ saved' = saved
    BY <1>1, <1>4 DEF e
  <2> HIDE DEF r
  <2>9. Unreported(e)'
    BY <2>2, <2>3, <2>4, <2>6, <2>7, <2>8 DEF Unreported
  <2>10. QED BY <2>9 DEF e
<1>7. QED BY <1>1, <1>3, <1>5, <1>6 DEF EpisodesInv, Unreported


-----------------------------------------------------------------------------
(* The other steps.                                                         *)

(* Only metrics and the history matter to these parts.                      *)
LEMMA HistoryKept ==
    ASSUME UNCHANGED <<metrics, log>>
    PROVE  /\ LocalityInv => LocalityInv'
           /\ PagesInv => PagesInv'
           /\ OffsetsInv => OffsetsInv'
<1>1. LocalityInv => LocalityInv'
  BY DEF LocalityInv, LocalityMatchesHistory, Remembers, Preceded, Same, Beside
<1>2. PagesInv => PagesInv'
  <2>1. PageCountersMatchVisits => PageCountersMatchVisits'
    <3>1. Visits' = Visits
      BY DEF Visits, Page
    <3>2. {k \in Visits : \E j \in VisitOf(k) : log[j].flag = 1}'
            = {k \in Visits : \E j \in VisitOf(k) : log[j].flag = 1}
      BY DEF VisitOf, Visits, Page
    <3>3. {k \in Visits :
             /\ Before(k) # 0
             /\ Page(k) - Page(Before(k)) \in {-1, 1}
             /\ Page(k) - Page(Before(k)) = Page(Before(k)) - Page(Before(Before(k)))}'
            = {k \in Visits :
             /\ Before(k) # 0
             /\ Page(k) - Page(Before(k)) \in {-1, 1}
             /\ Page(k) - Page(Before(k)) = Page(Before(k)) - Page(Before(Before(k)))}
      BY DEF Before, Visits, Page
    <3>4. \A p : {k \in Visits : Page(k) = p}' = {k \in Visits : Page(k) = p}
      BY DEF Visits, Page
    <3>5. QED BY <3>1, <3>2, <3>3, <3>4 DEF PageCountersMatchVisits
  <2>2. JumpsAddUp => JumpsAddUp'
    BY DEF JumpsAddUp, Jumps, Small, Visits, Before, Page
  <2>3. LastPage => LastPage'
    BY DEF LastPage, Current, Before, Visits, Page
  <2>4. DirectionKept => DirectionKept'
    BY DEF DirectionKept, Current, Before, Visits, Page
  <2>5. DirtyKept => DirtyKept'
    BY DEF DirtyKept, Dirty, Writes, Current, VisitOf, Before, Visits, Page
  <2>6. Page(Len(log))' = Page(Len(log))
    BY DEF Page
  <2>7. QED BY <2>1, <2>2, <2>3, <2>4, <2>5, <2>6 DEF PagesInv
<1>3. OffsetsInv => OffsetsInv'
  BY DEF OffsetsInv, DistancesAddUp, Distances, Adjacent, Strided, Step, LastAddr, Small
<1>4. QED BY <1>1, <1>2, <1>3

(* The accesses, bytes and reports of an episode do not change either.      *)
LEMMA PartsKept ==
    ASSUME UNCHANGED log, NEW e
    PROVE  /\ UNCHANGED <<Bytes(Now(e)), Bytes(Now(e) \cap Reads),
                          Bytes(Now(e) \cap Adjacent), Bytes(Now(e) \cap Strided),
                          Cardinality(Now(e) \cap Temporal)>>
           /\ \A d : Reports(d, e) => Reports(d, e)'
<1>1. /\ Now(e)' = Now(e) /\ Reads' = Reads /\ Adjacent' = Adjacent
      /\ Strided' = Strided /\ Temporal' = Temporal
  BY DEF Now, Reads, Adjacent, Strided, Temporal, Step, Preceded, Same
<1>2. /\ UNCHANGED <<Bytes(Now(e)), Bytes(Now(e) \cap Reads),
                     Bytes(Now(e) \cap Adjacent), Bytes(Now(e) \cap Strided),
                     Cardinality(Now(e) \cap Temporal)>>
  BY <1>1 DEF Bytes
<1>3. QED BY <1>2 DEF Reports

(* No access of the history is of a later episode.                          *)
LEMMA NothingLater ==
    ASSUME HistoryType, NEW e \in Int, ins_count \div EPISODE_LEN < e - 1
    PROVE  Now(e) = {}
<1>1. EPISODE_LEN \in Nat \ {0} /\ ins_count \in Nat /\ ins_count \div EPISODE_LEN \in Int
  BY Constants DEF HistoryType
<1>2. ASSUME NEW k \in DOMAIN log PROVE log[k].ins \div EPISODE_LEN # e - 1
  <2>1. log[k] \in Entry /\ log[k].ins <= ins_count
    BY ElementOfSeq DEF HistoryType
  <2>2. log[k].ins \in Nat
    BY <2>1 DEF Entry
  <2> DEFINE i == log[k].ins
  <2> HIDE DEF i
  <2>3. i \in Nat /\ i <= ins_count
    BY <2>1, <2>2 DEF i
  <2>4. i \div EPISODE_LEN \in Nat /\ i \div EPISODE_LEN <= ins_count \div EPISODE_LEN
    BY <1>1, <2>3, DivMonotone
  <2>5. i \div EPISODE_LEN # e - 1
    BY <1>1, <2>4
  <2>6. QED BY <2>5 DEF i
<1>3. QED BY <1>2 DEF Now

LEMMA PartsInt ==
    ASSUME HistoryType, NEW e
    PROVE  /\ Bytes(Now(e)) \in Int /\ Bytes(Now(e) \cap Reads) \in Int
           /\ Bytes(Now(e) \cap Adjacent) \in Int /\ Bytes(Now(e) \cap Strided) \in Int
           /\ Cardinality(Now(e) \cap Temporal) \in Int
<1>1. /\ Len(log) \in Nat /\ DOMAIN log = 1 .. Len(log)
      /\ \A k \in 1 .. Len(log) : log[k] \in Entry
  BY LenProperties, ElementOfSeq DEF HistoryType
<1>2. \A k \in 1 .. Len(log) : Sizes[k] \in Int
  <2>1. \A x \in Entry : x.size \in AccessSizes
    BY DEF Entry
  <2>2. \A x \in AccessSizes : x \in Int
    BY Constants
  <2>3. \A k \in 1 .. Len(log) : log[k].size \in Int
    BY <1>1, <2>1, <2>2
  <2>4. QED BY <1>1, <2>3 DEF Sizes
<1>3. ASSUME NEW S, S \subseteq 1 .. Len(log)
      PROVE  Bytes(S) \in Int /\ Cardinality(S) \in Int
  <2>1. IsFiniteSet(S) /\ Cardinality(S) \in Nat
    BY <1>1, <1>3, HistorySetFinite
  <2>2. \A k \in S : Sizes[k] \in Int
    BY <1>2, <1>3
  <2> DEFINE F == Sizes
  <2>3. Bytes(S) = SumFunctionOnSet(F, S)
    BY DEF Bytes, Sizes
  <2> HIDE DEF F
  <2>4. \A k \in S : F[k] \in Int
    BY <2>2 DEF F
  <2>5. SumFunctionOnSet(F, S) \in Int
    BY <2>1, <2>4, SumInt
  <2>6. QED BY <2>1, <2>3, <2>5
<1>4. Now(e) \subseteq 1 .. Len(log)
  BY <1>1 DEF Now
<1>5. QED BY <1>3, <1>4

(* An episode with no access is one where nothing was counted.              *)
LEMMA NothingCounted ==
    ASSUME NEW e, Now(e) = {}
    PROVE  /\ Bytes(Now(e)) = 0 /\ Bytes(Now(e) \cap Reads) = 0
           /\ Bytes(Now(e) \cap Adjacent) = 0 /\ Bytes(Now(e) \cap Strided) = 0
           /\ Cardinality(Now(e) \cap Temporal) = 0
<1>1. /\ Now(e) \cap Reads = {} /\ Now(e) \cap Adjacent = {}
      /\ Now(e) \cap Strided = {} /\ Now(e) \cap Temporal = {}
  OBVIOUS
<1>2. Bytes({}) = 0 /\ Cardinality({}) = 0
  BY SumEmpty, FS_EmptySet DEF Bytes
<1>3. QED BY <1>1, <1>2

(* The next instruction starts an episode or belongs to the same one.       *)
LEMMA NextEpisode ==
    ASSUME NEW i \in Nat, NEW p \in Nat \ {0}
    PROVE  /\ (i + 1) % p = 0 => (i + 1) \div p = (i \div p) + 1
           /\ (i + 1) % p # 0 => (i + 1) \div p = i \div p
           /\ i \div p \in Nat
<1> DEFINE q == i \div p
           r == (i + 1) \div p
           s == i % p
           t == (i + 1) % p
<1>1. q \in Nat /\ q <= r /\ r \in Int
  <2>1. i \in Nat /\ i + 1 \in Nat /\ i <= i + 1
    OBVIOUS
  <2>2. QED BY <2>1, DivMonotone
<1>2. i = p * q + s /\ s \in 0 .. p - 1
  OBVIOUS
<1>3. i + 1 = p * r + t /\ t \in 0 .. p - 1
  <2>1. i + 1 \in Nat
    OBVIOUS
  <2>2. QED BY <2>1
<1> HIDE DEF q, r, s, t
<1>4. PICK d \in Nat : r = q + d
  <2>1. r - q \in Nat /\ r = q + (r - q)
    BY <1>1
  <2>2. QED BY <2>1
<1>5. p * r = p * q + p * d
  BY <1>1, <1>4
<1>6. s + 1 = p * d + t
  BY <1>1, <1>2, <1>3, <1>4, <1>5
<1>7. d = 0 \/ d = 1
  <2>1. ASSUME d >= 2 PROVE FALSE
    <3>1. p * d >= p * 2
      BY <1>4, <2>1
    <3>2. QED BY <1>2, <1>3, <1>4, <1>6, <3>1
  <2>2. QED BY <1>4, <2>1
<1>8. d = 0 => t # 0 /\ r = q
  BY <1>1, <1>2, <1>3, <1>4, <1>6
<1>9. d = 1 => t = 0 /\ r = q + 1
  BY <1>1, <1>2, <1>3, <1>4, <1>6
<1>10. QED BY <1>1, <1>7, <1>8, <1>9 DEF q, r, s, t


LEMMA TotalsFields ==
    ASSUME NEW m, MetricsType(m)
    PROVE  /\ Totals(m) \in ReportType
           /\ Totals(m).volume = m.access_volume /\ Totals(m).read = m.read_volume
           /\ Totals(m).seq = m.seq_volume /\ Totals(m).stride = m.stride_volume
           /\ Totals(m).temporal = m.temperal_count_cache
<1>1. /\ m.access_volume \in Int /\ m.read_volume \in Int /\ m.seq_volume \in Int
      /\ m.stride_volume \in Int /\ m.temperal_count_cache \in Int
  BY DEF MetricsType, Counters
<1>2. QED BY <1>1 DEF Totals, ReportType

(* What a report prints.                                                    *)
LEMMA DumpFields ==
    ASSUME NEW m, MetricsType(m), NEW last \in ReportType
    PROVE  LET d == DumpVarMemInfo(m, last)
           IN  /\ d \in ReportType
               /\ d.volume = m.access_volume - last.volume
               /\ d.read = m.read_volume - last.read
               /\ d.seq = m.seq_volume - last.seq
               /\ d.stride = m.stride_volume - last.stride
               /\ d.temporal = m.temperal_count_cache - last.temporal
<1> DEFINE d == DumpVarMemInfo(m, last)
           t == Totals(m)
<1>1. /\ t \in ReportType
      /\ t.volume = m.access_volume /\ t.read = m.read_volume
      /\ t.seq = m.seq_volume /\ t.stride = m.stride_volume
      /\ t.temporal = m.temperal_count_cache
  BY TotalsFields
<1>2. d = [f \in DOMAIN last |-> t[f] - last[f]]
  BY DEF DumpVarMemInfo
<1> HIDE DEF d, t
<1>3. DOMAIN last = {"volume", "read", "seq", "stride", "temporal"}
  BY DEF ReportType
<1>4. /\ last.volume \in Int /\ last.read \in Int /\ last.seq \in Int
      /\ last.stride \in Int /\ last.temporal \in Int
      /\ t.volume \in Int /\ t.read \in Int /\ t.seq \in Int
      /\ t.stride \in Int /\ t.temporal \in Int
  BY <1>1 DEF ReportType
<1>5. /\ d.volume = t.volume - last.volume /\ d.read = t.read - last.read
      /\ d.seq = t.seq - last.seq /\ d.stride = t.stride - last.stride
      /\ d.temporal = t.temporal - last.temporal
  BY <1>2, <1>3
<1>6. d = [volume |-> d.volume, read |-> d.read, seq |-> d.seq,
           stride |-> d.stride, temporal |-> d.temporal]
  BY <1>2, <1>3
<1>7. /\ d.volume \in Int /\ d.read \in Int /\ d.seq \in Int
      /\ d.stride \in Int /\ d.temporal \in Int
  BY <1>4, <1>5
<1>8. d \in ReportType
  BY <1>6, <1>7 DEF ReportType
<1>9. QED BY <1>1, <1>5, <1>8 DEF d

(* A report of what was not reported before.                                *)
LEMMA DumpReports ==
    ASSUME HistoryType, saved \in ReportType, NEW e, Unreported(e)
    PROVE  Reports(DumpVarMemInfo(metrics, saved), e)
<1> DEFINE d == DumpVarMemInfo(metrics, saved)
           v == Bytes(Now(e))
           r == Bytes(Now(e) \cap Reads)
           a == Bytes(Now(e) \cap Adjacent)
           b == Bytes(Now(e) \cap Strided)
           t == Cardinality(Now(e) \cap Temporal)
<1>1. v \in Int /\ r \in Int /\ a \in Int /\ b \in Int /\ t \in Int
  BY PartsInt
<1>2. /\ metrics.access_volume = saved.volume + v
      /\ metrics.read_volume = saved.read + r
      /\ metrics.seq_volume = saved.seq + a
      /\ metrics.stride_volume = saved.stride + b
      /\ metrics.temperal_count_cache = saved.temporal + t
  BY DEF Unreported
<1>3. /\ saved.volume \in Int /\ saved.read \in Int /\ saved.seq \in Int
      /\ saved.stride \in Int /\ saved.temporal \in Int
  BY DEF ReportType
<1>4. /\ d.volume = metrics.access_volume - saved.volume
      /\ d.read = metrics.read_volume - saved.read
      /\ d.seq = metrics.seq_volume - saved.seq
      /\ d.stride = metrics.stride_volume - saved.stride
      /\ d.temporal = metrics.temperal_count_cache - saved.temporal
  BY DumpFields DEF HistoryType
<1> HIDE DEF d, v, r, a, b, t
<1>5. d.volume = v /\ d.read = r /\ d.seq = a /\ d.stride = b /\ d.temporal = t
  BY <1>1, <1>2, <1>3, <1>4
<1>6. QED BY <1>5, Zenon DEF Reports, d, v, r, a, b, t

(* The report of the episode that ends, and the start of the next.          *)
LEMMA ReportKeepsEpisodes ==
    ASSUME HistoryType, EpisodesInv, ~freed, UNCHANGED <<metrics, freed, log>>,
           ins_count' = ins_count + 1, ins_count' % EPISODE_LEN = 0,
           episodes' = Append(episodes, DumpVarMemInfo(metrics, saved)),
           saved' = SaveLastVarInfo(metrics),
           NEW m \in Nat, m = Len(episodes)
    PROVE  EpisodesInv'
<1> DEFINE d == DumpVarMemInfo(metrics, saved)
<1>1. MetricsType(metrics) /\ saved \in ReportType /\ ins_count \in Nat
  BY DEF HistoryType, EpisodesInv
<1>2. /\ d \in ReportType
      /\ d.volume = metrics.access_volume - saved.volume
      /\ d.read = metrics.read_volume - saved.read
      /\ d.seq = metrics.seq_volume - saved.seq
      /\ d.stride = metrics.stride_volume - saved.stride
      /\ d.temporal = metrics.temperal_count_cache - saved.temporal
  BY <1>1, DumpFields
<1>3. episodes \in Seq(ReportType) /\ episodes' = Append(episodes, d)
  BY DEF EpisodesInv
<1> HIDE DEF d
<1>4. /\ episodes' \in Seq(ReportType) /\ Len(episodes') = m + 1
      /\ DOMAIN episodes' = 1 .. m + 1
      /\ \A e \in 1 .. m : e \in DOMAIN episodes /\ episodes'[e] = episodes[e]
      /\ episodes'[m + 1] = d
  BY <1>2, <1>3, AppendProperties, LenProperties
<1>5. Unreported(m + 1) /\ ins_count \div EPISODE_LEN = m
  BY DEF EpisodesInv
<1>6. Reports(d, m + 1)
  BY <1>1, <1>5, DumpReports DEF d
<1>7. ASSUME NEW e \in DOMAIN episodes' PROVE Reports(episodes[e], e)'
  <2>1. \A c : Reports(c, e) => Reports(c, e)'
    BY PartsKept
  <2>2. Reports(episodes'[e], e)
    <3>1. CASE e = m + 1
      BY <1>4, <1>6, <3>1
    <3>2. CASE e # m + 1
      BY <1>4, <3>2 DEF EpisodesInv
    <3>3. QED BY <3>1, <3>2
  <2>3. PICK c : c = episodes'[e]
    OBVIOUS
  <2>4. Reports(c, e)'
    BY <2>1, <2>2, <2>3
  <2>5. QED BY <2>3, <2>4 DEF Reports
<1>8. EPISODE_LEN \in Nat \ {0}
  BY Constants
<1>9. ins_count' \div EPISODE_LEN = m + 1
  BY <1>1, <1>5, <1>8, NextEpisode
<1>10. Unreported(m + 2)'
  <2> DEFINE e == m + 2
  <2>1. e \in Int /\ ins_count \div EPISODE_LEN < e - 1
    BY <1>5
  <2> HIDE DEF e
  <2>2. Now(e) = {}
    BY <2>1, NothingLater
  <2>3. /\ Bytes(Now(e)) = 0 /\ Bytes(Now(e) \cap Reads) = 0
        /\ Bytes(Now(e) \cap Adjacent) = 0 /\ Bytes(Now(e) \cap Strided) = 0
        /\ Cardinality(Now(e) \cap Temporal) = 0
    BY <2>2, NothingCounted
  <2>4. UNCHANGED <<Bytes(Now(e)), Bytes(Now(e) \cap Reads),
                    Bytes(Now(e) \cap Adjacent), Bytes(Now(e) \cap Strided),
                    Cardinality(Now(e) \cap Temporal)>>
    BY PartsKept
  <2>5. /\ saved'.volume = metrics.access_volume /\ saved'.read = metrics.read_volume
        /\ saved'.seq = metrics.seq_volume /\ saved'.stride = metrics.stride_volume
        /\ saved'.temporal = metrics.temperal_count_cache
    BY <1>1, TotalsFields DEF SaveLastVarInfo
  <2>6. /\ metrics.access_volume \in Int /\ metrics.read_volume \in Int
        /\ metrics.seq_volume \in Int /\ metrics.stride_volume \in Int
        /\ metrics.temperal_count_cache \in Int
    BY <1>1 DEF MetricsType, Counters
  <2>7. Unreported(e)'
    BY <2>3, <2>4, <2>5, <2>6 DEF Unreported
  <2>8. QED BY <2>7 DEF e
<1>11. saved' \in ReportType /\ freed' \in BOOLEAN
  BY <1>1, TotalsFields DEF SaveLastVarInfo, EpisodesInv
<1>12. Len(episodes') + 1 = m + 2
  BY <1>4
<1>13. Unreported(Len(episodes) + 1)'
  BY <1>10, <1>12 DEF Unreported
<1>14. QED BY <1>4, <1>7, <1>9, <1>11, <1>13 DEF EpisodesInv


(* A step that neither accesses nor reports.                                *)
LEMMA EpisodesKept ==
    ASSUME EpisodesInv, UNCHANGED <<metrics, saved, episodes, log>>, freed' \in BOOLEAN,
           ~freed' => ~freed /\ ins_count' \div EPISODE_LEN = ins_count \div EPISODE_LEN
    PROVE  EpisodesInv'
<1>1. ASSUME NEW e \in DOMAIN episodes PROVE Reports(episodes[e], e)'
  <2>1. PICK c : c = episodes[e]
    OBVIOUS
  <2>2. Reports(c, e)
    BY <2>1 DEF EpisodesInv
  <2>3. Reports(c, e)'
    BY <2>2, PartsKept
  <2>4. c = episodes'[e]
    BY <2>1
  <2>5. QED BY <2>3, <2>4 DEF Reports
<1>2. ASSUME ~freed' PROVE Unreported(Len(episodes) + 1)'
  <2>1. PICK e : e = Len(episodes) + 1
    OBVIOUS
  <2>2. Unreported(e)
    BY <1>2, <2>1 DEF EpisodesInv
  <2>3. UNCHANGED <<Bytes(Now(e)), Bytes(Now(e) \cap Reads),
                    Bytes(Now(e) \cap Adjacent), Bytes(Now(e) \cap Strided),
                    Cardinality(Now(e) \cap Temporal)>>
    BY PartsKept
  <2>4. Unreported(e)'
    BY <2>2, <2>3 DEF Unreported
  <2>5. Len(episodes') + 1 = e
    BY <2>1
  <2>6. QED BY <2>4, <2>5 DEF Unreported
<1>3. QED BY <1>1, <1>2 DEF EpisodesInv

LEMMA InsCountKeepsEpisodes ==
    ASSUME HistoryType, EpisodesInv, InsCount
    PROVE  EpisodesInv'
<1>1. /\ ins_count' = ins_count + 1 /\ UNCHANGED <<metrics, freed, log>>
      /\ freed' \in BOOLEAN
  BY DEF InsCount, EpisodesInv
<1>2. CASE ins_count' % EPISODE_LEN = 0 /\ ~freed
  <2>1. /\ episodes' = Append(episodes, DumpVarMemInfo(metrics, saved))
        /\ saved' = SaveLastVarInfo(metrics)
    BY <1>2 DEF InsCount
  <2>2. PICK m \in Nat : m = Len(episodes)
    BY LenProperties DEF EpisodesInv
  <2>3. QED BY <1>1, <1>2, <2>1, <2>2, ReportKeepsEpisodes
<1>3. CASE ~(ins_count' % EPISODE_LEN = 0 /\ ~freed)
  <2>1. UNCHANGED <<saved, episodes>>
    BY <1>3 DEF InsCount
  <2>2. ASSUME ~freed PROVE ins_count' \div EPISODE_LEN = ins_count \div EPISODE_LEN
    <3>1. (ins_count + 1) % EPISODE_LEN # 0
      BY <1>1, <1>3, <2>2
    <3>2. ins_count \in Nat /\ EPISODE_LEN \in Nat \ {0}
      BY Constants DEF HistoryType
    <3>3. QED BY <1>1, <3>1, <3>2, NextEpisode
  <2>3. QED BY <1>1, <2>1, <2>2, EpisodesKept
<1>4. QED BY <1>2, <1>3

-----------------------------------------------------------------------------
(* The beginning.                                                           *)

LEMMA InitSets ==
    ASSUME Init
    PROVE  /\ log = <<>> /\ DOMAIN log = {} /\ Len(log) = 0
           /\ Visits = {} /\ Adjacent = {} /\ Strided = {}
           /\ \A unit, near : Preceded(unit, near) = {}
           /\ \A e : Now(e) = {}
           /\ Cardinality({}) = 0
<1>1. log = <<>> /\ DOMAIN log = {} /\ Len(log) = 0
  BY EmptySeq DEF Init
<1>2. QED
  BY <1>1, FS_EmptySet DEF Visits, Adjacent, Strided, Preceded, Now

LEMMA InitHistory ==
    Init => HistoryType
<1> SUFFICES ASSUME Init PROVE HistoryType
  OBVIOUS
<1>1. log \in Seq(Entry) /\ DOMAIN log = {}
  BY InitSets, EmptySeq
<1>2. MetricsType(metrics) /\ ins_count = 0
  BY InitVariableType DEF Init
<1>3. QED BY <1>1, <1>2 DEF HistoryType

LEMMA InitLocality ==
    Init => LocalityInv
<1> SUFFICES ASSUME Init PROVE LocalityInv
  OBVIOUS
<1>1. /\ metrics.temperal_count = 0 /\ metrics.spatial_count = 0
      /\ metrics.temperal_count_cache = 0 /\ metrics.spatial_count_cache = 0
      /\ metrics.last_access_ins = [p \in Units(PAGE_SIZE) |-> - NEIGBOUR_INS_SIZE]
      /\ metrics.last_access_ins_cache =
            [l \in Units(CACHE_LINE_SIZE) |-> - NEIGBOUR_INS_SIZE]
  BY DEF Init, InitVariable
<1>2. LocalityMatchesHistory
  BY <1>1, InitSets DEF LocalityMatchesHistory
<1>3. QED BY <1>1, <1>2, InitSets DEF LocalityInv, Remembers

LEMMA InitPages ==
    Init => PagesInv
<1> SUFFICES ASSUME Init PROVE PagesInv
  OBVIOUS
<1>1. /\ metrics.touch_count = 0 /\ metrics.dirty_count = 0 /\ metrics.dirty_flag = 0
      /\ metrics.sequential_count = 0 /\ metrics.sequential_direct = 0
      /\ metrics.page_offsets = 0 /\ metrics.last_access_page = -1
      /\ metrics.references_perpage = [p \in Units(PAGE_SIZE) |-> 0]
  BY DEF Init, InitVariable
<1>2. Visits = {} /\ Len(log) = 0 /\ Cardinality({}) = 0
  BY InitSets
<1>3. PageCountersMatchVisits
  BY <1>1, <1>2 DEF PageCountersMatchVisits
<1>4. JumpsAddUp
  BY <1>1, <1>2, SumEmpty DEF JumpsAddUp
<1>5. \A k : Before(k) = 0
  <2>1. Max({0}) = 0
    <3>1. 0 \in {0} /\ \A x \in {0} : 0 >= x
      OBVIOUS
    <3>2. QED BY <3>1 DEF Max
  <2>2. \A k : {0} \cup {j \in Visits : j < k} = {0}
    BY <1>2
  <2>3. QED BY <2>1, <2>2 DEF Before
<1>6. Current = 0 /\ Page(0) = -1
  BY <1>5 DEF Current, Page
<1>7. LastPage /\ metrics.last_access_page = Page(Len(log))
  BY <1>1, <1>2, <1>6 DEF LastPage
<1>8. DirectionKept
  BY <1>1, <1>5, <1>6 DEF DirectionKept, Turn
<1>9. DirtyKept
  BY <1>1, <1>2 DEF DirtyKept, Dirty, Count
<1>10. QED BY <1>3, <1>4, <1>7, <1>8, <1>9 DEF PagesInv

LEMMA InitOffsets ==
    Init => OffsetsInv
<1> SUFFICES ASSUME Init PROVE OffsetsInv
  OBVIOUS
<1>1. /\ metrics.avg_offset_bytes = 0 /\ metrics.seq_byte_count = 0
      /\ metrics.stride_count = 0 /\ metrics.access_ops = 0
      /\ metrics.reference_count = 0 /\ metrics.last_access_bytes = 0
      /\ metrics.last_access_stride = 0
  BY DEF Init, InitVariable
<1>2. DistancesAddUp
  BY <1>1, InitSets, SumEmpty DEF DistancesAddUp
<1>3. LastAddr = 0 /\ Step(Len(log)) = 0
  BY InitSets DEF LastAddr, Step
<1>4. QED BY <1>1, <1>2, <1>3, InitSets DEF OffsetsInv

LEMMA InitEpisodes ==
    Init => EpisodesInv
<1> SUFFICES ASSUME Init PROVE EpisodesInv
  OBVIOUS
<1>1. /\ episodes = <<>> /\ freed = FALSE /\ ins_count = 0
      /\ metrics = InitVariable /\ saved = Totals(InitVariable)
  BY DEF Init
<1>2. /\ episodes \in Seq(ReportType) /\ DOMAIN episodes = {} /\ Len(episodes) = 0
  BY <1>1, EmptySeq
<1>3. saved \in ReportType
  BY <1>1, InitVariableType, TotalsFields
<1>4. 0 \div EPISODE_LEN = 0
  BY Constants
<1>5. Unreported(1)
  <2>1. Now(1) = {}
    BY InitSets
  <2>2. /\ Bytes(Now(1)) = 0 /\ Bytes(Now(1) \cap Reads) = 0
        /\ Bytes(Now(1) \cap Adjacent) = 0 /\ Bytes(Now(1) \cap Strided) = 0
        /\ Cardinality(Now(1) \cap Temporal) = 0
    BY <2>1, NothingCounted
  <2>3. /\ metrics.access_volume = 0 /\ metrics.read_volume = 0 /\ metrics.seq_volume = 0
        /\ metrics.stride_volume = 0 /\ metrics.temperal_count_cache = 0
    BY <1>1 DEF InitVariable
  <2>4. /\ saved.volume = 0 /\ saved.read = 0 /\ saved.seq = 0
        /\ saved.stride = 0 /\ saved.temporal = 0
    BY <1>1, <2>3 DEF Totals
  <2>5. QED BY <2>2, <2>3, <2>4 DEF Unreported
<1>6. Len(episodes) + 1 = 1 /\ Len(episodes) = ins_count \div EPISODE_LEN
  BY <1>1, <1>2, <1>4
<1>7. Unreported(Len(episodes) + 1)
  BY <1>5, <1>6
<1>8. QED BY <1>1, <1>2, <1>3, <1>6, <1>7, Zenon DEF EpisodesInv

-----------------------------------------------------------------------------
(* The inductive invariant.  The reports need the offsets (an access is     *)
(* sequential when the remembered one is the one before) and the locality   *)
(* (it is a reuse when the remembered access of its line is the last one).  *)
IInv ==
    HistoryType /\ LocalityInv /\ PagesInv /\ OffsetsInv /\ EpisodesInv

LEMMA InitIInv == Init => IInv
BY InitHistory, InitLocality, InitPages, InitOffsets, InitEpisodes DEF IInv

LEMMA NextIInv == IInv /\ [Next]_vars => IInv'
<1> SUFFICES ASSUME IInv, [Next]_vars PROVE IInv'
  OBVIOUS
<1> USE DEF IInv
<1>1. ASSUME NEW addr \in Offsets, NEW size \in AccessSizes, NEW flag \in {0, 1},
             Access(addr, size, flag)
      PROVE  IInv'
  <2>1. HistoryType'
    BY <1>1, AccessEffect
  <2>2. LocalityInv'
    BY <1>1, AccessKeepsLocality
  <2>3. PagesInv'
    BY <1>1, AccessKeepsPages
  <2>4. OffsetsInv'
    BY <1>1, AccessKeepsOffsets
  <2>5. EpisodesInv'
    BY <1>1, AccessKeepsEpisodes
  <2>6. QED BY <2>1, <2>2, <2>3, <2>4, <2>5
<1>2. CASE InsCount
  <2>1. /\ ins_count' = ins_count + 1 /\ UNCHANGED <<metrics, log>>
    BY <1>2 DEF InsCount
  <2>2. HistoryType'
    <3>1. /\ ins_count \in Nat /\ log \in Seq(Entry) /\ MetricsType(metrics)
          /\ \A k \in DOMAIN log : log[k].ins <= ins_count
      BY DEF HistoryType
    <3>2. \A k \in DOMAIN log : log[k].ins \in Nat
      <4>1. \A x \in Entry : x.ins \in Nat
        BY DEF Entry
      <4>2. \A k \in DOMAIN log : log[k] \in Entry
        BY <3>1, ElementOfSeq
      <4>3. QED BY <4>1, <4>2
    <3>3. \A k \in DOMAIN log : log[k].ins <= ins_count + 1
      BY <3>1, <3>2
    <3>4. QED BY <2>1, <3>1, <3>3 DEF HistoryType
  <2>3. LocalityInv' /\ PagesInv' /\ OffsetsInv'
    BY <2>1, HistoryKept
  <2>4. EpisodesInv'
    BY <1>2, InsCountKeepsEpisodes
  <2>5. QED BY <2>2, <2>3, <2>4
<1>3. CASE Free \/ UNCHANGED vars
  <2>1. /\ UNCHANGED <<ins_count, metrics, saved, episodes, log>>
        /\ freed' = TRUE \/ freed' = freed
    BY <1>3 DEF Free, vars
  <2>2. HistoryType'
    BY <2>1 DEF HistoryType
  <2>3. LocalityInv' /\ PagesInv' /\ OffsetsInv'
    BY <2>1, HistoryKept
  <2>4. EpisodesInv'
    <3>1. freed \in BOOLEAN
      BY DEF EpisodesInv
    <3>2. freed' \in BOOLEAN /\ (~freed' => ~freed)
      <4>1. CASE freed' = TRUE
        BY <4>1
      <4>2. CASE freed' = freed
        BY <3>1, <4>2
      <4>3. QED BY <2>1, <4>1, <4>2
    <3>3. ins_count' \div EPISODE_LEN = ins_count \div EPISODE_LEN
      BY <2>1
    <3>4. UNCHANGED <<metrics, saved, episodes, log>>
      BY <2>1
    <3>5. QED BY <3>2, <3>3, <3>4, EpisodesKept, Zenon DEF EpisodesInv
  <2>5. QED BY <2>2, <2>3, <2>4
<1>4. QED BY <1>1, <1>2, <1>3 DEF Next

LEMMA SpecIInv == Spec => []IInv
<1>1. QED BY InitIInv, NextIInv, PTL DEF Spec

-----------------------------------------------------------------------------
(* What the tool keeps about the last access of each unit is enough to      *)
(* count, at every access, whether the whole history has a recent access to *)
(* the same unit or to one beside it (UpdateLocality, UpdateLocalityCache). *)
THEOREM LocalityMatchesHistoryHolds == Spec => []LocalityMatchesHistory
<1>1. IInv => LocalityMatchesHistory
  BY DEF IInv, LocalityInv
<1>2. QED BY <1>1, SpecIInv, PTL

(* touch_count, references_perpage, dirty_count and sequential_count are    *)
(* those of the visits of the history, although GetPageMetrics sees one     *)
(* access at a time and keeps one page, one direction and one flag.         *)
THEOREM PageCountersMatchVisitsHolds == Spec => []PageCountersMatchVisits
<1>1. IInv => PageCountersMatchVisits
  BY DEF IInv, PagesInv
<1>2. QED BY <1>1, SpecIInv, PTL

(* avg_offset_bytes and page_offsets are the sums of the distances of the   *)
(* history while abs gets every one right, and the sequential and strided   *)
(* accesses are counted once each (UpdateAvgOffsetBytes, UpdateSeqVolume).  *)
THEOREM OffsetsMatchHistoryHolds == Spec => []OffsetsMatchHistory
<1>1. IInv => OffsetsMatchHistory
  BY DEF IInv, OffsetsInv, PagesInv, OffsetsMatchHistory, DistancesAddUp, JumpsAddUp
<1>2. QED BY <1>1, SpecIInv, PTL

(* Each report holds the bytes and the reuses of the accesses of its own    *)
(* episode, so that every access up to the last report is in exactly one    *)
(* (InsCount, DumpVarMemInfo, SaveLastVarInfo).                             *)
THEOREM EpisodesMatchHistoryHolds == Spec => []EpisodesMatchHistory
<1>1. IInv => EpisodesMatchHistory
  BY ReportsMatch DEF IInv
<1>2. QED BY <1>1, SpecIInv, PTL
==============================================================================
