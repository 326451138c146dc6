--------------------------- MODULE ObjectMetrics ---------------------------
(***************************************************************************)
(* The metrics of one object (pin-tools/pintool.h, GetMetrics and the      *)
(* Update routines it calls) and the per-episode report (InsCount,         *)
(* DumpMemoryInfo).  The tool keeps a few counters and, for each page and  *)
(* cache line, the instruction of the last access; log is the whole        *)
(* history, which only the properties read.                                *)
(***************************************************************************)
EXTENDS Integers, Sequences, FiniteSets, FiniteSetsExt

CONSTANTS var_size,             \* bytes of the object
          PAGE_SIZE,
          CACHE_LINE_SIZE,
          NEIGBOUR_SIZE,        \* neighbours are nearer than this
          NEIGBOUR_INS_SIZE,    \* recent is fewer instructions ago than this
          EPISODE_LEN,          \* instructions of an episode
          INT_RANGE,            \* 2^32: abs takes and returns an int
          AccessSizes,          \* bytes of one access
          MaxAccesses,          \* bound: accesses in one run
          MaxInstructions       \* bound: instructions in one run

ASSUME SizesAssumption ==
    /\ {var_size, PAGE_SIZE, CACHE_LINE_SIZE, NEIGBOUR_INS_SIZE, EPISODE_LEN}
         \subseteq Nat \ {0}
    /\ NEIGBOUR_SIZE \in Nat
    /\ AccessSizes \subseteq Nat \ {0}
    /\ INT_RANGE \in Nat \ {0} /\ INT_RANGE % 2 = 0

VARIABLES ins_count,    \* instructions executed
          metrics,      \* the counters of the object
          saved,        \* the last_... counters: totals at the last report
          episodes,     \* the reports printed
          freed,        \* free_time # 0
          log           \* every access: addr, size, flag, ins

vars == <<ins_count, metrics, saved, episodes, freed, log>>

Offsets == 0 .. var_size - 1

(* The arrays have one entry more than the object has whole units.          *)
Units(unit) == 0 .. var_size \div unit

(* What AllocAfter and InitVariable set.  Addresses are offsets, and        *)
(* last_access_bytes starts at the object's own address.                    *)
InitVariable ==
    [last_access_ins       |-> [p \in Units(PAGE_SIZE) |-> - NEIGBOUR_INS_SIZE],
     last_access_ins_cache |-> [l \in Units(CACHE_LINE_SIZE) |-> - NEIGBOUR_INS_SIZE],
     references_perpage    |-> [p \in Units(PAGE_SIZE) |-> 0],
     spatial_count |-> 0, temperal_count |-> 0,
     spatial_count_cache |-> 0, temperal_count_cache |-> 0,
     access_volume |-> 0, access_ops |-> 0, reference_count |-> 0,
     read_volume |-> 0, avg_offset_bytes |-> 0,
     last_access_bytes |-> 0, last_access_stride |-> 0,
     seq_volume |-> 0, seq_byte_count |-> 0,
     stride_volume |-> 0, stride_count |-> 0,
     last_access_page |-> -1, touch_count |-> 0, page_offsets |-> 0,
     sequential_direct |-> 0, sequential_count |-> 0,
     dirty_flag |-> 0, dirty_count |-> 0]

(* Mutant: an access NEIGBOUR_INS_SIZE instructions ago is recent.          *)
RecentOrEqual(now, then) == now - then <= NEIGBOUR_INS_SIZE

Recent(now, then) == now - then < NEIGBOUR_INS_SIZE

Neighbours(u, unit) ==
    {v \in Units(unit) : v # u /\ v - u < NEIGBOUR_SIZE /\ u - v < NEIGBOUR_SIZE}

Count(b) == IF b THEN 1 ELSE 0

Spatial(last, u, unit, now) ==
    Count(\E v \in Neighbours(u, unit) : Recent(now, last[v]))

UpdateLocality(m, npage, now) ==
    [m EXCEPT !.spatial_count = @ + Spatial(m.last_access_ins, npage, PAGE_SIZE, now),
              !.temperal_count = @ + Count(Recent(now, m.last_access_ins[npage])),
              !.last_access_ins = [@ EXCEPT ![npage] = now]]

UpdateLocalityCache(m, line, now) ==
    [m EXCEPT !.spatial_count_cache =
                  @ + Spatial(m.last_access_ins_cache, line, CACHE_LINE_SIZE, now),
              !.temperal_count_cache =
                  @ + Count(Recent(now, m.last_access_ins_cache[line])),
              !.last_access_ins_cache = [@ EXCEPT ![line] = now]]

(* Mutant: the low bits are not taken for a signed number.                  *)
abs_unsigned(d) == d % INT_RANGE

(* abs of a 64-bit difference: the low 32 bits are the argument, and the    *)
(* least int has no opposite.                                               *)
abs(d) ==
    LET low == d % INT_RANGE
    IN  IF 2 * low < INT_RANGE THEN low
        ELSE IF 2 * low = INT_RANGE THEN - low
        ELSE INT_RANGE - low

UpdateAvgOffsetBytes(m, addr) ==
    [m EXCEPT !.avg_offset_bytes = @ + abs(addr - m.last_access_bytes)]

UpdateSeqVolume(m, addr, size) ==
    LET step     == addr - m.last_access_bytes
        isSeq    == step \in {size, - size}
        isStride == ~isSeq /\ step = m.last_access_stride
    IN  [m EXCEPT !.seq_volume = @ + size * Count(isSeq),
                  !.seq_byte_count = @ + Count(isSeq),
                  !.stride_volume = @ + size * Count(isStride),
                  !.stride_count = @ + Count(isStride),
                  !.last_access_stride = step]

(* The direction a page access gives to an object that has none.            *)
Direction(m, npage) ==
    IF npage = m.last_access_page + 1 THEN 1
    ELSE IF npage = m.last_access_page - 1 THEN 2
    ELSE 0

UpdateSeqCount(m, npage) ==
    LET goes == m.sequential_direct # 0 /\ Direction(m, npage) = m.sequential_direct
    IN  [m EXCEPT !.sequential_count = @ + Count(goes),
                  !.sequential_direct = Direction(m, npage)]

(* Mutant: the dirty flag outlives the visit of the page.                   *)
TouchPageKeepsDirty(m, npage) ==
    [UpdateSeqCount(m, npage) EXCEPT
        !.touch_count = @ + 1,
        !.references_perpage = [@ EXCEPT ![npage] = m.references_perpage[npage] + 1],
        !.last_access_page = npage]

(* The access moves to another page.                                        *)
TouchPage(m, npage) ==
    [UpdateSeqCount(m, npage) EXCEPT
        !.touch_count = @ + 1,
        !.dirty_flag = 0,
        !.references_perpage = [@ EXCEPT ![npage] = m.references_perpage[npage] + 1],
        !.last_access_page = npage]

UpdatePageOffset(m, npage) ==
    [m EXCEPT !.page_offsets = @ + abs(npage - m.last_access_page)]

UpdateDirtyCount(m) ==
    [m EXCEPT !.dirty_flag = 1, !.dirty_count = @ + 1 - m.dirty_flag]

GetPageMetrics(m, npage) ==
    IF npage # m.last_access_page
    THEN TouchPage(UpdatePageOffset(m, npage), npage)
    ELSE m

GetMetrics(m, addr, size, flag, now) ==
    LET npage == addr \div PAGE_SIZE
        line  == addr \div CACHE_LINE_SIZE
        a == UpdateLocality(UpdateLocalityCache(m, line, now), npage, now)
        b == UpdateSeqVolume(
                 UpdateAvgOffsetBytes([a EXCEPT !.access_volume = @ + size,
                                                !.access_ops = @ + 1], addr),
                 addr, size)
        c == GetPageMetrics(b, npage)
        d == IF flag = 1 THEN UpdateDirtyCount(c)
             ELSE [c EXCEPT !.read_volume = @ + size]
    IN  [d EXCEPT !.reference_count = @ + 1, !.last_access_bytes = addr]
-----------------------------------------------------------------------------
(* RecordMemRead (flag 0) or RecordMemWrite (flag 1) finds the object.      *)
Access(addr, size, flag) ==
    /\ ~freed
    /\ Len(log) < MaxAccesses
    /\ metrics' = GetMetrics(metrics, addr, size, flag, ins_count)
    /\ log' = Append(log, [addr |-> addr, size |-> size, flag |-> flag,
                           ins |-> ins_count])
    /\ UNCHANGED <<ins_count, saved, episodes, freed>>

Totals(m) ==
    [volume |-> m.access_volume, read |-> m.read_volume, seq |-> m.seq_volume,
     stride |-> m.stride_volume, temporal |-> m.temperal_count_cache]

DumpVarMemInfo(m, last) == [t \in DOMAIN last |-> Totals(m)[t] - last[t]]

(* Mutant: the totals at a report are not saved.                            *)
SaveNothing(m) == saved

SaveLastVarInfo(m) == Totals(m)

(* Runs at every instruction; a released object is not reported.            *)
InsCount ==
    /\ ins_count < MaxInstructions
    /\ ins_count' = ins_count + 1
    /\ IF ins_count' % EPISODE_LEN = 0 /\ ~freed
       THEN /\ episodes' = Append(episodes, DumpVarMemInfo(metrics, saved))
            /\ saved' = SaveLastVarInfo(metrics)
       ELSE UNCHANGED <<saved, episodes>>
    /\ UNCHANGED <<metrics, freed, log>>

(* FreeBefore: the object owns no address any more.                         *)
Free ==
    /\ ~freed
    /\ freed' = TRUE
    /\ UNCHANGED <<ins_count, metrics, saved, episodes, log>>

Init ==
    /\ ins_count = 0
    /\ metrics = InitVariable
    /\ saved = Totals(InitVariable)
    /\ episodes = <<>>
    /\ freed = FALSE
    /\ log = <<>>

Next ==
    \/ \E addr \in Offsets, size \in AccessSizes, flag \in {0, 1} :
          Access(addr, size, flag)
    \/ InsCount \/ Free

Spec == Init /\ [][Next]_vars

-----------------------------------------------------------------------------
(* Accesses that some earlier access precedes by fewer than                 *)
(* NEIGBOUR_INS_SIZE instructions, to a unit at a distance in near.         *)
Preceded(unit, near) ==
    {k \in DOMAIN log : \E j \in 1 .. k - 1 :
        /\ log[k].ins - log[j].ins < NEIGBOUR_INS_SIZE
        /\ log[j].addr \div unit - log[k].addr \div unit \in near}

Same == {0}

Beside == (1 - NEIGBOUR_SIZE .. NEIGBOUR_SIZE - 1) \ {0}

(* The four locality counters are the numbers of accesses that the history  *)
(* says have recent neighbours, although the tool remembers only the last   *)
(* access of each unit and counts units that were never accessed as         *)
(* accessed long ago.                                                       *)
LocalityMatchesHistory ==
    /\ metrics.temperal_count = Cardinality(Preceded(PAGE_SIZE, Same))
    /\ metrics.spatial_count = Cardinality(Preceded(PAGE_SIZE, Beside))
    /\ metrics.temperal_count_cache = Cardinality(Preceded(CACHE_LINE_SIZE, Same))
    /\ metrics.spatial_count_cache = Cardinality(Preceded(CACHE_LINE_SIZE, Beside))

Page(k) == IF k = 0 THEN -1 ELSE log[k].addr \div PAGE_SIZE

(* Accesses that start a visit of a page, and the start of the visit before.*)
Visits == {k \in DOMAIN log : Page(k) # Page(k - 1)}

Before(k) == Max({0} \cup {j \in Visits : j < k})

(* Accesses of the visit that access k starts.                              *)
VisitOf(k) == {j \in DOMAIN log : j >= k /\ \A i \in k + 1 .. j : i \notin Visits}

(* The page counters describe the visits of the history: how many there     *)
(* are, on which pages, how many of them write, and how many go on in the   *)
(* direction of the visit before.                                           *)
PageCountersMatchVisits ==
    /\ metrics.touch_count = Cardinality(Visits)
    /\ \A p \in Units(PAGE_SIZE) :
          metrics.references_perpage[p] = Cardinality({k \in Visits : Page(k) = p})
    /\ metrics.dirty_count =
          Cardinality({k \in Visits : \E j \in VisitOf(k) : log[j].flag = 1})
    /\ metrics.sequential_count =
          Cardinality({k \in Visits :
             /\ Before(k) # 0
             /\ Page(k) - Page(Before(k)) \in {-1, 1}
             /\ Page(k) - Page(Before(k)) = Page(Before(k)) - Page(Before(Before(k)))})

Bytes(S) == SumFunctionOnSet([k \in DOMAIN log |-> log[k].size], S)

(* Distance of access k from the access before; the first one is measured   *)
(* from the object's address.                                               *)
Step(k) == IF k = 0 THEN 0 ELSE log[k].addr - (IF k = 1 THEN 0 ELSE log[k - 1].addr)

Adjacent == {k \in DOMAIN log : Step(k) \in {log[k].size, - log[k].size}}

Strided == {k \in DOMAIN log \ Adjacent : Step(k) = Step(k - 1)}

Distance(a, b) == IF a < b THEN b - a ELSE a - b

Distances == [k \in DOMAIN log |-> Distance(Step(k), 0)]

Jumps == [k \in DOMAIN log |-> Distance(Page(k), Page(Before(k)))]

(* Distances an int can hold twice: abs gets them right.                    *)
Small(d, S) == \A k \in S : 2 * d[k] < INT_RANGE

(* The offsets add up the distances between accesses, and between visits,   *)
(* of the history, the first visit being counted from page -1, as long as   *)
(* none of them reaches half the range of an int; the averages are taken    *)
(* over all accesses.                                                       *)
OffsetsMatchHistory ==
    /\ Small(Distances, DOMAIN log) =>
          metrics.avg_offset_bytes = SumFunctionOnSet(Distances, DOMAIN log)
    /\ Small(Jumps, Visits) =>
          metrics.page_offsets = SumFunctionOnSet(Jumps, Visits)
    /\ metrics.seq_byte_count = Cardinality(Adjacent)
    /\ metrics.stride_count = Cardinality(Strided)
    /\ metrics.access_ops = Len(log) /\ metrics.reference_count = Len(log)

(* Every report counts the accesses of its own episode, each access in one  *)
(* report, up to the last complete episode of the object's life.            *)
EpisodesMatchHistory ==
    \A e \in DOMAIN episodes :
        LET now == {k \in DOMAIN log : log[k].ins \div EPISODE_LEN = e - 1}
        IN  /\ episodes[e].volume = Bytes(now)
            /\ episodes[e].read = Bytes({k \in now : log[k].flag = 0})
            /\ episodes[e].seq = Bytes(now \cap Adjacent)
            /\ episodes[e].stride = Bytes(now \cap Strided)
            /\ episodes[e].temporal =
                  Cardinality(now \cap Preceded(CACHE_LINE_SIZE, Same))
=============================================================================
