---------------------------- MODULE CallTableProofs ----------------------------
(***************************************************************************)
(* Proofs about the table of call sites, for any number of threads, any    *)
(* hash function and any size of the table.                                *)
(***************************************************************************)
EXTENDS CallTableInv, FiniteSetTheorems, TLAPS

-----------------------------------------------------------------------------
(* Arithmetic of the search.                                                *)

(* A remainder is below the divisor.                                        *)
LEMMA ModRange ==
    ASSUME NEW n \in Nat, NEW m \in Nat \ {0}
    PROVE  n % m \in 0 .. m - 1
  OBVIOUS

(* The remainder of a number below the divisor, and of one below twice it.  *)
LEMMA ModSmall ==
    ASSUME NEW m \in Nat \ {0}, NEW n \in Nat, n < m
    PROVE  n % m = n
  OBVIOUS

(* A remainder of a number from the divisor up, below twice the divisor.    *)
LEMMA ModOnce ==
    ASSUME NEW m \in Nat \ {0}, NEW n \in Nat, m <= n, n < m + m
    PROVE  n % m = n - m
  OBVIOUS

(* Hash values are unsigned ints.                                           *)
LEMMA HashRange ==
    ASSUME NEW s \in Sites
    PROVE  HashValue(s) \in 0 .. UIntSize - 1
  BY HashAssumption, UIntAssumption, ModRange DEF HashValue

(* A search starts in the table.                                            *)
LEMMA HomeIsSlot ==
    ASSUME NEW h \in Nat
    PROVE  Home(h) \in Slots
  BY TableSizeAssumption, ModRange DEF Home, Slots

(* The next slot is the one above, or the first after the last.             *)
LEMMA NextSlotWraps ==
    ASSUME NEW i \in Slots
    PROVE  /\ NextSlot(i) = IF i + 1 = MAX_HASH_SIZE THEN 0 ELSE i + 1
           /\ NextSlot(i) \in Slots
  <1>1. /\ i \in Nat /\ i + 1 \in Nat /\ i + 1 <= MAX_HASH_SIZE
        /\ MAX_HASH_SIZE \in Nat \ {0} /\ i + 1 < MAX_HASH_SIZE + MAX_HASH_SIZE
    BY TableSizeAssumption DEF Slots
  <1>2. CASE i + 1 < MAX_HASH_SIZE
    BY <1>1, <1>2, ModSmall DEF NextSlot, Slots
  <1>3. CASE i + 1 = MAX_HASH_SIZE
    <2>1. MAX_HASH_SIZE % MAX_HASH_SIZE = MAX_HASH_SIZE - MAX_HASH_SIZE
      BY <1>1, <1>3, ModOnce
    <2> QED BY <1>1, <1>3, <2>1 DEF NextSlot, Slots
  <1> QED
    BY <1>1, <1>2, <1>3

(* One step of the search passes the slot it leaves and no other, unless it *)
(* is back at the start.                                                    *)
LEMMA BeforeNext ==
    ASSUME NEW a \in Slots, NEW i \in Slots, NEW j \in Slots,
           Before(a, j, NextSlot(i))
    PROVE  j = i \/ Before(a, j, i)
  BY NextSlotWraps, TableSizeAssumption DEF Before, Slots

(* Of two slots, a search from any start passes one before the other.       *)
LEMMA BeforeTotal ==
    ASSUME NEW a \in Slots, NEW i \in Slots, NEW j \in Slots, i # j
    PROVE  Before(a, i, j) \/ Before(a, j, i)
  BY DEF Before, Slots

(* The slots the property counts from the start of the search are those the *)
(* search passes.                                                           *)
LEMMA DistanceIsBefore ==
    ASSUME NEW a \in Slots, NEW i \in Slots,
           NEW k \in 0 .. ((i + MAX_HASH_SIZE - a) % MAX_HASH_SIZE) - 1
    PROVE  /\ (a + k) % MAX_HASH_SIZE \in Slots
           /\ Before(a, (a + k) % MAX_HASH_SIZE, i)
  <1> DEFINE M == MAX_HASH_SIZE
             d == (i + M - a) % M
  <1>1. /\ M \in Nat \ {0} /\ a \in Nat /\ i \in Nat /\ a < M /\ i < M
        /\ i + M - a \in Nat /\ i + M - a < M + M
    BY TableSizeAssumption DEF Slots
  <1> HIDE DEF M
  <1>2. d = IF i < a THEN i + M - a ELSE i - a
    <2>1. CASE i < a
      BY <1>1, <2>1, ModSmall
    <2>2. CASE a <= i
      <3>1. M <= i + M - a
        BY <1>1, <2>2
      <3>2. (i + M - a) % M = (i + M - a) - M
        BY <1>1, <3>1, ModOnce
      <3> QED BY <1>1, <2>2, <3>2
    <2> QED BY <1>1, <2>1, <2>2
  <1>3. k \in Nat /\ k < d /\ d <= M
    BY <1>1, <1>2 DEF M
  <1>4. (a + k) % M = IF a + k < M THEN a + k ELSE a + k - M
    <2>1. CASE a + k < M
      BY <1>1, <1>3, <2>1, ModSmall
    <2>2. CASE M <= a + k
      <3>1. a + k \in Nat /\ a + k < M + M
        BY <1>1, <1>3
      <3>2. (a + k) % M = (a + k) - M
        BY <1>1, <2>2, <3>1, ModOnce
      <3> QED BY <1>1, <1>3, <2>2, <3>2
    <2> QED BY <1>1, <1>3, <2>1, <2>2
  <1>5. (a + k) % M \in 0 .. M - 1 /\ Before(a, (a + k) % M, i)
    BY <1>1, <1>2, <1>3, <1>4 DEF Before
  <1> QED
    BY <1>5 DEF M, Slots

-----------------------------------------------------------------------------
(* The table between two steps.                                             *)

(* The parts of the types the proofs below use.                             *)
LEMMA TableFacts ==
    ASSUME Types
    PROVE  \A i \in Slots : /\ Id(i) \in Nat
                            /\ Hash(i) \in Nat
                            /\ Exists(i) \in BOOLEAN
                            /\ Home(Hash(i)) \in Slots
  <1>1. \A i \in Slots : calltrack_hash_table[i] \in Entry
    BY DEF Types
  <1>2. \A i \in Slots : /\ Id(i) \in Nat
                         /\ Hash(i) \in 0 .. UIntSize - 1
                         /\ Exists(i) \in BOOLEAN
    BY <1>1 DEF Entry, Id, Hash, Exists
  <1>3. \A i \in Slots : Hash(i) \in Nat
    BY <1>2, UIntAssumption
  <1> QED
    BY <1>2, <1>3, HomeIsSlot

(* A thread inside a traced call has a hash value and a home slot.          *)
LEMMA SiteFacts ==
    ASSUME Types, LockInv, NEW t \in Threads, pc[t] # "run"
    PROVE  /\ site[t] \in Sites
           /\ HashValue(site[t]) \in 0 .. UIntSize - 1
           /\ HashValue(site[t]) \in Nat
           /\ Home(HashValue(site[t])) \in Slots
           /\ index[t] \in Slots
  <1>1. site[t] \in Sites /\ index[t] \in Slots
    BY DEF Types, LockInv
  <1>2. /\ HashValue(site[t]) \in 0 .. UIntSize - 1
        /\ HashValue(site[t]) \in Nat
    BY <1>1, HashRange, UIntAssumption
  <1> QED
    BY <1>1, <1>2, HomeIsSlot

(* One thread is inside.                                                    *)
LEMMA OneInside ==
    ASSUME LockInv, NEW t \in Threads, NEW u \in Threads,
           pc[t] \in Inside, pc[u] \in Inside
    PROVE  t = u
  BY DEF LockInv

(* A thread that enters a variable is under the lock.                       *)
LEMMA EnteringInside ==
    ASSUME NEW t, Entering(t)
    PROVE  pc[t] \in Inside /\ pc[t] # "run"
  BY DEF Entering, Inside

(* There are no more counted slots than slots.                              *)
LEMMA CountedFits ==
    /\ IsFiniteSet(Counted)
    /\ Cardinality(Counted) \in 0 .. MAX_HASH_SIZE
  <1>1. MAX_HASH_SIZE \in Nat \ {0} /\ 0 \in Int /\ MAX_HASH_SIZE - 1 \in Int
    BY TableSizeAssumption
  <1>2. IsFiniteSet(Slots) /\ Cardinality(Slots) = MAX_HASH_SIZE
    BY <1>1, FS_Interval DEF Slots
  <1>3. Counted \subseteq Slots
    BY DEF Counted
  <1>4. IsFiniteSet(Counted) /\ Cardinality(Counted) <= Cardinality(Slots)
    BY <1>2, <1>3, FS_Subset
  <1>5. Cardinality(Counted) \in Nat
    BY <1>4, FS_CardinalityType
  <1> QED
    BY <1>1, <1>2, <1>4, <1>5

(* A step of threads that enter no variable leaves every slot as it is.     *)
LEMMA SlotsUntouched ==
    ASSUME UNCHANGED calltrack_hash_table,
           \A u \in Threads : Entering(u) \/ Entering(u)' =>
              pc'[u] = pc[u] /\ index'[u] = index[u]
    PROVE  \A i : /\ Id(i)' = Id(i) /\ Hash(i)' = Hash(i)
                  /\ Exists(i)' = Exists(i)
                  /\ BeingFilled(i)' <=> BeingFilled(i)
  <1>1. \A i : Hash(i)' = Hash(i) /\ Exists(i)' = Exists(i)
    BY DEF Hash, Exists
  <1>2. \A u \in Threads : pc[u] \in {"fill", "number"} \/ pc'[u] \in {"fill", "number"}
                            => pc'[u] = pc[u] /\ index'[u] = index[u]
    BY DEF Entering
  <1>3. \A i : BeingFilled(i)' <=> BeingFilled(i)
    BY <1>2 DEF BeingFilled
  <1> QED
    BY <1>1, <1>3 DEF Id

(* A step that leaves the table alone, and the threads that enter a         *)
(* variable, keeps what is true of the slots.                               *)
LEMMA TableUntouched ==
    ASSUME CallTableIInv,
           UNCHANGED <<calltrack_hash_table, var_count, start_vars>>,
           \A u \in Threads : Entering(u) \/ Entering(u)' =>
              pc'[u] = pc[u] /\ index'[u] = index[u]
    PROVE  SlotInv' /\ ChainInv' /\ CountInv'
  <1>1. /\ \A i : /\ Id(i)' = Id(i) /\ Hash(i)' = Hash(i)
                  /\ Exists(i)' = Exists(i)
                  /\ BeingFilled(i)' <=> BeingFilled(i)
        /\ early_count' = early_count
    BY SlotsUntouched DEF start_vars
  <1>2. SlotInv'
    BY <1>1 DEF CallTableIInv, SlotInv
  <1>3. ChainInv'
    BY <1>1 DEF CallTableIInv, ChainInv, Passed
  <1>4. Counted' = Counted
    BY <1>1 DEF Counted, Entering
  <1> QED
    BY <1>1, <1>2, <1>3, <1>4 DEF CallTableIInv, CountInv

(* The numbers returned, those from before the constructor and the dump's   *)
(* lines stay right as long as no number is forgotten.                      *)
LEMMA IdsUntouched ==
    ASSUME CallTableIInv,
           UNCHANGED <<calltrack_hash_table, final_vars, start_vars>>,
           \A u \in Threads : Entering(u) \/ Entering(u)' =>
              pc'[u] = pc[u] /\ index'[u] = index[u],
           var_ids \subseteq var_ids'
    PROVE  /\ StartInv' /\ DumpInv'
           /\ var_ids' = var_ids => IdsInv'
  <1>1. \A i : Id(i)' = Id(i) /\ Hash(i)' = Hash(i)
    BY SlotsUntouched
  <1>2. StartInv'
    BY DEF CallTableIInv, StartInv, NumbersMatchHashes, final_vars, start_vars
  <1>3. DumpInv'
    BY <1>1 DEF CallTableIInv, DumpInv, final_vars
  <1>4. var_ids' = var_ids => IdsInv'
    BY <1>1 DEF CallTableIInv, IdsInv
  <1> QED
    BY <1>2, <1>3, <1>4

(* A step of a thread that reaches none of the places where it knows        *)
(* something of the table keeps what the others know.                       *)
LEMMA ProbeUntouched ==
    ASSUME CallTableIInv,
           UNCHANGED <<calltrack_hash_table, var_count, start_vars>>,
           \A u \in Threads : Entering(u) \/ Entering(u)' =>
              pc'[u] = pc[u] /\ index'[u] = index[u],
           \A u \in Threads : pc'[u] = "look" \/ Entering(u)' =>
              pc'[u] = pc[u] /\ index'[u] = index[u] /\ site'[u] = site[u]
    PROVE  ProbeInv'
  <1>1. /\ \A i : Id(i)' = Id(i) /\ Hash(i)' = Hash(i) /\ Exists(i)' = Exists(i)
        /\ early_count' = early_count
    BY SlotsUntouched DEF start_vars
  <1>2. \A h, i : Passed(h, i)' <=> Passed(h, i)
    BY <1>1 DEF Passed
  <1>3. ASSUME NEW u \in Threads, pc'[u] = "look" \/ Entering(u)'
        PROVE  /\ pc'[u] = pc[u] /\ index'[u] = index[u] /\ site'[u] = site[u]
               /\ Entering(u)' <=> Entering(u)
    BY <1>3 DEF Entering
  <1> QED
    BY <1>1, <1>2, <1>3 DEF CallTableIInv, ProbeInv, Entering

-----------------------------------------------------------------------------
(* The steps that leave the table alone.                                    *)

(* The empty table satisfies the invariant.                                 *)
LEMMA InitInv == Init => CallTableIInv
  <1> SUFFICES ASSUME Init
               PROVE  CallTableIInv
    OBVIOUS
  <1>1. 0 \in Slots /\ 0 \in 0 .. UIntSize - 1 /\ 0 \in 0 .. MAX_HASH_SIZE
    BY TableSizeAssumption, UIntAssumption DEF Slots
  <1>2. Types
    BY <1>1 DEF Init, Types, Entry, Places
  <1>3. \A i \in Slots : Id(i) = 0 /\ ~Exists(i)
    BY DEF Init, Id, Exists
  <1>4. \A t \in Threads : pc[t] = "run" /\ ~t_trace_flags[t] /\ t # None
    BY NoneAssumption DEF Init
  <1>5. LockInv
    BY <1>4 DEF Init, LockInv, Inside
  <1>6. SlotInv /\ ChainInv
    BY <1>3 DEF Init, SlotInv, ChainInv
  <1>7. ProbeInv
    BY <1>4 DEF ProbeInv, Entering
  <1>8. Counted = {}
    BY <1>3, <1>4 DEF Counted, Entering
  <1>9. CountInv
    BY <1>8, FS_EmptySet DEF CountInv, Init
  <1>10. IdsInv /\ StartInv /\ DumpInv
    BY DEF Init, IdsInv, StartInv, DumpInv, NumbersMatchHashes
  <1> QED
    BY <1>2, <1>5, <1>6, <1>7, <1>9, <1>10 DEF CallTableIInv

(* A thread that begins a traced call works on nothing yet.                 *)
LEMMA TraceInv ==
    ASSUME CallTableIInv, NEW t \in Threads, NEW s \in Sites, Trace(t, s)
    PROVE  CallTableIInv'
  <1> USE DEF Trace, Goto, other_vars, final_vars, start_vars
  <1>1. Types'
    BY DEF CallTableIInv, Types, Places, other_vars
  <1>2. \A u \in Threads : pc'[u] = IF u = t THEN "lock" ELSE pc[u]
    BY DEF CallTableIInv, Types
  <1>3. LockInv'
    BY <1>2 DEF CallTableIInv, LockInv, Types, Inside
  <1>4. SlotInv' /\ ChainInv' /\ CountInv'
    BY <1>2, TableUntouched DEF Entering
  <1>5. ProbeInv'
    BY <1>2, ProbeUntouched DEF CallTableIInv, Types, Entering
  <1>6. IdsInv' /\ StartInv' /\ DumpInv'
    BY <1>2, IdsUntouched DEF CallTableIInv, Types, Entering
  <1> QED
    BY <1>1, <1>3, <1>4, <1>5, <1>6 DEF CallTableIInv

(* The lock is free when a thread takes it, so nobody else is inside.       *)
LEMMA LockStepInv ==
    ASSUME CallTableIInv, NEW t \in Threads, Lock(t)
    PROVE  CallTableIInv'
  <1> USE DEF Lock, Goto, other_vars, final_vars, start_vars
  <1>1. Types'
    BY DEF CallTableIInv, Types, Places, Inside, other_vars
  <1>2. \A u \in Threads : pc'[u] = IF u = t THEN "symbols" ELSE pc[u]
    BY DEF CallTableIInv, Types
  <1>3. LockInv'
    BY <1>2, NoneAssumption DEF CallTableIInv, LockInv, Types, Inside, MayEnter
  <1>4. SlotInv' /\ ChainInv' /\ CountInv'
    BY <1>2, TableUntouched DEF Entering
  <1>5. ProbeInv'
    BY <1>2, ProbeUntouched DEF CallTableIInv, Types, Entering
  <1>6. IdsInv' /\ StartInv' /\ DumpInv'
    BY <1>2, IdsUntouched DEF CallTableIInv, Types, Entering
  <1> QED
    BY <1>1, <1>3, <1>4, <1>5, <1>6 DEF CallTableIInv

(* A traced thread finds its own flag set: its allocations under the lock   *)
(* go straight on, and its search starts at its home slot with none passed. *)
LEMMA NestedMallocInv ==
    ASSUME CallTableIInv, NEW t \in Threads, NestedMalloc(t)
    PROVE  CallTableIInv'
  <1>1. /\ pc[t] = "symbols" /\ t_trace_flags[t]
        /\ pc' = [pc EXCEPT ![t] = "look"]
        /\ index' = [index EXCEPT ![t] = Home(HashValue(site[t]))]
        /\ UNCHANGED <<calltrack_hash_table, var_count, g_lock, t_trace_flags,
                       site, var_ids, final_vars, start_vars>>
    BY DEF CallTableIInv, LockInv, NestedMalloc, TracesNested, Goto, other_vars
  <1>2. Home(HashValue(site[t])) \in Slots
    BY <1>1, SiteFacts DEF CallTableIInv
  <1>3. Types'
    BY <1>1, <1>2 DEF CallTableIInv, Types, Places, Inside, final_vars, start_vars
  <1>4. /\ \A u \in Threads : pc'[u] = IF u = t THEN "look" ELSE pc[u]
        /\ \A u \in Threads : u # t => index'[u] = index[u]
        /\ index'[t] = Home(HashValue(site[t]))
    BY <1>1 DEF CallTableIInv, Types
  <1>5. LockInv'
    BY <1>1, <1>4 DEF CallTableIInv, LockInv, Inside
  <1>6. SlotInv' /\ ChainInv' /\ CountInv'
    BY <1>1, <1>4, TableUntouched DEF Entering
  <1>7. Passed(HashValue(site[t]), index[t])'
    <2>1. index'[t] = Home(HashValue(site'[t]))
      BY <1>1, <1>4
    <2>2. \A j \in Slots : ~Before(index'[t], j, index'[t])
      BY <1>2, <1>4 DEF Before, Slots
    <2> QED BY <2>1, <2>2 DEF Passed
  <1>8. \A u \in Threads : u # t => ~(pc[u] = "look" \/ Entering(u))
    BY <1>1, OneInside DEF CallTableIInv, Entering, Inside
  <1>9. ProbeInv'
    BY <1>1, <1>4, <1>7, <1>8 DEF ProbeInv, Entering
  <1>10. IdsInv' /\ StartInv' /\ DumpInv'
    BY <1>1, <1>4, IdsUntouched DEF Entering
  <1> QED
    BY <1>3, <1>5, <1>6, <1>9, <1>10 DEF CallTableIInv

(* An ignored call leaves the critical section without touching the table.  *)
LEMMA IgnoreLibcInv ==
    ASSUME CallTableIInv, NEW t \in Threads, IgnoreLibc(t)
    PROVE  CallTableIInv'
  <1> USE DEF IgnoreLibc, Goto, other_vars, final_vars, start_vars
  <1>1. Types'
    BY DEF CallTableIInv, Types, Places, Inside, other_vars
  <1>2. \A u \in Threads : pc'[u] = IF u = t THEN "unlock" ELSE pc[u]
    BY DEF CallTableIInv, Types
  <1>3. LockInv'
    BY <1>2 DEF CallTableIInv, LockInv, Types, Inside
  <1>4. SlotInv' /\ ChainInv' /\ CountInv'
    BY <1>2, TableUntouched DEF Entering
  <1>5. ProbeInv'
    BY <1>2, ProbeUntouched DEF CallTableIInv, Types, Entering
  <1>6. IdsInv' /\ StartInv' /\ DumpInv'
    BY <1>2, IdsUntouched DEF CallTableIInv, Types, Entering
  <1> QED
    BY <1>1, <1>3, <1>4, <1>5, <1>6 DEF CallTableIInv

(* The call site is in the table under its own hash: its number is the one  *)
(* in the slot.                                                             *)
LEMMA FoundInv ==
    ASSUME CallTableIInv, NEW t \in Threads, Found(t)
    PROVE  CallTableIInv'
  <1> DEFINE i == index[t]
             v == [site |-> site[t], id |-> Id(i)]
  <1>1. /\ pc[t] = "look"
        /\ Exists(i) /\ Hash(i) = HashValue(site[t])
        /\ var_ids' = var_ids \cup {v}
        /\ pc' = [pc EXCEPT ![t] = "unlock"]
        /\ UNCHANGED <<calltrack_hash_table, var_count, g_lock, t_trace_flags,
                       site, index, final_vars, start_vars>>
    <2>1. pc[t] = "look" /\ \A u \in Threads : pc[u] \notin {"fill", "number"}
      BY OneInside DEF CallTableIInv, Found, Inside
    <2>2. ~BeingFilled(i) /\ Exists(i) /\ Hash(i) = HashValue(site[t])
      BY <2>1 DEF BeingFilled, Found, Exists, Hash
    <2>3. Id(i) = calltrack_hash_table[i].id
      BY <2>2 DEF Id
    <2> QED BY <2>1, <2>2, <2>3 DEF Found, Goto, Returned, other_vars
  <1>2. i \in Slots /\ site[t] \in Sites /\ Id(i) \in Nat
    BY <1>1, SiteFacts, TableFacts DEF CallTableIInv
  <1>3. Types'
    BY <1>1, <1>2 DEF CallTableIInv, Types, Places, Inside, final_vars, start_vars
  <1>4. \A u \in Threads : pc'[u] = IF u = t THEN "unlock" ELSE pc[u]
    BY <1>1 DEF CallTableIInv, Types
  <1>5. LockInv'
    BY <1>1, <1>4 DEF CallTableIInv, LockInv, Inside
  <1>6. SlotInv' /\ ChainInv' /\ CountInv'
    BY <1>1, <1>4, TableUntouched DEF Entering
  <1>7. ProbeInv'
    BY <1>1, <1>4, ProbeUntouched DEF Entering
  <1>8. Id(i) # 0
    <2>1. \A u \in Threads : pc[u] \notin {"fill", "number"}
      BY <1>1, OneInside DEF CallTableIInv, Inside
    <2> QED BY <1>1, <1>2, <2>1 DEF CallTableIInv, SlotInv, BeingFilled
  <1>9. IdsInv'
    <2>1. \A j : Id(j)' = Id(j) /\ Hash(j)' = Hash(j)
      BY <1>1, <1>4, SlotsUntouched DEF Entering
    <2>2. \A w \in var_ids : \E j \in Slots :
             w.id # 0 /\ Id(j)' = w.id /\ Hash(j)' = HashValue(w.site)
      BY <2>1 DEF CallTableIInv, IdsInv
    <2>3. v.id # 0 /\ Id(i)' = v.id /\ Hash(i)' = HashValue(v.site)
      BY <1>1, <1>8, <2>1
    <2> QED BY <1>1, <1>2, <2>2, <2>3 DEF IdsInv
  <1>10. StartInv' /\ DumpInv'
    BY <1>1, <1>4, IdsUntouched DEF Entering
  <1> QED
    BY <1>3, <1>5, <1>6, <1>7, <1>9, <1>10 DEF CallTableIInv

(* The slot holds another variable: it is one more the search has passed.   *)
LEMMA ProbeNextInv ==
    ASSUME CallTableIInv, NEW t \in Threads, ProbeNext(t)
    PROVE  CallTableIInv'
  <1> DEFINE i == index[t]
             h == HashValue(site[t])
  <1>1. /\ pc[t] = "look"
        /\ Exists(i) /\ Hash(i) # h
        /\ index' = [index EXCEPT ![t] = NextSlot(i)]
        /\ UNCHANGED <<calltrack_hash_table, var_count, g_lock, t_trace_flags,
                       pc, site, var_ids, final_vars, start_vars>>
    BY DEF ProbeNext, Exists, Hash, other_vars
  <1>2. /\ i \in Slots /\ h \in Nat /\ Home(h) \in Slots
        /\ NextSlot(i) \in Slots
    BY <1>1, SiteFacts, NextSlotWraps DEF CallTableIInv
  <1>3. Types'
    BY <1>1, <1>2 DEF CallTableIInv, Types, final_vars, start_vars
  <1>4. /\ \A u \in Threads : u # t => index'[u] = index[u]
        /\ index'[t] = NextSlot(i)
    BY <1>1 DEF CallTableIInv, Types
  <1>5. LockInv'
    BY <1>1 DEF CallTableIInv, LockInv
  <1>6. \A u \in Threads : u # t => ~(pc[u] = "look" \/ Entering(u))
    BY <1>1, OneInside DEF CallTableIInv, Entering, Inside
  <1>7. ~Entering(t)
    BY <1>1 DEF Entering
  <1>8. SlotInv' /\ ChainInv' /\ CountInv'
    BY <1>1, <1>4, <1>7, TableUntouched DEF Entering
  <1>9. Id(i) # 0
    BY <1>1, <1>2, <1>6, <1>7 DEF CallTableIInv, SlotInv, BeingFilled, Entering
  <1>10. Passed(h, NextSlot(i))
    BY <1>1, <1>2, <1>9, BeforeNext DEF CallTableIInv, ProbeInv, Passed
  <1>11. Passed(HashValue(site[t]), index[t])'
    <2>1. \A j : Id(j)' = Id(j) /\ Hash(j)' = Hash(j)
      BY <1>1, <1>4, <1>7, SlotsUntouched DEF Entering
    <2> QED BY <1>1, <1>4, <1>10, <2>1 DEF Passed
  <1>12. ProbeInv'
    BY <1>1, <1>6, <1>7, <1>11 DEF ProbeInv, Entering
  <1>13. IdsInv' /\ StartInv' /\ DumpInv'
    BY <1>1, <1>4, <1>7, IdsUntouched DEF Entering
  <1> QED
    BY <1>3, <1>5, <1>8, <1>12, <1>13 DEF CallTableIInv

(* The thread gives the lock back with no variable half entered.            *)
LEMMA UnlockInv ==
    ASSUME CallTableIInv, NEW t \in Threads, Unlock(t)
    PROVE  CallTableIInv'
  <1> USE DEF Unlock, Goto, other_vars, final_vars, start_vars
  <1>1. Types'
    BY TableSizeAssumption
       DEF CallTableIInv, Types, Places, Slots, other_vars
  <1>2. \A u \in Threads : pc'[u] = IF u = t THEN "run" ELSE pc[u]
    BY DEF CallTableIInv, Types
  <1>3. LockInv'
    BY <1>2, NoneAssumption DEF CallTableIInv, LockInv, Types, Inside
  <1>4. SlotInv' /\ ChainInv' /\ CountInv'
    BY <1>2, TableUntouched DEF CallTableIInv, Types, Entering
  <1>5. ProbeInv'
    BY <1>2, ProbeUntouched DEF CallTableIInv, Types, Entering
  <1>6. IdsInv' /\ StartInv' /\ DumpInv'
    BY <1>2, IdsUntouched DEF CallTableIInv, Types, Entering
  <1> QED
    BY <1>1, <1>3, <1>4, <1>5, <1>6 DEF CallTableIInv

-----------------------------------------------------------------------------
(* The dump.                                                                *)

(* The dump begins with no line, and every number returned so far is in the *)
(* table.                                                                   *)
LEMMA FinalInv ==
    ASSUME CallTableIInv, NEW t \in Threads, Final(t)
    PROVE  CallTableIInv'
  <1> USE DEF Final, start_vars
  <1>1. Types' /\ LockInv'
    BY DEF CallTableIInv, Types, LockInv
  <1>2. SlotInv' /\ ChainInv' /\ CountInv'
    BY TableUntouched DEF Entering
  <1>3. ProbeInv'
    BY ProbeUntouched DEF Entering
  <1>4. IdsInv' /\ StartInv'
    <2>1. \A i : Id(i)' = Id(i) /\ Hash(i)' = Hash(i)
      BY SlotsUntouched DEF Entering
    <2> QED
      BY <2>1 DEF CallTableIInv, IdsInv, StartInv, NumbersMatchHashes
  <1>5. DumpInv'
    <2>1. dump_index' = 0 /\ before' = var_ids' /\ dumper' # None
      BY NoneAssumption DEF CallTableIInv, DumpInv
    <2> QED BY <2>1 DEF DumpInv, Slots
  <1> QED
    BY <1>1, <1>2, <1>3, <1>4, <1>5 DEF CallTableIInv

(* The slot the dump passes holds what the variable was returned with: a    *)
(* number belongs to one slot, and its hash value stays.                    *)
LEMMA DumpStepInv ==
    ASSUME CallTableIInv, NEW t \in Threads, Dump(t)
    PROVE  CallTableIInv'
  <1> DEFINE i == dump_index
             line == [id |-> calltrack_hash_table[i].id, hash_value |-> Hash(i)]
  <1>1. /\ t = dumper /\ i < MAX_HASH_SIZE
        /\ dumped' = IF Exists(i) THEN dumped \cup {line} ELSE dumped
        /\ dump_index' = i + 1
        /\ UNCHANGED <<calltrack_hash_table, var_count, g_lock, t_trace_flags,
                       pc, site, index, var_ids, dumper, before, start_vars>>
    BY DEF Dump, Exists, Hash
  <1>2. i \in Slots
    BY <1>1, TableSizeAssumption DEF CallTableIInv, Types, Slots
  <1>3. Types' /\ LockInv'
    BY <1>1, TableSizeAssumption DEF CallTableIInv, Types, LockInv, start_vars
  <1>4. SlotInv' /\ ChainInv' /\ CountInv'
    BY <1>1, TableUntouched DEF Entering
  <1>5. ProbeInv'
    BY <1>1, ProbeUntouched DEF Entering
  <1>6. /\ IdsInv' /\ StartInv'
        /\ \A j : Id(j)' = Id(j)
    <2>1. \A j : Id(j)' = Id(j) /\ Hash(j)' = Hash(j)
      BY <1>1, SlotsUntouched DEF Entering
    <2> QED
      BY <1>1, <2>1
         DEF CallTableIInv, IdsInv, StartInv, NumbersMatchHashes, start_vars
  <1>7. \A v \in before, j \in Slots :
           Id(j) = v.id /\ j < i + 1 =>
              [id |-> v.id, hash_value |-> HashValue(v.site)] \in dumped'
    <2> SUFFICES ASSUME NEW v \in before, NEW j \in Slots, Id(j) = v.id, j < i + 1
                 PROVE  [id |-> v.id, hash_value |-> HashValue(v.site)] \in dumped'
      OBVIOUS
    <2>1. CASE j < i
      BY <1>1, <2>1 DEF CallTableIInv, DumpInv
    <2>2. CASE j = i
      <3>1. PICK k \in Slots :
               v.id # 0 /\ Id(k) = v.id /\ Hash(k) = HashValue(v.site)
        BY DEF CallTableIInv, DumpInv, IdsInv
      <3>2. k = i
        BY <1>2, <2>2, <3>1 DEF CallTableIInv, SlotInv
      <3>3. Exists(i) /\ line = [id |-> v.id, hash_value |-> HashValue(v.site)]
        BY <1>2, <3>1, <3>2 DEF CallTableIInv, SlotInv, Id
      <3> QED BY <1>1, <3>3
    <2> QED BY <1>2, <2>1, <2>2 DEF Slots
  <1>8. DumpInv'
    BY <1>1, <1>6, <1>7, NoneAssumption DEF CallTableIInv, DumpInv
  <1> QED
    BY <1>3, <1>4, <1>5, <1>6, <1>8 DEF CallTableIInv

-----------------------------------------------------------------------------
(* The steps that enter a variable.                                         *)

(* The search ends at an empty slot: nothing is entering, so the slot has   *)
(* not been counted.                                                        *)
LEMMA CountVariableInv ==
    ASSUME CallTableIInv, NEW t \in Threads, CountVariable(t)
    PROVE  CallTableIInv'
  <1> DEFINE i == index[t]
  <1>1. /\ pc[t] = "look" /\ ~Exists(i)
        /\ var_count' = var_count + 1
        /\ pc' = [pc EXCEPT ![t] = "insert"]
        /\ UNCHANGED <<calltrack_hash_table, g_lock, t_trace_flags, site, index,
                       var_ids, final_vars, start_vars>>
    BY DEF CountVariable, Goto, Exists, other_vars
  <1>2. i \in Slots /\ var_count \in Nat /\ \A j \in Slots : Id(j) \in Nat
    BY <1>1, SiteFacts, TableFacts DEF CallTableIInv, Types
  <1>3. Types'
    BY <1>1 DEF CallTableIInv, Types, Places, Inside, final_vars, start_vars
  <1>4. \A u \in Threads : pc'[u] = IF u = t THEN "insert" ELSE pc[u]
    BY <1>1 DEF CallTableIInv, Types
  <1>5. LockInv'
    BY <1>1, <1>4 DEF CallTableIInv, LockInv, Inside
  <1>6. \A u \in Threads : u # t => ~(pc[u] = "look" \/ Entering(u))
    BY <1>1, OneInside DEF CallTableIInv, Entering, Inside
  <1>7. ~Entering(t) /\ Entering(t)'
    BY <1>1, <1>4 DEF Entering
  <1>8. /\ \A j : Id(j)' = Id(j) /\ Hash(j)' = Hash(j) /\ Exists(j)' = Exists(j)
        /\ early_count' = early_count
    <2>1. \A j : ~BeingFilled(j) /\ ~BeingFilled(j)'
      BY <1>4, <1>6, <1>7 DEF BeingFilled, Entering
    <2> QED BY <1>1, <2>1 DEF Id, Hash, Exists, start_vars
  <1>9. /\ Id(i) = 0 /\ early_count < var_count + 1
        /\ \A j \in Slots : Id(j) <= var_count /\ Id(j) < var_count + 1
    <2>1. early_count <= var_count
      BY CountedFits DEF CallTableIInv, CountInv, Types
    <2> QED BY <1>1, <1>2, <2>1 DEF CallTableIInv, SlotInv, Types
  <1>10. SlotInv'
    <2>1. \A j \in Slots : Exists(j) => Id(j) # 0
      BY <1>6, <1>7 DEF CallTableIInv, SlotInv, BeingFilled, Entering
    <2>2. \A j \in Slots : Id(j) <= var_count + 1
      BY <1>2, <1>9
    <2> QED BY <1>1, <1>8, <2>1, <2>2 DEF CallTableIInv, SlotInv
  <1>11. ChainInv'
    BY <1>8 DEF CallTableIInv, ChainInv, Passed
  <1>12. Passed(HashValue(site[t]), index[t])'
    BY <1>1, <1>8 DEF CallTableIInv, ProbeInv, Passed
  <1>13. ProbeInv'
    BY <1>1, <1>2, <1>4, <1>6, <1>8, <1>9, <1>12 DEF ProbeInv, Entering
  <1>14. CountInv'
    <2>1. i \notin Counted
      BY <1>6, <1>7, <1>9 DEF Counted
    <2>2. Counted' = Counted \cup {i}
      <3>1. \A u \in Threads : Entering(u)' <=> u = t
        BY <1>4, <1>6, <1>7 DEF Entering
      <3> QED BY <1>1, <1>2, <1>6, <1>7, <1>8, <3>1 DEF Counted
    <2>3. IsFiniteSet(Counted) /\ Cardinality(Counted) \in Nat
      BY CountedFits
    <2>4. Cardinality(Counted') = Cardinality(Counted) + 1
      BY <2>1, <2>2, <2>3, FS_AddElement
    <2> QED BY <1>1, <1>8, <2>3, <2>4 DEF CallTableIInv, CountInv, Types
  <1>15. IdsInv'
    BY <1>1, <1>8 DEF CallTableIInv, IdsInv
  <1>16. StartInv' /\ DumpInv'
    BY <1>1, <1>8
       DEF CallTableIInv, StartInv, NumbersMatchHashes, DumpInv, final_vars,
           start_vars
  <1> QED
    BY <1>3, <1>5, <1>10, <1>11, <1>13, <1>14, <1>15, <1>16 DEF CallTableIInv

(* A slot that has no number is on no other variable's search path.         *)
LEMMA SlotIsFree ==
    ASSUME CallTableIInv, NEW t \in Threads, Entering(t),
           NEW j \in Slots, Id(j) # 0
    PROVE  j # index[t] /\ ~Before(Home(Hash(j)), index[t], j)
  BY EnteringInside, SiteFacts
     DEF CallTableIInv, ProbeInv, ChainInv, Passed

(* A step of the entering thread that gives its slot no number yet.         *)
LEMMA SlotStepInv ==
    ASSUME CallTableIInv, NEW t \in Threads, Entering(t), Entering(t)',
           NEW e \in Entry, e.exist, pc'[t] # "insert",
           pc'[t] = "number" => e.hash_value = HashValue(site[t]),
           calltrack_hash_table' = [calltrack_hash_table EXCEPT ![index[t]] = e],
           \A u \in Threads : u # t => pc'[u] = pc[u],
           pc' \in [Threads -> Places],
           UNCHANGED <<var_count, g_lock, t_trace_flags, site, index, var_ids,
                       final_vars, start_vars>>
    PROVE  CallTableIInv'
  <1> DEFINE i == index[t]
             h == HashValue(site[t])
  <1>1. pc[t] \in Inside /\ pc[t] # "run" /\ pc'[t] \in Inside /\ pc'[t] # "run"
    BY DEF Entering, Inside
  <1>2. i \in Slots
    BY <1>1, SiteFacts DEF CallTableIInv
  <1>7. \A u \in Threads : u # t => ~(pc[u] = "look" \/ Entering(u))
    BY <1>1, OneInside DEF CallTableIInv, Entering, Inside
  <1>3. /\ \A j \in Slots : j # i =>
             Id(j)' = Id(j) /\ Hash(j)' = Hash(j) /\ Exists(j)' = Exists(j)
        /\ Id(i)' = 0 /\ Exists(i)' /\ Hash(i)' = e.hash_value
        /\ early_count' = early_count
    <2>1. /\ \A j \in Slots : j # i =>
               calltrack_hash_table'[j] = calltrack_hash_table[j]
          /\ calltrack_hash_table'[i] = e
      BY <1>2 DEF CallTableIInv, Types
    <2>2. \A j \in Slots : j # i => ~BeingFilled(j) /\ ~BeingFilled(j)'
      BY <1>7 DEF BeingFilled, Entering
    <2>3. BeingFilled(i)'
      BY DEF BeingFilled, Entering
    <2> QED BY <1>2, <2>1, <2>2, <2>3 DEF Id, Hash, Exists, start_vars
  <1>4. Id(i) = 0 /\ Passed(h, i)
    BY DEF CallTableIInv, ProbeInv
  <1>5. Types'
    BY DEF CallTableIInv, Types, final_vars, start_vars
  <1>6. LockInv'
    BY <1>1 DEF CallTableIInv, LockInv
  <1>8. SlotInv'
    <2>1. \A j \in Slots : Id(j)' # 0 => Exists(j)'
      BY <1>3 DEF CallTableIInv, SlotInv
    <2>2. \A j \in Slots : Exists(j)' /\ Id(j)' = 0 =>
             BeingFilled(j)'
      <3>1. BeingFilled(i)'
        BY DEF BeingFilled, Entering
      <3>2. \A j \in Slots : j # i => ~BeingFilled(j)
        BY <1>7 DEF BeingFilled, Entering
      <3> QED BY <1>3, <3>1, <3>2 DEF CallTableIInv, SlotInv
    <2>3. \A j, k \in Slots : Id(j)' # 0 /\ Id(j)' = Id(k)' => j = k
      BY <1>3 DEF CallTableIInv, SlotInv
    <2>4. \A j \in Slots : Id(j)' <= var_count'
      BY <1>3, <1>4, <1>2 DEF CallTableIInv, SlotInv
    <2>5. \A j \in Slots : Id(j)' # 0 => early_count' < Id(j)'
      BY <1>3 DEF CallTableIInv, SlotInv
    <2> QED BY <2>1, <2>2, <2>3, <2>4, <2>5 DEF SlotInv
  <1>9. \A g, j : (Passed(g, j) /\ ~Before(Home(g), i, j)) => Passed(g, j)'
    BY <1>3 DEF Passed
  <1>10. ChainInv'
    BY <1>3, <1>9, SlotIsFree DEF CallTableIInv, ChainInv
  <1>11. Passed(h, i)'
    <2>1. ~Before(Home(h), i, i)
      BY <1>4, <1>2 DEF Passed
    <2> QED BY <1>4, <1>9, <2>1
  <1>12. ProbeInv'
    <2>1. \A u \in Threads : pc'[u] = "look" \/ Entering(u)' => u = t
      BY <1>7 DEF Entering
    <2>2. \A j \in Slots : Id(j)' < var_count'
      BY <1>2, <1>3, <1>4 DEF CallTableIInv, ProbeInv
    <2>3. early_count' < var_count'
      BY <1>3 DEF CallTableIInv, ProbeInv
    <2> QED BY <1>3, <1>11, <2>1, <2>2, <2>3 DEF ProbeInv, Entering
  <1>13. CountInv'
    <2>1. \A u \in Threads : Entering(u)' <=> Entering(u)
      BY <1>7 DEF Entering
    <2>2. Counted' = Counted
      BY <1>2, <1>3, <1>4, <2>1 DEF Counted
    <2> QED BY <1>3, <2>2 DEF CallTableIInv, CountInv
  <1>14. IdsInv'
    BY <1>3, <1>4 DEF CallTableIInv, IdsInv
  <1>15. DumpInv'
    <2>1. \A v \in before : v.id # 0
      BY DEF CallTableIInv, IdsInv, DumpInv
    <2> QED BY <1>2, <1>3, <1>4, <2>1 DEF CallTableIInv, DumpInv, final_vars
  <1>16. StartInv'
    BY DEF CallTableIInv, StartInv, NumbersMatchHashes, final_vars, start_vars
  <1> QED
    BY <1>5, <1>6, <1>8, <1>10, <1>12, <1>13, <1>14, <1>15, <1>16
       DEF CallTableIInv

(* The slot is marked as used before it has a number: no search counts it.  *)
LEMMA InsertInv ==
    ASSUME CallTableIInv, NEW t \in Threads, Insert(t)
    PROVE  CallTableIInv'
  <1> DEFINE e == [calltrack_hash_table[index[t]] EXCEPT !.exist = TRUE]
  <1>1. /\ pc[t] = "insert" /\ pc' = [pc EXCEPT ![t] = "fill"]
        /\ calltrack_hash_table' = [calltrack_hash_table EXCEPT ![index[t]] = e]
        /\ UNCHANGED <<var_count, g_lock, t_trace_flags, site, index, var_ids,
                       final_vars, start_vars>>
    BY DEF Insert, Goto, other_vars
  <1>2. index[t] \in Slots /\ calltrack_hash_table[index[t]] \in Entry
    BY DEF CallTableIInv, Types
  <1>3. e \in Entry /\ e.exist
    BY <1>2 DEF Entry
  <1>4. /\ pc'[t] = "fill" /\ \A u \in Threads : u # t => pc'[u] = pc[u]
        /\ pc' \in [Threads -> Places]
    BY <1>1 DEF CallTableIInv, Types, Places, Inside
  <1>5. Entering(t) /\ Entering(t)'
    BY <1>1, <1>4 DEF Entering
  <1> HIDE DEF e
  <1> QED
    BY <1>1, <1>3, <1>4, <1>5, SlotStepInv

(* The slot gets the hash value that the search was for.                    *)
LEMMA FillInv ==
    ASSUME CallTableIInv, NEW t \in Threads, Fill(t)
    PROVE  CallTableIInv'
  <1> DEFINE e == [calltrack_hash_table[index[t]]
                     EXCEPT !.hash_value = HashValue(site[t])]
  <1>1. /\ pc[t] = "fill" /\ pc' = [pc EXCEPT ![t] = "number"]
        /\ calltrack_hash_table' = [calltrack_hash_table EXCEPT ![index[t]] = e]
        /\ UNCHANGED <<var_count, g_lock, t_trace_flags, site, index, var_ids,
                       final_vars, start_vars>>
    BY DEF Fill, Goto, other_vars
  <1>2. /\ index[t] \in Slots /\ calltrack_hash_table[index[t]] \in Entry
        /\ HashValue(site[t]) \in 0 .. UIntSize - 1
    BY <1>1, SiteFacts DEF CallTableIInv, Types
  <1>3. /\ e \in Entry /\ e.hash_value = HashValue(site[t])
        /\ e.exist = calltrack_hash_table[index[t]].exist
    BY <1>2 DEF Entry
  <1>4. /\ pc'[t] = "number" /\ \A u \in Threads : u # t => pc'[u] = pc[u]
        /\ pc' \in [Threads -> Places]
    BY <1>1 DEF CallTableIInv, Types, Places, Inside
  <1>5. Entering(t) /\ Entering(t)' /\ e.exist
    BY <1>1, <1>3, <1>4 DEF Entering, CallTableIInv, ProbeInv, Exists
  <1> HIDE DEF e
  <1> QED
    BY <1>1, <1>3, <1>4, <1>5, SlotStepInv

(* The slot is numbered: the search that ended there passed every slot of   *)
(* the same search path, and its number is above all others.                *)
LEMMA NumberInv ==
    ASSUME CallTableIInv, NEW t \in Threads, Number(t)
    PROVE  CallTableIInv'
  <1> DEFINE i == index[t]
             h == HashValue(site[t])
             n == var_count
             v == [site |-> site[t], id |-> n]
  <1>1. /\ pc[t] = "number" /\ pc' = [pc EXCEPT ![t] = "unlock"]
        /\ calltrack_hash_table' = [calltrack_hash_table EXCEPT ![i].id = n]
        /\ var_ids' = var_ids \cup {v}
        /\ UNCHANGED <<var_count, g_lock, t_trace_flags, site, index, final_vars, start_vars>>
    BY DEF Number, Goto, Returned, other_vars
  <1>2. Entering(t) /\ pc[t] \in Inside
    BY <1>1 DEF Entering, Inside
  <1>3. i \in Slots /\ site[t] \in Sites /\ n \in Nat
    BY <1>1, SiteFacts DEF CallTableIInv, Types
  <1>5. /\ Id(i) = 0 /\ n # 0 /\ Passed(h, i) /\ Exists(i) /\ Hash(i) = h
        /\ early_count < n
        /\ \A j \in Slots : Id(j) < n /\ Id(j) \in Nat
    BY <1>1, <1>2, TableFacts DEF CallTableIInv, ProbeInv, Types
  <1>6. Types'
    BY <1>1, <1>3 DEF CallTableIInv, Types, Entry, Places, Inside, final_vars, start_vars
  <1>7. \A u \in Threads : pc'[u] = IF u = t THEN "unlock" ELSE pc[u]
    BY <1>1 DEF CallTableIInv, Types
  <1>8. LockInv'
    BY <1>1, <1>7 DEF CallTableIInv, LockInv, Inside
  <1>9. \A u \in Threads : u # t => ~(pc[u] = "look" \/ Entering(u))
    BY <1>2, OneInside DEF CallTableIInv, Entering, Inside
  <1>10. \A u \in Threads : ~(pc'[u] = "look" \/ Entering(u)')
    BY <1>7, <1>9 DEF Entering
  <1>4. /\ \A j \in Slots : Id(j)' = IF j = i THEN n ELSE Id(j)
        /\ \A j \in Slots : Hash(j)' = Hash(j) /\ Exists(j)' = Exists(j)
        /\ early_count' = early_count
    <2>1. \A j \in Slots :
             /\ calltrack_hash_table'[j].id
                  = IF j = i THEN n ELSE calltrack_hash_table[j].id
             /\ Hash(j)' = Hash(j) /\ Exists(j)' = Exists(j)
      BY <1>1, <1>3 DEF CallTableIInv, Types, Entry, Hash, Exists
    <2>2. \A j \in Slots : j # i => ~BeingFilled(j)
      BY <1>9 DEF BeingFilled, Entering
    <2>3. \A j \in Slots : ~BeingFilled(j)'
      BY <1>10 DEF BeingFilled, Entering
    <2> QED BY <1>1, <1>5, <2>1, <2>2, <2>3 DEF Id, start_vars
  <1>11. SlotInv'
    <2>1. \A j \in Slots : Id(j)' # 0 => Exists(j)'
      BY <1>4, <1>5 DEF CallTableIInv, SlotInv
    <2>2. \A j \in Slots : Exists(j)' => Id(j)' # 0
      BY <1>4, <1>5, <1>9 DEF CallTableIInv, SlotInv, BeingFilled, Entering
    <2>3. \A j, k \in Slots : Id(j)' # 0 /\ Id(j)' = Id(k)' => j = k
      BY <1>4, <1>5 DEF CallTableIInv, SlotInv
    <2>4. \A j \in Slots : Id(j)' <= var_count'
      BY <1>1, <1>3, <1>4, <1>5
    <2>5. \A j \in Slots : Id(j)' # 0 => early_count' < Id(j)'
      BY <1>4, <1>5 DEF CallTableIInv, SlotInv
    <2> QED BY <2>1, <2>2, <2>3, <2>4, <2>5 DEF SlotInv
  <1>12. \A g, j : Passed(g, j) => Passed(g, j)'
    BY <1>4, <1>5 DEF Passed
  <1>13. ChainInv'
    BY <1>4, <1>5, <1>12 DEF CallTableIInv, ChainInv
  <1>14. ProbeInv'
    BY <1>10 DEF ProbeInv, Entering
  <1>15. CountInv'
    <2>1. Counted' = Counted
      BY <1>1, <1>2, <1>3, <1>4, <1>5, <1>9, <1>10 DEF Counted
    <2> QED BY <1>1, <1>4, <2>1 DEF CallTableIInv, CountInv
  <1>16. IdsInv'
    <2>1. \A w \in var_ids : \E j \in Slots :
             w.id # 0 /\ Id(j)' = w.id /\ Hash(j)' = HashValue(w.site)
      BY <1>4, <1>5 DEF CallTableIInv, IdsInv
    <2>2. \E j \in Slots : v.id # 0 /\ Id(j)' = v.id /\ Hash(j)' = HashValue(v.site)
      BY <1>3, <1>4, <1>5
    <2> QED BY <1>1, <1>3, <2>1, <2>2 DEF IdsInv
  <1>17. DumpInv'
    <2>1. \A w \in before : w.id # n
      BY <1>5 DEF CallTableIInv, IdsInv, DumpInv
    <2> QED BY <1>1, <1>3, <1>4, <2>1 DEF CallTableIInv, DumpInv, final_vars
  <1>18. StartInv'
    BY <1>1
       DEF CallTableIInv, StartInv, NumbersMatchHashes, final_vars, start_vars
  <1> QED
    BY <1>6, <1>8, <1>11, <1>13, <1>14, <1>15, <1>16, <1>17, <1>18
       DEF CallTableIInv

-----------------------------------------------------------------------------
(* The constructor.                                                         *)

(* Hash values that are in the table under a number are in it once.         *)
LEMMA HashOnce ==
    ASSUME CallTableIInv, NEW i \in Slots, NEW j \in Slots,
           Id(i) # 0, Id(j) # 0, Hash(i) = Hash(j)
    PROVE  i = j
  BY TableFacts, BeforeTotal DEF CallTableIInv, ChainInv, Passed

(* Returned numbers are the same when the hash values are.                  *)
LEMMA IdsMatch == CallTableIInv => NumbersMatchHashes(var_ids)
  <1> SUFFICES ASSUME CallTableIInv, NEW a \in var_ids, NEW b \in var_ids
               PROVE  a.id = b.id <=> HashValue(a.site) = HashValue(b.site)
    BY DEF NumbersMatchHashes
  <1>1. PICK i \in Slots :
           a.id # 0 /\ Id(i) = a.id /\ Hash(i) = HashValue(a.site)
    BY DEF CallTableIInv, IdsInv
  <1>2. PICK j \in Slots :
           b.id # 0 /\ Id(j) = b.id /\ Hash(j) = HashValue(b.site)
    BY DEF CallTableIInv, IdsInv
  <1>3. a.id = b.id => i = j
    BY <1>1, <1>2 DEF CallTableIInv, SlotInv
  <1>4. HashValue(a.site) = HashValue(b.site) => i = j
    BY <1>1, <1>2, HashOnce
  <1> QED BY <1>1, <1>2, <1>3, <1>4

(* A number that was returned lies between the two values of var_count.     *)
LEMMA IdsInRange ==
    ASSUME CallTableIInv, NEW v \in var_ids
    PROVE  v.id \in early_count + 1 .. var_count
  <1>1. PICK i \in Slots : v.id # 0 /\ Id(i) = v.id
    BY DEF CallTableIInv, IdsInv
  <1>2. Id(i) \in Nat /\ Id(i) <= var_count /\ early_count < Id(i)
    BY <1>1, TableFacts DEF CallTableIInv, SlotInv
  <1> QED BY <1>1, <1>2 DEF CallTableIInv, Types

(* The second run of init: the table is empty again, and what was numbered  *)
(* before lies below what will be.                                          *)
LEMMA ConstructorInv ==
    ASSUME CallTableIInv, Constructor
    PROVE  CallTableIInv'
  <1> USE DEF Constructor, InitHashTable
  <1>1. /\ early_count = 0 /\ var_count \in 0 .. MAX_HASH_SIZE
        /\ dumper = None /\ dump_index = 0 /\ before = {}
    <2>1. early_count = 0 /\ var_count = 0 + Cardinality(Counted)
      BY DEF CallTableIInv, StartInv, CountInv
    <2>2. var_count \in 0 .. MAX_HASH_SIZE
      BY <2>1, CountedFits
    <2> QED BY <2>1, <2>2 DEF CallTableIInv, StartInv, DumpInv
  <1>2. Types'
    <2>1. calltrack_hash_table' \in [Slots -> Entry]
      BY DEF CallTableIInv, Types, Entry
    <2> QED BY <1>1, <2>1 DEF CallTableIInv, Types, final_vars
  <1>3. \A t \in Threads : pc'[t] = "run" /\ ~Entering(t)'
    BY DEF Entering
  <1>4. LockInv'
    BY <1>3 DEF CallTableIInv, LockInv, Inside
  <1>5. \A i \in Slots : Id(i)' = 0 /\ ~Exists(i)'
    BY DEF CallTableIInv, Types, Entry, Id, Exists
  <1>6. SlotInv' /\ ChainInv'
    BY <1>1, <1>5 DEF SlotInv, ChainInv
  <1>7. ProbeInv'
    BY <1>3 DEF ProbeInv, Entering
  <1>8. CountInv'
    <2>1. Counted' = {}
      BY <1>3, <1>5 DEF Counted
    <2> QED BY <1>1, <2>1, FS_EmptySet DEF CountInv
  <1>9. IdsInv' /\ DumpInv'
    BY <1>1 DEF IdsInv, DumpInv, final_vars
  <1>10. StartInv'
    <2>1. \A v \in var_ids : v.id \in 1 .. var_count
      BY <1>1, IdsInRange
    <2> QED BY <2>1, IdsMatch DEF StartInv, NumbersMatchHashes
  <1> QED
    BY <1>2, <1>4, <1>6, <1>7, <1>8, <1>9, <1>10 DEF CallTableIInv

-----------------------------------------------------------------------------
(* Theorems.                                                                *)

(* Every step keeps the invariant.                                          *)
LEMMA NextInv == CallTableIInv /\ [Next]_vars => CallTableIInv'
  <1> SUFFICES ASSUME CallTableIInv, [Next]_vars
               PROVE  CallTableIInv'
    OBVIOUS
  <1>1. ASSUME NEW t \in Threads, Step(t)
        PROVE  CallTableIInv'
    BY <1>1, LockStepInv, NestedMallocInv, IgnoreLibcInv, FoundInv, ProbeNextInv,
       CountVariableInv, InsertInv, FillInv, NumberInv, UnlockInv
       DEF Step
  <1>2. CASE UNCHANGED vars
    <2> USE <1>2 DEF vars, final_vars, start_vars
    <2>1. Types' /\ LockInv'
      BY DEF CallTableIInv, Types, LockInv
    <2>2. SlotInv' /\ ChainInv' /\ CountInv' /\ ProbeInv'
      BY TableUntouched, ProbeUntouched
    <2>3. IdsInv' /\ StartInv' /\ DumpInv'
      BY IdsUntouched
    <2> QED BY <2>1, <2>2, <2>3 DEF CallTableIInv
  <1> QED
    BY <1>1, <1>2, ConstructorInv, FinalInv, DumpStepInv, TraceInv DEF Next

(* In every reachable state the lock's holder alone works on the table, and *)
(* every number is in it once, on an unbroken search path.                  *)
THEOREM CallTableInvariance == Spec => []CallTableIInv
  <1>1. Init => CallTableIInv
    BY InitInv
  <1>2. CallTableIInv /\ [Next]_vars => CallTableIInv'
    BY NextInv
  <1> QED
    BY <1>1, <1>2, PTL DEF Spec

(* The variables keep their types; a run of init never counts past the      *)
(* table, whatever the number of call sites.                                *)
THEOREM CallTableTypes == Spec => []TypeOK
  <1>1. CallTableIInv => TypeOK
    <2> SUFFICES ASSUME CallTableIInv
                 PROVE  TypeOK
      OBVIOUS
    <2>1. var_count \in early_count .. early_count + MAX_HASH_SIZE
      <3>1. /\ var_count = early_count + Cardinality(Counted)
            /\ early_count \in Nat /\ MAX_HASH_SIZE \in Nat
        BY TableSizeAssumption DEF CallTableIInv, CountInv, Types
      <3> QED BY <3>1, CountedFits
    <2>2. var_ids \subseteq [site : Sites, id : early_count + 1 .. var_count]
      BY IdsInRange DEF CallTableIInv, Types
    <2>3. early_ids \subseteq [site : Sites, id : 1 .. early_count]
      BY DEF CallTableIInv, Types, StartInv
    <2> QED BY <2>1, <2>2, <2>3 DEF CallTableIInv, Types, TypeOK, Places, Inside
  <1> QED
    BY <1>1, CallTableInvariance, PTL

(* Whatever the threads, the hash function and the table, and however the   *)
(* threads interleave, a call site's hash value gets one number from the    *)
(* constructor on, and different hash values get different ones             *)
(* (LookHashTable); none of them was given before the constructor.          *)
THEOREM NumbersTellSites == Spec => []OneIdPerHash
  <1>1. CallTableIInv => OneIdPerHash
    <2> SUFFICES ASSUME CallTableIInv
                 PROVE  OneIdPerHash
      OBVIOUS
    <2>1. NumbersMatchHashes(early_ids) /\ NumbersMatchHashes(var_ids)
      BY IdsMatch DEF CallTableIInv, StartInv
    <2>2. \A a \in early_ids, b \in var_ids : a.id # b.id
      <3>1. \A a \in early_ids : a.id \in 1 .. early_count
        BY DEF CallTableIInv, StartInv
      <3>2. \A b \in var_ids : b.id \in early_count + 1 .. var_count
        BY IdsInRange
      <3> QED BY <3>1, <3>2 DEF CallTableIInv, Types
    <2> QED BY <2>1, <2>2 DEF OneIdPerHash
  <1> QED
    BY <1>1, CallTableInvariance, PTL

(* A search for any hash value in the table reaches its slot: it meets no   *)
(* empty slot and no other slot with that value on the way.                 *)
THEOREM EntriesAreFound == Spec => []EveryEntryIsReachable
  <1>1. CallTableIInv => EveryEntryIsReachable
    <2> SUFFICES ASSUME CallTableIInv, NEW i \in Slots,
                        Exists(i), ~BeingFilled(i),
                        NEW k \in 0 .. ((i + MAX_HASH_SIZE - Home(Hash(i)))
                                          % MAX_HASH_SIZE) - 1
                 PROVE  LET j == (Home(Hash(i)) + k) % MAX_HASH_SIZE
                        IN  Exists(j) /\ Hash(j) # Hash(i)
      BY DEF EveryEntryIsReachable, Id, Hash, Exists
    <2> DEFINE j == (Home(Hash(i)) + k) % MAX_HASH_SIZE
    <2>1. Home(Hash(i)) \in Slots /\ Id(i) # 0
      BY TableFacts DEF CallTableIInv, SlotInv
    <2>2. j \in Slots /\ Before(Home(Hash(i)), j, i)
      BY <2>1, DistanceIsBefore
    <2> HIDE DEF j
    <2>3. Id(j) # 0 /\ Hash(j) # Hash(i)
      BY <2>1, <2>2 DEF CallTableIInv, ChainInv, Passed
    <2>4. Exists(j)
      BY <2>2, <2>3 DEF CallTableIInv, SlotInv
    <2> QED BY <2>3, <2>4 DEF j
  <1> QED
    BY <1>1, CallTableInvariance, PTL

(* The dump of the thread that ends the process lists every variable whose  *)
(* number had been returned since the constructor, though it reads the      *)
(* table without the lock (DumpAllHashValues in final).                     *)
THEOREM DumpIsComplete == Spec => []DumpListsVariables
  <1>1. CallTableIInv => DumpListsVariables
    <2> SUFFICES ASSUME CallTableIInv, dump_index = MAX_HASH_SIZE, NEW v \in before
                 PROVE  [id |-> v.id, hash_value |-> HashValue(v.site)] \in dumped
      BY DEF DumpListsVariables
    <2>1. PICK i \in Slots : Id(i) = v.id
      BY DEF CallTableIInv, DumpInv, IdsInv
    <2>2. i < dump_index
      BY TableSizeAssumption DEF Slots
    <2> QED BY <2>1, <2>2 DEF CallTableIInv, DumpInv
  <1> QED
    BY <1>1, CallTableInvariance, PTL
=============================================================================
