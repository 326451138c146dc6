------------------------------ MODULE CallTable ------------------------------
(***************************************************************************)
(* The table of call sites that gives every variable its number            *)
(* (calltrack/src/dcalltrack.h, LookHashTable), as the threads of the      *)
(* application use it through libdcalltrack_mt.so (dcalltrack_mt.cpp).     *)
(*                                                                         *)
(* A traced call takes g_lock, allocates and frees memory while it holds   *)
(* it (calls that come back into the library), and looks the call site up  *)
(* by linear probing, one slot a step.  t_trace_flags says which threads   *)
(* are inside a traced call.  A thread may call exit at any time: it dumps *)
(* the table without the lock, while the others go on.                     *)
(*                                                                         *)
(* init runs twice: from the first malloc or calloc of a library that is   *)
(* initialised earlier, which starts the tracing, and as the library's     *)
(* constructor, which empties the table but keeps var_count.               *)
(***************************************************************************)
EXTENDS Naturals, FiniteSets

CONSTANTS Threads,
          Sites,           \* call stacks of the application's allocations
          EarlySites,      \* those met before the constructor runs
          StringHash,      \* 64-bit hash of each call stack
          UIntSize,        \* 2^32: hash_value is an unsigned int
          MAX_HASH_SIZE,   \* slots of the table
          None             \* no thread, no call stack

ASSUME EarlyAssumption == EarlySites \subseteq Sites
ASSUME HashAssumption == StringHash \in [Sites -> Nat]
ASSUME UIntAssumption == UIntSize \in Nat \ {0}
ASSUME TableSizeAssumption == MAX_HASH_SIZE \in Nat \ {0}
ASSUME NoneAssumption == None \notin Threads \cup Sites

VARIABLES calltrack_hash_table,   \* slot -> exist, hash_value, id
          var_count,
          g_lock,                 \* the thread that holds the lock, or None
          t_trace_flags,
          pc, site, index,        \* each thread's place, call stack and slot
          var_ids,                \* numbers returned so far: site, id
          dumper,                 \* the thread that has called exit, or None
          dump_index,             \* the slot it has reached
          dumped,                 \* the lines it has written: id, hash_value
          before,                 \* history: numbers returned before that
          constructed,            \* has the constructor run?
          early_ids,              \* history: the numbers returned before it
          early_count             \* history: var_count when it ran

final_vars == <<dumper, dump_index, dumped, before>>

start_vars == <<constructed, early_ids, early_count>>

(* What a thread inside a traced call leaves alone.                         *)
other_vars == <<final_vars, start_vars>>

vars == <<calltrack_hash_table, var_count, g_lock, t_trace_flags, pc, site,
          index, var_ids, final_vars, start_vars>>

Slots == 0 .. MAX_HASH_SIZE - 1

Entry == [exist : BOOLEAN, hash_value : 0 .. UIntSize - 1, id : Nat]

(* unsigned int hash_value = StringHash(str).                               *)
HashValue(s) == StringHash[s] % UIntSize

Home(h) == h % MAX_HASH_SIZE

(* Mutant: the search steps over every other slot.                          *)
NextSlotByTwo(i) == (i + 2) % MAX_HASH_SIZE

(* Mutant: the search tries the same slot again.                            *)
NextSlotStays(i) == i

NextSlot(i) == (i + 1) % MAX_HASH_SIZE

Goto(t, place) == pc' = [pc EXCEPT ![t] = place]

(* malloc, calloc or realloc has its block and starts to trace it.  calloc  *)
(* does so even after final has set trace_flag.  Until the constructor has  *)
(* run the process has one thread.                                          *)
Trace(t, s) ==
    /\ pc[t] = "run" /\ ~t_trace_flags[t] /\ t # dumper
    /\ constructed \/ (s \in EarlySites /\ \A u \in Threads : pc[u] = "run")
    /\ t_trace_flags' = [t_trace_flags EXCEPT ![t] = TRUE]
    /\ site' = [site EXCEPT ![t] = s]
    /\ Goto(t, "lock")
    /\ UNCHANGED <<calltrack_hash_table, var_count, g_lock, index, var_ids, other_vars>>

(* Mutant: the lock is not taken.                                           *)
MayEnterAlways(t) == TRUE

MayEnter(t) == g_lock = None

Lock(t) ==
    /\ pc[t] = "lock" /\ MayEnter(t)
    /\ g_lock' = t
    /\ Goto(t, "symbols")
    /\ UNCHANGED <<calltrack_hash_table, var_count, t_trace_flags, site, index,
                   var_ids, other_vars>>

TracesNested(t) == ~t_trace_flags[t]

(* backtrace_symbols and malloc come back into the library.                 *)
NestedMalloc(t) ==
    /\ pc[t] = "symbols"
    /\ IF TracesNested(t)
       THEN Goto(t, "lock") /\ UNCHANGED index
       ELSE /\ Goto(t, "look")
            /\ index' = [index EXCEPT ![t] = Home(HashValue(site[t]))]
    /\ UNCHANGED <<calltrack_hash_table, var_count, g_lock, t_trace_flags, site,
                   var_ids, other_vars>>

(* The caller is libc itself: such a block is not a variable.               *)
IgnoreLibc(t) ==
    /\ pc[t] = "symbols" /\ ~TracesNested(t)
    /\ Goto(t, "unlock")
    /\ UNCHANGED <<calltrack_hash_table, var_count, g_lock, t_trace_flags, site,
                   index, var_ids, other_vars>>

Returned(t, i) == var_ids' = var_ids \cup {[site |-> site[t], id |-> i]}

Found(t) ==
    LET e == calltrack_hash_table[index[t]]
    IN  /\ pc[t] = "look"
        /\ e.exist /\ e.hash_value = HashValue(site[t])
        /\ Returned(t, e.id)
        /\ Goto(t, "unlock")
        /\ UNCHANGED <<calltrack_hash_table, var_count, g_lock, t_trace_flags,
                       site, index, other_vars>>

ProbeNext(t) ==
    LET e == calltrack_hash_table[index[t]]
    IN  /\ pc[t] = "look"
        /\ e.exist /\ e.hash_value # HashValue(site[t])
        /\ index' = [index EXCEPT ![t] = NextSlot(@)]
        /\ UNCHANGED <<calltrack_hash_table, var_count, g_lock, t_trace_flags,
                       pc, site, var_ids, other_vars>>

(* found == 0: var_count is advanced before the entry is filled in.         *)
CountVariable(t) ==
    /\ pc[t] = "look"
    /\ ~calltrack_hash_table[index[t]].exist
    /\ var_count' = var_count + 1
    /\ Goto(t, "insert")
    /\ UNCHANGED <<calltrack_hash_table, g_lock, t_trace_flags, site, index,
                   var_ids, other_vars>>

Insert(t) ==
    /\ pc[t] = "insert"
    /\ calltrack_hash_table' = [calltrack_hash_table EXCEPT ![index[t]].exist = TRUE]
    /\ Goto(t, "fill")
    /\ UNCHANGED <<var_count, g_lock, t_trace_flags, site, index, var_ids,
                   other_vars>>

Fill(t) ==
    /\ pc[t] = "fill"
    /\ calltrack_hash_table' =
         [calltrack_hash_table EXCEPT ![index[t]].hash_value = HashValue(site[t])]
    /\ Goto(t, "number")
    /\ UNCHANGED <<var_count, g_lock, t_trace_flags, site, index, var_ids,
                   other_vars>>

Number(t) ==
    /\ pc[t] = "number"
    /\ calltrack_hash_table' = [calltrack_hash_table EXCEPT ![index[t]].id = var_count]
    /\ Returned(t, var_count)
    /\ Goto(t, "unlock")
    /\ UNCHANGED <<var_count, g_lock, t_trace_flags, site, index, other_vars>>

Unlock(t) ==
    /\ pc[t] = "unlock"
    /\ g_lock' = None
    /\ t_trace_flags' = [t_trace_flags EXCEPT ![t] = FALSE]
    /\ Goto(t, "run")
    /\ site' = [site EXCEPT ![t] = None]
    /\ index' = [index EXCEPT ![t] = 0]
    /\ UNCHANGED <<calltrack_hash_table, var_count, var_ids, other_vars>>

(* Every slot is out of use; hash values and numbers stay where they are.   *)
InitHashTable ==
    calltrack_hash_table' =
      [i \in Slots |-> [calltrack_hash_table[i] EXCEPT !.exist = FALSE]]

(* init runs as the constructor.  var_count goes on from where it is.       *)
Constructor ==
    /\ ~constructed /\ \A t \in Threads : pc[t] = "run"
    /\ InitHashTable
    /\ t_trace_flags' = [t \in Threads |-> FALSE]
    /\ constructed' = TRUE
    /\ early_ids' = var_ids /\ early_count' = var_count
    /\ var_ids' = {}
    /\ UNCHANGED <<var_count, g_lock, pc, site, index, final_vars>>

(* final: the thread that ends the process is outside the library.          *)
Final(t) ==
    /\ constructed /\ pc[t] = "run" /\ dumper = None
    /\ dumper' = t
    /\ before' = var_ids
    /\ UNCHANGED <<calltrack_hash_table, var_count, g_lock, t_trace_flags, pc, site,
                   index, var_ids, dump_index, dumped, start_vars>>

(* Mutant: a slot is read only while the lock is free.                      *)
DumpSkipsBusy(t) ==
    /\ t = dumper /\ dump_index < MAX_HASH_SIZE
    /\ LET e == calltrack_hash_table[dump_index]
       IN  dumped' = IF e.exist /\ g_lock = None
                     THEN dumped \cup {[id |-> e.id, hash_value |-> e.hash_value]}
                     ELSE dumped
    /\ dump_index' = dump_index + 1
    /\ UNCHANGED <<calltrack_hash_table, var_count, g_lock, t_trace_flags, pc, site,
                   index, var_ids, dumper, before, start_vars>>

(* DumpAllHashValues.  A line of an entry that is being filled shows what   *)
(* is there: the number of an entry from before the constructor, for one.   *)
Dump(t) ==
    /\ t = dumper /\ dump_index < MAX_HASH_SIZE
    /\ LET e == calltrack_hash_table[dump_index]
       IN  dumped' = IF e.exist
                     THEN dumped \cup {[id |-> e.id, hash_value |-> e.hash_value]}
                     ELSE dumped
    /\ dump_index' = dump_index + 1
    /\ UNCHANGED <<calltrack_hash_table, var_count, g_lock, t_trace_flags, pc, site,
                   index, var_ids, dumper, before, start_vars>>

(* init has run, from a malloc before the constructor or as the constructor. *)
Init ==
    /\ calltrack_hash_table =
         [i \in Slots |-> [exist |-> FALSE, hash_value |-> 0, id |-> 0]]
    /\ var_count = 0
    /\ g_lock = None
    /\ t_trace_flags = [t \in Threads |-> FALSE]
    /\ pc = [t \in Threads |-> "run"]
    /\ site = [t \in Threads |-> None]
    /\ index = [t \in Threads |-> 0]
    /\ var_ids = {}
    /\ dumper = None /\ dump_index = 0 /\ dumped = {} /\ before = {}
    /\ constructed = FALSE /\ early_ids = {} /\ early_count = 0

(* The steps of a thread inside ShowStackframeMT.                           *)
Step(t) ==
    \/ Lock(t) \/ NestedMalloc(t) \/ IgnoreLibc(t)
    \/ Found(t) \/ ProbeNext(t) \/ CountVariable(t) \/ Insert(t) \/ Fill(t)
    \/ Number(t) \/ Unlock(t)

Next ==
    \/ Constructor
    \/ \E t \in Threads :
          Step(t) \/ Final(t) \/ Dump(t) \/ \E s \in Sites : Trace(t, s)

Spec == Init /\ [][Next]_vars

(* A thread inside the library is scheduled; nothing is assumed about which *)
(* of two waiting threads gets the lock, nor that threads call at all.      *)
FairSpec == Spec /\ \A t \in Threads : WF_vars(Step(t))

-----------------------------------------------------------------------------
(* Type correctness.  Each run of init leaves room for a whole table.       *)
TypeOK ==
    /\ calltrack_hash_table \in [Slots -> Entry]
    /\ early_count \in 0 .. MAX_HASH_SIZE
    /\ var_count \in early_count .. early_count + MAX_HASH_SIZE
    /\ g_lock \in Threads \cup {None}
    /\ t_trace_flags \in [Threads -> BOOLEAN]
    /\ pc \in [Threads -> {"run", "lock", "symbols", "look", "insert", "fill",
                       "number", "unlock"}]
    /\ site \in [Threads -> Sites \cup {None}]
    /\ index \in [Threads -> Slots]
    /\ early_ids \subseteq [site : Sites, id : 1 .. early_count]
    /\ var_ids \subseteq [site : Sites, id : early_count + 1 .. var_count]
    /\ dumper \in Threads \cup {None} /\ dump_index \in 0 .. MAX_HASH_SIZE
    /\ constructed \in BOOLEAN

NumbersMatchHashes(ids) ==
    \A a, b \in ids : a.id = b.id <=> HashValue(a.site) = HashValue(b.site)

(* Whatever the interleaving, a hash value is given one number from the     *)
(* constructor to the end, and different hash values different numbers.  So *)
(* it is before the constructor; a number from then is never given again,   *)
(* and a hash value met on both sides of it has two.                        *)
OneIdPerHash ==
    /\ NumbersMatchHashes(early_ids) /\ NumbersMatchHashes(var_ids)
    /\ \A a \in early_ids, b \in var_ids : a.id # b.id

(* A thread has taken the slot and has not written its number yet.          *)
BeingFilled(i) ==
    \E t \in Threads : pc[t] \in {"fill", "number"} /\ index[t] = i

(* Every hash value in the table can be found: it is there once, and no     *)
(* slot between its home and its place is empty.                            *)
EveryEntryIsReachable ==
    \A i \in Slots : calltrack_hash_table[i].exist /\ ~BeingFilled(i) =>
        LET h == calltrack_hash_table[i].hash_value
            d == (i + MAX_HASH_SIZE - Home(h)) % MAX_HASH_SIZE
        IN  \A k \in 0 .. d - 1 :
              LET e == calltrack_hash_table[(Home(h) + k) % MAX_HASH_SIZE]
              IN  e.exist /\ e.hash_value # h

(* The dump at the end has a line for every variable whose number the       *)
(* library had returned between the constructor and the time the process    *)
(* began to end, although other threads look up and enter call sites all    *)
(* the while.  What was numbered before the constructor, and not met again, *)
(* is not in it.                                                            *)
DumpListsVariables ==
    dump_index = MAX_HASH_SIZE =>
        \A v \in before : [id |-> v.id, hash_value |-> HashValue(v.site)] \in dumped

(* A thread that takes the lock gives it back as long as its call site or   *)
(* an empty slot is in the table: its own allocations under the lock never  *)
(* wait for it, and the search ends.                                        *)
LockIsReleased ==
    \A t \in Threads :
        /\ g_lock = t
        /\ \E i \in Slots : LET e == calltrack_hash_table[i]
                            IN  e.exist => e.hash_value = HashValue(site[t])
        ~> g_lock # t
=============================================================================
