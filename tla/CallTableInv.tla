----------------------------- MODULE CallTableInv -----------------------------
(***************************************************************************)
(* The inductive invariant of the table of call sites: what the probing    *)
(* thread has seen, and what the slots hold while it fills one of them.    *)
(***************************************************************************)
EXTENDS CallTable

Inside == {"symbols", "look", "insert", "fill", "number", "unlock"}

Places == {"run", "lock"} \cup Inside

Exists(i) == calltrack_hash_table[i].exist
Hash(i) == calltrack_hash_table[i].hash_value

(* The number of the variable in slot i.  0: the slot is empty or being     *)
(* filled, and the number in it is from before the constructor, or 0.       *)
Id(i) ==
    IF Exists(i) /\ ~BeingFilled(i) THEN calltrack_hash_table[i].id ELSE 0

(* Slot j comes before slot i when one starts at a and wraps around; none   *)
(* does when i is a.                                                        *)
Before(a, j, i) ==
    IF a <= i THEN a <= j /\ j < i ELSE a <= j \/ j < i

(* Every slot a search for h passes on its way to i holds another variable. *)
Passed(h, i) ==
    \A j \in Slots : Before(Home(h), j, i) => Id(j) # 0 /\ Hash(j) # h

(* Everything the types of the variables say, but for the bound on          *)
(* var_count.                                                               *)
Types ==
    /\ calltrack_hash_table \in [Slots -> Entry]
    /\ var_count \in Nat
    /\ g_lock \in Threads \cup {None}
    /\ t_trace_flags \in [Threads -> BOOLEAN]
    /\ pc \in [Threads -> Places]
    /\ site \in [Threads -> Sites \cup {None}]
    /\ index \in [Threads -> Slots]
    /\ var_ids \subseteq [site : Sites, id : Nat]
    /\ dumper \in Threads \cup {None}
    /\ dump_index \in 0 .. MAX_HASH_SIZE
    /\ constructed \in BOOLEAN
    /\ early_ids \subseteq [site : Sites, id : Nat]
    /\ early_count \in 0 .. MAX_HASH_SIZE

(* The thread that holds g_lock is the one inside; a thread is traced and   *)
(* has a call stack from its first step to its last.                        *)
LockInv ==
    \A t \in Threads :
        /\ pc[t] \in Inside <=> g_lock = t
        /\ t_trace_flags[t] <=> pc[t] # "run"
        /\ pc[t] # "run" => site[t] \in Sites

(* A thread has counted a variable it has not numbered yet.                 *)
Entering(t) == pc[t] \in {"insert", "fill", "number"}

(* A slot that exists has a number from after the constructor, but for the  *)
(* one that is being filled; no two slots have the same number.             *)
SlotInv ==
    /\ \A i \in Slots : Id(i) # 0 => Exists(i)
    /\ \A i \in Slots : Exists(i) /\ Id(i) = 0 => BeingFilled(i)
    /\ \A i, j \in Slots : Id(i) # 0 /\ Id(i) = Id(j) => i = j
    /\ \A i \in Slots : Id(i) <= var_count
    /\ \A i \in Slots : Id(i) # 0 => early_count < Id(i)

(* Every numbered slot was found empty by a search that passed the others.  *)
ChainInv == \A i \in Slots : Id(i) # 0 => Passed(Hash(i), i)

(* What the thread at a place of ShowStackframeMT knows of its slot.        *)
ProbeInv ==
    \A t \in Threads :
        /\ pc[t] = "look" \/ Entering(t) => Passed(HashValue(site[t]), index[t])
        /\ Entering(t) =>
             /\ Id(index[t]) = 0
             /\ early_count < var_count
             /\ \A i \in Slots : Id(i) < var_count
        /\ pc[t] = "insert" => ~Exists(index[t])
        /\ pc[t] \in {"fill", "number"} => Exists(index[t])
        /\ pc[t] = "number" => Hash(index[t]) = HashValue(site[t])

(* The slots var_count has counted since the constructor: it counts each    *)
(* once.                                                                    *)
Counted ==
    {i \in Slots : Id(i) # 0 \/ \E t \in Threads : Entering(t) /\ index[t] = i}

CountInv == var_count = early_count + Cardinality(Counted)

(* A number that was returned is in the table, under the hash of its site.  *)
IdsInv ==
    \A v \in var_ids :
        \E i \in Slots : v.id # 0 /\ Id(i) = v.id /\ Hash(i) = HashValue(v.site)

(* The numbers from before the constructor are those it had counted then.   *)
StartInv ==
    /\ ~constructed => early_count = 0 /\ early_ids = {} /\ dumper = None
    /\ \A v \in early_ids : v.id \in 1 .. early_count
    /\ NumbersMatchHashes(early_ids)

(* What was returned before the dump began and lies in the slots it has     *)
(* passed is in the lines it has written.                                   *)
DumpInv ==
    /\ dumper = None => dump_index = 0 /\ before = {}
    /\ before \subseteq var_ids
    /\ \A v \in before : \A i \in Slots :
          Id(i) = v.id /\ i < dump_index =>
             [id |-> v.id, hash_value |-> HashValue(v.site)] \in dumped

(* Nobody but the thread that holds the lock touches the table, and between *)
(* its steps every number is in the table once, on an unbroken search path. *)
CallTableIInv ==
    /\ Types
    /\ LockInv
    /\ SlotInv
    /\ ChainInv
    /\ ProbeInv
    /\ CountInv
    /\ IdsInv
    /\ StartInv
    /\ DumpInv
=============================================================================
