--------------------------- MODULE NVMallocProofs ---------------------------
(***************************************************************************)
(* Proofs about the NVM allocation library and about the wrapper           *)
(* libdeepmap.so on top of it.                                             *)
(***************************************************************************)
EXTENDS Deepmap, NVMallocInv, WellFoundedInduction, TLAPS

-----------------------------------------------------------------------------
(* The operators of the model.                                              *)

(* Files have at least one page.                                            *)
LEMMA RoundsizePositive ==
    ASSUME NEW size \in Sizes, size > 0
    PROVE  roundsize(size) \in Nat /\ roundsize(size) > 0
<1> DEFINE s == size_align - 1 + size
<1>1. size_align \in Nat /\ size_align > 0 /\ size \in Nat
    BY AlignAssumption, SizesAssumption
<1>2. s \in Nat /\ s >= size_align
    BY <1>1
<1>3. s = size_align * (s \div size_align) + (s % size_align)
    BY <1>1, <1>2
<1>4. s \div size_align \in Int /\ s % size_align \in 0 .. size_align - 1
    BY <1>1, <1>2
<1> HIDE DEF s
<1>5. s \div size_align > 0
    <2> DEFINE d == s \div size_align
               m == s % size_align
    <2> HIDE DEF d, m
    <2>1. s = size_align * d + m /\ d \in Int /\ m \in 0 .. size_align - 1
        BY <1>3, <1>4 DEF d, m
    <2>2. size_align * d > 0
        BY <1>1, <1>2, <2>1
    <2>3. d > 0
        BY <1>1, <2>1, <2>2
    <2> QED
        BY <2>3 DEF d
<1> QED
    BY <1>4, <1>5 DEF roundsize, s

(* First finds the smallest element, and only that.                         *)
LEMMA FirstFinds ==
    ASSUME NEW S \in SUBSET Nat, S # {}
    PROVE  First(S) \in S /\ \A j \in S : First(S) <= j
<1>1. PICK x \in S : \A y \in S : <<y, x>> \notin OpToRel(<, Nat)
    BY NatLessThanWellFounded, WFMin, Zenon
<1>2. ASSUME NEW y \in S
      PROVE  x <= y
    <2>1. ~(y < x)
        BY <1>1 DEF OpToRel
    <2>2. x \in Nat /\ y \in Nat
        OBVIOUS
    <2> QED
        BY <2>1, <2>2
<1> QED
    BY <1>2 DEF First

(* The smallest element, given by what it is.                               *)
LEMMA FirstIs ==
    ASSUME NEW S \in SUBSET Nat, NEW i \in S, \A j \in S : i <= j
    PROVE  First(S) = i
<1>1. First(S) \in S /\ First(S) <= i
    BY FirstFinds
<1>2. i <= First(S) /\ i \in Nat /\ First(S) \in Nat
    BY <1>1
<1> QED
    BY <1>1, <1>2

(* With adds or replaces one value of a function.                           *)
LEMMA WithIs ==
    ASSUME NEW f, NEW x, NEW v
    PROVE  /\ DOMAIN With(f, x, v) = DOMAIN f \cup {x}
           /\ With(f, x, v)[x] = v
           /\ \A y \in DOMAIN f \ {x} : With(f, x, v)[y] = f[y]
BY DEF With

(* Without takes one value from a function.                                 *)
LEMMA WithoutIs ==
    ASSUME NEW f, NEW x
    PROVE  /\ DOMAIN Without(f, x) = DOMAIN f \ {x}
           /\ \A y \in DOMAIN f \ {x} : Without(f, x)[y] = f[y]
BY DEF Without

(* Functions from a subset of D to T.                                       *)
Partial(f, D, T) == f \in [DOMAIN f -> T] /\ DOMAIN f \subseteq D

(* Adding a value of the right type keeps the type.                         *)
LEMMA WithType ==
    ASSUME NEW f, NEW D, NEW T, Partial(f, D, T), NEW x \in D, NEW v \in T
    PROVE  Partial(With(f, x, v), D, T)
BY DEF With, Partial

(* Taking a value keeps the type.                                           *)
LEMMA WithoutType ==
    ASSUME NEW f, NEW D, NEW T, Partial(f, D, T), NEW x
    PROVE  Partial(Without(f, x), D, T)
BY DEF Without, Partial

FileRecords == [pages : Nat, mine : BOOLEAN]

VarRecords == [pages : Nat, file : Names]

(* The types of the model, with the functions from subsets as Partial.      *)
LEMMA TypesArePartial ==
    TypeOK <=> /\ var_info_table \in [Slots -> VarInfo]
               /\ f_idx \in 0 .. MAX_FILE_INDEX_LIMIT
               /\ Partial(files, Names, FileRecords)
               /\ mem \in [Pages -> Names \cup {0}]
               /\ Partial(vars_of, Pages, VarRecords)
               /\ returned \in BOOLEAN
               /\ proc \in {"down", "up", "exit"}
BY DEF TypeOK, Partial, FileRecords, VarRecords

(* The search by address finds the lowest slot that has the address.        *)
LEMMA SlotOfIsSlot ==
    ASSUME NEW a, Registered(a)
    PROVE  /\ SlotOf(a) \in Slots
           /\ var_info_table[SlotOf(a)].addr = a
           /\ \A j \in SlotsOf(a) : SlotOf(a) <= j
<1>1. SlotsOf(a) \in SUBSET Nat
    BY SlotsAssumption DEF SlotsOf, Slots
<1> QED
    BY <1>1, FirstFinds DEF SlotsOf, SlotOf, Registered

(* The search for an empty slot finds the lowest one.                       *)
LEMMA EmptySlotIsSlot ==
    ASSUME Empties # {}
    PROVE  /\ find_empty_slot \in Slots
           /\ var_info_table[find_empty_slot].flag = 0
           /\ \A j \in Empties : find_empty_slot <= j
<1>1. Empties \in SUBSET Nat
    BY SlotsAssumption DEF Empties, Slots
<1> QED
    BY <1>1, FirstFinds DEF Empties, find_empty_slot

(* The search by name finds the slot that has the name.                     *)
LEMMA SlotOfName ==
    ASSUME OneSlotPerFile, NEW i \in Slots, var_info_table[i].fname # 0
    PROVE  First({j \in Slots : var_info_table[j].fname = var_info_table[i].fname}) = i
<1> DEFINE S == {j \in Slots : var_info_table[j].fname = var_info_table[i].fname}
<1>1. S = {i}
    BY DEF OneSlotPerFile
<1>2. S \in SUBSET Nat /\ i \in Nat
    BY SlotsAssumption DEF Slots
<1> HIDE DEF S
<1>3. i \in S /\ \A j \in S : i <= j
    BY <1>1, <1>2
<1>4. First(S) = i
    BY <1>2, <1>3, FirstIs
<1> QED
    BY <1>4 DEF S

-----------------------------------------------------------------------------
(* What the calls do, with the slot and the file that they find.            *)

NextName == f_idx + 1

(* nvm_malloc: n pages at a, in a new file and in slot k, which was empty   *)
(* and is the first such.                                                   *)
Allocates(a, k, n) ==
    /\ proc = "up" /\ MayCreate(NextName)
    /\ k \in Slots /\ var_info_table[k].flag = 0 /\ \A j \in Empties : k <= j
    /\ a \in MapBases(mem, n)
    /\ var_info_table' = [var_info_table EXCEPT
           ![k] = [addr |-> a, fname |-> NextName, size |-> n, flag |-> 1]]
    /\ f_idx' = NextName
    /\ files' = With(files, NextName, [pages |-> n, mine |-> TRUE])
    /\ mem' = mmap(mem, a, n, NextName)
    /\ vars_of' = With(vars_of, a, [pages |-> n, file |-> NextName])
    /\ UNCHANGED <<returned, proc>>

(* nvm_malloc takes the first empty slot and a file that did not exist.     *)
LEMMA MallocAllocates ==
    ASSUME NEW size \in Sizes, nvm_malloc(size)
    PROVE  \E a \in Pages, k \in Slots, n \in Nat \ {0} : Allocates(a, k, n)
<1> DEFINE n == roundsize(size)
<1>1. n \in Nat \ {0} /\ NextName \notin DOMAIN files
    BY RoundsizePositive DEF nvm_malloc, MayCreate, NextName
<1>2. PICK a \in MapBases(mem, n) :
         /\ var_info_table' = register_name_space(a, NextName, n)
         /\ mem' = mmap(mem, a, n, NextName)
         /\ vars_of' = With(vars_of, a, [pages |-> n, file |-> NextName])
    BY DEF nvm_malloc, NextName
<1>3. files' = With(files, NextName, [pages |-> n, mine |-> TRUE])
    BY <1>1 DEF nvm_malloc, NextName
<1>4. Empties # {} /\ proc = "up" /\ MayCreate(NextName) /\ f_idx' = NextName
      /\ UNCHANGED <<returned, proc>>
    BY DEF nvm_malloc, NextName
<1>5. Allocates(a, find_empty_slot, n)
    BY <1>2, <1>3, <1>4, EmptySlotIsSlot DEF Allocates, register_name_space
<1> QED
    BY <1>1, <1>2, <1>4, <1>5, EmptySlotIsSlot DEF MapBases

(* nvm_free: the file of slot i, the first with address a, is unlinked.     *)
Releases(a, i) ==
    /\ proc = "up"
    /\ i \in Slots /\ var_info_table[i].addr = a /\ \A j \in SlotsOf(a) : i <= j
    /\ mem' = munmap(mem, a, var_info_table[i].size)
    /\ var_info_table' = [var_info_table EXCEPT ![i].flag = 0]
    /\ files' = Without(files, var_info_table[i].fname)
    /\ vars_of' = Without(vars_of, a)
    /\ UNCHANGED <<f_idx, returned, proc>>

(* nvm_free clears the slot that the address is found in, and its file.     *)
LEMMA FreeReleases ==
    ASSUME NEW a, nvm_free(a)
    PROVE  \E i \in Slots : Releases(a, i)
<1>1. SlotOf(a) \in Slots /\ var_info_table[SlotOf(a)].addr = a
      /\ \A j \in SlotsOf(a) : SlotOf(a) <= j
    BY SlotOfIsSlot DEF nvm_free
<1>2. Releases(a, SlotOf(a))
    BY <1>1 DEF nvm_free, unregister_name_space, unlink, Releases
<1> QED
    BY <1>1, <1>2

(* nvm_realloc: the file of slot i, the first with address a, gets n pages  *)
(* and is mapped at b.                                                      *)
Resizes(a, i, b, n) ==
    LET name == var_info_table[i].fname
        m    == munmap(mem, a, files[name].pages)
    IN  /\ proc = "up" /\ name \in DOMAIN files
        /\ i \in Slots /\ var_info_table[i].addr = a /\ \A j \in SlotsOf(a) : i <= j
        /\ b \in MapBases(m, n)
        /\ mem' = mmap(m, b, n, name)
        /\ var_info_table' = [var_info_table EXCEPT ![i] = [@ EXCEPT !.size = n, !.addr = b]]
        /\ files' = [files EXCEPT ![name].pages = n]
        /\ vars_of' = With(Without(vars_of, a), b,
                           [pages |-> n, file |-> IF a \in DOMAIN vars_of
                                                  THEN vars_of[a].file ELSE name])
        /\ returned' = (returned \/ \E j \in SlotsOf(b) : var_info_table[j].flag = 0)
        /\ UNCHANGED <<f_idx, proc>>

(* A resized file has a number of pages, whether posix_fallocate fails or   *)
(* not.                                                                     *)
LEMMA ResizedIsNat ==
    ASSUME TypeOK, NEW name \in DOMAIN files, NEW size \in Sizes, size > 0,
           NEW n \in Resized(files[name].pages, size)
    PROVE  n \in Nat
<1>1. roundsize(size) \in Nat
    BY RoundsizePositive
<1>2. files[name].pages \in Nat
    BY DEF TypeOK
<1> QED
    BY <1>1, <1>2 DEF Resized

(* nvm_realloc resizes the file of the slot that the address is found in.   *)
LEMMA ReallocResizes ==
    ASSUME FilesInv, NEW a, NEW size \in Sizes, nvm_realloc(a, size)
    PROVE  \E i \in Slots, b \in Pages, n \in Nat \ {0} : Resizes(a, i, b, n)
<1> DEFINE i    == SlotOf(a)
           name == var_info_table[i].fname
           m    == munmap(mem, a, files[name].pages)
<1>1. i \in Slots /\ var_info_table[i].addr = a /\ \A j \in SlotsOf(a) : i <= j
    BY SlotOfIsSlot DEF nvm_realloc
<1>2. name \in DOMAIN files /\ name # 0
    BY <1>1 DEF nvm_realloc, FilesInv, TypeOK, Names
<1>3. First({j \in Slots : var_info_table[j].fname = name}) = i
    BY <1>1, <1>2, SlotOfName DEF FilesInv
<1>4. PICK n \in Resized(files[name].pages, size) : \E b \in MapBases(m, n) :
         /\ mem' = mmap(m, b, n, name)
         /\ var_info_table' = update_name_space(name, n, b)
         /\ vars_of' = With(Without(vars_of, a), b, [pages |-> n, file |-> FileOf(a)])
         /\ returned' = (returned \/ \E j \in SlotsOf(b) : var_info_table[j].flag = 0)
         /\ files' = [files EXCEPT ![name].pages = n]
    BY DEF nvm_realloc
<1>5. PICK b \in MapBases(m, n) :
         /\ mem' = mmap(m, b, n, name)
         /\ var_info_table' = update_name_space(name, n, b)
         /\ vars_of' = With(Without(vars_of, a), b, [pages |-> n, file |-> FileOf(a)])
         /\ returned' = (returned \/ \E j \in SlotsOf(b) : var_info_table[j].flag = 0)
         /\ files' = [files EXCEPT ![name].pages = n]
    BY <1>4
<1>6. n \in Nat \ {0}
    <2>1. n \in Nat
        BY <1>2, ResizedIsNat DEF FilesInv, nvm_realloc
    <2> QED
        BY <1>5, <2>1 DEF MapBases
<1>7. var_info_table' = [var_info_table EXCEPT ![i] = [@ EXCEPT !.size = n, !.addr = b]]
    BY <1>3, <1>5 DEF update_name_space
<1>8. FileOf(a) = IF a \in DOMAIN vars_of THEN vars_of[a].file ELSE name
    BY DEF FileOf
<1>9. proc = "up" /\ UNCHANGED <<f_idx, proc>>
    BY DEF nvm_realloc
<1> HIDE DEF i
<1>10. Resizes(a, i, b, n)
    BY <1>1, <1>2, <1>5, <1>7, <1>8, <1>9 DEF Resizes
<1> QED
    BY <1>1, <1>5, <1>6, <1>10 DEF MapBases

-----------------------------------------------------------------------------
(* The name space and the files, whatever pointers are passed.              *)

(* A new file has a name that no slot has, so every file keeps its one      *)
(* slot.                                                                    *)
LEMMA AllocatesFiles ==
    ASSUME FilesInv, NEW a \in Pages, NEW k \in Slots, NEW n \in Nat \ {0},
           Allocates(a, k, n)
    PROVE  FilesInv'
<1>1. TypeOK /\ NextName \in Names /\ NextName \notin DOMAIN files
    BY DEF FilesInv, TypeOK, Allocates, MayCreate, NextName, Names
<1>2. /\ DOMAIN files' = DOMAIN files \cup {NextName}
      /\ files'[NextName] = [pages |-> n, mine |-> TRUE]
      /\ \A f \in DOMAIN files : files'[f] = files[f]
    BY <1>1 DEF Allocates, With
<1>3. /\ var_info_table'[k] = [addr |-> a, fname |-> NextName, size |-> n, flag |-> 1]
      /\ \A i \in Slots \ {k} : var_info_table'[i] = var_info_table[i]
    BY <1>1 DEF Allocates, TypeOK
<1>4. TypeOK'
    <2>1. var_info_table' \in [Slots -> VarInfo]
        BY <1>1 DEF Allocates, TypeOK, VarInfo
    <2>2. Partial(files', Names, FileRecords)
        <3>1. [pages |-> n, mine |-> TRUE] \in FileRecords
            BY DEF FileRecords
        <3>2. files' = With(files, NextName, [pages |-> n, mine |-> TRUE])
            BY DEF Allocates
        <3>3. Partial(files, Names, FileRecords)
            BY <1>1, TypesArePartial
        <3> QED
            BY ONLY <1>1, <3>1, <3>2, <3>3, WithType, Zenon
    <2>3. Partial(vars_of', Pages, VarRecords)
        <3>1. [pages |-> n, file |-> NextName] \in VarRecords
            BY <1>1 DEF VarRecords
        <3>2. vars_of' = With(vars_of, a, [pages |-> n, file |-> NextName])
            BY DEF Allocates
        <3>3. Partial(vars_of, Pages, VarRecords)
            BY <1>1, TypesArePartial
        <3> QED
            BY <3>1, <3>2, <3>3, WithType, Zenon
    <2>4. mem' \in [Pages -> Names \cup {0}]
        BY <1>1 DEF Allocates, TypeOK, mmap
    <2>5. f_idx' \in 0 .. MAX_FILE_INDEX_LIMIT
        BY <1>1 DEF Allocates, Names
    <2>6. UNCHANGED <<returned, proc>>
        BY DEF Allocates
    <2>7. returned' \in BOOLEAN /\ proc' \in {"down", "up", "exit"}
        BY <1>1, <2>6 DEF TypeOK
    <2> QED
        BY <2>1, <2>2, <2>3, <2>4, <2>5, <2>7
        DEF TypeOK, Partial, FileRecords, VarRecords
<1>5. SlotsAreUsed'
    BY <1>1, <1>3
    DEF FilesInv, SlotsAreUsed, Allocates, TypeOK, VarInfo, NextName, Names
<1>6. OneSlotPerFile'
    <2>1. \A i \in Slots : var_info_table[i].fname <= f_idx /\ var_info_table[i].fname \in Nat
        BY <1>1 DEF FilesInv, SlotsAreUsed, TypeOK, VarInfo, Names
    <2>2. \A i \in Slots : var_info_table[i].fname # NextName
        BY <1>1, <2>1 DEF NextName, TypeOK
    <2> QED
        BY <1>3, <2>2 DEF FilesInv, OneSlotPerFile
<1>7. ReleasedFilesAreGone'
    <2>1. \A i \in Slots : var_info_table[i].fname <= f_idx /\ var_info_table[i].fname \in Nat
        BY <1>1 DEF FilesInv, SlotsAreUsed, TypeOK, VarInfo, Names
    <2>2. \A i \in Slots : var_info_table[i].fname # NextName
        BY <1>1, <2>1 DEF NextName, TypeOK
    <2> QED
        BY <1>2, <1>3, <2>2 DEF FilesInv, ReleasedFilesAreGone
<1>8. OwnFilesAreCounted'
    <2>1. f_idx \in Nat /\ f_idx' = f_idx + 1 /\ NextName = f_idx + 1
        BY <1>1 DEF TypeOK, Allocates, NextName
    <2>2. \A f \in DOMAIN files : f \in Nat /\ f # NextName
        BY <1>1 DEF TypeOK, Names
    <2>3. \A f \in DOMAIN files : f <= f_idx <=> f <= f_idx'
        BY <2>1, <2>2
    <2>4. NextName <= f_idx'
        BY <2>1
    <2> QED
        BY <1>2, <2>3, <2>4 DEF FilesInv, OwnFilesAreCounted
<1>9. FilesHaveSlots'
    <2>1. \A f \in DOMAIN files : files[f].mine =>
             \E i \in Slots : var_info_table[i].fname = f /\ i # k
        BY <1>1 DEF FilesInv, FilesHaveSlots, ReleasedFilesAreGone, Allocates
    <2> QED
        BY <1>2, <1>3, <2>1 DEF FilesHaveSlots
<1>10. EndedHasNoVariables'
    BY DEF Allocates, EndedHasNoVariables
<1> QED
    BY <1>4, <1>5, <1>6, <1>7, <1>8, <1>9, <1>10 DEF FilesInv

(* The file that goes is the one of the slot that is cleared.               *)
LEMMA ReleasesFiles ==
    ASSUME FilesInv, NEW a, NEW i \in Slots, Releases(a, i)
    PROVE  FilesInv'
<1> DEFINE name == var_info_table[i].fname
<1>1. TypeOK
    BY DEF FilesInv
<1>2. /\ DOMAIN files' = DOMAIN files \ {name}
      /\ \A f \in DOMAIN files \ {name} : files'[f] = files[f]
    BY WithoutIs DEF Releases
<1>3. /\ var_info_table'[i] = [var_info_table[i] EXCEPT !.flag = 0]
      /\ \A j \in Slots \ {i} : var_info_table'[j] = var_info_table[j]
      /\ \A j \in Slots : var_info_table'[j].fname = var_info_table[j].fname
    BY <1>1 DEF Releases, TypeOK, VarInfo
<1>4. TypeOK'
    <2>1. var_info_table' \in [Slots -> VarInfo]
        BY <1>1 DEF Releases, TypeOK, VarInfo
    <2>2. Partial(files', Names, FileRecords)
        <3>1. files' = Without(files, name)
            BY DEF Releases
        <3>2. Partial(files, Names, FileRecords)
            BY <1>1, TypesArePartial
        <3> QED
            BY <3>1, <3>2, WithoutType, Zenon
    <2>3. Partial(vars_of', Pages, VarRecords)
        <3>1. vars_of' = Without(vars_of, a)
            BY DEF Releases
        <3>2. Partial(vars_of, Pages, VarRecords)
            BY <1>1, TypesArePartial
        <3> QED
            BY <3>1, <3>2, WithoutType, Zenon
    <2>4. mem' \in [Pages -> Names \cup {0}]
        BY <1>1 DEF Releases, TypeOK, munmap
    <2>5. UNCHANGED <<f_idx, returned, proc>>
        BY DEF Releases
    <2>6. /\ f_idx' \in 0 .. MAX_FILE_INDEX_LIMIT
          /\ returned' \in BOOLEAN /\ proc' \in {"down", "up", "exit"}
        BY <1>1, <2>5 DEF TypeOK
    <2> QED
        BY <2>1, <2>2, <2>3, <2>4, <2>6
        DEF TypeOK, Partial, FileRecords, VarRecords
<1>5. SlotsAreUsed'
    BY <1>1, <1>3 DEF FilesInv, SlotsAreUsed, Releases, TypeOK, VarInfo, EmptySlot
<1>6. OneSlotPerFile'
    BY <1>3 DEF FilesInv, OneSlotPerFile
<1>7. ReleasedFilesAreGone'
    BY <1>2, <1>3 DEF FilesInv, ReleasedFilesAreGone
<1>8. OwnFilesAreCounted'
    BY <1>2 DEF FilesInv, OwnFilesAreCounted, Releases
<1>9. FilesHaveSlots'
    BY <1>2, <1>3 DEF FilesInv, FilesHaveSlots, Releases
<1>10. EndedHasNoVariables'
    BY DEF Releases, EndedHasNoVariables
<1> QED
    BY <1>4, <1>5, <1>6, <1>7, <1>8, <1>9, <1>10 DEF FilesInv

(* A file that is resized keeps its name and its slot.                      *)
LEMMA ResizesFiles ==
    ASSUME FilesInv, NEW a, NEW i \in Slots, NEW b \in Pages, NEW n \in Nat \ {0},
           Resizes(a, i, b, n)
    PROVE  FilesInv'
<1> DEFINE name == var_info_table[i].fname
<1>1. TypeOK /\ name \in DOMAIN files /\ name \in Names
    BY DEF FilesInv, TypeOK, Resizes
<1>2. /\ DOMAIN files' = DOMAIN files
      /\ \A f \in DOMAIN files : files'[f].mine = files[f].mine
    BY <1>1 DEF Resizes, TypeOK
<1>3. /\ var_info_table'[i] = [var_info_table[i] EXCEPT !.size = n, !.addr = b]
      /\ \A j \in Slots \ {i} : var_info_table'[j] = var_info_table[j]
      /\ \A j \in Slots : /\ var_info_table'[j].fname = var_info_table[j].fname
                          /\ var_info_table'[j].flag = var_info_table[j].flag
    BY <1>1 DEF Resizes, TypeOK, VarInfo
<1>4. TypeOK'
    <2>1. var_info_table' \in [Slots -> VarInfo]
        <3>1. var_info_table[i] \in VarInfo
            BY <1>1 DEF TypeOK
        <3>2. [var_info_table[i] EXCEPT !.size = n, !.addr = b] \in VarInfo
            BY <3>1 DEF VarInfo
        <3> QED
            BY <1>1, <3>2 DEF Resizes, TypeOK
    <2>2. Partial(files', Names, FileRecords)
        BY <1>1 DEF Resizes, TypeOK, Partial, FileRecords
    <2>3. Partial(vars_of', Pages, VarRecords)
        <3> DEFINE f == IF a \in DOMAIN vars_of THEN vars_of[a].file ELSE name
        <3>1. f \in Names
            BY <1>1 DEF TypeOK
        <3>2. [pages |-> n, file |-> f] \in VarRecords
            BY <3>1 DEF VarRecords
        <3>3. Partial(vars_of, Pages, VarRecords)
            BY <1>1, TypesArePartial
        <3>4. Partial(Without(vars_of, a), Pages, VarRecords)
            BY <3>3, WithoutType
        <3>5. vars_of' = With(Without(vars_of, a), b, [pages |-> n, file |-> f])
            BY DEF Resizes
        <3> HIDE DEF f
        <3> QED
            BY <3>2, <3>4, <3>5, WithType, Zenon
    <2>4. mem' \in [Pages -> Names \cup {0}]
        BY <1>1 DEF Resizes, TypeOK, munmap, mmap
    <2>5. returned' \in BOOLEAN
        BY DEF Resizes
    <2>6. UNCHANGED <<f_idx, proc>>
        BY DEF Resizes
    <2>7. f_idx' \in 0 .. MAX_FILE_INDEX_LIMIT /\ proc' \in {"down", "up", "exit"}
        BY <1>1, <2>6 DEF TypeOK
    <2> QED
        BY <2>1, <2>2, <2>3, <2>4, <2>5, <2>7
        DEF TypeOK, Partial, FileRecords, VarRecords
<1>5. SlotsAreUsed'
    BY <1>1, <1>3 DEF FilesInv, SlotsAreUsed, Resizes, Names
<1>6. OneSlotPerFile'
    BY <1>3 DEF FilesInv, OneSlotPerFile
<1>7. ReleasedFilesAreGone'
    BY <1>2, <1>3 DEF FilesInv, ReleasedFilesAreGone
<1>8. OwnFilesAreCounted'
    BY <1>2 DEF FilesInv, OwnFilesAreCounted, Resizes
<1>9. FilesHaveSlots'
    BY <1>2, <1>3 DEF FilesInv, FilesHaveSlots, Resizes
<1>10. EndedHasNoVariables'
    BY DEF Resizes, EndedHasNoVariables
<1> QED
    BY <1>4, <1>5, <1>6, <1>7, <1>8, <1>9, <1>10 DEF FilesInv

(* The end of the process leaves no variable.                               *)
LEMMA EndsVariables ==
    ASSUME NEW how \in {"down", "exit"}, Ends(how)
    PROVE  /\ proc' = how
           /\ Partial(vars_of', Pages, VarRecords)
           /\ mem' \in [Pages -> Names \cup {0}]
           /\ EndedHasNoVariables'
           /\ LiveInv'
<1>1. DOMAIN vars_of' = {} /\ proc' = how
      /\ mem' = [q \in Pages |-> 0]
    BY DEF Ends
<1>2. Partial(vars_of', Pages, VarRecords)
    BY <1>1 DEF Partial, Ends
<1>3. VariablesHaveOwnNames'
    BY <1>1 DEF VariablesHaveOwnNames
<1> QED
    BY <1>1, <1>2, <1>3 DEF EndedHasNoVariables, LiveInv

(* exit(0), a failed resize and the signal create and remove no file.       *)
LEMMA EndKeepsFiles ==
    ASSUME FilesInv, NEW how \in {"down", "exit"}, Ends(how), proc # "down",
           proc = "exit" => how = "down",
           UNCHANGED <<var_info_table, f_idx, returned>>,
           DOMAIN files' = DOMAIN files, Partial(files', Names, FileRecords),
           \A f \in DOMAIN files : files'[f].mine = files[f].mine
    PROVE  FilesInv'
<1>1. TypeOK'
    BY EndsVariables, TypesArePartial
    DEF FilesInv, TypeOK, Partial, FileRecords, VarRecords
<1>2. SlotsAreUsed' /\ OneSlotPerFile' /\ ReleasedFilesAreGone' /\ OwnFilesAreCounted'
    BY DEF FilesInv, SlotsAreUsed, OneSlotPerFile, ReleasedFilesAreGone,
           OwnFilesAreCounted
<1>3. FilesHaveSlots'
    BY EndsVariables DEF FilesInv, FilesHaveSlots
<1> QED
    BY <1>1, <1>2, <1>3, EndsVariables DEF FilesInv

(* exit(0) and a kill touch no file.                                        *)
LEMMA QuietEnd ==
    ASSUME FilesInv, Exit0 \/ Kill
    PROVE  FilesInv' /\ LiveInv'
<1>1. PICK how \in {"down", "exit"} : Ends(how) /\ (proc = "exit" => how = "down")
    BY DEF Exit0, Kill
<1>2. /\ UNCHANGED <<var_info_table, f_idx, files, returned>> /\ proc # "down"
    BY DEF Exit0, Kill
<1>3. Partial(files', Names, FileRecords)
    BY <1>2, TypesArePartial DEF FilesInv
<1> QED
    BY <1>1, <1>2, <1>3, EndKeepsFiles, EndsVariables

(* A process that finds no room for a resized mapping ends after it has     *)
(* resized the file.                                                        *)
LEMMA RefuseRoomInv ==
    ASSUME FilesInv, NEW a, NEW size \in Sizes, RefuseRoom(a, size)
    PROVE  FilesInv' /\ LiveInv'
<1> DEFINE name == var_info_table[SlotOf(a)].fname
<1>0. PICK n \in Resized(files[name].pages, size) :
         files' = [files EXCEPT ![name].pages = n]
    BY DEF RefuseRoom
<1>1. /\ Ends("exit") /\ proc = "up" /\ name \in DOMAIN files
      /\ files' = [files EXCEPT ![name].pages = n]
      /\ UNCHANGED <<var_info_table, f_idx, returned>>
    BY <1>0 DEF RefuseRoom
<1>2. n \in Nat
    BY <1>1, ResizedIsNat DEF FilesInv, RefuseRoom
<1> HIDE DEF name
<1>3. Partial(files, Names, FileRecords)
    BY TypesArePartial DEF FilesInv
<1>4. /\ Partial(files', Names, FileRecords) /\ DOMAIN files' = DOMAIN files
      /\ \A f \in DOMAIN files : files'[f].mine = files[f].mine
    BY <1>1, <1>2, <1>3 DEF Partial, FileRecords
<1> QED
    BY <1>1, <1>4, EndKeepsFiles, EndsVariables

(* A process whose name space is full ends after it has created the file,   *)
(* which no slot knows of.                                                  *)
LEMMA RefuseSlotInv ==
    ASSUME FilesInv, NEW size \in Sizes, RefuseSlot(size)
    PROVE  FilesInv' /\ LiveInv'
<1> DEFINE n == roundsize(size)
<1>1. /\ Ends("exit") /\ proc = "up" /\ MayCreate(NextName)
      /\ files' = With(files, NextName, [pages |-> n, mine |-> TRUE])
      /\ f_idx' = NextName
      /\ UNCHANGED <<var_info_table, returned>>
    BY DEF RefuseSlot, NextName
<1>2. n \in Nat
    BY RoundsizePositive DEF RefuseSlot
<1> HIDE DEF n
<1>3. /\ TypeOK /\ f_idx \in Nat /\ NextName = f_idx + 1
      /\ NextName \in Names /\ NextName \notin DOMAIN files
      /\ \A i \in Slots : /\ var_info_table[i].fname \in Nat
                          /\ var_info_table[i].fname <= f_idx
                          /\ var_info_table[i].fname # NextName
      /\ \A f \in DOMAIN files : f \in Nat /\ f # NextName
    BY <1>1 DEF FilesInv, TypeOK, SlotsAreUsed, VarInfo, MayCreate, NextName, Names
<1>4. /\ DOMAIN files' = DOMAIN files \cup {NextName}
      /\ files'[NextName] = [pages |-> n, mine |-> TRUE]
      /\ \A f \in DOMAIN files : files'[f] = files[f]
    BY <1>1, <1>3 DEF With
<1>5. TypeOK'
    <2>1. [pages |-> n, mine |-> TRUE] \in FileRecords
        BY <1>2 DEF FileRecords
    <2>2. Partial(files, Names, FileRecords)
        BY <1>3, TypesArePartial
    <2>3. Partial(files', Names, FileRecords)
        BY <1>1, <1>3, <2>1, <2>2, WithType, Zenon
    <2>4. f_idx' \in 0 .. MAX_FILE_INDEX_LIMIT
        BY <1>1, <1>3 DEF Names
    <2> QED
        BY <1>1, <1>3, <2>3, <2>4, EndsVariables
        DEF TypeOK, Partial, FileRecords, VarRecords
<1>6. SlotsAreUsed' /\ OneSlotPerFile'
    BY <1>1, <1>3 DEF FilesInv, SlotsAreUsed, OneSlotPerFile
<1>7. ReleasedFilesAreGone'
    BY <1>1, <1>3, <1>4 DEF FilesInv, ReleasedFilesAreGone
<1>8. OwnFilesAreCounted'
    <2>1. \A f \in DOMAIN files : f <= f_idx <=> f <= f_idx'
        BY <1>1, <1>3
    <2>2. NextName <= f_idx'
        BY <1>1, <1>3
    <2> QED
        BY <1>4, <2>1, <2>2 DEF FilesInv, OwnFilesAreCounted
<1>9. FilesHaveSlots'
    BY <1>1, <1>4, EndsVariables DEF FilesInv, FilesHaveSlots
<1> QED
    BY <1>1, <1>5, <1>6, <1>7, <1>8, <1>9, EndsVariables DEF FilesInv

(* nvm_exit removes the files that the slots name.                          *)
LEMMA ExitInv ==
    ASSUME FilesInv, nvm_exit
    PROVE  FilesInv' /\ LiveInv'
<1>1. /\ Ends("down") /\ UNCHANGED <<var_info_table, f_idx, returned>>
      /\ DOMAIN files' = DOMAIN files \ NamesOfSlots
      /\ \A f \in DOMAIN files' : files'[f] = files[f]
      /\ files' = [f \in DOMAIN files \ NamesOfSlots |-> files[f]]
    BY DEF nvm_exit
<1>2. Partial(files', Names, FileRecords)
    BY <1>1, TypesArePartial DEF FilesInv, Partial
<1>3. TypeOK'
    BY <1>1, <1>2, EndsVariables
    DEF FilesInv, TypeOK, Partial, FileRecords, VarRecords
<1>4. SlotsAreUsed' /\ OneSlotPerFile'
    BY <1>1 DEF FilesInv, SlotsAreUsed, OneSlotPerFile
<1>5. ReleasedFilesAreGone' /\ OwnFilesAreCounted'
    BY <1>1 DEF FilesInv, ReleasedFilesAreGone, OwnFilesAreCounted
<1>6. FilesHaveSlots'
    BY <1>1, EndsVariables DEF FilesHaveSlots
<1> QED
    BY <1>1, <1>3, <1>4, <1>5, <1>6, EndsVariables DEF FilesInv

(* A new process owns no file that it finds, and its name space is empty.   *)
LEMMA NewProcessInv ==
    ASSUME FilesInv, nvm_init
    PROVE  FilesInv' /\ LiveInv'
<1>1. /\ proc = "down" /\ proc' = "up" /\ f_idx' = 0 /\ returned' = FALSE
      /\ var_info_table' = [i \in Slots |-> EmptySlot]
      /\ files' = [f \in DOMAIN files |-> [files[f] EXCEPT !.mine = FALSE]]
      /\ UNCHANGED <<mem, vars_of>>
    BY DEF nvm_init
<1>2. /\ DOMAIN vars_of' = {} /\ \A q \in Pages : mem'[q] = 0
      /\ DOMAIN files' = DOMAIN files
    BY <1>1 DEF FilesInv, EndedHasNoVariables
<1>3. \A f \in DOMAIN files : files'[f].mine = FALSE /\ f \in Nat /\ f > 0
    BY <1>1 DEF FilesInv, TypeOK, Names
<1>4. \A i \in Slots : var_info_table'[i] = EmptySlot
    BY <1>1
<1>5. TypeOK'
    <2>1. EmptySlot \in VarInfo
        BY DEF EmptySlot, VarInfo
    <2>2. var_info_table' \in [Slots -> VarInfo]
        BY <1>1, <2>1
    <2>3. Partial(files', Names, FileRecords)
        BY <1>1, TypesArePartial DEF FilesInv, Partial, FileRecords
    <2>4. Partial(vars_of', Pages, VarRecords) /\ mem' \in [Pages -> Names \cup {0}]
        BY <1>1, TypesArePartial DEF FilesInv, Partial
    <2>5. /\ f_idx' \in 0 .. MAX_FILE_INDEX_LIMIT
          /\ returned' \in BOOLEAN /\ proc' \in {"down", "up", "exit"}
        <3>1. 0 \in 0 .. MAX_FILE_INDEX_LIMIT
            BY IndexAssumption
        <3> QED
            BY <1>1, <3>1
    <2> QED
        BY <2>2, <2>3, <2>4, <2>5 DEF TypeOK, Partial, FileRecords, VarRecords
<1>6. SlotsAreUsed'
    BY <1>1, <1>4 DEF SlotsAreUsed, EmptySlot
<1>7. OneSlotPerFile'
    BY <1>4 DEF OneSlotPerFile, EmptySlot
<1>8. ReleasedFilesAreGone'
    BY <1>2, <1>3, <1>4 DEF ReleasedFilesAreGone, EmptySlot
<1>9. OwnFilesAreCounted' /\ FilesHaveSlots'
    BY <1>1, <1>2, <1>3 DEF OwnFilesAreCounted, FilesHaveSlots
<1>10. EndedHasNoVariables'
    BY <1>1 DEF EndedHasNoVariables
<1>11. LiveInv'
    BY <1>2, <1>4 DEF LiveInv, VariablesHaveOwnNames, SlotsAreVariables, EmptySlot,
        VariablesHaveSlots, VariablesHaveFiles, PagesAreVariables
<1> QED
    BY <1>5, <1>6, <1>7, <1>8, <1>9, <1>10, <1>11 DEF FilesInv

(* The invariant holds before the first process.                            *)
LEMMA InitInv == Init => NVMallocIInv
<1> SUFFICES ASSUME Init PROVE NVMallocIInv
    OBVIOUS
<1>1. /\ var_info_table = [i \in Slots |-> EmptySlot]
      /\ f_idx = 0 /\ files = [f \in {} |-> 0] /\ DOMAIN files = {}
      /\ mem = [q \in Pages |-> 0]
      /\ vars_of = [a \in {} |-> 0] /\ DOMAIN vars_of = {}
      /\ returned = FALSE /\ proc = "down"
    BY DEF Init
<1>2. TypeOK
    <2>1. EmptySlot \in VarInfo
        BY DEF EmptySlot, VarInfo
    <2>2. Partial(files, Names, FileRecords) /\ Partial(vars_of, Pages, VarRecords)
        BY <1>1 DEF Partial
    <2>3. /\ var_info_table \in [Slots -> VarInfo]
          /\ mem \in [Pages -> Names \cup {0}]
        BY <1>1, <2>1
    <2>4. f_idx \in 0 .. MAX_FILE_INDEX_LIMIT
        BY <1>1, IndexAssumption
    <2> QED
        BY <1>1, <2>2, <2>3, <2>4, TypesArePartial
<1>3. SlotsAreUsed /\ OneSlotPerFile /\ ReleasedFilesAreGone
    BY <1>1 DEF SlotsAreUsed, OneSlotPerFile, ReleasedFilesAreGone, EmptySlot
<1>4. OwnFilesAreCounted /\ FilesHaveSlots /\ EndedHasNoVariables
    BY <1>1 DEF OwnFilesAreCounted, FilesHaveSlots, EndedHasNoVariables
<1>5. LiveInv
    BY <1>1 DEF LiveInv, VariablesHaveOwnNames
<1> QED
    BY <1>2, <1>3, <1>4, <1>5 DEF FilesInv, NVMallocIInv

-----------------------------------------------------------------------------
(* The live variables.                                                      *)

(* Pages of a range, and its first one.                                     *)
LEMMA RangeFacts ==
    ASSUME NEW a \in Pages, NEW n \in Nat
    PROVE  /\ Range(a, n) \subseteq Nat
           /\ n > 0 => a \in Range(a, n)
BY DEF Range, Pages

(* A new variable lies at pages that were not mapped, so no other one       *)
(* changes, and its slot is found by its address unless a released slot has *)
(* it.                                                                      *)
LEMMA AllocatesLive ==
    ASSUME NVMallocIInv, NEW a \in Pages, NEW k \in Slots, NEW n \in Nat \ {0},
           Allocates(a, k, n)
    PROVE  LiveInv'
<1>1. /\ TypeOK /\ SlotsAreUsed /\ ReleasedFilesAreGone /\ VariablesHaveOwnNames
      /\ f_idx \in Nat /\ f_idx' = NextName /\ NextName = f_idx + 1
      /\ NextName \in Nat /\ NextName # 0
      /\ NextName \notin DOMAIN files /\ proc = "up" /\ returned' = returned
    BY DEF NVMallocIInv, FilesInv, LiveInv, TypeOK, Allocates, MayCreate, NextName
<1>2. /\ DOMAIN files' = DOMAIN files \cup {NextName}
      /\ files'[NextName] = [pages |-> n, mine |-> TRUE]
      /\ \A f \in DOMAIN files : files'[f] = files[f]
    BY <1>1 DEF Allocates, With
<1>3. /\ DOMAIN vars_of' = DOMAIN vars_of \cup {a}
      /\ vars_of'[a] = [pages |-> n, file |-> NextName]
      /\ \A b \in DOMAIN vars_of \ {a} : vars_of'[b] = vars_of[b]
    BY <1>1 DEF Allocates, With
<1>4. /\ var_info_table'[k] = [addr |-> a, fname |-> NextName, size |-> n, flag |-> 1]
      /\ \A i \in Slots \ {k} : var_info_table'[i] = var_info_table[i]
      /\ var_info_table[k].flag = 0
    BY <1>1 DEF Allocates, TypeOK
<1>5. \A b \in DOMAIN vars_of : vars_of[b].file \in Nat /\ vars_of[b].file <= f_idx
    BY <1>1 DEF VariablesHaveOwnNames, TypeOK, Names
<1>6. \A b \in DOMAIN vars_of : vars_of[b].file # NextName
    BY <1>1, <1>5
<1>7. VariablesHaveOwnNames'
    <2>1. \A b \in DOMAIN vars_of : vars_of[b].file <= f_idx'
        BY <1>1, <1>5
    <2>2. NextName <= f_idx'
        BY <1>1
    <2> QED
        BY <1>1, <1>3, <1>6, <2>1, <2>2 DEF VariablesHaveOwnNames
<1>8. ASSUME ~returned
      PROVE  /\ SlotsAreVariables' /\ VariablesHaveSlots'
             /\ VariablesHaveFiles' /\ PagesAreVariables'
    <2>1. /\ SlotsAreVariables /\ VariablesHaveSlots
          /\ VariablesHaveFiles /\ PagesAreVariables
        BY <1>1, <1>8 DEF NVMallocIInv, LiveInv
    <2>2. \A q \in Range(a, n) : q \in Pages /\ mem[q] = 0
        BY DEF Allocates, MapBases
    <2>3. /\ \A q \in Pages \ Range(a, n) : mem'[q] = mem[q]
          /\ \A q \in Range(a, n) : mem'[q] = NextName
        BY <2>2 DEF Allocates, mmap
    <2>4. \A b \in DOMAIN vars_of : /\ b \in Pages
                                    /\ vars_of[b].pages \in Nat
                                    /\ vars_of[b].file \in Nat /\ vars_of[b].file # 0
        BY <1>1 DEF TypeOK, Names
    <2>5. a \notin DOMAIN vars_of
        <3> SUFFICES ASSUME a \in DOMAIN vars_of PROVE FALSE
            OBVIOUS
        <3>1. a \in Range(a, vars_of[a].pages) /\ a \in Range(a, n)
            BY <2>1, <2>4, RangeFacts DEF VariablesHaveFiles
        <3> QED
            BY <2>1, <2>2, <2>4, <3>1 DEF PagesAreVariables
    <2>6. SlotsAreVariables'
        <3> SUFFICES ASSUME NEW i \in Slots, var_info_table'[i].flag = 1
                     PROVE  /\ var_info_table'[i].addr \in DOMAIN vars_of'
                            /\ IsSlotOf(i, var_info_table[i].addr)'
            BY DEF SlotsAreVariables
        <3>1. CASE i = k
            BY <1>3, <1>4, <3>1 DEF IsSlotOf
        <3>2. CASE i # k
            <4>1. /\ var_info_table[i].addr \in DOMAIN vars_of
                  /\ IsSlotOf(i, var_info_table[i].addr)
                BY <1>4, <2>1, <3>2 DEF SlotsAreVariables
            <4> QED
                BY <1>3, <1>4, <2>5, <3>2, <4>1 DEF IsSlotOf
        <3> QED
            BY <3>1, <3>2
    <2>7. VariablesHaveSlots'
        <3>1. ASSUME NEW b \in DOMAIN vars_of
              PROVE  \E i \in Slots : IsSlotOf(i, b)' /\ \A j \in SlotsOf(b)' : i <= j
            <4>1. PICK i \in Slots : IsSlotOf(i, b) /\ \A j \in SlotsOf(b) : i <= j
                BY <2>1 DEF VariablesHaveSlots
            <4>2. i # k /\ b # a
                BY <1>4, <2>5, <4>1 DEF IsSlotOf
            <4>3. IsSlotOf(i, b)'
                BY <1>3, <1>4, <4>1, <4>2 DEF IsSlotOf
            <4>4. SlotsOf(b)' \subseteq SlotsOf(b)
                BY <1>4, <4>2 DEF SlotsOf
            <4> QED
                BY <4>1, <4>3, <4>4
        <3>2. IsSlotOf(k, a)'
            BY <1>3, <1>4 DEF IsSlotOf
        <3>3. ASSUME NEW j \in SlotsOf(a)'
              PROVE  k <= j
            <4>1. j \in Slots /\ k \in Nat
                BY SlotsAssumption DEF SlotsOf, Slots
            <4>2. CASE j = k
                BY <4>1, <4>2
            <4>3. CASE j # k
                <5>1. var_info_table[j].addr = a
                    BY <1>4, <4>1, <4>3, <3>3 DEF SlotsOf
                <5>2. var_info_table[j].flag # 1
                    BY <2>1, <2>5, <4>1, <5>1 DEF SlotsAreVariables
                <5>3. j \in Empties
                    BY <1>1, <4>1, <5>2 DEF Empties, TypeOK, VarInfo
                <5> QED
                    BY <5>3 DEF Allocates
            <4> QED
                BY <4>2, <4>3
        <3> QED
            BY <1>3, <3>1, <3>2, <3>3 DEF VariablesHaveSlots
    <2>8. VariablesHaveFiles'
        BY <1>2, <1>3, <2>1, <2>5, <1>1 DEF VariablesHaveFiles
    <2>9. PagesAreVariables'
        <3>1. ASSUME NEW b \in DOMAIN vars_of', NEW q \in Range(b, vars_of'[b].pages)
              PROVE  q \in Pages /\ mem'[q] = vars_of'[b].file
            <4>1. CASE b = a
                BY <1>3, <2>2, <2>3, <3>1, <4>1
            <4>2. CASE b # a
                <5>1. q \in Pages /\ mem[q] = vars_of[b].file /\ mem[q] # 0
                    BY <1>3, <2>1, <2>4, <3>1, <4>2 DEF PagesAreVariables
                <5> QED
                    BY <1>3, <2>2, <2>3, <4>2, <5>1
            <4> QED
                BY <4>1, <4>2
        <3>2. ASSUME NEW q \in Pages, mem'[q] # 0
              PROVE  \E b \in DOMAIN vars_of' : q \in Range(b, vars_of'[b].pages)
            <4>1. CASE q \in Range(a, n)
                BY <1>3, <4>1
            <4>2. CASE q \notin Range(a, n)
                BY <1>3, <2>1, <2>3, <2>5, <3>2, <4>2 DEF PagesAreVariables
            <4> QED
                BY <4>1, <4>2
        <3> QED
            BY <3>1, <3>2 DEF PagesAreVariables
    <2> QED
        BY <2>6, <2>7, <2>8, <2>9
<1> QED
    BY <1>1, <1>7, <1>8 DEF LiveInv

(* Releasing a variable leaves the others their slots, pages and files.     *)
LEMMA ReleasesLive ==
    ASSUME NVMallocIInv, NEW a \in DOMAIN vars_of, NEW i \in Slots, Releases(a, i)
    PROVE  LiveInv'
<1> DEFINE name == var_info_table[i].fname
<1>1. /\ TypeOK /\ VariablesHaveOwnNames /\ a \in Pages
      /\ proc = "up" /\ returned' = returned /\ f_idx' = f_idx
    BY DEF NVMallocIInv, FilesInv, LiveInv, TypeOK, Releases
<1>2. /\ DOMAIN files' = DOMAIN files \ {name}
      /\ \A f \in DOMAIN files \ {name} : files'[f] = files[f]
    BY DEF Releases, Without
<1>3. /\ DOMAIN vars_of' = DOMAIN vars_of \ {a}
      /\ \A b \in DOMAIN vars_of \ {a} : vars_of'[b] = vars_of[b]
    BY DEF Releases, Without
<1>4. /\ var_info_table'[i] = [var_info_table[i] EXCEPT !.flag = 0]
      /\ \A j \in Slots \ {i} : var_info_table'[j] = var_info_table[j]
      /\ \A j \in Slots : var_info_table'[j].addr = var_info_table[j].addr
      /\ var_info_table'[i].flag = 0
    BY <1>1 DEF Releases, TypeOK, VarInfo
<1>5. VariablesHaveOwnNames'
    BY <1>1, <1>3 DEF VariablesHaveOwnNames
<1>6. ASSUME ~returned
      PROVE  /\ SlotsAreVariables' /\ VariablesHaveSlots'
             /\ VariablesHaveFiles' /\ PagesAreVariables'
    <2>1. /\ SlotsAreVariables /\ VariablesHaveSlots
          /\ VariablesHaveFiles /\ PagesAreVariables
        BY <1>1, <1>6 DEF NVMallocIInv, LiveInv
    <2>2. IsSlotOf(i, a)
        <3>1. PICK j \in Slots : IsSlotOf(j, a) /\ \A l \in SlotsOf(a) : j <= l
            BY <2>1 DEF VariablesHaveSlots
        <3>2. i \in SlotsOf(a) /\ j \in SlotsOf(a)
            BY <3>1 DEF Releases, SlotsOf, IsSlotOf
        <3>3. i <= j /\ j <= i /\ i \in Nat /\ j \in Nat
            BY <3>1, <3>2, SlotsAssumption DEF Releases, Slots
        <3>4. i = j
            BY <3>3
        <3> QED
            BY <3>1, <3>4
    <2>3. name = vars_of[a].file /\ var_info_table[i].size = vars_of[a].pages
          /\ var_info_table[i].flag = 1
        BY <2>2 DEF IsSlotOf
    <2>4. \A b \in DOMAIN vars_of \ {a} : vars_of[b].file # name
        BY <1>1, <2>3 DEF VariablesHaveOwnNames
    <2>5. /\ \A q \in Pages \ Range(a, vars_of[a].pages) : mem'[q] = mem[q]
          /\ \A q \in Pages \cap Range(a, vars_of[a].pages) : mem'[q] = 0
        BY <2>3 DEF Releases, munmap
    <2>6. SlotsAreVariables'
        <3> SUFFICES ASSUME NEW j \in Slots, var_info_table'[j].flag = 1
                     PROVE  /\ var_info_table'[j].addr \in DOMAIN vars_of'
                            /\ IsSlotOf(j, var_info_table[j].addr)'
            BY DEF SlotsAreVariables
        <3>a. var_info_table'[i].flag = 0
            BY <1>4
        <3>1. j # i
            BY ONLY <3>a, var_info_table'[j].flag = 1
        <3>2. /\ var_info_table[j].flag = 1 /\ var_info_table[j].addr \in DOMAIN vars_of
              /\ IsSlotOf(j, var_info_table[j].addr)
            BY <1>4, <2>1, <3>1 DEF SlotsAreVariables
        <3>3. var_info_table[j].addr # a
            <4>1. ASSUME var_info_table[j].addr = a
                  PROVE  FALSE
                <5>1. var_info_table[j].fname = name
                    BY <2>3, <3>2, <4>1 DEF IsSlotOf
                <5>2. name # 0
                    BY <1>1, <2>3 DEF TypeOK, Names
                <5> QED
                    BY <3>1, <5>1, <5>2 DEF NVMallocIInv, FilesInv, OneSlotPerFile
            <4> QED
                BY <4>1
        <3> QED
            BY <1>3, <1>4, <3>1, <3>2, <3>3 DEF IsSlotOf
    <2>7. VariablesHaveSlots'
        <3> SUFFICES ASSUME NEW b \in DOMAIN vars_of \ {a}
                     PROVE  \E j \in Slots : IsSlotOf(j, b)' /\ \A l \in SlotsOf(b)' : j <= l
            BY <1>3 DEF VariablesHaveSlots
        <3>1. PICK j \in Slots : IsSlotOf(j, b) /\ \A l \in SlotsOf(b) : j <= l
            BY <2>1 DEF VariablesHaveSlots
        <3>2. j # i
            <4>1. var_info_table[i].addr = a
                BY <2>2 DEF IsSlotOf
            <4>2. var_info_table[j].addr = b
                BY <3>1 DEF IsSlotOf
            <4> QED
                BY <4>1, <4>2
        <3>3. IsSlotOf(j, b)'
            BY <1>3, <1>4, <3>1, <3>2 DEF IsSlotOf
        <3>4. SlotsOf(b)' = SlotsOf(b)
            BY <1>4 DEF SlotsOf
        <3> QED
            BY <3>1, <3>3, <3>4
    <2>8. VariablesHaveFiles'
        BY <1>2, <1>3, <2>1, <2>4 DEF VariablesHaveFiles
    <2>9. PagesAreVariables'
        <3>1. ASSUME NEW b \in DOMAIN vars_of', NEW q \in Range(b, vars_of'[b].pages)
              PROVE  q \in Pages /\ mem'[q] = vars_of'[b].file
            <4>1. q \in Pages /\ mem[q] = vars_of[b].file /\ mem[q] # name
                BY <1>3, <2>1, <2>4, <3>1 DEF PagesAreVariables
            <4>2. q \notin Range(a, vars_of[a].pages)
                BY <2>1, <2>3, <4>1 DEF PagesAreVariables
            <4> QED
                BY <1>3, <2>5, <4>1, <4>2
        <3>2. ASSUME NEW q \in Pages, mem'[q] # 0
              PROVE  \E b \in DOMAIN vars_of' : q \in Range(b, vars_of'[b].pages)
            BY <1>3, <2>1, <2>5, <3>2 DEF PagesAreVariables
        <3> QED
            BY <3>1, <3>2 DEF PagesAreVariables
    <2> QED
        BY <2>6, <2>7, <2>8, <2>9
<1> QED
    BY <1>1, <1>5, <1>6 DEF LiveInv

(* A variable that is resized, in place or moved, leaves the others their   *)
(* slots, pages and files.                                                  *)
LEMMA ResizesLive ==
    ASSUME NVMallocIInv, NEW a \in DOMAIN vars_of, NEW i \in Slots,
           NEW b \in Pages, NEW n \in Nat \ {0}, Resizes(a, i, b, n)
    PROVE  LiveInv'
<1> DEFINE name == var_info_table[i].fname
           file == vars_of[a].file
           m    == munmap(mem, a, files[name].pages)
<1>1. /\ TypeOK /\ VariablesHaveOwnNames /\ a \in Pages
      /\ proc = "up" /\ f_idx' = f_idx /\ file \in Names
    BY DEF NVMallocIInv, FilesInv, LiveInv, TypeOK, Resizes
<1>2. /\ DOMAIN files' = DOMAIN files /\ name \in DOMAIN files
      /\ files'[name].pages = n
      /\ \A f \in DOMAIN files \ {name} : files'[f] = files[f]
    BY <1>1 DEF Resizes, TypeOK
<1>3. /\ DOMAIN vars_of' = (DOMAIN vars_of \ {a}) \cup {b}
      /\ vars_of'[b] = [pages |-> n, file |-> file]
      /\ \A d \in DOMAIN vars_of \ {a, b} : vars_of'[d] = vars_of[d]
    BY <1>1 DEF Resizes, With, Without
<1>4. /\ var_info_table'[i] = [var_info_table[i] EXCEPT !.size = n, !.addr = b]
      /\ \A j \in Slots \ {i} : var_info_table'[j] = var_info_table[j]
    BY <1>1 DEF Resizes, TypeOK
<1>5. VariablesHaveOwnNames'
    BY <1>1, <1>3 DEF VariablesHaveOwnNames
<1>6. ASSUME ~returned'
      PROVE  /\ SlotsAreVariables' /\ VariablesHaveSlots'
             /\ VariablesHaveFiles' /\ PagesAreVariables'
    <2>1. /\ ~returned /\ \A j \in SlotsOf(b) : var_info_table[j].flag # 0
        BY <1>6 DEF Resizes
    <2>2. /\ SlotsAreVariables /\ VariablesHaveSlots
          /\ VariablesHaveFiles /\ PagesAreVariables
        BY <1>1, <2>1 DEF NVMallocIInv, LiveInv
    <2>3. IsSlotOf(i, a)
        <3>1. PICK j \in Slots : IsSlotOf(j, a) /\ \A l \in SlotsOf(a) : j <= l
            BY <2>2 DEF VariablesHaveSlots
        <3>2. i \in SlotsOf(a) /\ j \in SlotsOf(a)
            BY <3>1 DEF Resizes, SlotsOf, IsSlotOf
        <3>3. i <= j /\ j <= i /\ i \in Nat /\ j \in Nat
            BY <3>1, <3>2, SlotsAssumption DEF Resizes, Slots
        <3>4. i = j
            BY <3>3
        <3> QED
            BY <3>1, <3>4
    <2>4. /\ name = file /\ var_info_table[i].flag = 1
          /\ files[name].pages = vars_of[a].pages
        BY <2>2, <2>3 DEF IsSlotOf, VariablesHaveFiles
    <2>5. \A d \in DOMAIN vars_of \ {a} : vars_of[d].file # file
        BY <1>1 DEF VariablesHaveOwnNames
    <2>6. /\ \A q \in Pages \ Range(a, vars_of[a].pages) : m[q] = mem[q]
          /\ \A q \in Pages \cap Range(a, vars_of[a].pages) : m[q] = 0
        BY <2>4 DEF munmap
    <2>7. \A q \in Range(b, n) : q \in Pages /\ m[q] = 0
        BY DEF Resizes, MapBases
    <2>8. /\ \A q \in Pages \ Range(b, n) : mem'[q] = m[q]
          /\ \A q \in Range(b, n) : mem'[q] = file
        BY <2>4, <2>7 DEF Resizes, mmap
    <2> HIDE DEF m
    <2>9. \A d \in DOMAIN vars_of : /\ d \in Pages
                                    /\ vars_of[d].pages \in Nat
                                    /\ vars_of[d].file \in Nat /\ vars_of[d].file # 0
        BY <1>1 DEF TypeOK, Names
    (* The pages of another variable are not given out.                     *)
    <2>10. ASSUME NEW d \in DOMAIN vars_of \ {a}, NEW q \in Range(d, vars_of[d].pages)
           PROVE  /\ q \in Pages /\ m[q] = vars_of[d].file /\ q \notin Range(b, n)
        <3>1. q \in Pages /\ mem[q] = vars_of[d].file
            BY <2>2, <2>10 DEF PagesAreVariables
        <3>2. q \notin Range(a, vars_of[a].pages)
            BY <2>2, <2>5, <3>1 DEF PagesAreVariables
        <3>3. m[q] = vars_of[d].file
            BY <2>6, <3>1, <3>2
        <3> QED
            BY <2>7, <2>9, <3>1, <3>3
    <2>11. b \notin DOMAIN vars_of \ {a}
        <3> SUFFICES ASSUME b \in DOMAIN vars_of \ {a} PROVE FALSE
            OBVIOUS
        <3>1. b \in Range(b, vars_of[b].pages) /\ b \in Range(b, n)
            BY <2>2, <2>9, RangeFacts DEF VariablesHaveFiles
        <3> QED
            BY <2>10, <3>1
    <2>12. /\ DOMAIN vars_of' = (DOMAIN vars_of \ {a}) \cup {b}
           /\ \A d \in DOMAIN vars_of \ {a} : d # b /\ vars_of'[d] = vars_of[d]
        BY <1>3, <2>11
    <2>13. IsSlotOf(i, b)'
        <3>1. var_info_table[i] = [addr |-> a, fname |-> file,
                                   size |-> vars_of[a].pages, flag |-> 1]
            BY <2>3 DEF IsSlotOf
        <3>2. var_info_table'[i] = [addr |-> b, fname |-> file, size |-> n, flag |-> 1]
            <4> DEFINE s == var_info_table'[i]
            <4>1. s \in VarInfo
                BY ResizesFiles DEF NVMallocIInv, FilesInv, TypeOK
            <4>2. var_info_table[i] \in VarInfo
                BY <1>1 DEF TypeOK
            <4>3. s.addr = b /\ s.size = n
                BY <1>4, <4>2 DEF VarInfo
            <4>4. s.fname = file /\ s.flag = 1
                BY <1>4, <2>4, <4>2 DEF VarInfo
            <4> HIDE DEF s
            <4>5. s = [addr |-> b, fname |-> file, size |-> n, flag |-> 1]
                BY <4>1, <4>3, <4>4 DEF VarInfo
            <4> QED
                BY <4>5 DEF s
        <3> QED
            BY <1>3, <3>2 DEF IsSlotOf
    <2>14. \A j \in Slots \ {i} : var_info_table[j].fname # file
        BY <1>1, <2>4 DEF NVMallocIInv, FilesInv, OneSlotPerFile, Names
    <2>15. SlotsAreVariables'
        <3> SUFFICES ASSUME NEW j \in Slots, var_info_table'[j].flag = 1
                     PROVE  /\ var_info_table'[j].addr \in DOMAIN vars_of'
                            /\ IsSlotOf(j, var_info_table[j].addr)'
            BY DEF SlotsAreVariables
        <3>1. CASE j = i
            BY <1>3, <2>13, <3>1 DEF IsSlotOf
        <3>2. CASE j # i
            <4>1. /\ var_info_table[j].addr \in DOMAIN vars_of
                  /\ IsSlotOf(j, var_info_table[j].addr)
                BY <1>4, <2>2, <3>2 DEF SlotsAreVariables
            <4>2. var_info_table[j].addr # a
                BY <2>14, <3>2, <4>1 DEF IsSlotOf
            <4> QED
                BY <1>4, <2>12, <3>2, <4>1, <4>2 DEF IsSlotOf
        <3> QED
            BY <3>1, <3>2
    <2>16. VariablesHaveSlots'
        <3>1. ASSUME NEW d \in DOMAIN vars_of \ {a}
              PROVE  \E j \in Slots : IsSlotOf(j, d)' /\ \A l \in SlotsOf(d)' : j <= l
            <4>1. PICK j \in Slots : IsSlotOf(j, d) /\ \A l \in SlotsOf(d) : j <= l
                BY <2>2 DEF VariablesHaveSlots
            <4>2. j # i
                BY <2>3, <4>1 DEF IsSlotOf
            <4>3. IsSlotOf(j, d)'
                BY <1>4, <2>12, <4>1, <4>2 DEF IsSlotOf
            <4>4. SlotsOf(d)' \subseteq SlotsOf(d)
                BY <1>3, <1>4, <2>12, <2>13 DEF SlotsOf, IsSlotOf
            <4> QED
                BY <4>1, <4>3, <4>4
        <3>2. ASSUME NEW l \in SlotsOf(b)'
              PROVE  i <= l
            <4>1. l \in Slots /\ i \in Nat
                BY SlotsAssumption DEF SlotsOf, Slots
            <4>2. l = i
                <5> SUFFICES ASSUME l # i PROVE FALSE
                    OBVIOUS
                <5>1. var_info_table[l].addr = b /\ l \in SlotsOf(b)
                    BY <1>4, <3>2, <4>1 DEF SlotsOf
                <5>2. var_info_table[l].flag = 1
                    BY <1>1, <2>1, <4>1, <5>1 DEF TypeOK, VarInfo
                <5>3. b \in DOMAIN vars_of /\ IsSlotOf(l, b)
                    BY <2>2, <4>1, <5>1, <5>2 DEF SlotsAreVariables
                <5>4. b = a
                    BY <2>11, <5>3
                <5> QED
                    BY <2>14, <4>1, <5>3, <5>4 DEF IsSlotOf
            <4> QED
                BY <4>1, <4>2
        <3> QED
            BY <2>12, <2>13, <3>1, <3>2 DEF VariablesHaveSlots
    <2>17. VariablesHaveFiles'
        BY <1>2, <1>3, <2>2, <2>4, <2>5, <2>12 DEF VariablesHaveFiles
    <2>18. PagesAreVariables'
        <3>1. ASSUME NEW d \in DOMAIN vars_of', NEW q \in Range(d, vars_of'[d].pages)
              PROVE  q \in Pages /\ mem'[q] = vars_of'[d].file
            <4>1. CASE d = b
                BY <1>3, <2>7, <2>8, <3>1, <4>1
            <4>2. CASE d # b
                BY <2>8, <2>10, <2>12, <3>1, <4>2
            <4> QED
                BY <4>1, <4>2
        <3>2. ASSUME NEW q \in Pages, mem'[q] # 0
              PROVE  \E d \in DOMAIN vars_of' : q \in Range(d, vars_of'[d].pages)
            <4>1. CASE q \in Range(b, n)
                BY <1>3, <4>1
            <4>2. CASE q \notin Range(b, n)
                <5>1. m[q] # 0 /\ q \notin Range(a, vars_of[a].pages) /\ mem[q] # 0
                    BY <2>6, <2>8, <3>2, <4>2
                <5> QED
                    BY <2>2, <2>12, <5>1 DEF PagesAreVariables
            <4> QED
                BY <4>1, <4>2
        <3> QED
            BY <3>1, <3>2 DEF PagesAreVariables
    <2> QED
        BY <2>15, <2>16, <2>17, <2>18
<1> QED
    BY <1>1, <1>5, <1>6 DEF LiveInv

-----------------------------------------------------------------------------
(* The library's own interface.                                             *)

(* nvm_malloc keeps the invariant.                                          *)
LEMMA MallocInv ==
    ASSUME NVMallocIInv, NEW size \in Sizes, nvm_malloc(size)
    PROVE  NVMallocIInv'
BY MallocAllocates, AllocatesFiles, AllocatesLive DEF NVMallocIInv

(* nvm_free of a variable keeps the invariant.                              *)
LEMMA FreeInv ==
    ASSUME NVMallocIInv, NEW a \in DOMAIN vars_of, nvm_free(a)
    PROVE  NVMallocIInv'
BY FreeReleases, ReleasesFiles, ReleasesLive DEF NVMallocIInv

(* nvm_realloc of a variable keeps the invariant.                           *)
LEMMA ReallocInv ==
    ASSUME NVMallocIInv, NEW a \in DOMAIN vars_of, NEW size \in Sizes,
           nvm_realloc(a, size)
    PROVE  NVMallocIInv'
BY ReallocResizes, ResizesFiles, ResizesLive DEF NVMallocIInv

(* Every call and every end of a process keeps the invariant.               *)
LEMMA NextInv == NVMallocIInv /\ [Next]_vars => NVMallocIInv'
<1> SUFFICES ASSUME NVMallocIInv, [Next]_vars
             PROVE  NVMallocIInv'
    OBVIOUS
<1>1. ASSUME NEW size \in Sizes, nvm_malloc(size) \/ RefuseSlot(size)
      PROVE  NVMallocIInv'
    BY <1>1, MallocInv, RefuseSlotInv DEF NVMallocIInv
<1>2. ASSUME NEW a \in DOMAIN vars_of, nvm_free(a)
      PROVE  NVMallocIInv'
    BY <1>2, FreeInv
<1>3. CASE Exit0 \/ Kill
    BY <1>3, QuietEnd DEF NVMallocIInv
<1>4. ASSUME NEW a \in DOMAIN vars_of, RefuseMissing(a)
      PROVE  NVMallocIInv'
    BY <1>3, <1>4 DEF RefuseMissing
<1>5. CASE RefuseFile
    BY <1>3, <1>5 DEF RefuseFile
<1>6. CASE nvm_exit \/ nvm_init
    BY <1>6, ExitInv, NewProcessInv DEF NVMallocIInv
<1>7. ASSUME NEW a \in DOMAIN vars_of, NEW size \in Sizes,
             nvm_realloc(a, size) \/ RefuseRoom(a, size)
      PROVE  NVMallocIInv'
    BY <1>7, ReallocInv, RefuseRoomInv DEF NVMallocIInv
<1>8. CASE UNCHANGED vars
    BY <1>8 DEF vars, NVMallocIInv, FilesInv, LiveInv, TypeOK, SlotsAreUsed,
       OneSlotPerFile, ReleasedFilesAreGone, OwnFilesAreCounted, FilesHaveSlots,
       EndedHasNoVariables, VariablesHaveOwnNames, SlotsAreVariables, IsSlotOf,
       VariablesHaveSlots, SlotsOf, VariablesHaveFiles, PagesAreVariables
<1> QED
    BY <1>1, <1>2, <1>3, <1>4, <1>5, <1>6, <1>7, <1>8 DEF Next

(* The inductive invariant.                                                 *)
THEOREM NVMallocInvariance == Spec => []NVMallocIInv
BY InitInv, NextInv, PTL DEF Spec

(* Type correctness.                                                        *)
THEOREM NVMallocTypes == Spec => []TypeOK
<1>1. NVMallocIInv => TypeOK
    BY DEF NVMallocIInv, FilesInv
<1> QED
    BY <1>1, NVMallocInvariance, PTL

(* No two variables share a file, and none lives in a file of an earlier    *)
(* process; until a resize has brought back the address of a released slot, *)
(* its file is there.                                                       *)
THEOREM FilesAreOwned == Spec => []VariablesOwnTheirFiles
<1>1. NVMallocIInv => VariablesOwnTheirFiles
    <2> SUFFICES ASSUME NVMallocIInv, NEW a \in DOMAIN vars_of
                 PROVE  /\ vars_of[a].file \in DOMAIN files => files[vars_of[a].file].mine
                        /\ ~returned => vars_of[a].file \in DOMAIN files
                        /\ \A b \in DOMAIN vars_of \ {a} :
                              vars_of[b].file # vars_of[a].file
        BY DEF VariablesOwnTheirFiles
    <2>1. proc = "up"
        BY DEF NVMallocIInv, FilesInv, EndedHasNoVariables
    <2>2. /\ vars_of[a].file <= f_idx
          /\ \A b \in DOMAIN vars_of \ {a} : vars_of[b].file # vars_of[a].file
        BY DEF NVMallocIInv, LiveInv, VariablesHaveOwnNames
    <2>3. vars_of[a].file \in DOMAIN files => files[vars_of[a].file].mine
        BY <2>2 DEF NVMallocIInv, FilesInv, OwnFilesAreCounted
    <2>4. ~returned => vars_of[a].file \in DOMAIN files
        BY <2>1 DEF NVMallocIInv, LiveInv, VariablesHaveFiles
    <2> QED
        BY <2>2, <2>3, <2>4
<1> QED
    BY <1>1, NVMallocInvariance, PTL

(* Until then the pages of a live variable are mapped to its own file, and  *)
(* the search by address finds its slot.                                    *)
LEMMA MappedVariables ==
    ASSUME NVMallocIInv, ~returned, NEW a \in DOMAIN vars_of
    PROVE  /\ \A q \in Range(a, vars_of[a].pages) :
                 q \in Pages /\ mem[q] = vars_of[a].file
           /\ SlotOf(a) \in Slots
           /\ var_info_table[SlotOf(a)] =
                [addr |-> a, fname |-> vars_of[a].file, size |-> vars_of[a].pages,
                 flag |-> 1]
<1>1. proc = "up"
    BY DEF NVMallocIInv, FilesInv, EndedHasNoVariables
<1>2. VariablesHaveSlots /\ PagesAreVariables
    BY <1>1 DEF NVMallocIInv, LiveInv
<1>3. PICK i \in Slots : IsSlotOf(i, a) /\ \A j \in SlotsOf(a) : i <= j
    BY <1>2 DEF VariablesHaveSlots
<1>4. SlotsOf(a) \in SUBSET Nat /\ i \in SlotsOf(a)
    BY <1>3, SlotsAssumption DEF SlotsOf, Slots, IsSlotOf
<1>5. SlotOf(a) = i
    BY <1>3, <1>4, FirstIs DEF SlotOf
<1> QED
    BY <1>2, <1>3, <1>5 DEF IsSlotOf, PagesAreVariables

(* The pages of every variable are mapped to its file, and the search by    *)
(* address finds its slot, until a resize has brought back the address of a *)
(* released slot (nvm_realloc).                                             *)
THEOREM PagesAreMapped == Spec => []VariablesAreMapped
<1>1. NVMallocIInv => VariablesAreMapped
    BY MappedVariables DEF VariablesAreMapped
<1> QED
    BY <1>1, NVMallocInvariance, PTL

(* Until then a released variable takes no pages and no file.               *)
THEOREM NothingIsLeaked == Spec => []NothingLeaks
<1>1. NVMallocIInv => NothingLeaks
    <2> SUFFICES ASSUME NVMallocIInv, ~returned
                 PROVE  /\ \A q \in Pages : mem[q] # 0 =>
                              \E a \in DOMAIN vars_of : q \in Range(a, vars_of[a].pages)
                        /\ proc = "up" => \A f \in DOMAIN files : files[f].mine =>
                              \E a \in DOMAIN vars_of : vars_of[a].file = f
        BY DEF NothingLeaks
    <2>1. CASE proc # "up"
        BY <2>1 DEF NVMallocIInv, FilesInv, EndedHasNoVariables
    <2>2. CASE proc = "up"
        <3>1. SlotsAreVariables /\ PagesAreVariables
            BY <2>2 DEF NVMallocIInv, LiveInv
        <3>2. ASSUME NEW f \in DOMAIN files, files[f].mine
              PROVE  \E a \in DOMAIN vars_of : vars_of[a].file = f
            <4>1. PICK i \in Slots : var_info_table[i].fname = f
                BY <2>2, <3>2 DEF NVMallocIInv, FilesInv, FilesHaveSlots
            <4>2. var_info_table[i].flag = 1
                BY <4>1
                DEF NVMallocIInv, FilesInv, ReleasedFilesAreGone, TypeOK, VarInfo
            <4>3. /\ var_info_table[i].addr \in DOMAIN vars_of
                  /\ IsSlotOf(i, var_info_table[i].addr)
                BY <3>1, <4>2 DEF SlotsAreVariables
            <4> QED
                BY <4>1, <4>3 DEF IsSlotOf
        <3> QED
            BY <3>1, <3>2 DEF PagesAreVariables
    <2> QED
        BY <2>1, <2>2
<1> QED
    BY <1>1, NVMallocInvariance, PTL

(* nvm_exit at the end of main removes every file of the process, however   *)
(* its variables were released and resized.                                 *)
THEOREM ExitLeavesNoFile == Spec => ExitRemovesFiles
<1>1. FilesInv /\ proc = "up" /\ nvm_exit => \A f \in DOMAIN files' : ~files'[f].mine
    <2> SUFFICES ASSUME FilesInv, proc = "up", nvm_exit,
                        NEW f \in DOMAIN files'
                 PROVE  ~files'[f].mine
        OBVIOUS
    <2>1. f \in DOMAIN files \ NamesOfSlots /\ files'[f] = files[f]
        BY DEF nvm_exit
    <2> QED
        BY <2>1 DEF FilesInv, FilesHaveSlots, NamesOfSlots
<1>2. NVMallocIInv /\ [Next]_vars =>
        [proc = "up" /\ nvm_exit => \A f \in DOMAIN files' : ~files'[f].mine]_vars
    BY <1>1 DEF NVMallocIInv
<1> QED
    BY <1>2, NVMallocInvariance, PTL DEF ExitRemovesFiles, Spec

-----------------------------------------------------------------------------
(* The wrapper.  realloc returns what was never assigned, so from then on   *)
(* the program may pass on any address and only FilesInv holds.  Until then *)
(* the program's pointers into the mapped pages are the live variables.     *)

Pointers == Pages \cup Blocks \cup {tmp_array}

WrapperInv ==
    /\ FilesInv
    /\ proc # "up" => held \cap Pages = {}
    /\ ~realloced =>
          /\ LiveInv
          /\ proc = "up" => ~returned
          /\ held \subseteq Pointers
          /\ held \cap Pages = DOMAIN vars_of

(* An address that the library knows is one of a page, unless the program   *)
(* got it from realloc.                                                     *)
LEMMA RegisteredIsVariable ==
    ASSUME WrapperInv, ~realloced, NEW ptr \in held, Registered(ptr)
    PROVE  ptr \in DOMAIN vars_of
<1>1. PICK i \in Slots : var_info_table[i].addr = ptr
    BY DEF Registered, SlotsOf
<1>2. ptr \in Pages \cup {0}
    BY <1>1 DEF WrapperInv, FilesInv, TypeOK, VarInfo
<1>3. ptr \in Pages
    BY <1>2, PointersAssumption DEF WrapperInv, Pointers
<1> QED
    BY <1>3 DEF WrapperInv

(* The calls that end the process.                                          *)
LEMMA EndsWrapper ==
    ASSUME WrapperInv, FilesInv', LiveInv', proc' # "up", held' = {}
    PROVE  WrapperInv'
<1>1. DOMAIN vars_of' = {}
    BY DEF FilesInv, EndedHasNoVariables
<1> QED
    BY <1>1 DEF WrapperInv

(* A call that ends the process keeps the wrapper's invariant.              *)
LEMMA RefusedWrapper ==
    ASSUME WrapperInv, held' = {},
           \/ Exit0
           \/ \E n \in Sizes : Refused(n)
           \/ \E n \in Sizes, ptr \in held : RefuseMissing(ptr) \/ RefuseRoom(ptr, n)
    PROVE  WrapperInv'
<1>1. CASE Exit0
    BY <1>1, QuietEnd, EndsWrapper DEF WrapperInv, Exit0, Ends
<1>2. CASE RefuseFile
    BY <1>1, <1>2 DEF RefuseFile
<1>3. ASSUME NEW n \in Sizes, RefuseSlot(n)
      PROVE  WrapperInv'
    BY <1>3, RefuseSlotInv, EndsWrapper DEF WrapperInv, RefuseSlot, Ends
<1>4. ASSUME NEW ptr, RefuseMissing(ptr)
      PROVE  WrapperInv'
    BY <1>1, <1>4 DEF RefuseMissing
<1>5. ASSUME NEW n \in Sizes, NEW ptr, RefuseRoom(ptr, n)
      PROVE  WrapperInv'
    BY <1>5, RefuseRoomInv, EndsWrapper DEF WrapperInv, RefuseRoom, Ends
<1> QED
    BY <1>1, <1>2, <1>3, <1>4, <1>5 DEF Refused

(* The library is left alone and no pointer to a page is given or taken.    *)
LEMMA ForeignWrapper ==
    ASSUME WrapperInv, UNCHANGED <<vars, realloced>>,
           ~realloced => held' \subseteq Pointers,
           held' \cap Pages = held \cap Pages
    PROVE  WrapperInv'
<1>1. FilesInv' /\ proc' = proc /\ returned' = returned /\ vars_of' = vars_of
    BY DEF vars, WrapperInv, FilesInv, TypeOK, SlotsAreUsed, OneSlotPerFile,
           ReleasedFilesAreGone, OwnFilesAreCounted, FilesHaveSlots, EndedHasNoVariables
<1>2. LiveInv => LiveInv'
    BY DEF vars, LiveInv, VariablesHaveOwnNames, SlotsAreVariables, IsSlotOf,
           VariablesHaveSlots, SlotsOf, VariablesHaveFiles, PagesAreVariables
<1> QED
    BY <1>1, <1>2 DEF WrapperInv

(* A block from nvm_malloc is a variable, and the program has its address.  *)
LEMMA NewBlockWrapper ==
    ASSUME WrapperInv, NEW n \in Sizes, nvm_malloc(n), Keeps(held \cup Created)
    PROVE  WrapperInv'
<1>1. PICK a \in Pages, k \in Slots, m \in Nat \ {0} : Allocates(a, k, m)
    BY MallocAllocates
<1>2. FilesInv' /\ proc' = "up" /\ returned' = returned /\ realloced' = realloced
      /\ proc = "up" /\ held' = held \cup Created
    BY <1>1, AllocatesFiles DEF WrapperInv, Allocates, Keeps
<1>3. DOMAIN vars_of' = DOMAIN vars_of \cup {a}
    BY <1>1 DEF Allocates, With
<1>4. ASSUME ~realloced
      PROVE  /\ LiveInv' /\ ~returned'
             /\ held' \subseteq Pointers /\ held' \cap Pages = DOMAIN vars_of'
    <2>1. LiveInv'
        BY <1>1, <1>4, AllocatesLive DEF WrapperInv, NVMallocIInv
    <2>2. held' \subseteq Pointers /\ held' \cap Pages = DOMAIN vars_of'
        BY <1>2, <1>3, <1>4 DEF WrapperInv, Created, Pointers
    <2> QED
        BY <1>2, <1>4, <2>1, <2>2 DEF WrapperInv
<1> QED
    BY <1>2, <1>4 DEF WrapperInv

(* A block of the library goes out of the program's hands and out of the    *)
(* library.                                                                 *)
LEMMA FreeWrapper ==
    ASSUME WrapperInv, NEW ptr \in held, Free(ptr)
    PROVE  WrapperInv'
<1>1. PICK i \in Slots : Releases(ptr, i)
    BY FreeReleases DEF Free
<1>2. FilesInv' /\ proc' = "up" /\ returned' = returned /\ realloced' = realloced
      /\ proc = "up" /\ held' = held \ {ptr}
    BY <1>1, ReleasesFiles DEF WrapperInv, Releases, Free, Keeps
<1>3. DOMAIN vars_of' = DOMAIN vars_of \ {ptr}
    BY <1>1 DEF Releases, Without
<1>4. ASSUME ~realloced
      PROVE  /\ LiveInv' /\ ~returned'
             /\ held' \subseteq Pointers /\ held' \cap Pages = DOMAIN vars_of'
    <2>1. ptr \in DOMAIN vars_of
        BY <1>4, RegisteredIsVariable DEF Free, nvm_free
    <2>2. LiveInv'
        BY <1>1, <1>4, <2>1, ReleasesLive DEF WrapperInv, NVMallocIInv
    <2>3. held' \subseteq Pointers /\ held' \cap Pages = DOMAIN vars_of'
        BY <1>2, <1>3, <1>4 DEF WrapperInv
    <2> QED
        BY <1>2, <1>4, <2>2, <2>3 DEF WrapperInv
<1> QED
    BY <1>2, <1>4 DEF WrapperInv

(* After a realloc only the files' part of the invariant is left, and it    *)
(* does not ask what pointer the call was given.                            *)
LEMMA ReallocWrapper ==
    ASSUME WrapperInv, NEW n \in Sizes,
           \/ nvm_malloc(n)
           \/ \E ptr \in held : nvm_realloc(ptr, n),
           realloced' = TRUE
    PROVE  WrapperInv'
<1>1. FilesInv' /\ proc' = "up"
    <2>1. CASE nvm_malloc(n)
        <3>1. PICK a \in Pages, k \in Slots, m \in Nat \ {0} : Allocates(a, k, m)
            BY <2>1, MallocAllocates
        <3> QED
            BY <3>1, AllocatesFiles DEF WrapperInv, Allocates
    <2>2. ASSUME NEW ptr \in held, nvm_realloc(ptr, n)
          PROVE  FilesInv' /\ proc' = "up"
        <3>1. PICK i \in Slots, b \in Pages, m \in Nat \ {0} : Resizes(ptr, i, b, m)
            BY <2>2, ReallocResizes DEF WrapperInv
        <3> QED
            BY <3>1, ResizesFiles DEF WrapperInv, Resizes
    <2> QED
        BY <2>1, <2>2
<1> QED
    BY <1>1 DEF WrapperInv

(* The constructor starts with no block.                                    *)
LEMMA ConstructorWrapper ==
    ASSUME WrapperInv, Constructor
    PROVE  WrapperInv'
<1>1. FilesInv' /\ LiveInv'
    BY NewProcessInv DEF WrapperInv, Constructor
<1>2. /\ proc = "down" /\ returned' = FALSE /\ vars_of' = vars_of
      /\ held' = held /\ realloced' = realloced /\ proc' = "up"
    BY DEF Constructor, nvm_init, Keeps
<1> QED
    BY <1>1, <1>2 DEF WrapperInv

(* The destructor and a crash end the process.                              *)
LEMMA OverWrapper ==
    ASSUME WrapperInv, Final \/ Crash
    PROVE  WrapperInv'
BY ExitInv, QuietEnd, EndsWrapper
DEF WrapperInv, Final, Crash, Over, Kill, nvm_exit, Ends

(* The wrapper's invariant holds before the first process.                  *)
LEMMA WrapperInit == InitDeepmap => WrapperInv
BY InitInv DEF InitDeepmap, Init, WrapperInv, NVMallocIInv

(* Every step of the wrapper keeps its invariant.                           *)
LEMMA WrapperNext == WrapperInv /\ [NextDeepmap]_deepmap_vars => WrapperInv'
<1> SUFFICES ASSUME WrapperInv, [NextDeepmap]_deepmap_vars
             PROVE  WrapperInv'
    OBVIOUS
<1>1. CASE EarlyCalloc
    BY <1>1, ForeignWrapper, PointersAssumption
    DEF EarlyCalloc, Keeps, WrapperInv, Pointers
<1>2. CASE Constructor \/ Final \/ Crash
    BY <1>2, ConstructorWrapper, OverWrapper
<1>3. CASE NewEmptyBlock
    BY <1>3, ForeignWrapper, PointersAssumption
    DEF NewEmptyBlock, FromLibc, WrapperInv, Pointers
<1>4. CASE CallocOfNone
    BY <1>4, RefusedWrapper DEF CallocOfNone, Keeps
<1>5. ASSUME NEW n \in Sizes \ {0}, NewBlock(n) \/ ReallocNull(n)
      PROVE  WrapperInv'
    <2>1. CASE nvm_malloc(n) /\ Keeps(held \cup Created)
        BY <2>1, NewBlockWrapper
    <2>2. CASE Refused(n) /\ Keeps({})
        BY <2>2, RefusedWrapper DEF Keeps
    <2>3. CASE nvm_malloc(n) /\ realloced' = TRUE
        BY <2>3, ReallocWrapper
    <2> QED
        BY <1>5, <2>1, <2>2, <2>3 DEF NewBlock, ReallocNull
<1>6. ASSUME NEW ptr \in held, NEW n \in Sizes \ {0}, Realloc(ptr, n)
      PROVE  WrapperInv'
    <2>1. CASE nvm_realloc(ptr, n) /\ realloced' = TRUE
        BY <2>1, ReallocWrapper
    <2>2. CASE (RefuseMissing(ptr) \/ RefuseRoom(ptr, n)) /\ Keeps({})
        BY <2>2, RefusedWrapper DEF Keeps
    <2> QED
        BY <1>6, <2>1, <2>2 DEF Realloc
<1>7. ASSUME NEW ptr \in held, ReallocForeign(ptr)
      PROVE  WrapperInv'
    BY <1>7, RefusedWrapper DEF ReallocForeign, Keeps
<1>8. ASSUME NEW ptr \in held, Free(ptr)
      PROVE  WrapperInv'
    BY <1>8, FreeWrapper
<1>9. ASSUME NEW ptr \in held, FreeForeign(ptr)
      PROVE  WrapperInv'
    <2>1. /\ proc = "up" /\ ~Registered(ptr)
          /\ UNCHANGED <<vars, realloced>> /\ held' = held \ {ptr}
        BY <1>9 DEF FreeForeign, Keeps
    <2>2. CASE realloced
        BY <2>1, <2>2 DEF vars, WrapperInv, FilesInv, TypeOK, SlotsAreUsed,
           OneSlotPerFile, ReleasedFilesAreGone, OwnFilesAreCounted, FilesHaveSlots,
           EndedHasNoVariables
    <2>3. CASE ~realloced
        <3>1. ptr \notin DOMAIN vars_of
            <4> SUFFICES ASSUME ptr \in DOMAIN vars_of PROVE FALSE
                OBVIOUS
            <4>1. VariablesHaveSlots
                BY <2>1, <2>3 DEF WrapperInv, LiveInv
            <4>2. PICK i \in Slots : IsSlotOf(i, ptr)
                BY <4>1 DEF VariablesHaveSlots
            <4>3. i \in SlotsOf(ptr)
                BY <4>2 DEF IsSlotOf, SlotsOf
            <4> QED
                BY <2>1, <4>3 DEF Registered
        <3>2. held' \cap Pages = held \cap Pages /\ held' \subseteq Pointers
            BY <2>1, <2>3, <3>1 DEF WrapperInv
        <3> QED
            BY <2>1, <3>2, ForeignWrapper
    <2> QED
        BY <2>2, <2>3
<1>10. CASE UNCHANGED deepmap_vars
    BY <1>10, ForeignWrapper DEF deepmap_vars, wrapper, WrapperInv
<1> QED
    BY <1>1, <1>2, <1>3, <1>4, <1>5, <1>6, <1>7, <1>8, <1>9, <1>10 DEF NextDeepmap

(* The library's invariant under the wrapper, whatever pointers realloc     *)
(* makes up.                                                                *)
LEMMA WrapperInvariance == SpecDeepmap => []WrapperInv
BY WrapperInit, WrapperNext, PTL DEF SpecDeepmap

(* Until realloc is called with a size, no block is lost between wrapper    *)
(* and library and none is taken away: what the program holds in the mapped *)
(* pages is what the library has, mapped to its own files.                  *)
THEOREM HeldIsMapped == SpecDeepmap => []HeldBlocksAreVariables
<1>1. WrapperInv => HeldBlocksAreVariables
    BY DEF WrapperInv, LiveInv, PagesAreVariables, HeldBlocksAreVariables
<1> QED
    BY <1>1, WrapperInvariance, PTL

(* Until then the wrapper follows the rules of NVMallocLibrary: every step  *)
(* is one that a program that knows only live variables takes.              *)
THEOREM RulesAreKept == SpecDeepmap => KeepsTheRules
<1>1. WrapperInv /\ [NextDeepmap]_deepmap_vars => [realloced \/ Next]_vars
    <2> SUFFICES ASSUME WrapperInv, NextDeepmap, ~realloced
                 PROVE  Next \/ UNCHANGED vars
        BY DEF deepmap_vars
    <2>1. CASE EarlyCalloc \/ NewEmptyBlock
        BY <2>1 DEF EarlyCalloc, NewEmptyBlock, FromLibc
    <2>2. CASE Constructor \/ Final \/ Crash \/ CallocOfNone
        BY <2>2 DEF Constructor, Final, Crash, CallocOfNone, Next
    <2>3. ASSUME NEW n \in Sizes, NewBlock(n) \/ ReallocNull(n)
          PROVE  Next
        BY <2>3 DEF NewBlock, ReallocNull, Refused, Next
    <2>4. ASSUME NEW ptr \in held, NEW n \in Sizes, Realloc(ptr, n)
          PROVE  Next
        <3>1. CASE RefuseMissing(ptr)
            BY <3>1 DEF RefuseMissing, Next
        <3>2. CASE nvm_realloc(ptr, n) \/ RefuseRoom(ptr, n)
            <4>1. ptr \in DOMAIN vars_of
                BY <3>2, RegisteredIsVariable DEF nvm_realloc, RefuseRoom
            <4> QED
                BY <3>2, <4>1 DEF Next
        <3> QED
            BY <2>4, <3>1, <3>2 DEF Realloc
    <2>5. ASSUME NEW ptr \in held, ReallocForeign(ptr) \/ FreeForeign(ptr)
          PROVE  Next \/ UNCHANGED vars
        BY <2>5 DEF ReallocForeign, FreeForeign, Next
    <2>6. ASSUME NEW ptr \in held, Free(ptr)
          PROVE  Next
        <3>1. ptr \in DOMAIN vars_of /\ nvm_free(ptr)
            BY <2>6, RegisteredIsVariable DEF Free, nvm_free
        <3> QED
            BY <3>1 DEF Next
    <2> QED
        BY <2>1, <2>2, <2>3, <2>4, <2>5, <2>6 DEF NextDeepmap
<1> QED
    BY <1>1, WrapperInvariance, PTL DEF KeepsTheRules, SpecDeepmap

(* Whatever pointers realloc has returned and the program has passed on,    *)
(* the destructor leaves at most one file of the process: that of the       *)
(* variable whose creation has ended it.                                    *)
THEOREM DestructorCleans == SpecDeepmap => DestructorRemovesFiles
<1>1. WrapperInv /\ Final => \A f \in DOMAIN files' :
          files'[f].mine => proc = "exit" /\ f = f_idx
    <2> SUFFICES ASSUME WrapperInv, Final, NEW f \in DOMAIN files', files'[f].mine
                 PROVE  proc = "exit" /\ f = f_idx
        OBVIOUS
    <2>1. f \in DOMAIN files \ NamesOfSlots /\ files'[f] = files[f] /\ proc # "down"
        BY DEF Final, nvm_exit
    <2> QED
        BY <2>1 DEF WrapperInv, FilesInv, FilesHaveSlots, NamesOfSlots
<1>2. WrapperInv /\ [NextDeepmap]_deepmap_vars =>
        [Final => \A f \in DOMAIN files' :
            files'[f].mine => proc = "exit" /\ f = f_idx]_deepmap_vars
    BY <1>1
<1> QED
    BY <1>2, WrapperInvariance, PTL DEF DestructorRemovesFiles, SpecDeepmap
=============================================================================
