------------------------------ MODULE NVMalloc ------------------------------
(***************************************************************************)
(* NVMallocLibrary (nvm.c, namespace.c): allocation of variables in files  *)
(* of an SSD that are mapped into memory.  The name space is a table of    *)
(* slots; nvm_free and nvm_realloc find the slot of a pointer by its       *)
(* address.  A program calls nvm_init first and nvm_exit at the end.  What  *)
(* the library cannot do ends the process with exit(0), and nvm_exit runs   *)
(* then if it is called at exit, as in libdeepmap.so; otherwise, and when   *)
(* the process is killed, the files stay for the next one.                  *)
(*                                                                         *)
(* The library has no thread of its own, and only the files outlive the    *)
(* process, so a call is one step: a kill in the middle of a call leaves   *)
(* the files that a kill before or after it leaves.                        *)
(***************************************************************************)
EXTENDS Naturals

CONSTANTS NumPages,               \* pages of the address space
          Sizes,                  \* sizes asked for, in bytes
          size_align,             \* bytes of a page
          MAX_OPEN_FILE_CNT,      \* slots of the name space
          MAX_FILE_INDEX_LIMIT    \* largest file index

ASSUME NumPagesAssumption == NumPages \in Nat
ASSUME SizesAssumption == Sizes \subseteq Nat
ASSUME AlignAssumption == size_align \in Nat \ {0}
ASSUME SlotsAssumption == MAX_OPEN_FILE_CNT \in Nat
ASSUME IndexAssumption == MAX_FILE_INDEX_LIMIT \in Nat

VARIABLES var_info_table,  \* the name space
          f_idx,           \* index of the last file
          files,           \* files on the SSD: index -> pages, mine (created by this process)
          mem,             \* file mapped at each page, 0 when there is none
          vars_of,         \* the program's live variables: address -> pages, file
          returned,        \* history: a resize has moved a variable to an
                           \* address that a released slot of this process keeps
          proc             \* the process: not initialised or gone, running,
                           \* in exit(0)

vars == <<var_info_table, f_idx, files, mem, vars_of, returned, proc>>

Pages == 1 .. NumPages
Slots == 1 .. MAX_OPEN_FILE_CNT
Names == 1 .. MAX_FILE_INDEX_LIMIT

(* addr and fname are 0 where the code has -1 and the empty string.  fd is  *)
(* the number of a closed descriptor: it says that the slot has been used,  *)
(* which its name says too.                                                 *)
VarInfo == [addr : Pages \cup {0}, fname : Names \cup {0}, size : Nat,
            flag : {0, 1}]

EmptySlot == [addr |-> 0, fname |-> 0, size |-> 0, flag |-> 0]

(* Pages of a file that holds size bytes.                                   *)
roundsize(size) == (size_align - 1 + size) \div size_align

First(S) == CHOOSE i \in S : \A j \in S : i <= j

Range(a, n) == a .. a + n - 1

(* mmap with a NULL hint: any run of n unmapped pages, but not of none.     *)
MapBases(m, n) ==
    {a \in Pages : n > 0 /\ \A q \in Range(a, n) : q \in Pages /\ m[q] = 0}

mmap(m, a, n, f) == [q \in Pages |-> IF q \in Range(a, n) THEN f ELSE m[q]]

(* munmap drops whatever is mapped in the range.                            *)
munmap(m, a, n) == [q \in Pages |-> IF q \in Range(a, n) THEN 0 ELSE m[q]]

Without(f, x) == [y \in DOMAIN f \ {x} |-> f[y]]

With(f, x, v) == [y \in DOMAIN f \cup {x} |-> IF y = x THEN v ELSE f[y]]

-----------------------------------------------------------------------------
Empties == {i \in Slots : var_info_table[i].flag = 0}

(* The slots of an address: released slots keep theirs.                     *)
SlotsOf(addr) == {i \in Slots : var_info_table[i].addr = addr}

(* Mutant: the search for an empty slot starts at the end.                  *)
find_empty_slot_from_end == CHOOSE i \in Empties : \A j \in Empties : i >= j

find_empty_slot == First(Empties)

(* Slot that the searches by address stop at.                               *)
SlotOf(addr) == First(SlotsOf(addr))

(* nvm_free of an address that was never registered returns 0, nvm_realloc  *)
(* of one ends the process, and so do nvm_realloc(NULL, 0) and nvm_calloc   *)
(* of 0 bytes.                                                              *)
Registered(addr) == SlotsOf(addr) # {}

(* The file of the program's variable at addr, and of what else the         *)
(* search finds.                                                            *)
FileOf(addr) == IF addr \in DOMAIN vars_of THEN vars_of[addr].file
                ELSE var_info_table[SlotOf(addr)].fname

register_name_space(addr, fname, size) ==
    [var_info_table EXCEPT ![find_empty_slot] =
        [addr |-> addr, fname |-> fname, size |-> size, flag |-> 1]]

update_name_space(fname, size, addr) ==
    [var_info_table EXCEPT
        ![First({i \in Slots : var_info_table[i].fname = fname})] =
            [@ EXCEPT !.size = size, !.addr = addr]]

unregister_name_space(addr) ==
    [var_info_table EXCEPT ![SlotOf(addr)].flag = 0]

(* The process is over, or will be as soon as its exit handlers have run.   *)
Ends(how) ==
    /\ proc' = how
    /\ vars_of' = [a \in {} |-> 0]
    /\ mem' = [q \in Pages |-> 0]

(* exit(0).                                                                 *)
Exit0 ==
    /\ proc = "up"
    /\ Ends("exit")
    /\ UNCHANGED <<var_info_table, f_idx, files, returned>>

(* Mutant: an existing file is opened and used.                             *)
MayCreateAny(idx) == idx <= MAX_FILE_INDEX_LIMIT

MayCreate(idx) == idx <= MAX_FILE_INDEX_LIMIT /\ idx \notin DOMAIN files

nvm_malloc(size) ==
    LET idx == f_idx + 1
        n   == roundsize(size)
    IN  /\ proc = "up" /\ size > 0
        /\ MayCreate(idx) /\ Empties # {}
        /\ \E a \in MapBases(mem, n) :
             /\ var_info_table' = register_name_space(a, idx, n)
             /\ mem' = mmap(mem, a, n, idx)
             /\ vars_of' = With(vars_of, a, [pages |-> n, file |-> idx])
        /\ f_idx' = idx
        /\ files' = With(files, idx,
                         [pages |-> n,
                          mine |-> idx \notin DOMAIN files \/ files[idx].mine])
        /\ UNCHANGED <<returned, proc>>

(* The file names are used up, or the file exists, which ends the process   *)
(* before anything is created.                                              *)
RefuseFile ==
    /\ ~MayCreate(f_idx + 1)
    /\ Exit0

(* mmap fails, or the name space is full: the new file stays.               *)
RefuseSlot(size) ==
    /\ proc = "up" /\ size > 0
    /\ MayCreate(f_idx + 1)
    /\ Empties = {} \/ MapBases(mem, roundsize(size)) = {}
    /\ Ends("exit")
    /\ files' = With(files, f_idx + 1, [pages |-> roundsize(size), mine |-> TRUE])
    /\ f_idx' = f_idx + 1
    /\ UNCHANGED <<var_info_table, returned>>

unlink(name) == Without(files, name)

(* Mutant: nvm_free leaves the file for nvm_exit to remove.                 *)
nvm_freeKeepsFile(ptr) ==
    /\ proc = "up" /\ Registered(ptr)
    /\ mem' = munmap(mem, ptr, var_info_table[SlotOf(ptr)].size)
    /\ var_info_table' = unregister_name_space(ptr)
    /\ vars_of' = Without(vars_of, ptr)
    /\ UNCHANGED <<f_idx, files, returned, proc>>

(* nvm_free, and nvm_realloc to size 0, of an address that some slot has.   *)
nvm_free(ptr) ==
    LET i == SlotOf(ptr)
    IN  /\ proc = "up" /\ Registered(ptr)
        /\ mem' = munmap(mem, ptr, var_info_table[i].size)
        /\ var_info_table' = unregister_name_space(ptr)
        /\ files' = unlink(var_info_table[i].fname)
        /\ vars_of' = Without(vars_of, ptr)
        /\ UNCHANGED <<f_idx, returned, proc>>

(* What a file of so many pages may have after it was resized.  That        *)
(* posix_fallocate has failed on a full SSD is not noticed: the file keeps  *)
(* what it has got.                                                         *)
Resized(pages, size) ==
    IF roundsize(size) > pages THEN pages .. roundsize(size) ELSE {roundsize(size)}

(* nvm_realloc to another size: the file found by address is resized and    *)
(* mapped again, in the length it has.                                      *)
nvm_realloc(var, size) ==
    LET name == var_info_table[SlotOf(var)].fname
        m    == munmap(mem, var, files[name].pages)
    IN  /\ proc = "up" /\ size > 0
        /\ Registered(var)
        /\ name \in DOMAIN files
        /\ \E n \in Resized(files[name].pages, size) : \E a \in MapBases(m, n) :
             /\ mem' = mmap(m, a, n, name)
             /\ var_info_table' = update_name_space(name, n, a)
             /\ vars_of' = With(Without(vars_of, var), a,
                                [pages |-> n, file |-> FileOf(var)])
             /\ returned' = (returned \/ \E i \in SlotsOf(a) :
                                           var_info_table[i].flag = 0)
             /\ files' = [files EXCEPT ![name].pages = n]
        /\ UNCHANGED <<f_idx, proc>>

(* open fails: so does munmap of size -1, and mmap of descriptor -1.        *)
RefuseMissing(var) ==
    /\ Registered(var)
    /\ var_info_table[SlotOf(var)].fname \notin DOMAIN files
    /\ Exit0

(* mmap fails: the file has its new size by then.                           *)
RefuseRoom(var, size) ==
    LET name == var_info_table[SlotOf(var)].fname
        m    == munmap(mem, var, files[name].pages)
    IN  /\ proc = "up" /\ size > 0
        /\ Registered(var)
        /\ name \in DOMAIN files
        /\ Ends("exit")
        /\ \E n \in Resized(files[name].pages, size) :
             /\ MapBases(m, n) = {}
             /\ files' = [files EXCEPT ![name].pages = n]
        /\ UNCHANGED <<var_info_table, f_idx, returned>>

(* Mutant: the loop of destory_name_space misses the first slot.            *)
NamesOfOtherSlots == {var_info_table[i].fname : i \in Slots \ {1}}

(* Names of all slots that have ever been used.                             *)
NamesOfSlots == {var_info_table[i].fname : i \in Slots}

nvm_exit ==
    /\ proc \in {"up", "exit"}
    /\ files' = [f \in DOMAIN files \ NamesOfSlots |-> files[f]]
    /\ Ends("down")
    /\ UNCHANGED <<var_info_table, f_idx, returned>>

(* A signal, or an exit(0) that does not call nvm_exit: the files stay.     *)
Kill ==
    /\ proc \in {"up", "exit"}
    /\ Ends("down")
    /\ UNCHANGED <<var_info_table, f_idx, files, returned>>

(* A new process calls nvm_init.                                            *)
nvm_init ==
    /\ proc = "down"
    /\ proc' = "up"
    /\ var_info_table' = [i \in Slots |-> EmptySlot]
    /\ f_idx' = 0
    /\ files' = [f \in DOMAIN files |-> [files[f] EXCEPT !.mine = FALSE]]
    /\ returned' = FALSE
    /\ UNCHANGED <<mem, vars_of>>

Init ==
    /\ var_info_table = [i \in Slots |-> EmptySlot]
    /\ f_idx = 0
    /\ files = [f \in {} |-> 0]
    /\ mem = [q \in Pages |-> 0]
    /\ vars_of = [a \in {} |-> 0]
    /\ returned = FALSE
    /\ proc = "down"

Next ==
    \/ \E size \in Sizes : nvm_malloc(size) \/ RefuseSlot(size)
    \/ \E ptr \in DOMAIN vars_of : nvm_free(ptr) \/ RefuseMissing(ptr)
    \/ RefuseFile \/ Exit0 \/ nvm_exit \/ Kill \/ nvm_init
    \/ \E var \in DOMAIN vars_of, size \in Sizes :
          nvm_realloc(var, size) \/ RefuseRoom(var, size)

Spec == Init /\ [][Next]_vars

-----------------------------------------------------------------------------
(* Type correctness.                                                        *)
TypeOK ==
    /\ var_info_table \in [Slots -> VarInfo]
    /\ f_idx \in 0 .. MAX_FILE_INDEX_LIMIT
    /\ DOMAIN files \subseteq Names
    /\ files \in [DOMAIN files -> [pages : Nat, mine : BOOLEAN]]
    /\ mem \in [Pages -> Names \cup {0}]
    /\ DOMAIN vars_of \subseteq Pages
    /\ vars_of \in [DOMAIN vars_of -> [pages : Nat, file : Names]]
    /\ returned \in BOOLEAN
    /\ proc \in {"down", "up", "exit"}

(* Until a resize takes a variable back to the address of a released slot,  *)
(* every page of every live variable is mapped to the variable's own file,  *)
(* and the slot that a search by address finds is the variable's.  A        *)
(* variable has the pages that its file got, which after a resize on a full *)
(* SSD are fewer than the program asked for.                                *)
VariablesAreMapped ==
    ~returned => \A a \in DOMAIN vars_of :
        LET v == vars_of[a]
        IN  /\ \A q \in Range(a, v.pages) : q \in Pages /\ mem[q] = v.file
            /\ SlotOf(a) \in Slots
            /\ var_info_table[SlotOf(a)] =
                 [addr |-> a, fname |-> v.file, size |-> v.pages, flag |-> 1]

(* No two variables share a file, and a variable never lives in a file that *)
(* an earlier process left behind.  Until a resize has brought back the     *)
(* address of a released slot, its file is there; then a search by address  *)
(* finds another slot, and the file of another variable may be unlinked.    *)
VariablesOwnTheirFiles ==
    \A a \in DOMAIN vars_of :
        LET f == vars_of[a].file
        IN  /\ f \in DOMAIN files => files[f].mine
            /\ ~returned => f \in DOMAIN files
            /\ \A b \in DOMAIN vars_of \ {a} : vars_of[b].file # f

(* A process that reaches nvm_exit at the end of main leaves no file of its *)
(* own on the SSD, whatever was released, resized or still live before.     *)
ExitRemovesFiles ==
    [][proc = "up" /\ nvm_exit => \A f \in DOMAIN files' : ~files'[f].mine]_vars

(* A slot in use registers a live variable: releasing a variable            *)
(* deregisters it.                                                          *)
RegisteredVariablesAreLive ==
    proc = "up" => \A i \in Slots : var_info_table[i].flag = 1 =>
            var_info_table[i].addr \in DOMAIN vars_of

(* Until then a released variable takes no pages and no file.               *)
NothingLeaks == ~returned =>
    /\ \A q \in Pages : mem[q] # 0 =>
          \E a \in DOMAIN vars_of : q \in Range(a, vars_of[a].pages)
    /\ proc = "up" => \A f \in DOMAIN files : files[f].mine =>
          \E a \in DOMAIN vars_of : vars_of[a].file = f
=============================================================================
