---------------------------- MODULE NVMallocInv ----------------------------
(***************************************************************************)
(* The inductive invariant of the NVM allocation library.                  *)
(*                                                                         *)
(* FilesInv is about the name space and the files alone.  It holds         *)
(* whatever pointers nvm_free and nvm_realloc are given, live or not, so   *)
(* it also carries over to the wrapper that passes on wrong ones.          *)
(***************************************************************************)
EXTENDS NVMalloc

(* A slot that was never used is empty; another one has an address and one  *)
(* of the names given out so far.                                           *)
SlotsAreUsed ==
    \A i \in Slots :
        LET s == var_info_table[i]
        IN  /\ s.fname <= f_idx
            /\ s.fname = 0 => s = EmptySlot

(* Names are never given out twice, so each one is in at most one slot.     *)
OneSlotPerFile ==
    \A i, j \in Slots :
        i # j /\ var_info_table[i].fname # 0 =>
            var_info_table[i].fname # var_info_table[j].fname

(* The file of a released slot is unlinked.                                 *)
ReleasedFilesAreGone ==
    \A i \in Slots :
        var_info_table[i].flag = 0 => var_info_table[i].fname \notin DOMAIN files

(* The files with the names given out so far are this process's own: it     *)
(* does not open a file that exists.                                        *)
OwnFilesAreCounted ==
    \A f \in DOMAIN files : files[f].mine <=> f <= f_idx

(* nvm_exit finds the files of this process in the slots, all but the one   *)
(* whose creation has ended the process.                                    *)
FilesHaveSlots ==
    \A f \in DOMAIN files : files[f].mine =>
        \/ \E i \in Slots : var_info_table[i].fname = f
        \/ proc = "exit" /\ f = f_idx
        \/ proc = "down"

EndedHasNoVariables ==
    proc # "up" => DOMAIN vars_of = {} /\ \A q \in Pages : mem[q] = 0

FilesInv ==
    /\ TypeOK
    /\ SlotsAreUsed
    /\ OneSlotPerFile
    /\ ReleasedFilesAreGone
    /\ OwnFilesAreCounted
    /\ FilesHaveSlots
    /\ EndedHasNoVariables

-----------------------------------------------------------------------------
VariablesHaveOwnNames ==
    \A a \in DOMAIN vars_of :
        /\ vars_of[a].file <= f_idx
        /\ \A b \in DOMAIN vars_of \ {a} : vars_of[b].file # vars_of[a].file

(* Slot i is that of the live variable at a.                                *)
IsSlotOf(i, a) ==
    var_info_table[i] = [addr |-> a, fname |-> vars_of[a].file,
                         size |-> vars_of[a].pages, flag |-> 1]

(* A slot in use is that of a live variable ...                             *)
SlotsAreVariables ==
    \A i \in Slots : var_info_table[i].flag = 1 =>
        /\ var_info_table[i].addr \in DOMAIN vars_of
        /\ IsSlotOf(i, var_info_table[i].addr)

(* ... and a live variable has a slot, before any released slot that keeps  *)
(* the same address.                                                        *)
VariablesHaveSlots ==
    \A a \in DOMAIN vars_of : \E i \in Slots :
        /\ IsSlotOf(i, a)
        /\ \A j \in SlotsOf(a) : i <= j

VariablesHaveFiles ==
    \A a \in DOMAIN vars_of :
        LET v == vars_of[a]
        IN  /\ v.pages > 0
            /\ v.file \in DOMAIN files
            /\ files[v.file].pages = v.pages

PagesAreVariables ==
    /\ \A a \in DOMAIN vars_of : \A q \in Range(a, vars_of[a].pages) :
          q \in Pages /\ mem[q] = vars_of[a].file
    /\ \A q \in Pages : mem[q] # 0 =>
          \E a \in DOMAIN vars_of : q \in Range(a, vars_of[a].pages)

(* Until a resize has brought back the address of a released slot.          *)
LiveInv ==
    /\ VariablesHaveOwnNames
    /\ proc = "up" /\ ~returned =>
          /\ SlotsAreVariables
          /\ VariablesHaveSlots
          /\ VariablesHaveFiles
          /\ PagesAreVariables

NVMallocIInv == FilesInv /\ LiveInv
=============================================================================
