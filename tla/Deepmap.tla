------------------------------ MODULE Deepmap ------------------------------
(***************************************************************************)
(* libdeepmap.so (calltrack/src/deepmap.cpp): malloc, calloc, realloc and  *)
(* free of a program whose blocks are to live on the SSD, on top of        *)
(* NVMallocLibrary.  A constructor calls nvm_init and a destructor calls   *)
(* nvm_exit, so nvm_exit also runs when the library calls exit(0).         *)
(*                                                                         *)
(* One thread: trace_flag is false between calls and true in the calls     *)
(* that the library itself makes, which go to the C library.  The program  *)
(* follows the rules of malloc: it passes on only pointers it was given    *)
(* and has not released.                                                   *)
(***************************************************************************)
EXTENDS NVMalloc

CONSTANTS Blocks,        \* blocks of the C library that may be live at once
          tmp_array,     \* what calloc returns before the constructor
          Junk           \* a value that is the address of nothing

ASSUME PointersAssumption ==
    /\ tmp_array # Junk
    /\ Blocks \cap (Pages \cup {tmp_array, Junk}) = {}
    /\ {tmp_array, Junk} \cap Pages = {}
    /\ 0 \notin Blocks \cup {tmp_array}       \* the address of no slot

VARIABLES held,       \* pointers that the program has and has not released
          libc,       \* blocks of the C library that are allocated
          realloced   \* history: realloc has been called with a size in
                      \* this process

wrapper == <<held, libc, realloced>>

deepmap_vars == <<vars, wrapper>>

(* The variable that a call has created, or moved to another address.       *)
Created == DOMAIN vars_of' \ DOMAIN vars_of

(* nvm_malloc does not return.                                              *)
Refused(n) == RefuseFile \/ RefuseSlot(n)

Over == held' = {} /\ libc' = {} /\ realloced' = FALSE

Keeps(S) == held' = S /\ UNCHANGED <<libc, realloced>>

(* A call that is served by the C library.                                  *)
FromLibc ==
    /\ proc = "up"
    /\ \E b \in Blocks \ libc :
          libc' = libc \cup {b} /\ held' = held \cup {b}
    /\ UNCHANGED <<vars, realloced>>

-----------------------------------------------------------------------------
(* calloc before the constructor, as dlsym calls it.  A malloc this early   *)
(* calls a null pointer.                                                    *)
EarlyCalloc ==
    /\ proc = "down"
    /\ UNCHANGED vars
    /\ Keeps(held \cup {tmp_array})

Constructor ==
    /\ nvm_init
    /\ Keeps(held)

(* Mutant: the pointer is not passed on, as in realloc.                     *)
NewBlockLost(n) ==
    \/ nvm_malloc(n) /\ \E g \in Pages : Keeps(held \cup {g})
    \/ Refused(n) /\ Keeps({})

(* malloc and calloc of n > 0 bytes.                                        *)
NewBlock(n) ==
    \/ nvm_malloc(n) /\ Keeps(held \cup Created)
    \/ Refused(n) /\ Keeps({})

(* malloc(0) and calloc(k, 0).                                              *)
NewEmptyBlock == FromLibc

(* calloc(0, k) with k > 0: nvm_malloc(0) is NULL, and nvm_calloc exits.    *)
CallocOfNone == Exit0 /\ Keeps({})

(* What realloc returns was never assigned: what the stack holds there, a   *)
(* pointer of the program's past or anything else.                          *)
Unassigned == Pages \cup {Junk}

(* realloc(NULL, n) with n > 0, nvm_realloc's malloc.                       *)
ReallocNull(n) ==
    \/ /\ nvm_malloc(n)
       /\ \E g \in Unassigned : held' = held \cup {g}
       /\ realloced' = TRUE /\ UNCHANGED libc
    \/ Refused(n) /\ Keeps({})

(* realloc(ptr, n) with n > 0.                                              *)
Realloc(ptr, n) ==
    \/ /\ nvm_realloc(ptr, n)
       /\ \E g \in Unassigned : held' = (held \ {ptr}) \cup {g}
       /\ realloced' = TRUE /\ UNCHANGED libc
    \/ (RefuseMissing(ptr) \/ RefuseRoom(ptr, n)) /\ Keeps({})

(* ... of what the library does not know ends the process.                  *)
ReallocForeign(ptr) ==
    /\ ~Registered(ptr)
    /\ Exit0
    /\ Keeps({})

(* realloc(ptr, 0) calls itself until the stack is used up: see Crash.      *)

(* Mutant: the search for the size is taken to have failed.                 *)
FreeNothing(ptr) ==
    /\ proc = "up" /\ Registered(ptr)
    /\ UNCHANGED vars
    /\ Keeps(held \ {ptr})

(* free of an address that the library knows.                               *)
Free(ptr) ==
    /\ nvm_free(ptr)
    /\ Keeps(held \ {ptr})

(* free of tmp_array returns at once.  For what the library does not know   *)
(* nvm_free returns 0 and free calls itself, which with trace_flag set      *)
(* does nothing: the block stays allocated.                                 *)
FreeForeign(ptr) ==
    /\ proc = "up" /\ ~Registered(ptr)
    /\ UNCHANGED vars
    /\ Keeps(held \ {ptr})

(* Mutant: the handler does not run after a failed call.                    *)
FinalAfterMain ==
    /\ IF proc = "up" THEN nvm_exit ELSE Kill
    /\ Over

(* The destructor, after main has returned or exit was called.              *)
Final ==
    /\ nvm_exit
    /\ Over

(* A signal, among them those that follow the use of a wrong pointer.       *)
Crash ==
    /\ Kill
    /\ Over

-----------------------------------------------------------------------------
InitDeepmap ==
    /\ Init
    /\ held = {} /\ libc = {} /\ realloced = FALSE

NextDeepmap ==
    \/ EarlyCalloc \/ Constructor \/ NewEmptyBlock \/ CallocOfNone
    \/ \E n \in Sizes \ {0} : NewBlock(n) \/ ReallocNull(n)
    \/ \E ptr \in held :
         \/ \E n \in Sizes \ {0} : Realloc(ptr, n)
         \/ ReallocForeign(ptr) \/ Free(ptr) \/ FreeForeign(ptr)
    \/ Final \/ Crash

SpecDeepmap == InitDeepmap /\ [][NextDeepmap]_deepmap_vars

-----------------------------------------------------------------------------
(* Until realloc is called with a size, the program holds exactly the       *)
(* variables of the library, all mapped to their own files: no block is     *)
(* lost between wrapper and library, and none is taken away.                *)
HeldBlocksAreVariables ==
    proc = "up" /\ ~realloced =>
        /\ held \cap Pages = DOMAIN vars_of
        /\ \A a \in DOMAIN vars_of :
              \A q \in Range(a, vars_of[a].pages) : mem[q] = vars_of[a].file

(* Until then, a program that follows the rules of malloc makes the wrapper *)
(* follow the rules of NVMallocLibrary: nvm_init first, only live variables *)
(* released or resized, nvm_exit once at the end.                           *)
KeepsTheRules == [][realloced \/ Next]_vars

(* However the process comes to exit, and whatever the pointers were that   *)
(* realloc returned and the program released, the destructor leaves at most *)
(* one file of this process, that of a variable whose creation failed.      *)
DestructorRemovesFiles ==
    [][Final => \A f \in DOMAIN files' :
          files'[f].mine => proc = "exit" /\ f = f_idx]_deepmap_vars
=============================================================================
