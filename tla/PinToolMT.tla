------------------------------ MODULE PinToolMT ------------------------------
(***************************************************************************)
(* The multi-threaded and Fortran variants of the Pin tool                 *)
(* (pin-tools/pintool_mt.h and the .cpp files that attach its routines).   *)
(*                                                                         *)
(* The threads of the application share the object table, in_alloc,        *)
(* G_var_size and the message buffer.  Accesses are analysed under g_lock; *)
(* the routines at the entry of malloc, realloc and free take no lock.     *)
(* The preloaded library has one trace_flag and one message buffer for all *)
(* threads.  A step is one assignment to what the threads share, one test  *)
(* of it, or one search of the table.  What g_lock protects starts in the  *)
(* step that takes it and ends in the step that releases it.               *)
(*                                                                         *)
(* Every block lies at an address of its own: what happens when addresses  *)
(* are given out again is SlowPass.                                        *)
(***************************************************************************)
EXTENDS Integers, Sequences, FiniteSets

CONSTANTS Tools,         \* the tools that may be in use
          Threads,
          Main,          \* the thread that Pin numbers 0
          Sizes,         \* sizes asked for
          Capacity,      \* messages the queue holds before msgsnd blocks
          AllocInfo,     \* lines of ./AllocInfo: static objects of a Fortran program
          IntLimit,      \* int holds -IntLimit .. IntLimit - 1 (2^31 in the code)
          NestedMallocs, \* bound: calls of malloc in show_stackframe (2 in the code)
          MaxCalls,      \* bound: allocation calls
          MaxEvents      \* bound: allocation calls and analysed accesses

ASSUME ThreadsAssumption == Main \in Threads /\ IsFiniteSet(Threads)
ASSUME SizesAssumption == Sizes \subseteq Nat
ASSUME AllocInfoAssumption == AllocInfo \in Seq([addr : Nat, size : Nat])
ASSUME BoundsAssumption == Capacity \in Nat \ {0} /\ IntLimit \in Nat \ {0}
                           /\ NestedMallocs \in Nat \ {0} /\ MaxCalls \in Nat
                           /\ MaxEvents \in Nat

VARIABLES variant,       \* the tool in use
          in_alloc, G_var_size, msg_addr, table, count,   \* the tool's globals
          g_lock,        \* the set of threads that hold it
          queue,         \* the System V message queue
          trace_flag,    \* the library's flag
          lib_msg,       \* the library's message buffer
          thr,           \* what each thread is doing
          heap,          \* the application's blocks
          accesses,      \* accesses analysed so far
          received,      \* history: messages the tool has received
          credits,       \* history: accesses credited to each row
          raced          \* history: two threads were inside the routines
                         \* that write the table at the same time

tool == <<in_alloc, G_var_size, msg_addr, table, count>>
library == <<trace_flag, lib_msg>>
vars == <<variant, tool, g_lock, queue, library, thr, heap, accesses, received,
          credits, raced>>

(***************************************************************************)
(* What a tool attaches to a memory access.  traced: the threads whose     *)
(* accesses it analyses; polls: the analysis reads the queue; locks: under *)
(* g_lock; fortran: the table is read from ./AllocInfo and no queue is     *)
(* opened, so msgrcv fails; threads: those of the programs it is for.      *)
(***************************************************************************)
pintool_mt_whole ==
    [traced |-> Threads, polls |-> FALSE, locks |-> TRUE, fortran |-> FALSE,
     threads |-> Threads]

pintool_mt_sep ==
    [pintool_mt_whole EXCEPT !.traced = {Main}, !.polls = TRUE]

pintool_mt_whole_fortran == [pintool_mt_whole EXCEPT !.fortran = TRUE]

pintool_mt_sep_fortran == [pintool_mt_sep EXCEPT !.fortran = TRUE]

pintool_fortran ==
    [traced |-> Threads, polls |-> TRUE, locks |-> FALSE, fortran |-> TRUE,
     threads |-> {Main}]

Variants == {pintool_mt_whole, pintool_mt_sep, pintool_mt_whole_fortran,
             pintool_mt_sep_fortran, pintool_fortran}

ASSUME ToolsAssumption == Tools \subseteq Variants

(* A row of the table: var_addr, var_size, access_ops.                      *)
EmptyRow == [addr |-> 0, size |-> 0, ops |-> 0]

MAX_SIZE == MaxCalls + Len(AllocInfo)

(* Blocks are far apart.                                                    *)
AddressOf(id) == 10 * id

Stack == AddressOf(MaxCalls + 1)

Fresh == AddressOf(Cardinality(DOMAIN heap) + 1)

-----------------------------------------------------------------------------
(* (int) of an address: its low bits, signed.                               *)
AsInt(a) == ((a + IntLimit) % (2 * IntLimit)) - IntLimit

(* AllocAfter skips objects of 0 bytes: the lines that get a row, in order. *)
StaticLines == {k \in DOMAIN AllocInfo : AllocInfo[k].size > 0}

StaticLine(i) ==
    CHOOSE k \in StaticLines : Cardinality({j \in StaticLines : j < k}) = i - 1

StaticObjects == [i \in 1 .. Cardinality(StaticLines) |-> AllocInfo[StaticLine(i)]]

(* The table after ReadAllocInfo.                                           *)
ReadAllocInfo ==
    [i \in 1 .. MAX_SIZE |->
        IF i <= Len(StaticObjects)
        THEN [addr |-> AsInt(StaticObjects[i].addr), size |-> StaticObjects[i].size,
              ops |-> 0]
        ELSE EmptyRow]

Idle == [pc |-> "run", todo |-> 0, back |-> "run", nest |-> <<>>,
         size |-> 0, old |-> 0, ptr |-> 0, at |-> 0, ret |-> 0, reg |-> 0]

At(t, pc) == thr[t].pc = pc

(* What the ...Before routine of a call is asked for; show_stackframe asks  *)
(* for its own buffers.                                                     *)
Asked(r) == IF r.back = "nested" THEN 1 ELSE r.size

(* Inside the routines that write in_alloc, G_var_size and the table.       *)
Writing(t) ==
    thr[t].pc \in {"recv", "read", "bytes", "arg", "after", "test", "size", "addr",
                   "init", "load", "store", "retire", "set", "stat"}

(* Thread t goes on as described by the record r.                           *)
Goto(t, r) ==
    /\ thr' = [thr EXCEPT ![t] = r]
    /\ raced' = (raced \/ \E u \in Threads : u # t /\ Writing(u) /\ Writing(t)')

-----------------------------------------------------------------------------
(* A ...Before routine after its poll: only realloc's looks for the block.  *)
Entered(r) == IF r.old # 0 THEN "retire" ELSE "set"

(* TestAndGetAddr, called by a ...Before routine or by the analysis of an   *)
(* access, which has nothing left to do.                                    *)
AfterPoll(t) == IF thr[t].todo = 0 THEN "scan" ELSE Entered(thr[t])

RecvNothing(t) ==
    /\ At(t, "recv")
    /\ queue = <<>> \/ variant.fortran
    /\ Goto(t, [thr[t] EXCEPT !.pc = AfterPoll(t)])
    /\ UNCHANGED <<variant, tool, g_lock, queue, library, heap, accesses, received,
                   credits>>

Recv(t) ==
    /\ At(t, "recv")
    /\ queue # <<>> /\ ~variant.fortran
    /\ msg_addr' = Head(queue)
    /\ queue' = Tail(queue)
    /\ received' = Append(received, Head(queue))
    /\ Goto(t, [thr[t] EXCEPT !.pc = "read"])
    /\ UNCHANGED <<variant, in_alloc, G_var_size, table, count, g_lock, library,
                   heap, accesses, credits>>

(* in_alloc = 0 ...                                                         *)
ReadMessage(t) ==
    /\ At(t, "read")
    /\ in_alloc' = 0
    /\ Goto(t, [thr[t] EXCEPT !.pc = "bytes"])
    /\ UNCHANGED <<variant, G_var_size, msg_addr, table, count, g_lock, queue, library,
                   heap, accesses, received, credits>>

(* Mutant: the object gets the size of the latest request.                  *)
ReadSizeKeeps(t) ==
    /\ At(t, "bytes")
    /\ Goto(t, [thr[t] EXCEPT !.pc = "arg"])
    /\ UNCHANGED <<variant, tool, g_lock, queue, library, heap, accesses, received,
                   credits>>

(* ... G_var_size = msg_addr.size ...                                       *)
ReadSize(t) ==
    /\ At(t, "bytes")
    /\ G_var_size' = msg_addr.size
    /\ Goto(t, [thr[t] EXCEPT !.pc = "arg"])
    /\ UNCHANGED <<variant, in_alloc, msg_addr, table, count, g_lock, queue, library,
                   heap, accesses, received, credits>>

(* ... and AllocAfter(msg_addr.addr),                                       *)
ReadAddr(t) ==
    /\ At(t, "arg")
    /\ Goto(t, [thr[t] EXCEPT !.pc = "after", !.ret = msg_addr.addr])
    /\ UNCHANGED <<variant, tool, g_lock, queue, library, heap, accesses, received,
                   credits>>

(* which says again that no allocation is in progress ...                   *)
AllocAfter(t) ==
    /\ At(t, "after")
    /\ in_alloc' = 0
    /\ Goto(t, [thr[t] EXCEPT !.pc = "test"])
    /\ UNCHANGED <<variant, G_var_size, msg_addr, table, count, g_lock, queue, library,
                   heap, accesses, received, credits>>

(* ... and drops the message when a 0-byte request has overwritten the size.*)
TestSize(t) ==
    /\ At(t, "test")
    /\ Goto(t, IF G_var_size > 0 THEN [thr[t] EXCEPT !.pc = "size"]
               ELSE [thr[t] EXCEPT !.pc = AfterPoll(t), !.ret = 0])
    /\ UNCHANGED <<variant, tool, g_lock, queue, library, heap, accesses, received,
                   credits>>

(* It fills the row at count, then advances count.                          *)
WriteSize(t) ==
    /\ At(t, "size")
    /\ table' = [table EXCEPT ![count + 1].size = G_var_size]
    /\ Goto(t, [thr[t] EXCEPT !.pc = "addr"])
    /\ UNCHANGED <<variant, in_alloc, G_var_size, msg_addr, count, g_lock, queue,
                   library, heap, accesses, received, credits>>

WriteAddr(t) ==
    /\ At(t, "addr")
    /\ table' = [table EXCEPT ![count + 1].addr = thr[t].ret]
    /\ Goto(t, [thr[t] EXCEPT !.pc = "init"])
    /\ UNCHANGED <<variant, in_alloc, G_var_size, msg_addr, count, g_lock, queue,
                   library, heap, accesses, received, credits>>

InitVariable(t) ==
    /\ At(t, "init")
    /\ table' = [table EXCEPT ![count + 1].ops = 0]
    /\ credits' = [credits EXCEPT ![count + 1] = 0]
    /\ Goto(t, [thr[t] EXCEPT !.pc = "load"])
    /\ UNCHANGED <<variant, in_alloc, G_var_size, msg_addr, count, g_lock, queue,
                   library, heap, accesses, received>>

LoadCount(t) ==
    /\ At(t, "load")
    /\ Goto(t, [thr[t] EXCEPT !.pc = "store", !.reg = count])
    /\ UNCHANGED <<variant, tool, g_lock, queue, library, heap, accesses, received,
                   credits>>

StoreCount(t) ==
    /\ At(t, "store")
    /\ count' = thr[t].reg + 1
    /\ Goto(t, [thr[t] EXCEPT !.pc = AfterPoll(t), !.reg = 0, !.ret = 0])
    /\ UNCHANGED <<variant, in_alloc, G_var_size, msg_addr, table, g_lock, queue,
                   library, heap, accesses, received, credits>>

-----------------------------------------------------------------------------
(* MallocBefore, CallocBefore and ReallocBefore: no lock.  Thread t runs    *)
(* one as described by r.  A 0-byte request in progress keeps it from       *)
(* reading the queue.                                                       *)
EnterBefore(t, r) ==
    Goto(t, [r EXCEPT !.pc = IF in_alloc = 1 /\ G_var_size > 0
                             THEN "recv" ELSE Entered(r)])

Before(t) ==
    /\ At(t, "before")
    /\ EnterBefore(t, thr[t])
    /\ UNCHANGED <<variant, tool, g_lock, queue, library, heap, accesses, received,
                   credits>>

(* The rows of a block that is given back move below address 0.             *)
Retired(addr) ==
    [i \in DOMAIN table |->
        IF i <= count /\ table[i].addr = addr
        THEN [table[i] EXCEPT !.addr = -table[i].size]
        ELSE table[i]]

Retire(t) ==
    /\ At(t, "retire")
    /\ table' = Retired(thr[t].old)
    /\ Goto(t, [thr[t] EXCEPT !.pc = "set"])
    /\ UNCHANGED <<variant, in_alloc, G_var_size, msg_addr, count, g_lock, queue,
                   library, heap, accesses, received, credits>>

SetSize(t) ==
    /\ At(t, "set")
    /\ G_var_size' = Asked(thr[t])
    /\ Goto(t, [thr[t] EXCEPT !.pc = "stat", !.todo = @ - 1])
    /\ UNCHANGED <<variant, in_alloc, msg_addr, table, count, g_lock, queue, library,
                   heap, accesses, received, credits>>

(* Mutant: the routine never says that an allocation is in progress.        *)
ChangeAllocStatForgets(t) ==
    /\ At(t, "stat")
    /\ Goto(t, [thr[t] EXCEPT !.pc = IF thr[t].todo = 0 THEN thr[t].back ELSE "before"])
    /\ UNCHANGED <<variant, tool, g_lock, queue, library, heap, accesses, received,
                   credits>>

ChangeAllocStat(t) ==
    /\ At(t, "stat")
    /\ in_alloc' = IF G_var_size > 0 THEN 1 ELSE in_alloc
    /\ Goto(t, [thr[t] EXCEPT !.pc = IF thr[t].todo = 0 THEN thr[t].back ELSE "before"])
    /\ UNCHANGED <<variant, G_var_size, msg_addr, table, count, g_lock, queue,
                   library, heap, accesses, received, credits>>

-----------------------------------------------------------------------------
(* A thread calls malloc (old = 0) or realloc.  The routine runs at the     *)
(* entry of the preloaded library's function and of libc's; a Fortran       *)
(* program runs without the library.                                        *)
Malloc(t, n, old) ==
    /\ At(t, "run") /\ t \in variant.threads
    /\ Cardinality(DOMAIN heap) < MaxCalls
    /\ accesses + Cardinality(DOMAIN heap) < MaxEvents
    /\ heap' = [p \in DOMAIN heap \cup {Fresh} |->
                  IF p = Fresh THEN [state |-> "inside", size |-> n, chosen |-> FALSE, by |-> t]
                  ELSE IF p = old THEN [heap[p] EXCEPT !.state = "freed"]
                  ELSE heap[p]]
    /\ EnterBefore(t, [Idle EXCEPT !.ptr = Fresh, !.size = n, !.old = old,
                            !.todo = IF variant.fortran THEN 1 ELSE 2,
                            !.back = IF variant.fortran THEN "return" ELSE "hook"])
    /\ UNCHANGED <<variant, tool, g_lock, queue, library, accesses, received, credits>>

Live == {p \in DOMAIN heap : heap[p].state = "live"}

(* malloc(0) gives a block of 0 bytes; realloc(p, 0) frees p and gives none. *)
Return(t) ==
    /\ heap' = [heap EXCEPT ![thr[t].ptr].state =
                    IF thr[t].size = 0 /\ thr[t].old # 0 THEN "freed" ELSE "live"]
    /\ Goto(t, Idle)

(* Fortran, or a call that is not traced: CALLTRACK_SIZE is 0.              *)
CallReturns(t) ==
    /\ At(t, "return") \/ (At(t, "hook") /\ (trace_flag \/ thr[t].size = 0))
    /\ Return(t)
    /\ UNCHANGED <<variant, tool, g_lock, queue, library, accesses, received, credits>>

Hook(t) ==
    /\ At(t, "hook") /\ ~trace_flag /\ thr[t].size > 0
    /\ Goto(t, [thr[t] EXCEPT !.pc = "setflag", !.old = 0])
    /\ UNCHANGED <<variant, tool, g_lock, queue, library, heap, accesses, received,
                   credits>>

(* show_stackframe: malloc is called twice.                                 *)
SetFlag(t) ==
    /\ At(t, "setflag")
    /\ trace_flag' = TRUE
    /\ Goto(t, [thr[t] EXCEPT !.pc = "show", !.nest = <<NestedMallocs>> \o @])
    /\ UNCHANGED <<variant, tool, g_lock, queue, lib_msg, heap, accesses, received,
                   credits>>

NestedMalloc(t) ==
    /\ At(t, "show") /\ Head(thr[t].nest) > 0
    /\ EnterBefore(t, [thr[t] EXCEPT !.todo = 2, !.back = "nested",
                                     !.nest[1] = @ - 1])
    /\ UNCHANGED <<variant, tool, g_lock, queue, library, heap, accesses, received,
                   credits>>

(* It is itself traced when another thread has cleared the flag.            *)
NestedHook(t) ==
    /\ At(t, "nested")
    /\ Goto(t, [thr[t] EXCEPT !.pc = IF trace_flag THEN "show" ELSE "setflag"])
    /\ UNCHANGED <<variant, tool, g_lock, queue, library, heap, accesses, received,
                   credits>>

(* Its call stack is not one of the chosen ones.                            *)
NestedReturns(t) ==
    /\ At(t, "show") /\ Head(thr[t].nest) = 0 /\ Len(thr[t].nest) > 1
    /\ trace_flag' = FALSE
    /\ Goto(t, [thr[t] EXCEPT !.nest = Tail(@)])
    /\ UNCHANGED <<variant, tool, g_lock, queue, lib_msg, heap, accesses, received,
                   credits>>

(* LookIntoHashValue finds the call stack: write_down_addr.                 *)
FillAddr(t) ==
    /\ At(t, "show") /\ thr[t].nest = <<0>>
    /\ lib_msg' = [lib_msg EXCEPT !.addr = thr[t].ptr]
    /\ heap' = [heap EXCEPT ![thr[t].ptr].chosen = TRUE]
    /\ Goto(t, [thr[t] EXCEPT !.pc = "fill", !.nest = <<>>])
    /\ UNCHANGED <<variant, tool, g_lock, queue, trace_flag, accesses, received,
                   credits>>

FillSize(t) ==
    /\ At(t, "fill")
    /\ lib_msg' = [lib_msg EXCEPT !.size = thr[t].size]
    /\ Goto(t, [thr[t] EXCEPT !.pc = "send"])
    /\ UNCHANGED <<variant, tool, g_lock, queue, trace_flag, heap, accesses, received,
                   credits>>

(* What follows reads the stack before the flag is cleared.                 *)
Send(t) ==
    /\ At(t, "send")
    /\ Len(queue) < Capacity
    /\ queue' = Append(queue, lib_msg)
    /\ Goto(t, [thr[t] EXCEPT !.pc = IF t \in variant.traced THEN "lock" ELSE "clear",
                              !.size = 0, !.back = "clear", !.at = Stack])
    /\ UNCHANGED <<variant, tool, g_lock, library, heap, accesses, received, credits>>

(* After the message, or when the call stack is not one of the chosen ones. *)
ClearFlag(t) ==
    /\ At(t, "clear") \/ (At(t, "show") /\ thr[t].nest = <<0>>)
    /\ trace_flag' = FALSE
    /\ Return(t)
    /\ UNCHANGED <<variant, tool, g_lock, queue, lib_msg, accesses, received, credits>>

(* free, whoever allocated the block.  FreeBefore runs at the entry of the  *)
(* library's free ...                                                       *)
Free(t, p) ==
    /\ At(t, "run") /\ t \in variant.threads
    /\ p \in Live
    /\ table' = Retired(p)
    /\ heap' = [heap EXCEPT ![p].state = "freed"]
    /\ Goto(t, IF variant.fortran THEN Idle ELSE [Idle EXCEPT !.pc = "free", !.old = p])
    /\ UNCHANGED <<variant, in_alloc, G_var_size, msg_addr, count, g_lock, queue,
                   library, accesses, received, credits>>

(* ... which sets the flag unless it is set ...                             *)
FreeHook(t) ==
    /\ At(t, "free")
    /\ Goto(t, [thr[t] EXCEPT !.pc = IF trace_flag THEN "freep" ELSE "freeset"])
    /\ UNCHANGED <<variant, tool, g_lock, queue, library, heap, accesses, received,
                   credits>>

FreeSetFlag(t) ==
    /\ At(t, "freeset")
    /\ trace_flag' = TRUE
    /\ Goto(t, [thr[t] EXCEPT !.pc = "freeclear"])
    /\ UNCHANGED <<variant, tool, g_lock, queue, lib_msg, heap, accesses, received,
                   credits>>

FreeClearFlag(t) ==
    /\ At(t, "freeclear")
    /\ trace_flag' = FALSE
    /\ Goto(t, [thr[t] EXCEPT !.pc = "freep"])
    /\ UNCHANGED <<variant, tool, g_lock, queue, lib_msg, heap, accesses, received,
                   credits>>

(* ... and again at that of libc's.                                         *)
LibcFree(t) ==
    /\ At(t, "freep")
    /\ table' = Retired(thr[t].old)
    /\ Goto(t, Idle)
    /\ UNCHANGED <<variant, in_alloc, G_var_size, msg_addr, count, g_lock, queue,
                   library, heap, accesses, received, credits>>

-----------------------------------------------------------------------------
(* RecordMemReadMT, RecordMemWriteMT and the ...MTsep routines.             *)
Access(t, a) ==
    /\ At(t, "run") /\ t \in variant.threads \cap variant.traced
    /\ accesses + Cardinality(DOMAIN heap) < MaxEvents
    /\ accesses' = accesses + 1
    /\ Goto(t, [Idle EXCEPT !.pc = "lock", !.at = a])
    /\ UNCHANGED <<variant, tool, g_lock, queue, library, heap, received, credits>>

(* Mutant: PIN_GetLock is left out.                                         *)
GetLockNever(t) ==
    /\ At(t, "lock")
    /\ Goto(t, [thr[t] EXCEPT !.pc = IF variant.polls /\ in_alloc = 1
                                     THEN "recv" ELSE "scan"])
    /\ UNCHANGED <<variant, tool, g_lock, queue, library, heap, accesses, received,
                   credits>>

(* Mutant: the routine of pintool_mt_sep does not read the queue either.    *)
GetLockNoPoll(t) ==
    /\ At(t, "lock")
    /\ variant.locks => g_lock = {}
    /\ g_lock' = IF variant.locks THEN {t} ELSE g_lock
    /\ Goto(t, [thr[t] EXCEPT !.pc = "scan"])
    /\ UNCHANGED <<variant, tool, queue, library, heap, accesses, received, credits>>

GetLock(t) ==
    /\ At(t, "lock")
    /\ variant.locks => g_lock = {}
    /\ g_lock' = IF variant.locks THEN {t} ELSE g_lock
    /\ Goto(t, [thr[t] EXCEPT !.pc = IF variant.polls /\ in_alloc = 1
                                     THEN "recv" ELSE "scan"])
    /\ UNCHANGED <<variant, tool, queue, library, heap, accesses, received, credits>>

(* Rows whose range contains address a; the scan stops at the first.        *)
Owners(a) ==
    {i \in 1 .. count : table[i].addr <= a /\ a < table[i].addr + table[i].size}

Release(t) == g_lock' = g_lock \ {t}

NoOwner(t) ==
    /\ At(t, "scan")
    /\ Owners(thr[t].at) = {}
    /\ Release(t)
    /\ Goto(t, [thr[t] EXCEPT !.pc = thr[t].back, !.at = 0])
    /\ UNCHANGED <<variant, tool, queue, library, heap, accesses, received, credits>>

(* GetMetrics reads the row's counters ...                                  *)
Scan(t) ==
    /\ At(t, "scan")
    /\ Owners(thr[t].at) # {}
    /\ LET i == CHOOSE x \in Owners(thr[t].at) : \A y \in Owners(thr[t].at) : x <= y
       IN  Goto(t, [thr[t] EXCEPT !.pc = "credit", !.at = i, !.reg = table[i].ops])
    /\ UNCHANGED <<variant, tool, g_lock, queue, library, heap, accesses, received,
                   credits>>

(* ... and writes them.                                                     *)
Credit(t) ==
    /\ At(t, "credit")
    /\ table' = [table EXCEPT ![thr[t].at].ops = thr[t].reg + 1]
    /\ credits' = [credits EXCEPT ![thr[t].at] = @ + 1]
    /\ Release(t)
    /\ Goto(t, [thr[t] EXCEPT !.pc = thr[t].back, !.at = 0, !.reg = 0])
    /\ UNCHANGED <<variant, in_alloc, G_var_size, msg_addr, count, queue, library, heap,
                   accesses, received>>

-----------------------------------------------------------------------------
Init ==
    /\ variant \in Tools
    /\ in_alloc = 0
    /\ msg_addr = [addr |-> 0, size |-> 0]
    /\ lib_msg = [addr |-> 0, size |-> 0]
    /\ IF variant.fortran
       THEN /\ table = ReadAllocInfo
            /\ count = Len(StaticObjects)
            /\ G_var_size = IF AllocInfo = <<>> THEN 0 ELSE AllocInfo[Len(AllocInfo)].size
            /\ received = StaticObjects
       ELSE /\ table = [i \in 1 .. MAX_SIZE |-> EmptyRow]
            /\ count = 0
            /\ G_var_size = 0
            /\ received = <<>>
    /\ g_lock = {}
    /\ queue = <<>>
    /\ trace_flag = FALSE
    /\ thr = [t \in Threads |-> Idle]
    /\ heap = [p \in {} |-> 0]
    /\ accesses = 0
    /\ credits = [i \in 1 .. MAX_SIZE |-> 0]
    /\ raced = FALSE

(* A step inside an analysis routine, the library or libc.                  *)
Inside(t) ==
    \/ RecvNothing(t) \/ Recv(t) \/ ReadMessage(t) \/ ReadSize(t) \/ ReadAddr(t)
    \/ AllocAfter(t) \/ TestSize(t) \/ WriteSize(t) \/ WriteAddr(t) \/ InitVariable(t)
    \/ LoadCount(t) \/ StoreCount(t)
    \/ Before(t) \/ Retire(t) \/ SetSize(t) \/ ChangeAllocStat(t)
    \/ CallReturns(t) \/ Hook(t) \/ SetFlag(t) \/ NestedMalloc(t) \/ NestedHook(t)
    \/ NestedReturns(t) \/ FillAddr(t) \/ FillSize(t) \/ Send(t) \/ ClearFlag(t)
    \/ FreeHook(t) \/ FreeSetFlag(t) \/ FreeClearFlag(t) \/ LibcFree(t)
    \/ GetLock(t) \/ NoOwner(t) \/ Scan(t) \/ Credit(t)

(* The application calls the library or touches one of its objects.         *)
Application(t) ==
    \/ \E n \in Sizes, old \in Live \cup {0} : Malloc(t, n, old)
    \/ \E p \in Live : Free(t, p)
    \/ \E p \in Live : heap[p].size > 0 /\ Access(t, p)
    \/ variant.fortran /\ \E i \in DOMAIN AllocInfo : Access(t, AllocInfo[i].addr)

(* The program ends when its threads are idle.                              *)
Exit ==
    /\ \A t \in Threads : At(t, "run")
    /\ UNCHANGED vars

Next == (\E t \in Threads : Inside(t) \/ Application(t)) \/ Exit

Spec == Init /\ [][Next]_vars

-----------------------------------------------------------------------------
(* Type correctness.                                                        *)
TypeOK ==
    /\ variant \in Variants
    /\ in_alloc \in {0, 1} /\ G_var_size \in Nat
    /\ count \in 0 .. MAX_SIZE
    /\ table \in [1 .. MAX_SIZE -> [addr : Int, size : Nat, ops : Nat]]
    /\ g_lock \subseteq Threads /\ Cardinality(g_lock) <= 1
    /\ trace_flag \in BOOLEAN /\ raced \in BOOLEAN
    /\ \A t \in Threads : thr[t].todo \in Nat /\ thr[t].nest \in Seq(Nat)

(* Threads that have received a message and not yet published its row.      *)
Filling ==
    {t \in Threads : thr[t].pc \in {"read", "bytes", "arg", "after", "test", "size",
                                    "addr", "init", "load", "store"}}

(* As long as no two threads are inside the unlocked routines at the same   *)
(* time, the table is the list of the received messages, in order and       *)
(* whole, whatever other threads analyse or free meanwhile; a row moves     *)
(* below 0 only when its block is given back.  In a Fortran tool it is the  *)
(* list of AllocInfo even then, but for the addresses of objects above      *)
(* 2 GB: ReadAllocInfo cuts them to an int, so nothing is said of them.     *)
TableIsReceived ==
    ~raced \/ variant.fortran =>
        /\ Len(received) = count + Cardinality(Filling)
        /\ \A i \in 1 .. count :
             LET r == table[i]
                 m == received[i]
             IN  /\ r.size = m.size
                 /\ (variant.fortran => m.addr < IntLimit) =>
                      \/ r.addr = m.addr
                      \/ r.addr = -m.size /\ heap[m.addr].state = "freed"

(* No access is lost: with g_lock, and as long as no two threads are inside *)
(* the unlocked routines at the same time, the counters of a row have       *)
(* counted every access that was credited to it, whichever threads made     *)
(* them.                                                                    *)
NoAccessIsLost ==
    variant.locks /\ ~raced =>
        \A i \in 1 .. count : table[i].ops = credits[i]

(* As long as no two threads are inside the unlocked routines at the same   *)
(* time, the queue never holds more messages than there are threads, so     *)
(* msgsnd never waits: in_alloc = 0 or a 0-byte request lets a thread skip  *)
(* a poll, but only after another thread has read the queue in its place.   *)
QueueIsBounded == ~raced => Len(queue) <= Cardinality(Threads)

NoZeroRequests == \A p \in DOMAIN heap : heap[p].size > 0

(* Until the first request of 0 bytes, two threads take messages from the   *)
(* queue as fast as they send them even when they race.  A 0-byte request   *)
(* makes the polls of the other thread fail for as long as its size is in   *)
(* G_var_size; and more threads need not keep up either: one that sets      *)
(* in_alloc to 0 lets all the others skip their poll.                       *)
TwoThreadsNeverWait ==
    Cardinality(Threads) <= 2 /\ NoZeroRequests => Len(queue) <= Cardinality(Threads)

(* pintool_mt_sep, while only thread 0 announces blocks and no two threads  *)
(* are inside the unlocked routines at the same time: whenever thread 0     *)
(* runs its own code, each of its live announced blocks is in the table, or *)
(* is the message that another thread has received and is turning into the  *)
(* next row.                                                                *)
SepRegistersMain ==
    /\ variant = pintool_mt_sep /\ ~raced
    /\ \A p \in DOMAIN heap : heap[p].chosen => heap[p].by = Main
    /\ At(Main, "run")
    =>
    \A p \in Live : heap[p].chosen =>
        \/ \E i \in 1 .. count : table[i].addr = p /\ table[i].size = heap[p].size
        \/ /\ Filling \notin {{}, {Main}}
           /\ received[count + 1] = [addr |-> p, size |-> heap[p].size]

=============================================================================
