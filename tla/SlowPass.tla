------------------------------ MODULE SlowPass ------------------------------
(***************************************************************************)
(* The slow pass over a single-threaded application: the application, the  *)
(* preloaded library libslowpass.so (calltrack/src/dcalltrack.cpp built    *)
(* with READ_VAR_HASH_VALUE and IDENT_TRANSFER), the System V message      *)
(* queue and the Pin tool (PinTool), in one instrumented process.          *)
(*                                                                         *)
(* A call of malloc, calloc or realloc first enters the library (the tool  *)
(* runs its ...Before routine), which calls libc (the routine runs again), *)
(* then finds the call site in the table of chosen hash values and, when   *)
(* it is there, announces the block on the queue.  The tool, which watches *)
(* the same process, polls the queue before memory accesses.  Everything   *)
(* that can happen between these instructions is a step of its own.        *)
(*                                                                         *)
(* Memory is a row of cells.  The application's blocks lie in Cells; the   *)
(* library's own short-lived blocks may reuse free cells of Cells or lie   *)
(* in two cells that follow; the last address is the stack.                *)
(***************************************************************************)
EXTENDS PinTool, FiniteSets

CONSTANTS NumCells,     \* cells of the application's heap
          Sizes,        \* sizes asked for
          Counts,       \* numbers of elements asked for with calloc
          Capacity,     \* messages the queue holds before msgsnd blocks
          MaxObjects    \* bound: announcements explored in one run

ASSUME NumCellsAssumption == NumCells \in Nat \ {0}
ASSUME SizesAssumption == Sizes \subseteq Nat
ASSUME CountsAssumption == Counts \subseteq Nat
ASSUME CapacityAssumption == Capacity \in Nat \ {0}
ASSUME MaxObjectsAssumption == MaxObjects \in Nat

VARIABLES tool,        \* the tool's registry, request in progress and queue
          heap,        \* live blocks: base address -> size, traced
          phase,       \* constructor not run yet, main program, after final
          pc,          \* where the process is
          call,        \* allocation call in progress
          scratch,     \* bases of the library's own two blocks
          trace_flag   \* the library's re-entrancy flag

vars == <<tool, heap, phase, pc, call, scratch, trace_flag>>

Cells == 1 .. NumCells
ScratchCells == 1 .. NumCells + 2
Stack == NumCells + 3
Addresses == 1 .. Stack

(* malloc(0) also returns a block of its own.                               *)
Extent(b, n) == b .. b + (IF n = 0 THEN 0 ELSE n - 1)

Block == [size : Nat, traced : BOOLEAN]

(* Request in progress: num * unit bytes; old is the block passed in, ptr   *)
(* the one returned.                                                        *)
Call == [op : {"none", "malloc", "calloc", "realloc", "free"},
         old : Nat, num : Nat, unit : Nat, ptr : Nat]

NoCall == [op |-> "none", old |-> 0, num |-> 0, unit |-> 0, ptr |-> 0]

Request(c) == c.num * c.unit

(* realloc(ptr, 0).                                                         *)
Releases(c) == c.op = "realloc" /\ c.old # 0 /\ Request(c) = 0

Occupied(h) == UNION {Extent(b, h[b].size) : b \in DOMAIN h}

(* Bases at which a block of n bytes of the application fits.               *)
FreeBases(h, n) ==
    {b \in Cells : Extent(b, n) \subseteq Cells \ Occupied(h)}

(* Blocks libc may return: a moved block does not overlap the old one, and  *)
(* one that grows or shrinks in place keeps its base.                       *)
Results(h, c) ==
    FreeBases(h, Request(c))
      \cup (FreeBases([x \in DOMAIN h \ {c.old} |-> h[x]], Request(c)) \cap {c.old})

AddBlock(h, b, n) ==
    [x \in DOMAIN h \cup {b} |->
        IF x = b THEN [size |-> n, traced |-> FALSE] ELSE h[x]]

RemoveBlocks(h, S) == [x \in DOMAIN h \ S |-> h[x]]

TracedCells(h) ==
    UNION {Extent(b, h[b].size) : b \in {x \in DOMAIN h : h[x].traced}}

-----------------------------------------------------------------------------
(* The routine the tool runs at the entry of an allocation function, of the *)
(* library's and of libc's alike.                                           *)
EntryRoutine(s, c) ==
    CASE c.op = "malloc"  -> MallocBefore(s, c.unit)
      [] c.op = "calloc"  -> CallocBefore(s, c.num, c.unit)
      [] c.op = "realloc" -> ReallocBefore(s, c.old, c.unit)

Enter(c) ==
    /\ pc = "run"
    /\ call' = c
    /\ tool' = EntryRoutine(tool, c)
    /\ pc' = "libc"
    /\ UNCHANGED <<heap, phase, scratch, trace_flag>>

(* The application asks for nothing that cannot fit; SlowPassFaults lets    *)
(* libc fail all the same.                                                  *)
HasRoom(c) == Releases(c) \/ Results(heap, c) # {}

MallocCall(n) == [op |-> "malloc", old |-> 0, num |-> 1, unit |-> n, ptr |-> 0]

MallocEnter(n) ==
    /\ HasRoom(MallocCall(n))
    /\ Enter(MallocCall(n))

CallocCall(m, n) == [op |-> "calloc", old |-> 0, num |-> m, unit |-> n, ptr |-> 0]

CallocEnter(m, n) ==
    /\ HasRoom(CallocCall(m, n))
    /\ Enter(CallocCall(m, n))

ReallocCall(var, n) ==
    [op |-> "realloc", old |-> var, num |-> 1, unit |-> n, ptr |-> 0]

(* var is 0 or a live block of the application.                             *)
ReallocEnter(var, n) ==
    /\ var \in DOMAIN heap \cup {0}
    /\ HasRoom(ReallocCall(var, n))
    /\ Enter(ReallocCall(var, n))

(* ptr = mallocp(size), callocp(nmemb, size) or reallocp(var, size).        *)
RealAlloc ==
    /\ pc = "libc"
    /\ ~Releases(call)
    /\ tool' = EntryRoutine(tool, call)
    /\ \E p \in Results(heap, call) :
         /\ heap' = AddBlock(RemoveBlocks(heap, {call.old}), p, Request(call))
         /\ call' = [call EXCEPT !.ptr = p]
    /\ pc' = "hook"
    /\ UNCHANGED <<phase, scratch, trace_flag>>

(* reallocp(var, 0) frees var and returns NULL.                             *)
RealReallocToNothing ==
    /\ pc = "libc"
    /\ Releases(call)
    /\ tool' = EntryRoutine(tool, call)
    /\ heap' = RemoveBlocks(heap, {call.old})
    /\ pc' = "hook"
    /\ UNCHANGED <<phase, call, scratch, trace_flag>>

Return ==
    /\ pc' = "run"
    /\ call' = NoCall

(* Not traced: during start-up and after final, and requests of 0 bytes.    *)
HookSkip ==
    /\ pc = "hook"
    /\ trace_flag \/ Request(call) = 0
    /\ Return
    /\ UNCHANGED <<tool, heap, phase, scratch, trace_flag>>

(* show_stackframe allocates the symbol list and the function name.  Each   *)
(* malloc enters the library, where trace_flag stops it from being traced,  *)
(* and then libc.                                                           *)
HookOpen ==
    /\ pc = "hook"
    /\ ~trace_flag /\ Request(call) > 0
    /\ trace_flag' = TRUE
    /\ \E p, q \in {b \in ScratchCells : b \notin Occupied(heap)} :
         /\ p # q
         /\ heap' = AddBlock(AddBlock(heap, p, 1), q, 1)
         /\ scratch' = {p, q}
    /\ tool' = MallocBefore(MallocBefore(MallocBefore(MallocBefore(tool, 1), 1), 1), 1)
    /\ pc' = "look"
    /\ UNCHANGED <<phase, call>>

(* LookIntoHashValue does not find the call site.                           *)
NotSelected ==
    /\ pc = "look"
    /\ pc' = "close"
    /\ UNCHANGED <<tool, heap, phase, call, scratch, trace_flag>>

(* LookIntoHashValue finds it.                                              *)
Selected ==
    /\ pc = "look"
    /\ Len(tool.objs) < MaxObjects
    /\ pc' = "found"
    /\ UNCHANGED <<tool, heap, phase, call, scratch, trace_flag>>

Announce(s, addr, size) ==
    [s EXCEPT !.queue = Append(@, [addr |-> addr, size |-> size])]

(* write_down_addr: msgsnd blocks while the queue is full.                  *)
Send ==
    /\ pc = "found"
    /\ Len(tool.queue) < Capacity
    /\ tool' = Announce(tool, call.ptr, Request(call))
    /\ heap' = [b \in DOMAIN heap |->
                  IF b = call.ptr THEN [heap[b] EXCEPT !.traced = TRUE]
                  ELSE heap[b]]
    /\ pc' = "sent"
    /\ UNCHANGED <<phase, call, scratch, trace_flag>>

(* free(funcname); free(symbollist); trace_flag = false.                    *)
Close ==
    /\ pc = "close"
    /\ tool' = [tool EXCEPT !.objs =
                  [i \in DOMAIN tool.objs |->
                     IF tool.objs[i].addr \in scratch
                     THEN [Retire(tool.objs[i]) EXCEPT !.ended = TRUE]
                     ELSE tool.objs[i]]]
    /\ heap' = RemoveBlocks(heap, scratch)
    /\ scratch' = {}
    /\ trace_flag' = FALSE
    /\ Return
    /\ UNCHANGED phase

FreeEnter(p) ==
    /\ pc = "run"
    /\ p \in DOMAIN heap \cup {0}
    /\ tool' = FreeBefore(tool, p)
    /\ call' = [NoCall EXCEPT !.op = "free", !.old = p]
    /\ pc' = "freep"
    /\ UNCHANGED <<heap, phase, scratch, trace_flag>>

(* freep(ptr).                                                              *)
RealFree ==
    /\ pc = "freep"
    /\ tool' = FreeBefore(tool, call.old)
    /\ heap' = RemoveBlocks(heap, {call.old})
    /\ Return
    /\ UNCHANGED <<phase, scratch, trace_flag>>

-----------------------------------------------------------------------------
(* The application reads or writes one of its live blocks or its stack.     *)
AppAccess(c) ==
    /\ pc = "run"
    /\ c \in Occupied(heap) \cup {Stack}
    /\ tool' = RecordMem(tool, c)
    /\ UNCHANGED <<heap, phase, pc, call, scratch, trace_flag>>

(* The library and libc touch the stack, their own blocks, free memory, the *)
(* new block and the block being moved, never another traced block.  What   *)
(* runs between msgsnd and the frees that follow reads the stack at least   *)
(* once (the returns), so the process leaves "sent" through such an access. *)
LibAccess(c) ==
    /\ pc \notin {"run", "done"}
    /\ \/ c \notin TracedCells(heap)
       \/ pc = "libc" /\ call.old \in DOMAIN heap
                      /\ c \in Extent(call.old, heap[call.old].size)
    /\ tool' = RecordMem(tool, c)
    /\ pc' = IF pc = "sent" THEN "close" ELSE pc
    /\ UNCHANGED <<heap, phase, call, scratch, trace_flag>>

(* The library's constructor ends: tracing starts.                          *)
Constructor ==
    /\ pc = "run" /\ phase = "init"
    /\ phase' = "main"
    /\ trace_flag' = FALSE
    /\ UNCHANGED <<tool, heap, pc, call, scratch>>

(* The library's destructor final.                                          *)
Destructor ==
    /\ pc = "run" /\ phase = "main"
    /\ phase' = "final"
    /\ trace_flag' = TRUE
    /\ UNCHANGED <<tool, heap, pc, call, scratch>>

(* The process ends and the tool runs Fini.                                 *)
Exit ==
    /\ pc = "run" /\ phase = "final"
    /\ tool' = Output(tool)
    /\ pc' = "done"
    /\ UNCHANGED <<heap, phase, call, scratch, trace_flag>>

(* A later process with the same pid opens the same queue: nothing removes  *)
(* it (the IPC_RMID of main comes after the call that never returns).       *)
Start ==
    /\ pc = "done"
    /\ tool' = [InitTool EXCEPT !.queue = tool.queue]
    /\ heap' = [b \in {} |-> [size |-> 0, traced |-> FALSE]]
    /\ phase' = "init"
    /\ pc' = "run"
    /\ call' = NoCall
    /\ scratch' = {}
    /\ trace_flag' = TRUE

Init ==
    /\ tool = InitTool
    /\ heap = [b \in {} |-> [size |-> 0, traced |-> FALSE]]
    /\ phase = "init"
    /\ pc = "run"
    /\ call = NoCall
    /\ scratch = {}
    /\ trace_flag = TRUE

(* The instructions of a call at which the tool's registry, the queue or    *)
(* the heap changes.                                                        *)
CallStep ==
    \/ RealAlloc \/ RealReallocToNothing
    \/ HookSkip \/ HookOpen \/ NotSelected \/ Selected \/ Send \/ Close
    \/ RealFree

(* What runs inside the library or libc until the call returns.             *)
LibStep == CallStep \/ \E c \in Addresses : LibAccess(c)

(* The application enters a call, or its life cycle goes on.                *)
EnterStep ==
    \/ \E n \in Sizes : MallocEnter(n)
    \/ \E m \in Counts, n \in Sizes : CallocEnter(m, n)
    \/ \E var \in Cells \cup {0}, n \in Sizes : ReallocEnter(var, n)
    \/ \E p \in Cells \cup {0} : FreeEnter(p)
    \/ Constructor \/ Destructor \/ Exit \/ Start

AppStep == EnterStep \/ \E c \in Addresses : AppAccess(c)

Next == LibStep \/ AppStep

Spec == Init /\ [][Next]_vars

-----------------------------------------------------------------------------
(* Type correctness.                                                        *)
TypeOK ==
    /\ tool \in ToolState
    /\ DOMAIN heap \subseteq ScratchCells
    /\ heap \in [DOMAIN heap -> Block]
    /\ phase \in {"init", "main", "final"}
    /\ pc \in {"run", "libc", "hook", "look", "found", "sent", "close", "freep",
               "done"}
    /\ call \in Call
    /\ scratch \subseteq ScratchCells
    /\ trace_flag \in BOOLEAN

(* Whatever address is accessed, and whenever, the object whose metrics the *)
(* tool updates is the live, announced block that contains the address,     *)
(* with its size: never a block that was freed, moved or resized, even when *)
(* its cells have been given out again.                                     *)
NoStaleOwner ==
    \A c \in Addresses : \A i \in DOMAIN tool.objs :
        IsOwner(tool, c, i) =>
            LET o == tool.objs[i]
            IN  /\ o.addr \in DOMAIN heap
                /\ heap[o.addr].traced
                /\ heap[o.addr].size = o.size
                /\ c \in Extent(o.addr, o.size)

(* When the application runs, every cell of every announced block is        *)
(* credited to some object: no access to a chosen block is missed, the      *)
(* first one after the allocation included.                                 *)
AnnouncedBlocksAreRegistered ==
    pc = "run" =>
        \A b \in {x \in DOMAIN heap : heap[x].traced} :
            \A c \in Extent(b, heap[b].size) :
                \E i \in DOMAIN tool.objs : IsOwner(tool, c, i)

(* The queue is a hand-over of one message: it is empty whenever the        *)
(* application runs or the process has ended, so no message outlives the    *)
(* call that sent it and none is left for a process with the same pid.      *)
QueueIsHandOver ==
    /\ Len(tool.queue) <= 1
    /\ pc # "sent" => tool.queue = <<>>

(* Rows are never removed or reused, and only the release of a block ends   *)
(* its row: no step but the entry of free or realloc marks a row freed, and *)
(* no step revives one.                                                     *)
RowsOnlyRetireOnRelease ==
    [][~(pc = "done" /\ pc' = "run") =>
         /\ Len(tool'.objs) >= Len(tool.objs)
         /\ \A i \in DOMAIN tool.objs :
              LET o == tool.objs[i]
                  n == tool'.objs[i]
              IN  /\ n.size = o.size
                  /\ o.freed => n.freed /\ n.addr < 0
                  /\ ~o.freed /\ n.freed => pc = "run" /\ call'.old = o.addr
      ]_vars

(* Every allocation call returns, unless the process is killed: msgsnd      *)
(* never waits for a queue that only the same thread could drain.           *)
CallsReturn == (pc \notin {"run", "done"}) ~> (pc \in {"run", "done"})
=============================================================================
