------------------------------ MODULE HeapTool ------------------------------
(***************************************************************************)
(* pin-tools/heaptool.cpp: which accesses of the application go to the     *)
(* heap.  The tool keeps the heap as a segment tree over the address       *)
(* space, updated by callbacks before and after the allocation functions.  *)
(*                                                                         *)
(* A node of the tree is named by its range, <<level_addr, level_len>>, so *)
(* a child exists when its range is in the domain of seg_nodes.            *)
(*                                                                         *)
(* The application has one thread: the callbacks take no lock and share    *)
(* one alloc_size.  A call may fail, which no callback looks at.           *)
(***************************************************************************)
EXTENDS Integers, FiniteSets, Functions, FiniteSetsExt

CONSTANTS LONGEST_ADDR,   \* addresses are below it; a power of two
          Sizes,          \* bytes asked for
          MaxCalls        \* bound: calls the application makes

ASSUME SizesAssumption == Sizes \subseteq Nat
ASSUME BoundAssumption == MaxCalls \in Nat

VARIABLES seg_nodes,    \* node -> stat: 0 not heap, 1 heap, 2 mixed
          allocmap,     \* address -> bytes last recorded there
          alloc_size,
          blocks,       \* what the application holds: address -> bytes
          pc,           \* where the application is
          arg, size,    \* address and size of the call in progress
          calls,
          lost,         \* history: blocks that a realloc has failed to move
          low           \* history: the most bytes a failing call asked for

vars == <<seg_nodes, allocmap, alloc_size, blocks, pc, arg, size, calls, lost, low>>

NULL == 0

Root == <<0, LONGEST_ADDR>>

Left(node) == <<node[1], node[2] \div 2>>

Right(node) == <<node[1] + node[2] \div 2, node[2] \div 2>>

With(f, a, n) == [x \in DOMAIN f \cup {a} |-> IF x = a THEN n ELSE f[x]]

Without(f, as) == Restrict(f, DOMAIN f \ as)

(* A child that is not there is made, with stat 0.                          *)
Grow(tree, node) == IF node \in DOMAIN tree THEN tree ELSE With(tree, node, 0)

(* Mutant: a range that crosses the middle stays on the left.               *)
GoesRightFrom(addr, len, mid) == addr >= mid

GoesRight(addr, len, mid) == addr + len > mid

RECURSIVE Update(_, _, _, _, _)
Update(tree, node, addr, len, type) ==
    LET mid   == Right(node)[1]
        from  == Max({addr, mid})
        mixed == [tree EXCEPT ![node] = 2]
        left  == IF addr < mid
                 THEN Update(Grow(mixed, Left(node)), Left(node),
                             addr, Min({len, mid - addr}), type)
                 ELSE mixed
    IN  IF node = <<addr, len>> THEN [tree EXCEPT ![node] = type]
        ELSE IF GoesRight(addr, len, mid)
        THEN Update(Grow(left, Right(node)), Right(node),
                    from, addr + len - from, type)
        ELSE left

UpdateAlloc(addr, len) == seg_nodes' = Update(seg_nodes, Root, addr, len, 1)

UpdateFree(addr, len) == seg_nodes' = Update(seg_nodes, Root, addr, len, 0)

RECURSIVE Find(_, _)
Find(addr, node) ==
    LET child == IF addr < Right(node)[1] THEN Left(node) ELSE Right(node)
    IN  IF seg_nodes[node] # 2 THEN seg_nodes[node]
        ELSE IF child \notin DOMAIN seg_nodes THEN 0
        ELSE Find(addr, child)

FindAddr(addr) == Find(addr, Root)

-----------------------------------------------------------------------------
Enter(place, addr, n) ==
    /\ pc = "run" /\ calls < MaxCalls
    /\ calls' = calls + 1
    /\ pc' = place /\ arg' = addr /\ size' = n

(* allocmap[a], which creates an entry of 0.                                *)
Recorded(a) == IF a \in DOMAIN allocmap THEN allocmap[a] ELSE 0

(* The C library: a block of n bytes takes at least one address.            *)
Extent(a, n) == a .. a + Max({n, 1}) - 1

Busy(b) == UNION {Extent(a, b[a]) : a \in DOMAIN b}

(* User space is the lower half of what the tree covers.                    *)
UserSpace == 1 .. LONGEST_ADDR \div 2 - 1

Places(b, n) == {a \in UserSpace : Extent(a, n) \subseteq UserSpace \ Busy(b)}

MallocBefore(n) ==
    /\ Enter("malloc", NULL, n)
    /\ alloc_size' = n
    /\ UNCHANGED <<seg_nodes, allocmap, blocks, lost, low>>

(* The old range is taken out of the tree before realloc has run.           *)
ReallocBefore(addr, n) ==
    /\ Enter("realloc", addr, n)
    /\ UpdateFree(addr, Recorded(addr))
    /\ allocmap' = With(allocmap, addr, Recorded(addr))
    /\ alloc_size' = n
    /\ UNCHANGED <<blocks, lost, low>>

FreeBefore(addr) ==
    /\ Enter("free", addr, 0)
    /\ UpdateFree(addr, Recorded(addr))
    /\ allocmap' = With(allocmap, addr, Recorded(addr))
    /\ UNCHANGED <<alloc_size, blocks, lost, low>>

(* realloc(NULL, n) is a malloc: the same step stands for both.             *)
RealAlloc ==
    LET rest == Without(blocks, {arg})
    IN  /\ pc \in {"malloc", "realloc"}
        /\ arg = NULL \/ size > 0
        /\ \E ptr \in Places(rest, size) :
              blocks' = With(rest, ptr, size) /\ arg' = ptr
        /\ pc' = "after"
        /\ lost' = lost \ {arg}
        /\ UNCHANGED <<seg_nodes, allocmap, alloc_size, size, calls, low>>

(* Out of memory: NULL, and a block that was to be moved stays.             *)
RealFails ==
    /\ pc \in {"malloc", "realloc"}
    /\ arg = NULL \/ size > 0
    /\ arg' = NULL
    /\ pc' = "after"
    /\ lost' = lost \cup ({arg} \ {NULL})
    /\ low' = Max({low, size})
    /\ UNCHANGED <<seg_nodes, allocmap, alloc_size, blocks, size, calls>>

(* realloc(addr, 0) is a free that returns NULL.                            *)
RealReallocToNothing ==
    /\ pc = "realloc" /\ arg # NULL /\ size = 0
    /\ blocks' = Without(blocks, {arg})
    /\ arg' = NULL
    /\ pc' = "after"
    /\ lost' = lost \ {arg}
    /\ UNCHANGED <<seg_nodes, allocmap, alloc_size, size, calls, low>>

RealFree ==
    /\ pc = "free"
    /\ blocks' = Without(blocks, {arg})
    /\ pc' = "run" /\ arg' = NULL
    /\ lost' = lost \ {arg}
    /\ UNCHANGED <<seg_nodes, allocmap, alloc_size, size, calls, low>>

AllocAfter ==
    /\ pc = "after"
    /\ UpdateAlloc(arg, alloc_size)
    /\ allocmap' = With(allocmap, arg, alloc_size)
    /\ pc' = "run" /\ arg' = NULL /\ size' = 0
    /\ UNCHANGED <<alloc_size, blocks, calls, lost, low>>

Init ==
    /\ seg_nodes = [node \in {Root} |-> 0]
    /\ allocmap = << >>
    /\ alloc_size = 0
    /\ blocks = << >>
    /\ pc = "run"
    /\ arg = NULL
    /\ size = 0
    /\ calls = 0
    /\ lost = {} /\ low = 0

Next ==
    \/ \E n \in Sizes : MallocBefore(n)
    \/ \E addr \in DOMAIN blocks \cup {NULL}, n \in Sizes : ReallocBefore(addr, n)
    \/ \E addr \in DOMAIN blocks \cup {NULL} : FreeBefore(addr)
    \/ RealAlloc \/ RealFails \/ RealReallocToNothing \/ RealFree \/ AllocAfter

Spec == Init /\ [][Next]_vars

-----------------------------------------------------------------------------
(* Between calls an address is found to be heap exactly when it is a byte   *)
(* of a block: splitting, joining and reusing ranges leaves no stale node.  *)
(* What failing calls break is bounded: a realloc that fails hides its own  *)
(* block, until that is moved or released, and a failing call for n bytes,  *)
(* which is taken for a block of n bytes at address 0, breaks the blocks    *)
(* that begin in it.                                                        *)
FindMatchesHeap ==
    LET Of(b)  == b .. b + blocks[b] - 1
        broken == UNION {Of(b) : b \in {c \in DOMAIN blocks : c < low}}
        heap   == UNION {Of(b) : b \in DOMAIN blocks \ lost}
    IN  pc = "run" =>
            \A a \in (low .. LONGEST_ADDR - 1) \ broken :
                FindAddr(a) = IF a \in heap THEN 1 ELSE 0
=============================================================================
