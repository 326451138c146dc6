-------------------------- MODULE SlowPassRefines --------------------------
(***************************************************************************)
(* The slow pass implements TrackedHeap: the blocks are the application's  *)
(* (the library's own blocks are invisible, and a block given to free or   *)
(* realloc is gone from the moment the call is entered), and the tracked   *)
(* blocks are the unreleased rows of the tool's table.                     *)
(***************************************************************************)
EXTENDS SlowPassInv

Visible == DOMAIN heap \ (scratch \cup
              IF pc \in {"libc", "freep"} THEN {call.old} ELSE {})

VisibleSizes == [b \in Visible |-> heap[b].size]

FreshBlock == IF pc \in {"hook", "look", "found", "sent"} THEN call.ptr ELSE 0

Rows == Registered(tool)

TrackedBlocks == {tool.objs[i].addr : i \in Rows}

TouchedBlocks == {tool.objs[i].addr : i \in {j \in Rows : tool.objs[j].accessed}}

ClosedProfiles == Cardinality(DOMAIN tool.objs \ Rows)

Promise == INSTANCE TrackedHeap WITH
    Bases   <- Cells,
    Lengths <- 0 .. NumCells,
    size    <- VisibleSizes,
    fresh   <- FreshBlock,
    tracked <- TrackedBlocks,
    touched <- TouchedBlocks,
    closed  <- ClosedProfiles

(* Every step of the library, the queue and the tool is a step of the       *)
(* promise or changes nothing in it.                                        *)
KeepsPromise == Promise!Spec
=============================================================================
