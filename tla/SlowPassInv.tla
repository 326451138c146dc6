----------------------------- MODULE SlowPassInv -----------------------------
(***************************************************************************)
(* The inductive invariant of the slow pass.                               *)
(***************************************************************************)
EXTENDS SlowPass

(* A row is retired or describes a live traced block.                       *)
RowOK(h, o) ==
    /\ o.size > 0
    /\ \/ o.addr = -o.size
       \/ /\ o.addr \in DOMAIN h
          /\ h[o.addr].traced
          /\ h[o.addr].size = o.size

RowsAreBlocks ==
    \A i \in DOMAIN tool.objs : RowOK(heap, tool.objs[i])

(* Only a block whose release has begun, or whose message is in the queue,  *)
(* is traced without a row.                                                 *)
Unlisted(b) ==
    \/ pc \in {"libc", "freep"} /\ b = call.old
    \/ pc = "sent" /\ b = call.ptr

HasRow(b) == \E i \in DOMAIN tool.objs : tool.objs[i].addr = b

BlocksHaveRows ==
    \A b \in DOMAIN heap : heap[b].traced => (HasRow(b) <=> ~Unlisted(b))

(* At most one row per address.                                             *)
RowsDiffer ==
    \A i, j \in DOMAIN tool.objs :
        i # j /\ tool.objs[i].addr >= 0 => tool.objs[i].addr # tool.objs[j].addr

Disjoint(h) ==
    \A b, d \in DOMAIN h :
        b # d => Extent(b, h[b].size) \cap Extent(d, h[d].size) = {}

BlocksAreDisjoint == Disjoint(heap)

IsNewBlock(p) ==
    /\ p \in DOMAIN heap
    /\ heap[p].size = Request(call)
    /\ Request(call) > 0

ScratchOK ==
    /\ scratch \subseteq DOMAIN heap
    /\ \A b \in scratch : ~heap[b].traced
    /\ call.ptr \notin scratch

(* What holds at each place of an allocation call.                          *)
AtPlace ==
    /\ pc \in {"libc", "freep"} => call.old \in DOMAIN heap \cup {0}
    /\ pc = "libc" => call.op \in {"malloc", "calloc", "realloc"}
    /\ pc = "libc" /\ call.op # "realloc" => call.old = 0
    /\ pc = "hook" /\ Request(call) > 0 =>
         IsNewBlock(call.ptr) /\ ~heap[call.ptr].traced
    /\ pc \in {"look", "found"} =>
         /\ IsNewBlock(call.ptr) /\ ~heap[call.ptr].traced
         /\ tool.in_alloc = 1
    /\ pc = "sent" =>
         /\ IsNewBlock(call.ptr) /\ heap[call.ptr].traced
         /\ tool.in_alloc = 1
         /\ tool.queue = <<[addr |-> call.ptr, size |-> Request(call)]>>
    /\ pc # "sent" => tool.queue = <<>>
    /\ pc \in {"look", "found", "sent", "close"} => ScratchOK
    /\ pc \notin {"look", "found", "sent", "close"} => scratch = {}

(* Between any two instructions the rows that are not retired and the       *)
(* announced live blocks correspond one to one, but for the block whose     *)
(* message waits in the queue or whose release has begun; the queue holds   *)
(* at most that message.                                                    *)
IInv ==
    /\ TypeOK
    /\ RowsAreBlocks
    /\ BlocksHaveRows
    /\ RowsDiffer
    /\ BlocksAreDisjoint
    /\ AtPlace
=============================================================================
