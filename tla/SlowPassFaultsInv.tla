------------------------- MODULE SlowPassFaultsInv --------------------------
(***************************************************************************)
(* The inductive invariant of the slow pass under kills and failing        *)
(* allocations.                                                            *)
(***************************************************************************)
EXTENDS SlowPassFaults

(* Row o is a live announced block, is at NULL, or is retired.              *)
Explained(h, o) ==
    \/ o.addr <= 0
    \/ /\ o.addr \in DOMAIN h
       /\ h[o.addr] = [size |-> o.size, traced |-> TRUE]

(* The row a dead process leaves is one.                                    *)
OneForeignRow ==
    \A i, j \in DOMAIN tool.objs :
        ~Explained(heap, tool.objs[i]) /\ ~Explained(heap, tool.objs[j]) => i = j

(* The message of a dead process is taken before anything is announced.     *)
PendingIsFirst ==
    pc \notin {"sent", "done"} /\ tool.queue # <<>> => DOMAIN tool.objs = {}

(* The block libc returned, or NULL, is about to be announced.              *)
IsResult(traced) ==
    /\ Request(call) > 0
    /\ call.ptr # 0 =>
         /\ call.ptr \in DOMAIN heap
         /\ heap[call.ptr] = [size |-> Request(call), traced |-> traced]

(* What holds at each place of an allocation call, killed or not.           *)
FaultsAtPlace ==
    /\ pc = "libc" =>
         /\ call.op \in {"malloc", "calloc", "realloc"}
         /\ call.op # "realloc" => call.old = 0
         /\ call.ptr = 0
    /\ pc = "hook" /\ Request(call) > 0 => IsResult(FALSE)
    /\ pc \in {"look", "found"} => IsResult(FALSE)
    /\ pc = "sent" =>
         /\ IsResult(TRUE)
         /\ tool.queue = <<[addr |-> call.ptr, size |-> Request(call)]>>
    /\ pc \in {"look", "found", "sent"} => tool.in_alloc = 1
    /\ pc \in {"look", "found", "close"} => tool.queue = <<>>

(* The polls of the library's own two allocations empty the queue before    *)
(* the library can send: what a dead process left is one message, then one  *)
(* row, and never meets a message of the living process in the queue.       *)
FaultsIInv ==
    /\ TypeOK
    /\ QueueHoldsOneMessage
    /\ OneForeignRow
    /\ PendingIsFirst
    /\ FaultsAtPlace
=============================================================================
