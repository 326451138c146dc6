---------------------------- MODULE MCPinToolMT ----------------------------
(***************************************************************************)
(* A small instance of PinToolMT.  The file AllocInfo has an object of 0   *)
(* bytes, which gets no row, and one above 2 GB, whose truncated address   *)
(* is that of the object before it.                                        *)
(***************************************************************************)
EXTENDS PinToolMTInv

MCAllocInfo == <<[addr |-> 5, size |-> 0], [addr |-> 7, size |-> 2],
                 [addr |-> 71, size |-> 3]>>

(* Bound: two allocation calls, and a third one only while no access has    *)
(* been analysed and no block has been given back.                          *)
ThirdCallBound ==
    Cardinality(DOMAIN heap) = MaxCalls =>
        /\ accesses = 0
        /\ \A p \in DOMAIN heap : heap[p].state # "freed"
=============================================================================
