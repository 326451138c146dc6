---------------------------- MODULE TrackedHeap ----------------------------
(***************************************************************************)
(* What the slow pass promises about one run of the application: a block   *)
(* that comes from a chosen call site is tracked from before the           *)
(* application's next action until the moment its release begins; accesses *)
(* to tracked blocks, and only those, are credited, each to its own block; *)
(* and every tracked block ends as exactly one closed profile.             *)
(***************************************************************************)
EXTENDS Integers, FiniteSets

CONSTANTS Bases,            \* addresses at which a block may start
          Lengths,          \* sizes of blocks
          Extent(_, _)      \* addresses of the block of a base and a size

VARIABLES size,      \* live blocks: base -> size
          fresh,     \* the block just allocated, 0 when there is none
          tracked,   \* bases of the blocks being profiled
          touched,   \* tracked blocks with at least one credited access
          closed     \* number of finished profiles

vars == <<size, fresh, tracked, touched, closed>>

NoBlocks == [b \in {} |-> 0]

Init ==
    /\ size = NoBlocks
    /\ fresh = 0
    /\ tracked = {}
    /\ touched = {}
    /\ closed = 0

Alloc(b, n) ==
    /\ fresh = 0
    /\ fresh' = b
    /\ \A x \in DOMAIN size : Extent(x, size[x]) \cap Extent(b, n) = {}
    /\ size' = [x \in DOMAIN size \cup {b} |-> IF x = b THEN n ELSE size[x]]
    /\ UNCHANGED <<tracked, touched, closed>>

(* Only the fresh block can become tracked, once.                           *)
Track ==
    /\ fresh \in DOMAIN size \ tracked
    /\ tracked' = tracked \cup {fresh}
    /\ fresh' = 0
    /\ UNCHANGED <<size, touched, closed>>

PassOver ==
    /\ fresh' = 0
    /\ UNCHANGED <<size, tracked, touched, closed>>

Touch(b) ==
    /\ fresh = 0
    /\ b \in tracked
    /\ touched' = touched \cup {b}
    /\ UNCHANGED <<size, fresh, tracked, closed>>

Release(b) ==
    /\ fresh = 0
    /\ b \in DOMAIN size
    /\ size' = [x \in DOMAIN size \ {b} |-> size[x]]
    /\ tracked' = tracked \ {b}
    /\ touched' = touched \ {b}
    /\ closed' = IF b \in tracked THEN closed + 1 ELSE closed
    /\ UNCHANGED fresh

(* A new process.                                                           *)
Restart ==
    /\ size' = NoBlocks
    /\ fresh' = 0
    /\ tracked' = {}
    /\ touched' = {}
    /\ closed' = 0

Next ==
    \/ \E b \in Bases : \E n \in Lengths : Alloc(b, n)
    \/ Track \/ PassOver \/ Restart
    \/ \E b \in Bases : Touch(b) \/ Release(b)

Spec == Init /\ [][Next]_vars
=============================================================================
