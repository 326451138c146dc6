------------------------------ MODULE Footprint ------------------------------
(***************************************************************************)
(* The heap footprint of libdinfo.so (calltrack/src/dstack.cpp): a running *)
(* total of the bytes the application holds, and allocmap, the size last   *)
(* recorded at each address.  Entries are zeroed, never erased.            *)
(*                                                                         *)
(* A call is one step: while the library reads /proc its own allocations   *)
(* see trace_flag set and leave no trace, but for those of the first call. *)
(***************************************************************************)
EXTENDS Naturals, FiniteSets, Functions

CONSTANTS Addrs,      \* addresses a block can have
          NULL,
          Sizes,      \* bytes asked for
          MaxCalls    \* bound: calls the application makes

ASSUME NullAssumption == NULL \notin Addrs
ASSUME SizesAssumption == Sizes \subseteq Nat
ASSUME BoundAssumption == MaxCalls \in Nat

VARIABLES blocks,        \* what the application holds: address -> bytes
          allocmap,      \* address -> bytes last recorded there
          footprint,
          init_flag,     \* the first malloc has been seen
          past,          \* history: "realloc", "no memory", "realloc failed"
          calls

vars == <<blocks, allocmap, footprint, init_flag, past, calls>>

Live(b) == SumFunction(b)

Without(f, as) == Restrict(f, DOMAIN f \ as)

With(f, a, n) == [x \in DOMAIN f \cup {a} |-> IF x = a THEN n ELSE f[x]]

(* allocmap[a], which creates an entry of 0.                                *)
Recorded(a) == IF a \in DOMAIN allocmap THEN allocmap[a] ELSE 0

(* What the C library can return when the addresses in busy are taken.      *)
Results(busy) == (Addrs \ busy) \cup {NULL}

Hold(b, a, n) == IF a = NULL THEN b ELSE With(b, a, n)

(* footprint -= n; if (footprint < 0) footprint = 0;                        *)
Minus(total, n) == IF n > total THEN 0 ELSE total - n

Remember(S) == past' = past \cup S

Failed(ptr) == IF ptr = NULL THEN {"no memory"} ELSE {}

Counted == calls < MaxCalls /\ calls' = calls + 1

(* The first malloc reads /proc/self/status untraced: the FILE and its      *)
(* buffer are traced blocks, allocated and freed again.                     *)
AfterFirstMalloc ==
    LET idle == Addrs \ DOMAIN blocks
    IN  IF init_flag THEN {allocmap}
        ELSE {With(With(allocmap, f[1], 0), f[2], 0) :
                 f \in {g \in idle \X idle : g[1] # g[2]}}

(* Mutant: the entry is written only for a new address.                     *)
RecordOnce(known, a, n) == IF a \in DOMAIN known THEN known ELSE With(known, a, n)

Record(known, a, n) == With(known, a, n)

malloc(n) ==
    /\ Counted
    /\ \E ptr \in Results(DOMAIN blocks), known \in AfterFirstMalloc :
         /\ blocks' = Hold(blocks, ptr, n)
         /\ allocmap' = Record(known, ptr, n)
         /\ Remember(Failed(ptr))
    /\ init_flag' = TRUE
    /\ footprint' = footprint + n

calloc(n) ==
    /\ Counted
    /\ \E ptr \in Results(DOMAIN blocks) :
         /\ blocks' = Hold(blocks, ptr, n)
         /\ allocmap' = Record(allocmap, ptr, n)
         /\ Remember(Failed(ptr))
    /\ footprint' = footprint + n
    /\ UNCHANGED init_flag

(* Mutant: the new size replaces the recorded one without being added.      *)
AfterReallocForgets(var, ptr, n) ==
    IF ptr \in DOMAIN allocmap
    THEN /\ footprint' = Minus(footprint, Recorded(var))
         /\ allocmap' = With(With(allocmap, var, 0), ptr, n)
    ELSE UNCHANGED <<footprint, allocmap>>

(* The old size is taken off only if the new address has an entry.          *)
AfterRealloc(var, ptr, n) ==
    IF ptr \in DOMAIN allocmap
    THEN /\ footprint' = Minus(footprint, Recorded(var)) + n
         /\ allocmap' = With(With(allocmap, var, 0), ptr, n)
    ELSE /\ footprint' = footprint + n
         /\ UNCHANGED allocmap

(* realloc(NULL, n) is a malloc, realloc(var, 0) a free; when it fails the  *)
(* old block stays.                                                         *)
realloc(var, n) ==
    /\ Counted
    /\ \E ptr \in IF var # NULL /\ n = 0 THEN {NULL}
                  ELSE Results(DOMAIN blocks \ {var}) :
         /\ blocks' = IF ptr = NULL /\ n > 0 THEN blocks
                      ELSE Hold(Without(blocks, {var}), ptr, n)
         /\ AfterRealloc(var, ptr, n)
         /\ Remember({"realloc"} \cup
              IF ptr = NULL /\ n > 0 THEN {"realloc failed"} ELSE {})
    /\ UNCHANGED init_flag

AfterFree(ptr) ==
    IF ptr \in DOMAIN allocmap
    THEN /\ footprint' = Minus(footprint, allocmap[ptr])
         /\ allocmap' = With(allocmap, ptr, 0)
    ELSE UNCHANGED <<footprint, allocmap>>

free(ptr) ==
    /\ Counted
    /\ blocks' = Without(blocks, {ptr})
    /\ AfterFree(ptr)
    /\ UNCHANGED <<init_flag, past>>

Init ==
    /\ blocks = << >>
    /\ allocmap = << >>
    /\ footprint = 0
    /\ init_flag = FALSE
    /\ past = {}
    /\ calls = 0

Next ==
    \/ \E n \in Sizes : malloc(n)
    \/ \E n \in Sizes : calloc(n)
    \/ \E var \in DOMAIN blocks \cup {NULL}, n \in Sizes : realloc(var, n)
    \/ \E ptr \in DOMAIN blocks \cup {NULL} : free(ptr)

Spec == Init /\ [][Next]_vars

-----------------------------------------------------------------------------
(* The total is never below what the application holds, although addresses  *)
(* are reused, recorded sizes go stale, blocks move without a record and    *)
(* malloc fails, unless a realloc has failed.                               *)
NeverUndercounts == "realloc failed" \in past \/ footprint >= Live(blocks)

(* Until the first realloc or failed call the total is what the application *)
(* holds, and every block can be taken off again.                           *)
ExactWithoutRealloc ==
    past = {} =>
        /\ footprint = Live(blocks)
        /\ \A a \in DOMAIN blocks : Recorded(a) = blocks[a]
=============================================================================
