--------------------------- MODULE SlowPassProofs ---------------------------
(***************************************************************************)
(* Proofs about the slow pass, for every heap size, every set of request   *)
(* sizes and every capacity of the queue: the tool's routines, the         *)
(* library and the tool together, that the slow pass implements            *)
(* TrackedHeap, and the slow pass where processes are killed and           *)
(* allocations fail.                                                       *)
(***************************************************************************)
EXTENDS SlowPassRefines, SlowPassFaultsInv, FiniteSetTheorems, TLAPS

-----------------------------------------------------------------------------
(***************************************************************************)
(* 1. The tool.  What the routines of the Pin tool do to its table, for    *)
(* every state of the tool.                                                *)
(***************************************************************************)

(* t's rows are those of s, but for the accessed and ended marks.           *)
SameRows(s, t) ==
    /\ t \in ToolState
    /\ DOMAIN t.objs = DOMAIN s.objs
    /\ \A i \in DOMAIN s.objs : /\ t.objs[i].addr = s.objs[i].addr
                                /\ t.objs[i].size = s.objs[i].size
                                /\ t.objs[i].freed = s.objs[i].freed

(* t's rows, which may be more, have the accessed marks of s's rows.        *)
SameMarks(s, t) ==
    \A i \in DOMAIN s.objs : t.objs[i].accessed = s.objs[i].accessed

(* t's rows are those of s, with the rows at address a retired.             *)
RetiredAt(s, t, a) ==
    /\ t \in ToolState
    /\ DOMAIN t.objs = DOMAIN s.objs
    /\ \A i \in DOMAIN s.objs :
         /\ t.objs[i].size = s.objs[i].size
         /\ t.objs[i].addr = IF s.objs[i].addr = a THEN -s.objs[i].size
                             ELSE s.objs[i].addr
         /\ t.objs[i].freed = IF s.objs[i].addr = a THEN TRUE
                              ELSE s.objs[i].freed

(* Rewriting the rows in place yields a table again.                        *)
LEMMA RowsRewritten ==
    ASSUME NEW s \in ToolState, NEW rows \in [DOMAIN s.objs -> Object]
    PROVE  [s EXCEPT !.objs = rows] \in ToolState
  <1>1. s.objs \in Seq(Object)
    BY DEF ToolState
  <1>2. DOMAIN s.objs = 1 .. Len(s.objs) /\ Len(s.objs) \in Nat
    BY <1>1
  <1>3. rows \in Seq(Object)
    BY <1>1, <1>2
  <1> QED
    BY <1>3 DEF ToolState

(* A retired row is a row, and its address is minus its size.               *)
LEMMA RetireType ==
    ASSUME NEW o \in Object
    PROVE  /\ Retire(o) \in Object
           /\ Retire(o).addr = -o.size
           /\ Retire(o).size = o.size
           /\ Retire(o).freed = TRUE
           /\ Retire(o).accessed = o.accessed
           /\ [Retire(o) EXCEPT !.ended = TRUE] \in Object
           /\ [Retire(o) EXCEPT !.ended = TRUE].addr = -o.size
           /\ [Retire(o) EXCEPT !.ended = TRUE].size = o.size
           /\ [Retire(o) EXCEPT !.ended = TRUE].freed = TRUE
           /\ [Retire(o) EXCEPT !.ended = TRUE].accessed = o.accessed
  <1> DEFINE r == Retire(o)
  <1>1. -o.size \in Int
    BY DEF Object
  <1>2. r = [o EXCEPT !.addr = -o.size, !.freed = TRUE]
    BY DEF Retire
  <1>3. /\ r \in Object /\ r.addr = -o.size /\ r.size = o.size
        /\ r.freed = TRUE /\ r.accessed = o.accessed
    BY <1>1, <1>2 DEF Object
  <1> HIDE DEF r
  <1>4. [r EXCEPT !.ended = TRUE] \in Object
        /\ [r EXCEPT !.ended = TRUE].addr = r.addr
        /\ [r EXCEPT !.ended = TRUE].size = r.size
        /\ [r EXCEPT !.ended = TRUE].freed = r.freed
        /\ [r EXCEPT !.ended = TRUE].accessed = r.accessed
    BY <1>3 DEF Object
  <1> QED
    BY <1>3, <1>4 DEF r

(* The entry of malloc and calloc changes no row while the queue is empty.  *)
LEMMA MallocBeforeEffect ==
    ASSUME NEW s \in ToolState, s.queue = <<>>, NEW n \in Nat
    PROVE  /\ MallocBefore(s, n) \in ToolState
           /\ MallocBefore(s, n).objs = s.objs
           /\ MallocBefore(s, n).queue = <<>>
           /\ n > 0 => MallocBefore(s, n).in_alloc = 1
  <1>1. PollBefore(s) = s
    BY DEF PollBefore, TestAndGetAddr
  <1> DEFINE t == [s EXCEPT !.G_var_size = n]
  <1>2. /\ t \in ToolState /\ t.objs = s.objs /\ t.queue = <<>>
        /\ t.G_var_size = n
    BY DEF ToolState
  <1>3. MallocBefore(s, n) = ChangeAllocStat(t)
    BY <1>1 DEF MallocBefore
  <1> HIDE DEF t
  <1> QED
    BY <1>2, <1>3 DEF ChangeAllocStat, ToolState, TRACE_SIZE

(* calloc's entry asks for num * unit bytes and is otherwise malloc's.      *)
LEMMA CallocBeforeEffect ==
    ASSUME NEW s \in ToolState, s.queue = <<>>, NEW m \in Nat, NEW n \in Nat
    PROVE  /\ CallocBefore(s, m, n) \in ToolState
           /\ CallocBefore(s, m, n).objs = s.objs
           /\ CallocBefore(s, m, n).queue = <<>>
  <1>1. n * m \in Nat
    OBVIOUS
  <1> DEFINE k == n * m
  <1>2. k \in Nat
    BY <1>1
  <1>3. CallocBefore(s, m, n) = ChangeAllocStat([PollBefore(s) EXCEPT !.G_var_size = k])
    BY DEF CallocBefore
  <1> HIDE DEF k
  <1> QED
    BY <1>2, <1>3 DEF PollBefore, TestAndGetAddr, ChangeAllocStat, ToolState,
                      TRACE_SIZE

(* realloc's entry retires the rows at the old address and no other.        *)
LEMMA ReallocBeforeEffect ==
    ASSUME NEW s \in ToolState, s.queue = <<>>, NEW a \in Nat, NEW n \in Nat
    PROVE  /\ RetiredAt(s, ReallocBefore(s, a, n), a)
           /\ SameMarks(s, ReallocBefore(s, a, n))
           /\ ReallocBefore(s, a, n).queue = <<>>
  <1> DEFINE F(i) == IF s.objs[i].addr = a THEN Retire(s.objs[i]) ELSE s.objs[i]
             r == [s EXCEPT !.objs = [i \in DOMAIN s.objs |-> F(i)]]
             t == ReallocBefore(s, a, n)
  <1>0. s.objs \in Seq(Object)
    BY DEF ToolState
  <1>1. \A i \in DOMAIN s.objs : s.objs[i] \in Object
    BY <1>0
  <1>2. \A i \in DOMAIN s.objs : F(i) \in Object
    BY <1>1, RetireType
  <1>3. r \in ToolState
    <2>1. [i \in DOMAIN s.objs |-> F(i)] \in [DOMAIN s.objs -> Object]
      BY <1>2
    <2> HIDE DEF F
    <2> QED BY <2>1, RowsRewritten
  <1>4. PollBefore(s) = s
    BY DEF PollBefore, TestAndGetAddr
  <1>5. t = ChangeAllocStat([r EXCEPT !.G_var_size = n])
    BY <1>4 DEF ReallocBefore, ToolState
  <1>6. r.objs = [i \in DOMAIN s.objs |-> F(i)] /\ r.queue = <<>>
    BY DEF ToolState
  <1> HIDE DEF r, F
  <1>7. t \in ToolState /\ t.objs = r.objs /\ t.queue = r.queue
    BY <1>3, <1>5 DEF ChangeAllocStat, ToolState
  <1>8. \A i \in DOMAIN s.objs : t.objs[i] = F(i)
    BY <1>6, <1>7
  <1>9. ASSUME NEW i \in DOMAIN s.objs
        PROVE  /\ F(i).size = s.objs[i].size
               /\ F(i).addr = IF s.objs[i].addr = a THEN -s.objs[i].size
                              ELSE s.objs[i].addr
               /\ F(i).freed = IF s.objs[i].addr = a THEN TRUE ELSE s.objs[i].freed
               /\ F(i).accessed = s.objs[i].accessed
    BY <1>1, RetireType DEF F
  <1> QED
    BY <1>6, <1>7, <1>8, <1>9 DEF RetiredAt, SameMarks

(* free's entry retires the rows at the freed address, without polling.     *)
LEMMA FreeBeforeEffect ==
    ASSUME NEW s \in ToolState, NEW a \in Nat
    PROVE  /\ RetiredAt(s, FreeBefore(s, a), a)
           /\ SameMarks(s, FreeBefore(s, a))
           /\ FreeBefore(s, a).queue = s.queue
  <1> DEFINE F(i) == IF s.objs[i].addr = a
                     THEN [Retire(s.objs[i]) EXCEPT !.ended = TRUE]
                     ELSE s.objs[i]
             t == FreeBefore(s, a)
  <1>0. s.objs \in Seq(Object)
    BY DEF ToolState
  <1>1. \A i \in DOMAIN s.objs : s.objs[i] \in Object
    BY <1>0
  <1>2. \A i \in DOMAIN s.objs : F(i) \in Object
    BY <1>1, RetireType
  <1>3. t = [s EXCEPT !.objs = [i \in DOMAIN s.objs |-> F(i)]]
    BY DEF FreeBefore
  <1>4. t \in ToolState
    <2>1. [i \in DOMAIN s.objs |-> F(i)] \in [DOMAIN s.objs -> Object]
      BY <1>2
    <2> HIDE DEF F, t
    <2> QED BY <1>3, <2>1, RowsRewritten
  <1>5. t.objs = [i \in DOMAIN s.objs |-> F(i)] /\ t.queue = s.queue
    BY <1>3 DEF ToolState
  <1>6. ASSUME NEW i \in DOMAIN s.objs
        PROVE  /\ F(i).size = s.objs[i].size
               /\ F(i).addr = IF s.objs[i].addr = a THEN -s.objs[i].size
                              ELSE s.objs[i].addr
               /\ F(i).freed = IF s.objs[i].addr = a THEN TRUE ELSE s.objs[i].freed
               /\ F(i).accessed = s.objs[i].accessed
    <2>1. s.objs[i] \in Object
      BY <1>1
    <2>2. CASE s.objs[i].addr = a
      <3>1. F(i) = [Retire(s.objs[i]) EXCEPT !.ended = TRUE]
        BY <2>2
      <3> HIDE DEF F
      <3>2. /\ F(i).size = s.objs[i].size /\ F(i).addr = -s.objs[i].size
            /\ F(i).freed = TRUE /\ F(i).accessed = s.objs[i].accessed
        BY <2>1, <3>1, RetireType
      <3> QED BY <2>2, <3>2
    <2>3. CASE s.objs[i].addr # a
      <3>1. F(i) = s.objs[i]
        BY <2>3
      <3> QED BY <2>3, <3>1
    <2> QED BY <2>2, <2>3
  <1> HIDE DEF F
  <1> QED
    BY <1>4, <1>5, <1>6 DEF RetiredAt, SameMarks

(* t's marks are those of s, but for the object that owns address c.        *)
Credited(s, t, c) ==
    \A i \in DOMAIN s.objs :
        t.objs[i].accessed = IF IsOwner(s, c, i) THEN TRUE ELSE s.objs[i].accessed

(* Crediting an access changes counters only, never where a row lies.       *)
LEMMA CreditEffect ==
    ASSUME NEW s \in ToolState, NEW c
    PROVE  /\ SameRows(s, Credit(s, c))
           /\ Credited(s, Credit(s, c), c)
           /\ Credit(s, c).queue = s.queue
           /\ Credit(s, c).in_alloc = s.in_alloc
  <1> DEFINE F(i) == IF IsOwner(s, c, i) THEN [s.objs[i] EXCEPT !.accessed = TRUE]
                     ELSE s.objs[i]
             t == Credit(s, c)
  <1>0. s.objs \in Seq(Object)
    BY DEF ToolState
  <1>1. \A i \in DOMAIN s.objs : s.objs[i] \in Object
    BY <1>0
  <1>2. \A i \in DOMAIN s.objs : /\ F(i) \in Object
                                 /\ F(i).addr = s.objs[i].addr
                                 /\ F(i).size = s.objs[i].size
                                 /\ F(i).freed = s.objs[i].freed
                                 /\ F(i).accessed = IF IsOwner(s, c, i) THEN TRUE
                                                    ELSE s.objs[i].accessed
    BY <1>1 DEF Object
  <1>3. t = [s EXCEPT !.objs = [i \in DOMAIN s.objs |-> F(i)]]
    BY DEF Credit
  <1>4. t \in ToolState
    <2>1. [i \in DOMAIN s.objs |-> F(i)] \in [DOMAIN s.objs -> Object]
      BY <1>2
    <2> HIDE DEF F, t
    <2> QED BY <1>3, <2>1, RowsRewritten
  <1>5. /\ t.objs = [i \in DOMAIN s.objs |-> F(i)]
        /\ t.queue = s.queue /\ t.in_alloc = s.in_alloc
    BY <1>3 DEF ToolState
  <1> HIDE DEF F, t
  <1>6. SameRows(s, t) /\ Credited(s, t, c)
    BY <1>2, <1>4, <1>5 DEF SameRows, Credited
  <1> QED
    BY <1>5, <1>6 DEF t

(* Writing the results changes neither the ranges nor the queue.            *)
LEMMA OutputEffect ==
    ASSUME NEW s \in ToolState
    PROVE  /\ SameRows(s, Output(s))
           /\ SameMarks(s, Output(s))
           /\ Output(s).queue = s.queue
  <1> DEFINE F(i) == [s.objs[i] EXCEPT !.ended = TRUE]
             t == Output(s)
  <1>0. s.objs \in Seq(Object)
    BY DEF ToolState
  <1>1. \A i \in DOMAIN s.objs : s.objs[i] \in Object
    BY <1>0
  <1>2. \A i \in DOMAIN s.objs : /\ F(i) \in Object
                                 /\ F(i).addr = s.objs[i].addr
                                 /\ F(i).size = s.objs[i].size
                                 /\ F(i).freed = s.objs[i].freed
                                 /\ F(i).accessed = s.objs[i].accessed
    BY <1>1 DEF Object
  <1>3. t = [s EXCEPT !.objs = [i \in DOMAIN s.objs |-> F(i)]]
    BY DEF Output
  <1>4. t \in ToolState
    <2>1. [i \in DOMAIN s.objs |-> F(i)] \in [DOMAIN s.objs -> Object]
      BY <1>2
    <2> HIDE DEF F, t
    <2> QED BY <1>3, <2>1, RowsRewritten
  <1>5. /\ t.objs = [i \in DOMAIN s.objs |-> F(i)]
        /\ t.queue = s.queue
    BY <1>3 DEF ToolState
  <1> QED
    BY <1>2, <1>4, <1>5 DEF SameRows, SameMarks

(* Nothing is received from an empty queue.                                 *)
LEMMA RecordMemEffect ==
    ASSUME NEW s \in ToolState, s.queue = <<>>, NEW c
    PROVE  /\ SameRows(s, RecordMem(s, c))
           /\ Credited(s, RecordMem(s, c), c)
           /\ RecordMem(s, c).queue = <<>>
           /\ RecordMem(s, c).in_alloc = s.in_alloc
  <1>1. RecordMem(s, c) = Credit(s, c)
    BY DEF RecordMem, TestAndGetAddr
  <1> QED
    BY <1>1, CreditEffect

(* The one message of the queue becomes the last row of the table.          *)
LEMMA DeliverEffect ==
    ASSUME NEW s \in ToolState, s.in_alloc = 1,
           NEW a \in Nat, NEW n \in Nat, n > 0,
           s.queue = <<[addr |-> a, size |-> n]>>, NEW c
    PROVE  LET t == RecordMem(s, c)
               k == Len(s.objs) + 1
           IN  /\ t \in ToolState
               /\ t.queue = <<>>
               /\ DOMAIN t.objs = DOMAIN s.objs \cup {k}
               /\ k \notin DOMAIN s.objs
               /\ t.objs[k].addr = a /\ t.objs[k].size = n
               /\ ~t.objs[k].freed
               /\ t.objs[k].accessed => Covers(t.objs[k], c)
               /\ \A i \in DOMAIN s.objs :
                    /\ t.objs[i].addr = s.objs[i].addr
                    /\ t.objs[i].size = s.objs[i].size
                    /\ t.objs[i].freed = s.objs[i].freed
                    /\ \/ t.objs[i].accessed = s.objs[i].accessed
                       \/ Covers(s.objs[i], c)
  <1> DEFINE k == Len(s.objs) + 1
             r == [s EXCEPT !.queue = <<>>, !.in_alloc = 0, !.G_var_size = n,
                            !.objs = Append(s.objs, NewObject(a, n))]
             t == RecordMem(s, c)
  <1>1. s.objs \in Seq(Object) /\ NewObject(a, n) \in Object
    BY DEF ToolState, NewObject, Object
  <1>2. r \in ToolState
    <2>1. Append(s.objs, NewObject(a, n)) \in Seq(Object)
      BY <1>1
    <2>2. <<>> \in Seq(Message)
      OBVIOUS
    <2> QED BY <2>1, <2>2 DEF ToolState
  <1>3. Head(s.queue) = [addr |-> a, size |-> n] /\ Tail(s.queue) = <<>>
        /\ s.queue # <<>>
    OBVIOUS
  <1>4. TestAndGetAddr(s) = r
    <2> DEFINE q == [s EXCEPT !.queue = <<>>, !.in_alloc = 0, !.G_var_size = n]
    <2>1. TestAndGetAddr(s) = AllocAfter(q, a)
      <3>1. Head(s.queue).addr = a /\ Head(s.queue).size = n
        BY <1>3
      <3>2. [s EXCEPT !.queue = Tail(s.queue), !.in_alloc = 0,
                      !.G_var_size = Head(s.queue).size] = q
        BY <1>3, <3>1
      <3>3. TestAndGetAddr(s)
              = AllocAfter([s EXCEPT !.queue = Tail(s.queue), !.in_alloc = 0,
                                     !.G_var_size = Head(s.queue).size],
                           Head(s.queue).addr)
        BY <1>3 DEF TestAndGetAddr
      <3> QED BY <3>1, <3>2, <3>3, Zenon
    <2>2. q.G_var_size = n /\ q.objs = s.objs
      BY DEF ToolState
    <2>3. AllocAfter(q, a) = [q EXCEPT !.in_alloc = 0,
                                       !.objs = Append(s.objs, NewObject(a, n))]
      <3> HIDE DEF q
      <3> QED BY <2>2 DEF AllocAfter, TRACE_SIZE
    <2>4. [q EXCEPT !.in_alloc = 0, !.objs = Append(s.objs, NewObject(a, n))] = r
      <3> HIDE DEF k
      <3> QED BY DEF ToolState
    <2> QED BY <2>1, <2>3, <2>4
  <1>5. t = Credit(r, c)
    BY <1>4 DEF RecordMem
  <1>6. SameRows(r, t) /\ Credited(r, t, c) /\ t.queue = <<>>
    <2>1. r.queue = <<>>
      BY DEF ToolState
    <2> HIDE DEF r
    <2> QED BY <1>2, <1>5, <2>1, CreditEffect
  <1>7. /\ DOMAIN r.objs = DOMAIN s.objs \cup {k}
        /\ k \notin DOMAIN s.objs
        /\ r.objs[k] = NewObject(a, n)
        /\ \A i \in DOMAIN s.objs : r.objs[i] = s.objs[i]
    <2>1. r.objs = Append(s.objs, NewObject(a, n))
      BY DEF ToolState
    <2>2. DOMAIN s.objs = 1 .. Len(s.objs) /\ Len(s.objs) \in Nat
      BY <1>1
    <2> HIDE DEF r
    <2> QED BY <1>1, <2>1, <2>2
  <1>8. /\ NewObject(a, n).addr = a /\ NewObject(a, n).size = n
        /\ NewObject(a, n).freed = FALSE /\ NewObject(a, n).accessed = FALSE
    BY DEF NewObject
  <1> HIDE DEF r, t, k
  <1>9. k \in DOMAIN r.objs /\ \A i \in DOMAIN s.objs : i \in DOMAIN r.objs
    BY <1>7
  <1>10. /\ t.objs[k].addr = a /\ t.objs[k].size = n /\ t.objs[k].freed = FALSE
         /\ DOMAIN t.objs = DOMAIN s.objs \cup {k}
    BY <1>6, <1>7, <1>8, <1>9 DEF SameRows
  <1>11. t.objs[k].accessed => Covers(t.objs[k], c)
    BY <1>6, <1>7, <1>8, <1>9, <1>10 DEF Credited, IsOwner, Covers
  <1>12. \A i \in DOMAIN s.objs :
            /\ t.objs[i].addr = s.objs[i].addr /\ t.objs[i].size = s.objs[i].size
            /\ t.objs[i].freed = s.objs[i].freed
    BY <1>6, <1>7, <1>9 DEF SameRows
  <1>13. \A i \in DOMAIN s.objs :
            t.objs[i].accessed = s.objs[i].accessed \/ Covers(s.objs[i], c)
    BY <1>6, <1>7, <1>9 DEF Credited, IsOwner
  <1> QED
    BY <1>6, <1>7, <1>10, <1>11, <1>12, <1>13 DEF SameRows, t, k

-----------------------------------------------------------------------------
(***************************************************************************)
(* 2. The library and the tool.                                            *)
(***************************************************************************)

HeapOK(h) ==
    /\ DOMAIN h \subseteq ScratchCells
    /\ h \in [DOMAIN h -> Block]

-----------------------------------------------------------------------------
(* Cells and blocks.                                                        *)

(* Every cell of the heap is an address, and 0 is none of them.             *)
LEMMA CellFacts ==
    /\ NumCells \in Nat
    /\ Cells \subseteq ScratchCells
    /\ ScratchCells \subseteq Addresses
    /\ Addresses \subseteq Nat \ {0}
    /\ 0 \notin ScratchCells
  BY NumCellsAssumption DEF Cells, ScratchCells, Addresses, Stack

(* A block contains its first cell, the empty block too.                    *)
LEMMA BaseInExtent ==
    ASSUME NEW b \in Nat, NEW n \in Nat
    PROVE  b \in Extent(b, n)
  BY DEF Extent

(* The first cell of a block is occupied.                                   *)
LEMMA BaseOccupied ==
    ASSUME NEW h, HeapOK(h), NEW b \in DOMAIN h
    PROVE  b \in Occupied(h)
  <1>1. b \in Nat /\ h[b].size \in Nat
    BY CellFacts DEF HeapOK, Block
  <1> QED
    BY <1>1, BaseInExtent DEF Occupied

(* g is h without the block at a and with one of n bytes at p.              *)
Replaced(h, g, a, p, n) ==
    /\ HeapOK(g)
    /\ DOMAIN g = (DOMAIN h \ {a}) \cup {p}
    /\ g[p].size = n /\ ~g[p].traced
    /\ \A b \in DOMAIN h \ {a, p} : g[b] = h[b]

(* Adding a block after dropping the one at a is a replacement of it.       *)
LEMMA AddBlockFacts ==
    ASSUME NEW h, HeapOK(h), NEW p \in ScratchCells, NEW n \in Nat, NEW a
    PROVE  Replaced(h, AddBlock(RemoveBlocks(h, {a}), p, n), a, p, n)
  <1> DEFINE r == RemoveBlocks(h, {a})
             g == AddBlock(r, p, n)
  <1>1. /\ DOMAIN h \subseteq ScratchCells
        /\ \A b \in DOMAIN h : h[b] \in Block
    BY DEF HeapOK
  <1>2. DOMAIN r = DOMAIN h \ {a} /\ \A b \in DOMAIN r : r[b] = h[b]
    BY DEF RemoveBlocks
  <1>3. g = [x \in DOMAIN r \cup {p} |->
               IF x = p THEN [size |-> n, traced |-> FALSE] ELSE r[x]]
    BY DEF AddBlock
  <1> HIDE DEF r, g
  <1>4. /\ DOMAIN g = DOMAIN r \cup {p}
        /\ g[p] = [size |-> n, traced |-> FALSE]
        /\ \A b \in DOMAIN r \ {p} : g[b] = r[b]
    BY <1>3
  <1>5. [size |-> n, traced |-> FALSE] \in Block
    BY DEF Block
  <1>6. \A b \in DOMAIN g : g[b] \in Block
    BY <1>1, <1>2, <1>4, <1>5
  <1>7. HeapOK(g)
    BY <1>1, <1>2, <1>3, <1>4, <1>6 DEF HeapOK
  <1> QED
    BY <1>2, <1>4, <1>7 DEF Replaced, g, r

(* Dropping blocks leaves the others as they are.                           *)
LEMMA RemoveBlocksFacts ==
    ASSUME NEW h, HeapOK(h), NEW S
    PROVE  LET g == RemoveBlocks(h, S)
           IN  /\ HeapOK(g)
               /\ DOMAIN g = DOMAIN h \ S
               /\ \A b \in DOMAIN g : g[b] = h[b]
               /\ Occupied(g) \subseteq Occupied(h)
  <1>1. /\ HeapOK(RemoveBlocks(h, S))
        /\ DOMAIN RemoveBlocks(h, S) = DOMAIN h \ S
        /\ \A b \in DOMAIN h \ S : RemoveBlocks(h, S)[b] = h[b]
    BY DEF HeapOK, RemoveBlocks
  <1>2. Occupied(RemoveBlocks(h, S)) \subseteq Occupied(h)
    BY <1>1 DEF Occupied
  <1> QED
    BY <1>1, <1>2

(* Dropping blocks makes no two blocks overlap.                             *)
LEMMA DisjointRemove ==
    ASSUME NEW h, HeapOK(h), Disjoint(h), NEW S
    PROVE  Disjoint(RemoveBlocks(h, S))
  <1>1. /\ DOMAIN RemoveBlocks(h, S) = DOMAIN h \ S
        /\ \A b \in DOMAIN RemoveBlocks(h, S) : RemoveBlocks(h, S)[b] = h[b]
    BY RemoveBlocksFacts
  <1> QED
    BY <1>1 DEF Disjoint

(* Replacing a block by one at a free place makes no overlap.               *)
LEMMA DisjointReplaced ==
    ASSUME NEW h, HeapOK(h), Disjoint(h), NEW a, NEW p \in ScratchCells,
           NEW n \in Nat, NEW g, Replaced(h, g, a, p, n),
           Extent(p, n) \cap Occupied(RemoveBlocks(h, {a})) = {}
    PROVE  Disjoint(g) /\ p \notin DOMAIN h \ {a}
  <1> DEFINE r == RemoveBlocks(h, {a})
  <1>1. /\ HeapOK(r) /\ DOMAIN r = DOMAIN h \ {a}
        /\ \A b \in DOMAIN r : r[b] = h[b]
    BY RemoveBlocksFacts
  <1>2. p \notin DOMAIN r
    <2>1. p \in Extent(p, n)
      BY CellFacts, BaseInExtent
    <2> HIDE DEF r
    <2> QED BY <1>1, <2>1, BaseOccupied DEF r
  <1>3. \A b \in DOMAIN r : Extent(b, h[b].size) \subseteq Occupied(r)
    BY <1>1 DEF Occupied
  <1>4. /\ DOMAIN g = DOMAIN r \cup {p} /\ g[p].size = n
        /\ \A b \in DOMAIN r : g[b] = h[b]
    BY <1>1, <1>2 DEF Replaced
  <1>5. Extent(p, n) \cap Occupied(r) = {}
    OBVIOUS
  <1>6. \A b \in DOMAIN r : b \in DOMAIN h
    BY <1>1
  <1> HIDE DEF r
  <1>7. ASSUME NEW b \in DOMAIN g, NEW d \in DOMAIN g, b # d
        PROVE  Extent(b, g[b].size) \cap Extent(d, g[d].size) = {}
    <2>1. CASE b \in DOMAIN r /\ d \in DOMAIN r
      BY <1>4, <1>6, <1>7, <2>1 DEF Disjoint
    <2>2. CASE b = p
      <3>1. d \in DOMAIN r
        BY <1>4, <1>7, <2>2
      <3> QED BY <1>3, <1>4, <1>5, <2>2, <3>1
    <2>3. CASE d = p
      <3>1. b \in DOMAIN r
        BY <1>4, <1>7, <2>3
      <3> QED BY <1>3, <1>4, <1>5, <2>3, <3>1
    <2> QED BY <1>4, <2>1, <2>2, <2>3
  <1> QED
    BY <1>1, <1>2, <1>7 DEF Disjoint

(* A block libc returns overlaps no block but the one it replaces.          *)
LEMMA ResultIsFree ==
    ASSUME NEW h, HeapOK(h), NEW c \in Call, NEW p \in Results(h, c)
    PROVE  /\ p \in Cells
           /\ Extent(p, Request(c)) \cap Occupied(RemoveBlocks(h, {c.old})) = {}
  <1> DEFINE g == RemoveBlocks(h, {c.old})
  <1>1. Occupied(g) \subseteq Occupied(h)
    BY RemoveBlocksFacts
  <1>2. g = [x \in DOMAIN h \ {c.old} |-> h[x]]
    BY DEF RemoveBlocks
  <1>3. p \in FreeBases(h, Request(c)) \/ p \in FreeBases(g, Request(c))
    BY <1>2 DEF Results
  <1> HIDE DEF g
  <1>4. p \in Cells /\ (\/ Extent(p, Request(c)) \subseteq Cells \ Occupied(h)
                        \/ Extent(p, Request(c)) \subseteq Cells \ Occupied(g))
    BY <1>3 DEF FreeBases
  <1> QED
    BY <1>1, <1>4 DEF g

(* A call asks for a number of bytes.                                       *)
LEMMA RequestType ==
    ASSUME NEW c \in Call
    PROVE  Request(c) \in Nat
  <1>1. c.num \in Nat /\ c.unit \in Nat
    BY DEF Call
  <1> QED
    BY <1>1 DEF Request

-----------------------------------------------------------------------------
(* What a step does to the correspondence between rows and blocks.          *)

RowsMatch == RowsAreBlocks /\ BlocksHaveRows /\ RowsDiffer

(* Traced blocks outside S stay as they are, those in S go, and nothing     *)
(* else becomes traced.                                                     *)
TracedKept(S) ==
    /\ \A b \in DOMAIN heap \ S :
         heap[b].traced => b \in DOMAIN heap' /\ heap'[b] = heap[b]
    /\ \A b \in DOMAIN heap' :
         heap'[b].traced => b \in DOMAIN heap \ S /\ heap'[b] = heap[b]

(* A row lies at a block's address or is retired to minus its size.         *)
LEMMA RowAddresses ==
    ASSUME TypeOK, RowsAreBlocks, NEW i \in DOMAIN tool.objs
    PROVE  /\ tool.objs[i].size \in Nat \ {0}
           /\ tool.objs[i].addr \in Int
           /\ \/ tool.objs[i].addr = -tool.objs[i].size
              \/ tool.objs[i].addr \in ScratchCells
  <1>1. tool.objs[i] \in Object
    BY DEF TypeOK, ToolState
  <1> QED
    BY <1>1 DEF RowsAreBlocks, RowOK, Object, TypeOK

(* Steps that keep the rows and drop only blocks without a row.             *)
LEMMA RowsStay ==
    ASSUME TypeOK, RowsMatch, SameRows(tool, tool'),
           NEW S, \A b \in S : ~HasRow(b),
           TracedKept(S),
           \A b \in DOMAIN heap' : heap'[b].traced => (Unlisted(b)' <=> Unlisted(b))
    PROVE  RowsMatch'
  <1>1. /\ DOMAIN tool'.objs = DOMAIN tool.objs
        /\ \A i \in DOMAIN tool.objs : /\ tool'.objs[i].addr = tool.objs[i].addr
                                       /\ tool'.objs[i].size = tool.objs[i].size
    BY DEF SameRows
  <1>2. RowsAreBlocks'
    <2> SUFFICES ASSUME NEW i \in DOMAIN tool.objs
                 PROVE  RowOK(heap', tool'.objs[i])
      BY <1>1 DEF RowsAreBlocks
    <2>1. RowOK(heap, tool.objs[i])
      BY DEF RowsMatch, RowsAreBlocks
    <2>2. CASE tool.objs[i].addr = -tool.objs[i].size
      BY <1>1, <2>1, <2>2 DEF RowOK
    <2>3. CASE tool.objs[i].addr # -tool.objs[i].size
      <3> DEFINE a == tool.objs[i].addr
      <3>1. a \in DOMAIN heap /\ heap[a].traced /\ heap[a].size = tool.objs[i].size
        BY <2>1, <2>3 DEF RowOK
      <3>2. a \notin S
        BY DEF HasRow
      <3>3. a \in DOMAIN heap' /\ heap'[a] = heap[a]
        BY <3>1, <3>2 DEF TracedKept
      <3> QED BY <1>1, <2>1, <3>1, <3>3 DEF RowOK
    <2> QED BY <2>2, <2>3
  <1>3. \A b : HasRow(b)' <=> HasRow(b)
    BY <1>1 DEF HasRow
  <1>4. BlocksHaveRows'
    <2> SUFFICES ASSUME NEW b \in DOMAIN heap', heap'[b].traced
                 PROVE  HasRow(b)' <=> ~Unlisted(b)'
      BY DEF BlocksHaveRows
    <2>1. b \in DOMAIN heap /\ heap[b].traced
      BY DEF TracedKept
    <2>2. HasRow(b) <=> ~Unlisted(b)
      BY <2>1 DEF RowsMatch, BlocksHaveRows
    <2>3. Unlisted(b)' <=> Unlisted(b)
      OBVIOUS
    <2> QED BY <1>3, <2>2, <2>3
  <1>5. RowsDiffer'
    BY <1>1 DEF RowsMatch, RowsDiffer
  <1> QED
    BY <1>2, <1>4, <1>5 DEF RowsMatch

(* Nothing is traced without a row once the row at a is retired but a.      *)
LEMMA RowRetires ==
    ASSUME TypeOK, RowsMatch, NEW a \in Nat, RetiredAt(tool, tool', a),
           heap' = heap,
           \A b \in DOMAIN heap : ~Unlisted(b) /\ (Unlisted(b)' <=> b = a)
    PROVE  RowsMatch'
  <1>1. /\ DOMAIN tool'.objs = DOMAIN tool.objs
        /\ \A i \in DOMAIN tool.objs :
             /\ tool'.objs[i].size = tool.objs[i].size
             /\ tool'.objs[i].addr = IF tool.objs[i].addr = a
                                     THEN -tool.objs[i].size
                                     ELSE tool.objs[i].addr
    BY DEF RetiredAt
  <1>2. \A i \in DOMAIN tool.objs : /\ tool.objs[i].size \in Nat \ {0}
                                    /\ tool.objs[i].addr \in Int
    BY RowAddresses DEF RowsMatch
  <1>3. RowsAreBlocks'
    <2> SUFFICES ASSUME NEW i \in DOMAIN tool.objs
                 PROVE  RowOK(heap, tool'.objs[i])
      BY <1>1 DEF RowsAreBlocks
    <2> QED BY <1>1 DEF RowsMatch, RowsAreBlocks, RowOK
  <1>4. \A b \in DOMAIN heap : HasRow(b)' <=> HasRow(b) /\ b # a
    <2>1. DOMAIN heap \subseteq Nat \ {0}
      BY CellFacts DEF TypeOK
    <2> SUFFICES ASSUME NEW b \in DOMAIN heap
                 PROVE  HasRow(b)' <=> HasRow(b) /\ b # a
      OBVIOUS
    <2>2. \A i \in DOMAIN tool.objs :
            tool'.objs[i].addr = b <=> tool.objs[i].addr = b /\ b # a
      BY <1>1, <1>2, <2>1
    <2> QED BY <1>1, <2>2 DEF HasRow
  <1>5. BlocksHaveRows'
    BY <1>4 DEF RowsMatch, BlocksHaveRows
  <1>6. RowsDiffer'
    <2> SUFFICES ASSUME NEW i \in DOMAIN tool.objs, NEW j \in DOMAIN tool.objs,
                        i # j, tool'.objs[i].addr >= 0
                 PROVE  tool'.objs[i].addr # tool'.objs[j].addr
      BY <1>1 DEF RowsDiffer
    <2>1. tool'.objs[i].addr = tool.objs[i].addr
      BY <1>1, <1>2
    <2>2. tool.objs[i].addr # tool.objs[j].addr
      BY <2>1 DEF RowsMatch, RowsDiffer
    <2> QED BY <1>1, <1>2, <2>1, <2>2
  <1> QED
    BY <1>3, <1>5, <1>6 DEF RowsMatch

(* Retiring at an address without a row changes no row.                     *)
LEMMA NothingRetires ==
    ASSUME NEW a, RetiredAt(tool, tool', a), ~HasRow(a)
    PROVE  SameRows(tool, tool')
  BY DEF RetiredAt, SameRows, HasRow

(* The block being released, and address 0, have no row.                    *)
LEMMA OldHasNoRow ==
    ASSUME IInv, pc \in {"libc", "freep"}
    PROVE  ~HasRow(call.old)
  <1> SUFFICES ASSUME HasRow(call.old) PROVE FALSE
    OBVIOUS
  <1>1. PICK i \in DOMAIN tool.objs : tool.objs[i].addr = call.old
    BY DEF HasRow
  <1>2. call.old \in Nat
    BY DEF IInv, TypeOK, Call
  <1>3. tool.objs[i].size \in Nat \ {0} /\ tool.objs[i].addr # -tool.objs[i].size
    BY <1>1, <1>2, RowAddresses DEF IInv
  <1>4. call.old \in DOMAIN heap /\ heap[call.old].traced
    BY <1>1, <1>3 DEF IInv, RowsAreBlocks, RowOK
  <1>5. Unlisted(call.old)
    BY DEF Unlisted
  <1> QED
    BY <1>4, <1>5 DEF IInv, BlocksHaveRows

(* The entry routines at the library's and at libc's entry.                 *)
LEMMA EntryEffect ==
    ASSUME NEW s \in ToolState, s.queue = <<>>, NEW c \in Call,
           c.op \in {"malloc", "calloc", "realloc"},
           c.op # "realloc" => c.old = 0,
           \A i \in DOMAIN s.objs : s.objs[i].addr # 0
    PROVE  /\ RetiredAt(s, EntryRoutine(s, c), c.old)
           /\ SameMarks(s, EntryRoutine(s, c))
           /\ EntryRoutine(s, c).queue = <<>>
           /\ EntryRoutine(s, c) \in ToolState
  <1>1. c.old \in Nat /\ c.num \in Nat /\ c.unit \in Nat
    BY DEF Call
  <1>2. ASSUME NEW t \in ToolState, t.objs = s.objs, c.old = 0
        PROVE  RetiredAt(s, t, c.old) /\ SameMarks(s, t)
    BY <1>2 DEF RetiredAt, SameMarks
  <1>3. CASE c.op = "malloc"
    <2>1. EntryRoutine(s, c) = MallocBefore(s, c.unit)
      BY <1>3 DEF EntryRoutine
    <2> DEFINE t == MallocBefore(s, c.unit)
    <2>2. t \in ToolState /\ t.objs = s.objs /\ t.queue = <<>>
      BY <1>1, MallocBeforeEffect
    <2>3. c.old = 0
      BY <1>3
    <2> HIDE DEF t
    <2>4. RetiredAt(s, t, c.old) /\ SameMarks(s, t)
      BY <1>2, <2>2, <2>3
    <2> QED BY <2>1, <2>2, <2>4, Zenon DEF t
  <1>4. CASE c.op = "calloc"
    <2>1. EntryRoutine(s, c) = CallocBefore(s, c.num, c.unit)
      BY <1>4 DEF EntryRoutine
    <2> DEFINE t == CallocBefore(s, c.num, c.unit)
    <2>2. t \in ToolState /\ t.objs = s.objs /\ t.queue = <<>>
      BY <1>1, CallocBeforeEffect
    <2>3. c.old = 0
      BY <1>4
    <2> HIDE DEF t
    <2>4. RetiredAt(s, t, c.old) /\ SameMarks(s, t)
      BY <1>2, <2>2, <2>3
    <2> QED BY <2>1, <2>2, <2>4, Zenon DEF t
  <1>5. CASE c.op = "realloc"
    <2>1. EntryRoutine(s, c) = ReallocBefore(s, c.old, c.unit)
      BY <1>5 DEF EntryRoutine
    <2> DEFINE t == ReallocBefore(s, c.old, c.unit)
    <2>2. RetiredAt(s, t, c.old) /\ SameMarks(s, t) /\ t.queue = <<>>
      BY <1>1, ReallocBeforeEffect
    <2>3. t \in ToolState
      BY <2>2 DEF RetiredAt
    <2> HIDE DEF t
    <2> QED BY <2>1, <2>2, <2>3, Zenon DEF t
  <1> QED
    BY <1>3, <1>4, <1>5

-----------------------------------------------------------------------------
(* Each action keeps the invariant.                                         *)

(* No row lies at address 0: NULL is never announced.                       *)
LEMMA NoRowAtZero ==
    ASSUME IInv
    PROVE  \A i \in DOMAIN tool.objs : tool.objs[i].addr # 0
  <1> SUFFICES ASSUME NEW i \in DOMAIN tool.objs PROVE tool.objs[i].addr # 0
    OBVIOUS
  <1> QED
    BY RowAddresses, CellFacts DEF IInv

(* The invariant holds before the program starts.                           *)
LEMMA InitInv ==
    ASSUME Init
    PROVE  IInv
  <1>1. InitTool \in ToolState /\ InitTool.objs = <<>> /\ InitTool.queue = <<>>
    BY DEF InitTool, ToolState
  <1>2. DOMAIN heap = {}
    BY DEF Init
  <1>3. NoCall \in Call
    BY DEF NoCall, Call
  <1>4. tool \in ToolState /\ DOMAIN tool.objs = {} /\ tool.queue = <<>>
    BY <1>1 DEF Init
  <1>5. TypeOK
    BY <1>2, <1>3, <1>4 DEF Init, TypeOK
  <1>6. RowsAreBlocks /\ BlocksHaveRows /\ RowsDiffer /\ BlocksAreDisjoint
    BY <1>2, <1>4 DEF RowsAreBlocks, BlocksHaveRows, RowsDiffer,
                      BlocksAreDisjoint, Disjoint
  <1>7. AtPlace
    BY <1>4 DEF Init, AtPlace
  <1> QED
    BY <1>5, <1>6, <1>7 DEF IInv

(* A call of the application keeps the invariant.                           *)
LEMMA StartInv ==
    ASSUME IInv, Start
    PROVE  IInv'
  <1> DEFINE t == [InitTool EXCEPT !.queue = tool.queue]
  <1>1. tool.queue = <<>>
    BY DEF IInv, AtPlace, Start
  <1>2. t \in ToolState /\ t.objs = <<>> /\ t.queue = <<>>
    <2>1. t = InitTool
      BY <1>1 DEF InitTool
    <2>2. InitTool \in ToolState /\ InitTool.objs = <<>> /\ InitTool.queue = <<>>
      BY DEF InitTool, ToolState
    <2> HIDE DEF t
    <2> QED BY <2>1, <2>2
  <1>3. NoCall \in Call
    BY DEF NoCall, Call
  <1>4. tool' \in ToolState /\ DOMAIN tool'.objs = {} /\ tool'.queue = <<>>
    BY <1>2 DEF Start
  <1>5. DOMAIN heap' = {}
    BY DEF Start
  <1>6. TypeOK'
    BY <1>3, <1>4, <1>5 DEF Start, TypeOK
  <1>7. (RowsAreBlocks /\ BlocksHaveRows /\ RowsDiffer /\ BlocksAreDisjoint)'
    BY <1>4, <1>5 DEF RowsAreBlocks, BlocksHaveRows, RowsDiffer,
                      BlocksAreDisjoint, Disjoint
  <1>8. AtPlace'
    BY <1>4 DEF Start, AtPlace
  <1> QED
    BY <1>6, <1>7, <1>8 DEF IInv

(* The library's entry, where the tool polls and retires, keeps it.         *)
LEMMA EnterInv ==
    ASSUME IInv, NEW c \in Call, c.op \in {"malloc", "calloc", "realloc"},
           c.op # "realloc" => c.old = 0, c.old \in DOMAIN heap \cup {0},
           Enter(c)
    PROVE  IInv'
  <1>1. /\ tool \in ToolState /\ tool.queue = <<>>
        /\ c.old \in Nat /\ scratch = {}
    BY DEF IInv, TypeOK, AtPlace, Enter, Call
  <1>2. /\ RetiredAt(tool, tool', c.old) /\ tool'.queue = <<>>
        /\ tool' \in ToolState
    BY <1>1, NoRowAtZero, EntryEffect DEF Enter
  <1>3. /\ pc = "run" /\ pc' = "libc" /\ call' = c /\ heap' = heap
        /\ phase' = phase /\ scratch' = {} /\ trace_flag' = trace_flag
    BY <1>1 DEF Enter
  <1>4. TypeOK'
    BY <1>2, <1>3 DEF IInv, TypeOK
  <1>5. RowsMatch'
    <2>1. \A b \in DOMAIN heap : ~Unlisted(b) /\ (Unlisted(b)' <=> b = c.old)
      BY <1>3 DEF Unlisted
    <2> QED BY <1>1, <1>2, <1>3, <2>1, RowRetires DEF IInv, RowsMatch
  <1>6. BlocksAreDisjoint'
    BY <1>3 DEF IInv, BlocksAreDisjoint
  <1>7. AtPlace'
    BY <1>2, <1>3 DEF AtPlace
  <1> QED
    BY <1>4, <1>5, <1>6, <1>7 DEF IInv, RowsMatch

(* The entry of free, where the tool retires the row, keeps it.             *)
LEMMA FreeEnterInv ==
    ASSUME IInv, NEW p \in Nat, FreeEnter(p)
    PROVE  IInv'
  <1>1. /\ tool \in ToolState /\ tool.queue = <<>> /\ scratch = {}
    BY DEF IInv, TypeOK, AtPlace, FreeEnter
  <1>2. /\ RetiredAt(tool, tool', p) /\ tool'.queue = <<>>
        /\ tool' \in ToolState
    <2>1. tool' = FreeBefore(tool, p)
      BY DEF FreeEnter
    <2>2. RetiredAt(tool, tool', p) /\ tool'.queue = <<>>
      BY <1>1, <2>1, FreeBeforeEffect
    <2> QED
      BY <2>2 DEF RetiredAt
  <1>3. /\ call' \in Call /\ call'.old = p
    BY DEF FreeEnter, NoCall, Call
  <1>4. /\ pc = "run" /\ pc' = "freep" /\ heap' = heap
        /\ phase' = phase /\ scratch' = {} /\ trace_flag' = trace_flag
        /\ p \in DOMAIN heap \cup {0}
    BY <1>1 DEF FreeEnter
  <1>5. TypeOK'
    BY <1>2, <1>3, <1>4 DEF IInv, TypeOK
  <1>6. RowsMatch'
    <2>1. \A b \in DOMAIN heap : ~Unlisted(b) /\ (Unlisted(b)' <=> b = p)
      BY <1>3, <1>4 DEF Unlisted
    <2> QED BY <1>1, <1>2, <1>4, <2>1, RowRetires DEF IInv, RowsMatch
  <1>7. BlocksAreDisjoint'
    BY <1>4 DEF IInv, BlocksAreDisjoint
  <1>8. AtPlace'
    BY <1>2, <1>3, <1>4 DEF AtPlace
  <1> QED
    BY <1>5, <1>6, <1>7, <1>8 DEF IInv, RowsMatch

(* libc's allocation, at whose entry the tool retires again, keeps it.      *)
LEMMA RealAllocInv ==
    ASSUME IInv, RealAlloc
    PROVE  IInv'
  <1> DEFINE a == call.old
             h == RemoveBlocks(heap, {a})
             n == Request(call)
  <1>1. /\ tool \in ToolState /\ tool.queue = <<>> /\ scratch = {}
        /\ call \in Call /\ a \in Nat /\ n \in Nat /\ HeapOK(heap)
        /\ call.op \in {"malloc", "calloc", "realloc"}
        /\ call.op # "realloc" => a = 0
    BY RequestType DEF IInv, TypeOK, AtPlace, RealAlloc, Call, HeapOK
  <1>2. /\ RetiredAt(tool, tool', a) /\ tool'.queue = <<>>
        /\ tool' \in ToolState
    BY <1>1, NoRowAtZero, EntryEffect DEF RealAlloc
  <1>3. ~HasRow(a)
    BY OldHasNoRow DEF RealAlloc
  <1>4. SameRows(tool, tool')
    BY <1>2, <1>3, NothingRetires
  <1>5. PICK p \in Results(heap, call) :
          /\ heap' = AddBlock(h, p, n)
          /\ call' = [call EXCEPT !.ptr = p]
    BY DEF RealAlloc
  <1>6. p \in Cells /\ Extent(p, n) \cap Occupied(h) = {}
    BY <1>1, ResultIsFree
  <1>7. p \in ScratchCells /\ p \in Nat
    BY <1>6, CellFacts
  <1>8. /\ HeapOK(heap') /\ Disjoint(heap')
        /\ DOMAIN heap' = (DOMAIN heap \ {a}) \cup {p}
        /\ p \notin DOMAIN heap \ {a}
        /\ heap'[p].size = n /\ ~heap'[p].traced
        /\ \A b \in DOMAIN heap \ {a} : heap'[b] = heap[b]
    <2>1. Disjoint(heap)
      BY DEF IInv, BlocksAreDisjoint
    <2>2. Replaced(heap, AddBlock(h, p, n), a, p, n)
      <3> HIDE DEF n, a
      <3> QED BY <1>1, <1>7, AddBlockFacts
    <2>3. Replaced(heap, heap', a, p, n)
      BY <1>5, <2>2
    <2>4. Disjoint(heap') /\ p \notin DOMAIN heap \ {a}
      <3> HIDE DEF n, a
      <3> QED BY <1>1, <1>6, <1>7, <2>1, <2>3, DisjointReplaced
    <2> HIDE DEF n, a
    <2> QED BY <2>3, <2>4 DEF Replaced
  <1>9. /\ call' \in Call /\ call'.ptr = p /\ call'.old = a
         /\ Request(call') = n
    BY <1>1, <1>5, <1>7 DEF Call, Request
  <1>10. /\ pc = "libc" /\ pc' = "hook" /\ phase' = phase
         /\ scratch' = {} /\ trace_flag' = trace_flag
    BY <1>1 DEF RealAlloc
  <1>11. TypeOK'
    BY <1>2, <1>8, <1>9, <1>10 DEF IInv, TypeOK, HeapOK
  <1>12. RowsMatch'
    <2>1. TracedKept({a})
      BY <1>8 DEF TracedKept
    <2>2. \A b \in DOMAIN heap' : heap'[b].traced => (Unlisted(b)' <=> Unlisted(b))
      BY <1>8, <1>10 DEF Unlisted
    <2> QED BY <1>3, <1>4, <2>1, <2>2, RowsStay DEF IInv, RowsMatch
  <1>13. BlocksAreDisjoint'
    BY <1>8 DEF BlocksAreDisjoint
  <1>14. AtPlace'
    BY <1>2, <1>8, <1>9, <1>10 DEF AtPlace, IsNewBlock
  <1> QED
    BY <1>11, <1>12, <1>13, <1>14 DEF IInv, RowsMatch

(* Releasing a block whose row has been retired keeps the invariant.        *)
LEMMA ReleaseInv ==
    ASSUME IInv, pc \in {"libc", "freep"},
           RetiredAt(tool, tool', call.old), tool'.queue = <<>>,
           heap' = RemoveBlocks(heap, {call.old}),
           \/ pc' = "run"
           \/ pc' = "hook" /\ Request(call') = 0,
           call' \in Call, UNCHANGED <<phase, scratch, trace_flag>>
    PROVE  IInv'
  <1> DEFINE a == call.old
  <1>1. ~HasRow(a)
    BY OldHasNoRow
  <1>2. SameRows(tool, tool')
    BY <1>1, NothingRetires
  <1>3. HeapOK(heap) /\ scratch = {}
    BY DEF IInv, TypeOK, HeapOK, AtPlace
  <1>4. /\ HeapOK(heap') /\ DOMAIN heap' = DOMAIN heap \ {a}
        /\ \A b \in DOMAIN heap' : heap'[b] = heap[b]
    <2> DEFINE g == RemoveBlocks(heap, {a})
    <2>1. /\ HeapOK(g) /\ DOMAIN g = DOMAIN heap \ {a}
          /\ \A b \in DOMAIN g : g[b] = heap[b]
      BY <1>3, RemoveBlocksFacts
    <2>2. heap' = g
      OBVIOUS
    <2> HIDE DEF g
    <2> QED BY <2>1, <2>2
  <1>5. TypeOK'
    BY <1>4 DEF IInv, TypeOK, HeapOK, RetiredAt
  <1>6. RowsMatch'
    <2>1. TracedKept({a})
      BY <1>4 DEF TracedKept
    <2>2. \A b \in DOMAIN heap' : heap'[b].traced => (Unlisted(b)' <=> Unlisted(b))
      BY <1>4 DEF Unlisted
    <2> QED BY <1>1, <1>2, <2>1, <2>2, RowsStay DEF IInv, RowsMatch
  <1>7. BlocksAreDisjoint'
    BY <1>3, DisjointRemove DEF IInv, BlocksAreDisjoint
  <1>8. AtPlace'
    BY <1>3 DEF AtPlace
  <1> QED
    BY <1>5, <1>6, <1>7, <1>8 DEF IInv, RowsMatch

(* A realloc to 0 bytes that releases its block keeps the invariant.        *)
LEMMA RealReallocToNothingInv ==
    ASSUME IInv, RealReallocToNothing
    PROVE  IInv'
  <1>1. /\ tool \in ToolState /\ tool.queue = <<>> /\ call \in Call
        /\ call.op = "realloc" /\ pc = "libc"
    BY DEF IInv, TypeOK, AtPlace, RealReallocToNothing, Releases
  <1>2. /\ RetiredAt(tool, tool', call.old) /\ tool'.queue = <<>>
    BY <1>1, NoRowAtZero, EntryEffect DEF RealReallocToNothing
  <1>3. Request(call') = 0 /\ call' = call /\ pc' = "hook"
    BY DEF RealReallocToNothing, Releases
  <1> QED
    BY <1>1, <1>2, <1>3, ReleaseInv DEF RealReallocToNothing

(* libc's free keeps the invariant.                                         *)
LEMMA RealFreeInv ==
    ASSUME IInv, RealFree
    PROVE  IInv'
  <1>1. /\ tool \in ToolState /\ tool.queue = <<>> /\ pc = "freep"
        /\ call.old \in Nat
    BY DEF IInv, TypeOK, AtPlace, RealFree, Call
  <1>2. RetiredAt(tool, tool', call.old) /\ tool'.queue = <<>>
    BY <1>1, FreeBeforeEffect DEF RealFree
  <1>3. call' \in Call /\ pc' = "run"
    BY DEF RealFree, Return, NoCall, Call
  <1> QED
    BY <1>1, <1>2, <1>3, ReleaseInv DEF RealFree

(* Steps that leave the blocks and the rows' ranges alone.                  *)
LEMMA QuietRows ==
    ASSUME IInv, SameRows(tool, tool'), heap' = heap,
           \A b \in DOMAIN heap : Unlisted(b)' <=> Unlisted(b)
    PROVE  RowsMatch' /\ BlocksAreDisjoint'
  <1>1. TracedKept({})
    BY DEF TracedKept
  <1>2. RowsMatch'
    BY <1>1, RowsStay DEF IInv, RowsMatch
  <1> QED
    BY <1>2 DEF IInv, BlocksAreDisjoint

(* A step that leaves the tool alone leaves its rows alone.                 *)
LEMMA SameRowsRefl ==
    ASSUME TypeOK, tool' = tool
    PROVE  SameRows(tool, tool')
  BY DEF SameRows, TypeOK

(* A call that is not traced returns and keeps the invariant.               *)
LEMMA HookSkipInv ==
    ASSUME IInv, HookSkip
    PROVE  IInv'
  <1>1. /\ pc = "hook" /\ pc' = "run" /\ call' \in Call /\ scratch' = {}
        /\ tool' = tool /\ tool.queue = <<>> /\ heap' = heap /\ phase' = phase
        /\ trace_flag' = trace_flag
    BY DEF IInv, AtPlace, HookSkip, Return, NoCall, Call
  <1>2. TypeOK'
    BY <1>1 DEF IInv, TypeOK
  <1>3. RowsMatch' /\ BlocksAreDisjoint'
    <2>1. \A b \in DOMAIN heap : Unlisted(b)' <=> Unlisted(b)
      BY <1>1 DEF Unlisted
    <2> QED BY <1>1, <2>1, QuietRows, SameRowsRefl DEF IInv
  <1>4. AtPlace'
    BY <1>1 DEF AtPlace
  <1> QED
    BY <1>2, <1>3, <1>4 DEF IInv, RowsMatch

(* The lookup of the call site keeps the invariant.                         *)
LEMMA LookInv ==
    ASSUME IInv, NotSelected \/ Selected
    PROVE  IInv'
  <1>1. /\ pc = "look" /\ pc' \in {"close", "found"}
        /\ tool' = tool /\ heap' = heap /\ phase' = phase /\ call' = call
        /\ trace_flag' = trace_flag /\ scratch' = scratch
    BY DEF NotSelected, Selected
  <1>2. TypeOK'
    BY <1>1 DEF IInv, TypeOK
  <1>3. RowsMatch' /\ BlocksAreDisjoint'
    <2>1. \A b \in DOMAIN heap : Unlisted(b)' <=> Unlisted(b)
      BY <1>1 DEF Unlisted
    <2> QED BY <1>1, <2>1, QuietRows, SameRowsRefl DEF IInv
  <1>4. AtPlace'
    BY <1>1 DEF IInv, AtPlace, IsNewBlock, ScratchOK
  <1> QED
    BY <1>2, <1>3, <1>4 DEF IInv, RowsMatch

(* The steps of the process's life cycle keep the invariant.                *)
LEMMA PhaseInv ==
    ASSUME IInv, Constructor \/ Destructor \/ Exit
    PROVE  IInv'
  <1>1. /\ pc = "run" /\ pc' \in {"run", "done"} /\ phase' \in {"init", "main", "final"}
        /\ heap' = heap /\ call' = call /\ scratch' = scratch
        /\ trace_flag' \in BOOLEAN
    BY DEF IInv, TypeOK, Constructor, Destructor, Exit
  <1>2. tool \in ToolState /\ tool.queue = <<>> /\ scratch = {}
    BY <1>1 DEF IInv, TypeOK, AtPlace
  <1>3. SameRows(tool, tool') /\ tool'.queue = <<>>
    BY <1>2, OutputEffect, SameRowsRefl DEF IInv, Constructor, Destructor, Exit
  <1>4. TypeOK'
    BY <1>1, <1>3 DEF IInv, TypeOK, SameRows
  <1>5. RowsMatch' /\ BlocksAreDisjoint'
    <2>1. \A b \in DOMAIN heap : Unlisted(b)' <=> Unlisted(b)
      BY <1>1 DEF Unlisted
    <2> QED BY <1>1, <1>3, <2>1, QuietRows
  <1>6. AtPlace'
    BY <1>1, <1>2, <1>3 DEF AtPlace
  <1> QED
    BY <1>4, <1>5, <1>6 DEF IInv, RowsMatch

(* An access of the application keeps the invariant.                        *)
LEMMA AppAccessInv ==
    ASSUME IInv, NEW c, AppAccess(c)
    PROVE  IInv'
  <1>1. /\ pc = "run" /\ tool \in ToolState /\ tool.queue = <<>>
        /\ UNCHANGED <<heap, phase, pc, call, scratch, trace_flag>>
        /\ tool' = RecordMem(tool, c)
    BY DEF IInv, TypeOK, AtPlace, AppAccess
  <1>2. SameRows(tool, tool') /\ tool'.queue = <<>>
    BY <1>1, RecordMemEffect
  <1>3. TypeOK'
    BY <1>1, <1>2 DEF IInv, TypeOK, SameRows
  <1>4. RowsMatch' /\ BlocksAreDisjoint'
    <2>1. \A b \in DOMAIN heap : Unlisted(b)' <=> Unlisted(b)
      BY <1>1 DEF Unlisted
    <2> QED BY <1>1, <1>2, <2>1, QuietRows
  <1>5. AtPlace'
    BY <1>1, <1>2 DEF IInv, AtPlace
  <1> QED
    BY <1>3, <1>4, <1>5 DEF IInv, RowsMatch

(* An access of the library with no message waiting keeps it.               *)
LEMMA LibAccessInv ==
    ASSUME IInv, NEW c, LibAccess(c), pc # "sent"
    PROVE  IInv'
  <1>1. /\ tool \in ToolState /\ tool.queue = <<>>
        /\ UNCHANGED <<heap, phase, pc, call, scratch, trace_flag>>
        /\ tool' = RecordMem(tool, c)
    BY DEF IInv, TypeOK, AtPlace, LibAccess
  <1>2. SameRows(tool, tool') /\ tool'.queue = <<>>
        /\ tool'.in_alloc = tool.in_alloc
    BY <1>1, RecordMemEffect
  <1>3. TypeOK'
    BY <1>1, <1>2 DEF IInv, TypeOK, SameRows
  <1>4. RowsMatch' /\ BlocksAreDisjoint'
    <2>1. \A b \in DOMAIN heap : Unlisted(b)' <=> Unlisted(b)
      BY <1>1 DEF Unlisted
    <2> QED BY <1>1, <1>2, <2>1, QuietRows
  <1>5. AtPlace'
    BY <1>1, <1>2 DEF IInv, AtPlace, IsNewBlock, ScratchOK, Request
  <1> QED
    BY <1>3, <1>4, <1>5 DEF IInv, RowsMatch

(* Announcing the block keeps the invariant: its message awaits the poll.   *)
LEMMA SendInv ==
    ASSUME IInv, Send
    PROVE  IInv'
  <1> DEFINE p == call.ptr
             n == Request(call)
             m == [addr |-> p, size |-> n]
  <1>1. /\ pc = "found" /\ pc' = "sent" /\ tool.queue = <<>>
        /\ tool \in ToolState /\ tool.in_alloc = 1 /\ HeapOK(heap)
        /\ p \in DOMAIN heap /\ heap[p].size = n /\ n > 0 /\ ~heap[p].traced
        /\ p \in Nat /\ n \in Nat
        /\ ScratchOK
        /\ UNCHANGED <<phase, call, scratch, trace_flag>>
    BY RequestType, CellFacts
       DEF IInv, TypeOK, HeapOK, AtPlace, IsNewBlock, Send, Call
  <1>2. /\ tool' \in ToolState /\ tool'.queue = <<m>>
        /\ tool'.objs = tool.objs /\ tool'.in_alloc = 1
    <2>1. m \in Message
      BY <1>1 DEF Message
    <2>2. tool' = [tool EXCEPT !.queue = Append(tool.queue, m)]
      BY DEF Send, Announce
    <2>3. Append(tool.queue, m) = <<m>> /\ <<m>> \in Seq(Message)
      <3> HIDE DEF m
      <3> QED BY <1>1, <2>1
    <2> HIDE DEF m
    <2> QED BY <1>1, <2>2, <2>3 DEF ToolState
  <1>3. /\ HeapOK(heap') /\ DOMAIN heap' = DOMAIN heap
        /\ heap'[p].size = n /\ heap'[p].traced
        /\ \A b \in DOMAIN heap \ {p} : heap'[b] = heap[b]
    <2>1. heap' = [b \in DOMAIN heap |->
                     IF b = p THEN [heap[b] EXCEPT !.traced = TRUE] ELSE heap[b]]
      BY DEF Send
    <2>2. \A b \in DOMAIN heap : heap[b] \in Block
      BY <1>1 DEF HeapOK
    <2> QED BY <1>1, <2>1, <2>2 DEF HeapOK, Block
  <1>4. ~HasRow(p)
    <2> SUFFICES ASSUME NEW i \in DOMAIN tool.objs, tool.objs[i].addr = p
                 PROVE  FALSE
      BY DEF HasRow
    <2>1. RowOK(heap, tool.objs[i])
      BY DEF IInv, RowsAreBlocks
    <2> QED BY <1>1, <2>1, RowAddresses DEF IInv, RowOK
  <1>5. TypeOK'
    BY <1>1, <1>2, <1>3 DEF IInv, TypeOK, HeapOK
  <1>6. RowsAreBlocks'
    <2> SUFFICES ASSUME NEW i \in DOMAIN tool.objs
                 PROVE  RowOK(heap', tool.objs[i])
      BY <1>2 DEF RowsAreBlocks
    <2>1. RowOK(heap, tool.objs[i]) /\ tool.objs[i].addr # p
      BY <1>4 DEF IInv, RowsAreBlocks, HasRow
    <2> QED BY <1>3, <2>1 DEF RowOK
  <1>7. BlocksHaveRows'
    <2> SUFFICES ASSUME NEW b \in DOMAIN heap, heap'[b].traced
                 PROVE  HasRow(b)' <=> ~Unlisted(b)'
      BY <1>3 DEF BlocksHaveRows
    <2>1. HasRow(b)' <=> HasRow(b)
      BY <1>2 DEF HasRow
    <2>2. Unlisted(b)' <=> b = p
      BY <1>1 DEF Unlisted
    <2>3. CASE b = p
      BY <1>4, <2>1, <2>2, <2>3
    <2>4. CASE b # p
      <3>1. heap[b].traced /\ ~Unlisted(b)
        BY <1>1, <1>3, <2>4 DEF Unlisted
      <3> QED BY <2>1, <2>2, <2>4, <3>1 DEF IInv, BlocksHaveRows
    <2> QED BY <2>3, <2>4
  <1>8. RowsDiffer'
    BY <1>2 DEF IInv, RowsDiffer
  <1>9. BlocksAreDisjoint'
    <2>1. \A b \in DOMAIN heap : heap'[b].size = heap[b].size
      BY <1>1, <1>3
    <2> QED BY <1>3, <2>1 DEF IInv, BlocksAreDisjoint, Disjoint
  <1>10. AtPlace'
    <2>1. call' = call /\ Request(call') = n
      BY <1>1
    <2>2. ScratchOK'
      BY <1>1, <1>3 DEF ScratchOK
    <2>3. IsNewBlock(call.ptr)' /\ (heap[call.ptr].traced)'
      BY <1>1, <1>3, <2>1 DEF IsNewBlock
    <2>4. tool'.queue = <<[addr |-> call'.ptr, size |-> Request(call')]>>
      BY <1>2, <2>1
    <2> QED BY <1>1, <1>2, <2>2, <2>3, <2>4 DEF AtPlace
  <1> QED
    BY <1>5, <1>6, <1>7, <1>8, <1>9, <1>10 DEF IInv

(* The poll that registers the announced block keeps the invariant.         *)
LEMMA DeliverInv ==
    ASSUME IInv, NEW c, LibAccess(c), pc = "sent"
    PROVE  IInv'
  <1> DEFINE p == call.ptr
             n == Request(call)
             k == Len(tool.objs) + 1
  <1>1. /\ pc' = "close" /\ tool \in ToolState /\ tool.in_alloc = 1
        /\ tool.queue = <<[addr |-> p, size |-> n]>>
        /\ p \in DOMAIN heap /\ heap[p].size = n /\ n > 0 /\ heap[p].traced
        /\ p \in Nat /\ n \in Nat
        /\ ScratchOK
        /\ UNCHANGED <<heap, phase, call, scratch, trace_flag>>
        /\ tool' = RecordMem(tool, c)
    BY RequestType, CellFacts
       DEF IInv, TypeOK, AtPlace, IsNewBlock, LibAccess, Call
  <1>2. /\ tool' \in ToolState /\ tool'.queue = <<>>
        /\ DOMAIN tool'.objs = DOMAIN tool.objs \cup {k}
        /\ k \notin DOMAIN tool.objs
        /\ tool'.objs[k].addr = p /\ tool'.objs[k].size = n
        /\ \A i \in DOMAIN tool.objs : /\ tool'.objs[i].addr = tool.objs[i].addr
                                       /\ tool'.objs[i].size = tool.objs[i].size
    <2> HIDE DEF p, n
    <2> QED BY <1>1, DeliverEffect
  <1> HIDE DEF k
  <1>3. ~HasRow(p)
    <2>1. Unlisted(p)
      BY DEF Unlisted
    <2> QED BY <1>1, <2>1 DEF IInv, BlocksHaveRows
  <1>4. TypeOK'
    BY <1>1, <1>2 DEF IInv, TypeOK
  <1>5. RowsAreBlocks'
    <2> SUFFICES ASSUME NEW i \in DOMAIN tool'.objs
                 PROVE  RowOK(heap, tool'.objs[i])
      BY <1>1 DEF RowsAreBlocks
    <2>1. CASE i = k
      BY <1>1, <1>2, <2>1 DEF RowOK
    <2>2. CASE i \in DOMAIN tool.objs
      BY <1>2, <2>2 DEF IInv, RowsAreBlocks, RowOK
    <2> QED BY <1>2, <2>1, <2>2
  <1>6. \A b : HasRow(b)' <=> HasRow(b) \/ b = p
    BY <1>2 DEF HasRow
  <1>7. BlocksHaveRows'
    <2> SUFFICES ASSUME NEW b \in DOMAIN heap, heap[b].traced
                 PROVE  HasRow(b)' /\ ~Unlisted(b)'
      BY <1>1 DEF BlocksHaveRows
    <2>1. ~Unlisted(b)' /\ (Unlisted(b) <=> b = p)
      BY <1>1 DEF Unlisted
    <2> QED BY <1>6, <2>1 DEF IInv, BlocksHaveRows
  <1>8. RowsDiffer'
    <2> SUFFICES ASSUME NEW i \in DOMAIN tool'.objs, NEW j \in DOMAIN tool'.objs,
                        i # j, tool'.objs[i].addr >= 0
                 PROVE  tool'.objs[i].addr # tool'.objs[j].addr
      BY DEF RowsDiffer
    <2>1. CASE i = k
      <3>1. j \in DOMAIN tool.objs
        BY <1>2, <2>1
      <3> QED BY <1>2, <1>3, <2>1, <3>1 DEF HasRow
    <2>2. CASE j = k
      <3>1. i \in DOMAIN tool.objs
        BY <1>2, <2>2
      <3> QED BY <1>2, <1>3, <2>2, <3>1 DEF HasRow
    <2>3. CASE i # k /\ j # k
      <3>1. i \in DOMAIN tool.objs /\ j \in DOMAIN tool.objs
        BY <1>2, <2>3
      <3> QED BY <1>2, <3>1 DEF IInv, RowsDiffer
    <2> QED BY <2>1, <2>2, <2>3
  <1>9. BlocksAreDisjoint'
    BY <1>1 DEF IInv, BlocksAreDisjoint
  <1>10. AtPlace'
    <2>1. ScratchOK'
      BY <1>1 DEF ScratchOK
    <2> QED BY <1>1, <1>2, <2>1 DEF AtPlace
  <1> QED
    BY <1>4, <1>5, <1>7, <1>8, <1>9, <1>10 DEF IInv

(* The library's own blocks are never announced.                            *)
LEMMA ScratchHasNoRow ==
    ASSUME IInv, pc = "close"
    PROVE  \A b \in scratch : ~HasRow(b)
  <1>1. ScratchOK
    BY DEF IInv, AtPlace
  <1> SUFFICES ASSUME NEW i \in DOMAIN tool.objs, tool.objs[i].addr \in scratch
               PROVE  FALSE
    BY DEF HasRow
  <1>2. RowOK(heap, tool.objs[i])
    BY DEF IInv, RowsAreBlocks
  <1>3. tool.objs[i].addr \in Nat
    BY CellFacts DEF IInv, TypeOK
  <1> QED
    BY <1>1, <1>2, <1>3, RowAddresses DEF IInv, RowOK, ScratchOK

(* So releasing them retires nothing.                                       *)
LEMMA CloseTool ==
    ASSUME IInv, Close
    PROVE  tool' = tool
  <1> DEFINE F(i) == IF tool.objs[i].addr \in scratch
                     THEN [Retire(tool.objs[i]) EXCEPT !.ended = TRUE]
                     ELSE tool.objs[i]
  <1>1. tool \in ToolState /\ tool.objs \in Seq(Object)
    BY DEF IInv, TypeOK, ToolState
  <1>2. \A i \in DOMAIN tool.objs : F(i) = tool.objs[i]
    BY ScratchHasNoRow DEF Close, HasRow
  <1>3. tool' = [tool EXCEPT !.objs = [i \in DOMAIN tool.objs |-> F(i)]]
    BY DEF Close
  <1> HIDE DEF F
  <1>4. [i \in DOMAIN tool.objs |-> F(i)] = tool.objs
    BY <1>1, <1>2
  <1> QED
    BY <1>1, <1>3, <1>4 DEF ToolState

(* Releasing the library's own blocks keeps the invariant.                  *)
LEMMA CloseInv ==
    ASSUME IInv, Close
    PROVE  IInv'
  <1>1. /\ pc = "close" /\ pc' = "run" /\ tool \in ToolState
        /\ tool.queue = <<>> /\ HeapOK(heap) /\ ScratchOK
        /\ heap' = RemoveBlocks(heap, scratch) /\ phase' = phase
        /\ scratch' = {} /\ trace_flag' = FALSE /\ call' \in Call
    BY DEF IInv, TypeOK, HeapOK, AtPlace, Close, Return, NoCall, Call
  <1>2. \A b \in scratch : ~HasRow(b)
    BY ScratchHasNoRow DEF Close
  <1>3. tool' = tool
    BY CloseTool
  <1>4. /\ HeapOK(heap') /\ DOMAIN heap' = DOMAIN heap \ scratch
        /\ \A b \in DOMAIN heap' : heap'[b] = heap[b]
    <2> DEFINE g == RemoveBlocks(heap, scratch)
    <2>1. /\ HeapOK(g) /\ DOMAIN g = DOMAIN heap \ scratch
          /\ \A b \in DOMAIN g : g[b] = heap[b]
      BY <1>1, RemoveBlocksFacts
    <2>2. heap' = g
      BY <1>1
    <2> HIDE DEF g
    <2> QED BY <2>1, <2>2
  <1>5. TypeOK'
    BY <1>1, <1>3, <1>4 DEF IInv, TypeOK, HeapOK
  <1>6. RowsMatch'
    <2>1. TracedKept(scratch)
      BY <1>4 DEF TracedKept
    <2>2. \A b \in DOMAIN heap' : heap'[b].traced => (Unlisted(b)' <=> Unlisted(b))
      BY <1>1 DEF Unlisted
    <2>3. SameRows(tool, tool')
      BY <1>3, SameRowsRefl DEF IInv
    <2> QED BY <1>2, <2>1, <2>2, <2>3, RowsStay DEF IInv, RowsMatch
  <1>7. BlocksAreDisjoint'
    BY <1>1, DisjointRemove DEF IInv, BlocksAreDisjoint
  <1>8. AtPlace'
    BY <1>1, <1>3 DEF AtPlace
  <1> QED
    BY <1>5, <1>6, <1>7, <1>8 DEF IInv, RowsMatch

(* Address 0 names no block.                                                *)
LEMMA NoRemoval ==
    ASSUME NEW h, HeapOK(h)
    PROVE  RemoveBlocks(h, {0}) = h
  <1>1. 0 \notin DOMAIN h
    BY CellFacts DEF HeapOK
  <1> QED
    BY <1>1 DEF RemoveBlocks, HeapOK

(* A cell that is free can hold a block of one cell.                        *)
LEMMA AddCell ==
    ASSUME NEW h, HeapOK(h), Disjoint(h), NEW p \in ScratchCells,
           p \notin Occupied(h)
    PROVE  LET g == AddBlock(h, p, 1)
           IN  /\ Replaced(h, g, 0, p, 1)
               /\ Disjoint(g)
               /\ p \notin DOMAIN h
  <1> DEFINE g == AddBlock(h, p, 1)
  <1>1. RemoveBlocks(h, {0}) = h
    BY NoRemoval
  <1>2. Replaced(h, g, 0, p, 1)
    BY <1>1, AddBlockFacts
  <1>3. Extent(p, 1) = {p}
    BY CellFacts DEF Extent
  <1>4. Extent(p, 1) \cap Occupied(RemoveBlocks(h, {0})) = {}
    BY <1>1, <1>3
  <1> HIDE DEF g
  <1>5. Disjoint(g) /\ p \notin DOMAIN h \ {0}
    BY <1>2, <1>4, DisjointReplaced
  <1>6. 0 \notin DOMAIN h
    BY CellFacts DEF HeapOK
  <1> QED
    BY <1>2, <1>5, <1>6 DEF g

(* Four entries of malloc leave the table alone while the queue is empty.   *)
LEMMA HookOpenTool ==
    ASSUME tool \in ToolState, tool.queue = <<>>, HookOpen
    PROVE  /\ tool' \in ToolState /\ tool'.objs = tool.objs
           /\ tool'.queue = <<>> /\ tool'.in_alloc = 1
  <1> DEFINE t1 == MallocBefore(tool, 1)
             t2 == MallocBefore(t1, 1)
             t3 == MallocBefore(t2, 1)
             t4 == MallocBefore(t3, 1)
  <1>1. t1 \in ToolState /\ t1.objs = tool.objs /\ t1.queue = <<>>
    BY MallocBeforeEffect
  <1>2. t2 \in ToolState /\ t2.objs = t1.objs /\ t2.queue = <<>>
    <2> HIDE DEF t1
    <2> QED BY <1>1, MallocBeforeEffect
  <1>3. t3 \in ToolState /\ t3.objs = t2.objs /\ t3.queue = <<>>
    <2> HIDE DEF t2
    <2> QED BY <1>2, MallocBeforeEffect
  <1>4. t4 \in ToolState /\ t4.objs = t3.objs /\ t4.queue = <<>> /\ t4.in_alloc = 1
    <2> HIDE DEF t3
    <2> QED BY <1>3, MallocBeforeEffect
  <1>5. tool' = t4
    BY DEF HookOpen
  <1> HIDE DEF t1, t2, t3, t4
  <1> QED BY <1>1, <1>2, <1>3, <1>4, <1>5

(* The library's own allocations during a lookup keep the invariant.        *)
LEMMA HookOpenInv ==
    ASSUME IInv, HookOpen
    PROVE  IInv'
  <1>1. /\ pc = "hook" /\ pc' = "look" /\ tool \in ToolState
        /\ tool.queue = <<>> /\ HeapOK(heap) /\ Disjoint(heap)
        /\ IsNewBlock(call.ptr) /\ ~heap[call.ptr].traced
        /\ trace_flag' = TRUE /\ phase' = phase /\ call' = call
    BY DEF IInv, TypeOK, HeapOK, BlocksAreDisjoint, AtPlace, HookOpen
  <1>2. PICK p, q \in {b \in ScratchCells : b \notin Occupied(heap)} :
          /\ p # q
          /\ heap' = AddBlock(AddBlock(heap, p, 1), q, 1)
          /\ scratch' = {p, q}
    BY DEF HookOpen
  <1> DEFINE g == AddBlock(heap, p, 1)
  <1>3. Replaced(heap, g, 0, p, 1) /\ Disjoint(g) /\ p \notin DOMAIN heap
    BY <1>1, <1>2, AddCell
  <1> HIDE DEF g
  <1>4. 0 \notin DOMAIN heap
    BY <1>1, CellFacts DEF HeapOK
  <1>5. /\ HeapOK(g) /\ DOMAIN g = DOMAIN heap \cup {p}
        /\ g[p].size = 1 /\ ~g[p].traced
        /\ \A b \in DOMAIN heap : g[b] = heap[b]
    BY <1>3, <1>4 DEF Replaced
  <1>6. q \notin Occupied(g)
    <2> SUFFICES ASSUME NEW b \in DOMAIN g, q \in Extent(b, g[b].size)
                 PROVE  FALSE
      BY DEF Occupied
    <2>1. CASE b = p
      <3>1. p \in Nat /\ q \in Nat
        BY <1>2, CellFacts
      <3>2. q \in Extent(p, 1)
        BY <1>5, <2>1
      <3> QED BY <1>2, <3>1, <3>2 DEF Extent
    <2>2. CASE b \in DOMAIN heap
      BY <1>2, <1>5, <2>2 DEF Occupied
    <2> QED BY <1>5, <2>1, <2>2
  <1>7. /\ Replaced(g, heap', 0, q, 1) /\ Disjoint(heap') /\ q \notin DOMAIN g
    BY <1>2, <1>3, <1>5, <1>6, AddCell DEF g
  <1>8. 0 \notin DOMAIN g
    BY <1>5, CellFacts DEF HeapOK
  <1>9. /\ HeapOK(heap') /\ DOMAIN heap' = DOMAIN heap \cup {p, q}
        /\ ~heap'[p].traced /\ ~heap'[q].traced
        /\ \A b \in DOMAIN heap : heap'[b] = heap[b]
    BY <1>3, <1>5, <1>7, <1>8 DEF Replaced
  <1>10. /\ tool' \in ToolState /\ tool'.objs = tool.objs
         /\ tool'.queue = <<>> /\ tool'.in_alloc = 1
    BY <1>1, HookOpenTool
  <1>11. TypeOK'
    BY <1>1, <1>2, <1>9, <1>10 DEF IInv, TypeOK, HeapOK
  <1>12. RowsMatch'
    <2>1. TracedKept({})
      BY <1>9 DEF TracedKept
    <2>2. SameRows(tool, tool')
      BY <1>10 DEF SameRows
    <2>3. \A b \in DOMAIN heap' : heap'[b].traced => (Unlisted(b)' <=> Unlisted(b))
      BY <1>1 DEF Unlisted
    <2> QED BY <2>1, <2>2, <2>3, RowsStay DEF IInv, RowsMatch
  <1>13. BlocksAreDisjoint'
    BY <1>7 DEF BlocksAreDisjoint
  <1>14. AtPlace'
    <2>1. IsNewBlock(call.ptr)' /\ ~(heap[call.ptr].traced)'
      BY <1>1, <1>9 DEF IsNewBlock
    <2>2. ScratchOK'
      BY <1>1, <1>2, <1>3, <1>5, <1>7, <1>9 DEF ScratchOK, IsNewBlock
    <2> QED BY <1>1, <1>10, <2>1, <2>2 DEF AtPlace
  <1> QED
    BY <1>11, <1>12, <1>13, <1>14 DEF IInv, RowsMatch

-----------------------------------------------------------------------------
(* The theorems.                                                            *)

(* Every step of the slow pass keeps the invariant.                         *)
LEMMA NextInv ==
    ASSUME IInv, [Next]_vars
    PROVE  IInv'
  <1>1. CASE LibStep
    <2>1. CASE RealAlloc
      BY <2>1, RealAllocInv
    <2>2. CASE RealReallocToNothing
      BY <2>2, RealReallocToNothingInv
    <2>3. CASE HookSkip
      BY <2>3, HookSkipInv
    <2>4. CASE HookOpen
      BY <2>4, HookOpenInv
    <2>5. CASE NotSelected \/ Selected
      BY <2>5, LookInv
    <2>6. CASE Send
      BY <2>6, SendInv
    <2>7. CASE Close
      BY <2>7, CloseInv
    <2>8. CASE RealFree
      BY <2>8, RealFreeInv
    <2>9. ASSUME NEW c \in Addresses, LibAccess(c)
          PROVE  IInv'
      BY <2>9, DeliverInv, LibAccessInv
    <2> QED BY <1>1, <2>1, <2>2, <2>3, <2>4, <2>5, <2>6, <2>7, <2>8, <2>9
           DEF LibStep, CallStep
  <1>2. CASE AppStep
    <2>1. ASSUME NEW n \in Sizes, MallocEnter(n)
          PROVE  IInv'
      <3>1. n \in Nat
        BY SizesAssumption
      <3>2. MallocCall(n) \in Call /\ MallocCall(n).op = "malloc" /\ MallocCall(n).old = 0
        BY <3>1 DEF MallocCall, Call
      <3> QED BY <2>1, <3>2, EnterInv DEF MallocEnter
    <2>2. ASSUME NEW m \in Counts, NEW n \in Sizes, CallocEnter(m, n)
          PROVE  IInv'
      <3>1. m \in Nat /\ n \in Nat
        BY CountsAssumption, SizesAssumption
      <3>2. /\ CallocCall(m, n) \in Call /\ CallocCall(m, n).op = "calloc"
            /\ CallocCall(m, n).old = 0
        BY <3>1 DEF CallocCall, Call
      <3> QED BY <2>2, <3>2, EnterInv DEF CallocEnter
    <2>3. ASSUME NEW var \in Cells \cup {0}, NEW n \in Sizes, ReallocEnter(var, n)
          PROVE  IInv'
      <3>1. n \in Nat /\ var \in Nat
        BY SizesAssumption, CellFacts
      <3>2. /\ ReallocCall(var, n) \in Call /\ ReallocCall(var, n).op = "realloc"
            /\ ReallocCall(var, n).old = var
        BY <3>1 DEF ReallocCall, Call
      <3> QED BY <2>3, <3>2, EnterInv DEF ReallocEnter
    <2>4. ASSUME NEW p \in Cells \cup {0}, FreeEnter(p)
          PROVE  IInv'
      BY <2>4, FreeEnterInv, CellFacts
    <2>5. ASSUME NEW c \in Addresses, AppAccess(c)
          PROVE  IInv'
      BY <2>5, AppAccessInv
    <2>6. CASE Constructor \/ Destructor \/ Exit
      BY <2>6, PhaseInv
    <2>7. CASE Start
      BY <2>7, StartInv
    <2> QED BY <1>2, <2>1, <2>2, <2>3, <2>4, <2>5, <2>6, <2>7
           DEF AppStep, EnterStep
  <1>3. CASE UNCHANGED vars
    <2>1. /\ tool' = tool /\ heap' = heap /\ phase' = phase /\ pc' = pc
          /\ call' = call /\ scratch' = scratch /\ trace_flag' = trace_flag
      BY <1>3 DEF vars
    <2>2. TypeOK'
      BY <2>1 DEF IInv, TypeOK
    <2>3. RowsMatch' /\ BlocksAreDisjoint'
      <3>1. \A b \in DOMAIN heap : Unlisted(b)' <=> Unlisted(b)
        BY <2>1 DEF Unlisted
      <3> QED BY <2>1, <3>1, QuietRows, SameRowsRefl DEF IInv
    <2>4. AtPlace'
      BY <2>1 DEF IInv, AtPlace, IsNewBlock, ScratchOK
    <2> QED BY <2>2, <2>3, <2>4 DEF IInv, RowsMatch
  <1> QED
    BY <1>1, <1>2, <1>3 DEF Next

(* The correspondence between live announced blocks and rows of the tool's  *)
(* table is kept by every step of the slow pass.                            *)
THEOREM Invariance == Spec => []IInv
  <1>1. Init => IInv
    BY InitInv
  <1>2. IInv /\ [Next]_vars => IInv'
    BY NextInv
  <1> QED
    BY <1>1, <1>2, PTL DEF Spec

(* Type correctness.                                                        *)
THEOREM TypeCorrectness == Spec => []TypeOK
  <1>1. IInv => TypeOK
    BY DEF IInv
  <1> QED
    BY <1>1, Invariance, PTL

(* The object credited with an access is always the live announced block    *)
(* that contains the address.                                               *)
THEOREM OwnersAreLive == Spec => []NoStaleOwner
  <1>1. ASSUME IInv
        PROVE  NoStaleOwner
    <2> SUFFICES ASSUME NEW c \in Addresses, NEW i \in DOMAIN tool.objs,
                        IsOwner(tool, c, i)
                 PROVE  LET o == tool.objs[i]
                        IN  /\ o.addr \in DOMAIN heap
                            /\ heap[o.addr].traced
                            /\ heap[o.addr].size = o.size
                            /\ c \in Extent(o.addr, o.size)
      BY DEF NoStaleOwner
    <2> DEFINE o == tool.objs[i]
    <2>1. c \in Nat \ {0}
      BY CellFacts
    <2>2. o.addr <= c /\ c < o.addr + o.size
      BY DEF IsOwner, Covers
    <2>3. RowOK(heap, o) /\ o.size \in Nat \ {0} /\ o.addr \in Int
      BY <1>1, RowAddresses DEF IInv, RowsAreBlocks
    <2> HIDE DEF o
    <2>4. o.addr # -o.size
      BY <2>1, <2>2, <2>3
    <2>5. o.addr \in DOMAIN heap /\ heap[o.addr].traced /\ heap[o.addr].size = o.size
      BY <2>3, <2>4 DEF RowOK
    <2>6. c \in Extent(o.addr, o.size)
      BY <2>1, <2>2, <2>3 DEF Extent
    <2> QED BY <2>5, <2>6 DEF o
  <1> QED
    BY <1>1, Invariance, PTL

(* The queue is empty but for the hand-over of one message.                 *)
THEOREM HandOver == Spec => []QueueIsHandOver
  <1>1. ASSUME IInv
        PROVE  QueueIsHandOver
    <2>1. CASE pc = "sent"
      <3>1. tool.queue = <<[addr |-> call.ptr, size |-> Request(call)]>>
        BY <1>1, <2>1 DEF IInv, AtPlace
      <3> QED BY <2>1, <3>1 DEF QueueIsHandOver
    <2>2. CASE pc # "sent"
      BY <1>1, <2>2 DEF IInv, AtPlace, QueueIsHandOver
    <2> QED BY <2>1, <2>2
  <1> QED
    BY <1>1, Invariance, PTL

(* No access of the application to an announced block goes uncredited.      *)
THEOREM NoAccessMissed == Spec => []AnnouncedBlocksAreRegistered
  <1>1. ASSUME IInv
        PROVE  AnnouncedBlocksAreRegistered
    <2> SUFFICES ASSUME pc = "run", NEW b \in DOMAIN heap, heap[b].traced,
                        NEW c \in Extent(b, heap[b].size)
                 PROVE  \E i \in DOMAIN tool.objs : IsOwner(tool, c, i)
      BY DEF AnnouncedBlocksAreRegistered
    <2>1. PICK i \in DOMAIN tool.objs : tool.objs[i].addr = b
      BY <1>1 DEF IInv, BlocksHaveRows, Unlisted, HasRow
    <2>2. b \in Nat \ {0} /\ heap[b].size \in Nat
      BY <1>1, CellFacts DEF IInv, TypeOK, Block
    <2>3. tool.objs[i].size = heap[b].size /\ heap[b].size > 0
      BY <1>1, <2>1, <2>2, RowAddresses DEF IInv, RowsAreBlocks, RowOK
    <2>4. c \in Nat \ {0} /\ b <= c /\ c < b + heap[b].size
      BY <2>2, <2>3 DEF Extent
    <2>5. Covers(tool.objs[i], c)
      BY <2>1, <2>3, <2>4 DEF Covers
    <2>6. ASSUME NEW j \in DOMAIN tool.objs, j < i, Covers(tool.objs[j], c)
          PROVE  FALSE
      <3> DEFINE o == tool.objs[j]
                 d == o.addr
      <3>1. o.size \in Nat \ {0} /\ d \in Int /\ RowOK(heap, o)
        BY <1>1, RowAddresses DEF IInv, RowsAreBlocks
      <3>2. d <= c /\ c < d + o.size
        BY <2>6 DEF Covers
      <3> HIDE DEF o
      <3>3. d \in DOMAIN heap /\ heap[d].size = o.size
        BY <2>4, <3>1, <3>2 DEF RowOK
      <3>4. c \in Extent(d, heap[d].size)
        BY <2>4, <3>1, <3>2, <3>3 DEF Extent
      <3>5. d = b
        <4> HIDE DEF d
        <4> QED BY <1>1, <3>3, <3>4 DEF IInv, BlocksAreDisjoint, Disjoint
      <3>6. i \in Int /\ j \in Int /\ i # j
        <4>1. tool.objs \in Seq(Object)
          BY <1>1 DEF IInv, TypeOK, ToolState
        <4>2. DOMAIN tool.objs = 1 .. Len(tool.objs) /\ Len(tool.objs) \in Nat
          BY <4>1
        <4> QED BY <2>6, <4>2
      <3> QED BY <1>1, <2>1, <2>2, <3>5, <3>6 DEF IInv, RowsDiffer, o
    <2> QED BY <2>5, <2>6 DEF IsOwner
  <1> QED
    BY <1>1, Invariance, PTL

-----------------------------------------------------------------------------
(***************************************************************************)
(* 3. Rows are only retired by the release of their block, and the slow    *)
(* pass implements TrackedHeap.                                            *)
(***************************************************************************)

(* A row is marked freed when its range has moved below address 0, all      *)
(* blocks but the library's own lie in the application's cells, and a call  *)
(* in libc has no result yet.                                               *)
RetiredRowsAreMarked ==
    \A i \in DOMAIN tool.objs :
        tool.objs[i].freed <=> tool.objs[i].addr < 0

BlocksInCells == DOMAIN heap \subseteq Cells \cup scratch

PInv ==
    /\ IInv
    /\ RetiredRowsAreMarked
    /\ BlocksInCells
    /\ pc = "libc" => call.ptr = 0

-----------------------------------------------------------------------------
(* What the steps do to the rows and to what the promise sees.              *)

(* The application enters a call that releases a block, or none.            *)
Releasing ==
    /\ pc = "run" /\ pc' \in {"libc", "freep"}
    /\ call'.old \in (DOMAIN heap \cap Cells) \cup {0}
    /\ call'.ptr = 0
    /\ UNCHANGED <<heap, scratch>>
    /\ RetiredAt(tool, tool', call'.old) /\ SameMarks(tool, tool')

(* The poll receives the announcement.                                      *)
Receiving(k, c) ==
    /\ pc = "sent" /\ pc' = "close"
    /\ UNCHANGED <<heap, scratch, call>>
    /\ tool' \in ToolState
    /\ DOMAIN tool'.objs = DOMAIN tool.objs \cup {k}
    /\ k \notin DOMAIN tool.objs
    /\ tool'.objs[k].addr = call.ptr /\ tool'.objs[k].size = heap[call.ptr].size
    /\ ~tool'.objs[k].freed
    /\ tool'.objs[k].accessed => Covers(tool'.objs[k], c)
    /\ \A i \in DOMAIN tool.objs :
         /\ tool'.objs[i].addr = tool.objs[i].addr
         /\ tool'.objs[i].size = tool.objs[i].size
         /\ tool'.objs[i].freed = tool.objs[i].freed
         /\ \/ tool'.objs[i].accessed = tool.objs[i].accessed
            \/ Covers(tool.objs[i], c)

(* The entry of realloc retires the row at the old address and no other.    *)
LEMMA EnterReleases ==
    ASSUME IInv, NEW c \in Call, c.op \in {"malloc", "calloc", "realloc"},
           c.op # "realloc" => c.old = 0, c.ptr = 0,
           c.old \in (DOMAIN heap \cap Cells) \cup {0}, Enter(c)
    PROVE  Releasing
  <1>1. /\ tool \in ToolState /\ tool.queue = <<>>
        /\ pc = "run" /\ pc' = "libc" /\ call' = c /\ heap' = heap
        /\ scratch' = scratch /\ tool' = EntryRoutine(tool, c)
    BY DEF IInv, TypeOK, AtPlace, Enter
  <1>2. RetiredAt(tool, tool', c.old) /\ SameMarks(tool, tool')
    BY <1>1, NoRowAtZero, EntryEffect
  <1> QED
    BY <1>1, <1>2 DEF Releasing

(* The entry of free retires the row at the address it is given.            *)
LEMMA FreeReleases ==
    ASSUME IInv, NEW p \in Cells \cup {0}, FreeEnter(p)
    PROVE  Releasing
  <1>1. /\ tool \in ToolState
        /\ pc = "run" /\ pc' = "freep" /\ heap' = heap
        /\ scratch' = scratch /\ tool' = FreeBefore(tool, p)
        /\ p \in DOMAIN heap \cup {0} /\ p \in Nat
    BY CellFacts DEF IInv, TypeOK, FreeEnter
  <1>2. call'.old = p /\ call'.ptr = 0
    BY DEF FreeEnter, NoCall
  <1>3. RetiredAt(tool, tool', p) /\ SameMarks(tool, tool')
    BY <1>1, FreeBeforeEffect
  <1> QED
    BY <1>1, <1>2, <1>3 DEF Releasing

(* The access that receives the announcement appends its row.               *)
LEMMA LibAccessReceives ==
    ASSUME IInv, NEW c, LibAccess(c), pc = "sent"
    PROVE  Receiving(Len(tool.objs) + 1, c)
  <1> DEFINE p == call.ptr
             n == Request(call)
  <1>1. /\ pc' = "close" /\ tool \in ToolState /\ tool.in_alloc = 1
        /\ tool.queue = <<[addr |-> p, size |-> n]>>
        /\ p \in Nat /\ n \in Nat /\ n > 0 /\ heap[p].size = n
        /\ UNCHANGED <<heap, call, scratch>>
        /\ tool' = RecordMem(tool, c)
    BY RequestType, CellFacts
       DEF IInv, TypeOK, AtPlace, IsNewBlock, LibAccess, Call
  <1> HIDE DEF p, n
  <1> QED
    BY <1>1, DeliverEffect DEF Receiving, p

(* A step that changes no row at all.                                       *)
KeepingRows == SameRows(tool, tool') /\ SameMarks(tool, tool')

(* The entry of libc's function finds the row of the block already retired. *)
LEMMA LibcKeepsRows ==
    ASSUME IInv, pc \in {"libc", "freep"},
           RetiredAt(tool, tool', call.old), SameMarks(tool, tool')
    PROVE  KeepingRows
  BY OldHasNoRow, NothingRetires DEF KeepingRows

(* Inside the library and libc only the poll changes rows.                  *)
LEMMA CallStepKeepsRows ==
    ASSUME IInv, IInv', CallStep
    PROVE  KeepingRows
  <1>1. tool \in ToolState /\ tool' \in ToolState /\ call \in Call
    BY DEF IInv, TypeOK
  <1>2. ASSUME tool'.objs = tool.objs
        PROVE  KeepingRows
    BY <1>1, <1>2 DEF KeepingRows, SameRows, SameMarks
  <1>3. CASE RealAlloc \/ RealReallocToNothing
    <2>1. /\ pc = "libc" /\ tool.queue = <<>>
          /\ call.op \in {"malloc", "calloc", "realloc"}
          /\ call.op # "realloc" => call.old = 0
          /\ tool' = EntryRoutine(tool, call)
      BY <1>3 DEF IInv, AtPlace, RealAlloc, RealReallocToNothing
    <2>2. RetiredAt(tool, tool', call.old) /\ SameMarks(tool, tool')
      BY <1>1, <2>1, NoRowAtZero, EntryEffect
    <2> QED BY <2>1, <2>2, LibcKeepsRows
  <1>4. CASE RealFree
    <2>1. pc = "freep" /\ tool' = FreeBefore(tool, call.old) /\ call.old \in Nat
      BY <1>1, <1>4 DEF RealFree, Call
    <2>2. RetiredAt(tool, tool', call.old) /\ SameMarks(tool, tool')
      BY <1>1, <2>1, FreeBeforeEffect
    <2> QED BY <2>1, <2>2, LibcKeepsRows
  <1>5. CASE HookOpen
    <2>1. tool.queue = <<>>
      BY <1>5 DEF IInv, AtPlace, HookOpen
    <2> QED BY <1>1, <1>2, <1>5, <2>1, HookOpenTool
  <1>6. CASE Close
    BY <1>2, <1>6, CloseTool
  <1>7. CASE Send
    BY <1>1, <1>2, <1>7 DEF Send, Announce, ToolState
  <1>8. CASE HookSkip \/ NotSelected \/ Selected
    BY <1>2, <1>8 DEF HookSkip, NotSelected, Selected
  <1> QED
    BY <1>3, <1>4, <1>5, <1>6, <1>7, <1>8 DEF CallStep

(* An access that receives nothing credits the owner and changes no row.    *)
LEMMA AccessKeepsRows ==
    ASSUME IInv, NEW c, AppAccess(c) \/ (LibAccess(c) /\ pc # "sent")
    PROVE  SameRows(tool, tool') /\ Credited(tool, tool', c)
  <1>1. tool \in ToolState /\ tool.queue = <<>> /\ tool' = RecordMem(tool, c)
    BY DEF IInv, TypeOK, AtPlace, AppAccess, LibAccess
  <1> QED
    BY <1>1, RecordMemEffect

(* The life cycle of the process changes no row but in a new process.       *)
LEMMA PhaseKeepsRows ==
    ASSUME IInv, IInv', Constructor \/ Destructor \/ Exit
    PROVE  KeepingRows
  <1>1. tool \in ToolState /\ tool' \in ToolState
    BY DEF IInv, TypeOK
  <1>2. CASE Constructor \/ Destructor
    BY <1>1, <1>2 DEF Constructor, Destructor, KeepingRows, SameRows, SameMarks
  <1>3. CASE Exit
    BY <1>1, <1>3, OutputEffect DEF Exit, KeepingRows
  <1> QED
    BY <1>2, <1>3

(* The application's entries into the library release a block or none.      *)
LEMMA EntryReleases ==
    ASSUME IInv, EnterStep, ~(Constructor \/ Destructor \/ Exit \/ Start)
    PROVE  Releasing
  <1>1. ASSUME NEW n \in Sizes, MallocEnter(n)
        PROVE  Releasing
    <2>1. n \in Nat
      BY SizesAssumption
    <2>2. MallocCall(n) \in Call
      BY <2>1 DEF MallocCall, Call
    <2> QED BY <1>1, <2>2, EnterReleases DEF MallocEnter, MallocCall
  <1>2. ASSUME NEW m \in Counts, NEW n \in Sizes, CallocEnter(m, n)
        PROVE  Releasing
    <2>1. m \in Nat /\ n \in Nat
      BY SizesAssumption, CountsAssumption
    <2>2. CallocCall(m, n) \in Call
      BY <2>1 DEF CallocCall, Call
    <2> QED BY <1>2, <2>2, EnterReleases DEF CallocEnter, CallocCall
  <1>3. ASSUME NEW var \in Cells \cup {0}, NEW n \in Sizes, ReallocEnter(var, n)
        PROVE  Releasing
    <2>1. var \in Nat /\ n \in Nat
      BY SizesAssumption, CellFacts
    <2>2. ReallocCall(var, n) \in Call /\ ReallocCall(var, n).old = var
      BY <2>1 DEF ReallocCall, Call
    <2>3. var \in (DOMAIN heap \cap Cells) \cup {0}
      BY <1>3 DEF ReallocEnter
    <2> QED BY <1>3, <2>2, <2>3, EnterReleases DEF ReallocEnter, ReallocCall
  <1> QED
    BY <1>1, <1>2, <1>3, FreeReleases DEF EnterStep

-----------------------------------------------------------------------------
(* Rows are only retired by a release.                                      *)

(* Rows that keep their ranges keep their marks.                            *)
LEMMA MarksKept ==
    ASSUME PInv, SameRows(tool, tool')
    PROVE  RetiredRowsAreMarked'
  BY DEF PInv, RetiredRowsAreMarked, SameRows

(* A release marks the rows that it retires.                                *)
LEMMA MarksReleased ==
    ASSUME PInv, Releasing
    PROVE  RetiredRowsAreMarked'
  <1>1. \A i \in DOMAIN tool.objs : tool.objs[i].size \in Nat \ {0}
    BY RowAddresses DEF PInv, IInv
  <1>2. \A i \in DOMAIN tool.objs : -tool.objs[i].size < 0
    BY <1>1
  <1> QED
    BY <1>2 DEF PInv, RetiredRowsAreMarked, Releasing, RetiredAt

(* Blocks stay within the heap.                                             *)
LEMMA CellsKept ==
    ASSUME PInv, [Next]_vars
    PROVE  BlocksInCells'
  <1>1. /\ IInv /\ HeapOK(heap) /\ call \in Call
        /\ pc \notin {"look", "found", "sent", "close"} => scratch = {}
    BY DEF PInv, IInv, TypeOK, HeapOK, AtPlace
  <1>2. CASE RealAlloc
    <2>1. PICK p \in Results(heap, call) :
             heap' = AddBlock(RemoveBlocks(heap, {call.old}), p, Request(call))
      BY <1>2 DEF RealAlloc
    <2>2. p \in Cells
      BY <1>1, ResultIsFree
    <2>3. DOMAIN heap' \subseteq DOMAIN heap \cup {p} /\ scratch' = scratch
      BY <1>2, <2>1 DEF AddBlock, RemoveBlocks, RealAlloc
    <2> QED BY <2>2, <2>3 DEF PInv, BlocksInCells
  <1>3. CASE HookOpen
    <2>1. PICK p, q \in ScratchCells :
            /\ heap' = AddBlock(AddBlock(heap, p, 1), q, 1)
            /\ scratch' = {p, q}
      BY <1>3 DEF HookOpen
    <2>2. DOMAIN heap' = DOMAIN heap \cup {p, q} /\ scratch = {}
      BY <1>1, <1>3, <2>1 DEF AddBlock, HookOpen
    <2> QED BY <2>1, <2>2 DEF PInv, BlocksInCells
  <1>4. CASE RealReallocToNothing \/ RealFree \/ Close
    <2>1. DOMAIN heap' \subseteq DOMAIN heap
             /\ (scratch' = scratch \/ DOMAIN heap' = DOMAIN heap \ scratch)
      BY <1>4 DEF RealReallocToNothing, RealFree, Close, RemoveBlocks
    <2> QED BY <2>1 DEF PInv, BlocksInCells
  <1>5. CASE HookSkip \/ NotSelected \/ Selected \/ Send
    <2>1. DOMAIN heap' = DOMAIN heap /\ scratch' = scratch
      BY <1>5 DEF HookSkip, NotSelected, Selected, Send
    <2> QED BY <2>1 DEF PInv, BlocksInCells
  <1>6. ASSUME NEW c, LibAccess(c) \/ AppAccess(c)
        PROVE  BlocksInCells'
    BY <1>6 DEF LibAccess, AppAccess, PInv, BlocksInCells
  <1>7. CASE EnterStep
    <2>1. CASE Start
      BY <2>1 DEF Start, BlocksInCells
    <2>2. CASE ~Start
      <3>1. heap' = heap /\ scratch' = scratch
        BY <1>7, <2>2 DEF EnterStep, MallocEnter, CallocEnter, ReallocEnter, Enter,
                          FreeEnter, Constructor, Destructor, Exit
      <3> QED BY <3>1 DEF PInv, BlocksInCells
    <2> QED BY <2>1, <2>2
  <1>8. CASE UNCHANGED vars
    BY <1>8 DEF vars, PInv, BlocksInCells
  <1> QED
    BY <1>2, <1>3, <1>4, <1>5, <1>6, <1>7, <1>8
       DEF Next, LibStep, AppStep, CallStep

(* Every step keeps the invariant and what the refinement adds to it.       *)
LEMMA PNextInv == PInv /\ [Next]_vars => PInv'
  <1> SUFFICES ASSUME PInv, [Next]_vars
               PROVE  PInv'
    OBVIOUS
  <1>1. IInv /\ IInv'
    BY NextInv DEF PInv
  <1>2. RetiredRowsAreMarked'
    <2>1. CASE CallStep
      BY <1>1, <2>1, CallStepKeepsRows, MarksKept DEF KeepingRows
    <2>2. ASSUME NEW c, AppAccess(c) \/ LibAccess(c)
          PROVE  RetiredRowsAreMarked'
      <3>1. CASE LibAccess(c) /\ pc = "sent"
        <4>1. Receiving(Len(tool.objs) + 1, c) /\ call \in Call
          BY <1>1, <3>1, LibAccessReceives DEF IInv, TypeOK
        <4>2. call.ptr \in Nat /\ ~(call.ptr < 0)
          BY <4>1 DEF Call
        <4> QED BY <4>1, <4>2 DEF PInv, RetiredRowsAreMarked, Receiving
      <3>2. CASE ~(LibAccess(c) /\ pc = "sent")
        BY <1>1, <2>2, <3>2, AccessKeepsRows, MarksKept
      <3> QED BY <3>1, <3>2
    <2>3. CASE Constructor \/ Destructor \/ Exit
      BY <1>1, <2>3, PhaseKeepsRows, MarksKept DEF KeepingRows
    <2>4. CASE Start
      <3>1. tool'.objs = <<>>
        BY <2>4 DEF Start, InitTool
      <3> QED BY <3>1 DEF RetiredRowsAreMarked
    <2>5. CASE EnterStep /\ ~(Constructor \/ Destructor \/ Exit \/ Start)
      BY <1>1, <2>5, EntryReleases, MarksReleased
    <2>6. CASE UNCHANGED vars
      BY <2>6 DEF vars, PInv, RetiredRowsAreMarked
    <2> QED BY <2>1, <2>2, <2>3, <2>4, <2>5, <2>6 DEF Next, LibStep, AppStep
  <1>3. pc' = "libc" => call'.ptr = 0
    <2>1. CASE LibStep
      BY <2>1 DEF PInv, LibStep, CallStep, RealAlloc, RealReallocToNothing, HookSkip,
                  HookOpen, NotSelected, Selected, Send, Close, RealFree,
                  LibAccess, Return
    <2>2. CASE AppStep /\ ~EnterStep
      BY <2>2 DEF AppStep, AppAccess, PInv
    <2>3. CASE Constructor \/ Destructor \/ Exit \/ Start
      BY <2>3 DEF Constructor, Destructor, Exit, Start, PInv
    <2>4. CASE EnterStep /\ ~(Constructor \/ Destructor \/ Exit \/ Start)
      BY <1>1, <2>4, EntryReleases DEF Releasing
    <2>5. CASE UNCHANGED vars
      BY <2>5 DEF vars, PInv
    <2> QED BY <2>1, <2>2, <2>3, <2>4, <2>5 DEF Next, AppStep
  <1> QED
    BY <1>1, <1>2, <1>3, CellsKept DEF PInv

(* The invariant with what the refinement adds holds in every reachable     *)
(* state.                                                                   *)
LEMMA PInvariance == Spec => []PInv
  <1>1. Init => PInv
    <2> SUFFICES ASSUME Init
                 PROVE  PInv
      OBVIOUS
    <2>1. tool.objs = <<>> /\ pc = "run" /\ DOMAIN heap = {}
      BY DEF Init, InitTool
    <2> QED BY <2>1, InitInv DEF PInv, RetiredRowsAreMarked, BlocksInCells
  <1>2. PInv /\ [Next]_vars => PInv'
    BY PNextInv
  <1> QED
    BY <1>1, <1>2, PTL DEF Spec

(* What the property says of one step.                                      *)
RowsRetireOnRelease ==
    ~(pc = "done" /\ pc' = "run") =>
      /\ Len(tool'.objs) >= Len(tool.objs)
      /\ \A i \in DOMAIN tool.objs :
           LET o == tool.objs[i]
               n == tool'.objs[i]
           IN  /\ n.size = o.size
               /\ o.freed => n.freed /\ n.addr < 0
               /\ ~o.freed /\ n.freed => pc = "run" /\ call'.old = o.addr

(* A table has as many rows as row numbers.                                 *)
LEMMA TableLength ==
    ASSUME NEW s \in ToolState, NEW t \in ToolState,
           DOMAIN s.objs \subseteq DOMAIN t.objs
    PROVE  Len(t.objs) >= Len(s.objs)
  <1>1. s.objs \in Seq(Object) /\ t.objs \in Seq(Object)
    BY DEF ToolState
  <1>2. /\ DOMAIN s.objs = 1 .. Len(s.objs) /\ Len(s.objs) \in Nat
        /\ DOMAIN t.objs = 1 .. Len(t.objs) /\ Len(t.objs) \in Nat
    BY <1>1
  <1> QED
    BY <1>2

(* A step that retires a row is the entry of free or realloc with its       *)
(* address.                                                                 *)
LEMMA StepRetiresOnRelease ==
    ASSUME PInv, IInv', [Next]_vars
    PROVE  RowsRetireOnRelease
  <1>1. IInv /\ tool \in ToolState /\ tool' \in ToolState
    BY DEF PInv, IInv, TypeOK
  <1>2. ASSUME SameRows(tool, tool')
        PROVE  RowsRetireOnRelease
    <2>1. Len(tool'.objs) >= Len(tool.objs)
      BY <1>1, <1>2, TableLength DEF SameRows
    <2> QED BY <1>2, <2>1 DEF PInv, RetiredRowsAreMarked, SameRows, RowsRetireOnRelease
  <1>3. ASSUME Releasing
        PROVE  RowsRetireOnRelease
    <2>1. Len(tool'.objs) >= Len(tool.objs)
      BY <1>1, <1>3, TableLength DEF Releasing, RetiredAt
    <2>2. \A i \in DOMAIN tool.objs : -tool.objs[i].size < 0
      BY <1>1, RowAddresses DEF IInv
    <2> QED BY <1>3, <2>1, <2>2
            DEF PInv, RetiredRowsAreMarked, Releasing, RetiredAt, RowsRetireOnRelease
  <1>4. ASSUME NEW k, NEW c, Receiving(k, c)
        PROVE  RowsRetireOnRelease
    <2>1. Len(tool'.objs) >= Len(tool.objs)
      BY <1>1, <1>4, TableLength DEF Receiving
    <2> QED BY <1>4, <2>1
            DEF PInv, RetiredRowsAreMarked, Receiving, RowsRetireOnRelease
  <1>5. CASE CallStep
    BY <1>1, <1>2, <1>5, CallStepKeepsRows DEF KeepingRows
  <1>6. ASSUME NEW c, AppAccess(c) \/ LibAccess(c)
        PROVE  RowsRetireOnRelease
    BY <1>1, <1>2, <1>4, <1>6, LibAccessReceives, AccessKeepsRows
  <1>7. CASE Constructor \/ Destructor \/ Exit
    BY <1>1, <1>2, <1>7, PhaseKeepsRows DEF KeepingRows
  <1>8. CASE Start
    BY <1>8 DEF Start, RowsRetireOnRelease
  <1>9. CASE EnterStep /\ ~(Constructor \/ Destructor \/ Exit \/ Start)
    BY <1>1, <1>3, <1>9, EntryReleases
  <1>10. CASE UNCHANGED vars
    BY <1>1, <1>2, <1>10, SameRowsRefl DEF vars, IInv
  <1> QED
    BY <1>5, <1>6, <1>7, <1>8, <1>9, <1>10 DEF Next, LibStep, AppStep

(* Within a process no row is removed, revived or resized, and the step     *)
(* that marks one freed is the entry of free or realloc with its address.   *)
THEOREM RowsOnlyRetire == Spec => RowsOnlyRetireOnRelease
  <1>1. PInv /\ PInv' /\ [Next]_vars => [RowsRetireOnRelease]_vars
    BY StepRetiresOnRelease DEF PInv
  <1>2. Spec => [][RowsRetireOnRelease]_vars
    BY <1>1, PInvariance, PTL DEF Spec
  <1> QED
    BY <1>2 DEF RowsOnlyRetireOnRelease, RowsRetireOnRelease

-----------------------------------------------------------------------------
(* What the promise sees of a step.                                         *)

(* What the promise sees depends on the ranges of the rows alone.           *)
LEMMA SameRowsView ==
    ASSUME SameRows(tool, tool')
    PROVE  /\ Rows' = Rows
           /\ TrackedBlocks' = TrackedBlocks
           /\ ClosedProfiles' = ClosedProfiles
  <1>1. Rows' = Rows
    BY DEF SameRows, Rows, Registered
  <1>2. TrackedBlocks' = TrackedBlocks
    BY <1>1 DEF SameRows, TrackedBlocks, Rows, Registered
  <1>3. ClosedProfiles' = ClosedProfiles
    BY <1>1 DEF SameRows, ClosedProfiles
  <1> QED
    BY <1>1, <1>2, <1>3

(* A step that keeps the rows shows nothing of them to the promise.         *)
LEMMA KeepingRowsView ==
    ASSUME KeepingRows
    PROVE  UNCHANGED <<TrackedBlocks, TouchedBlocks, ClosedProfiles>>
  <1>1. /\ Rows' = Rows /\ TrackedBlocks' = TrackedBlocks
        /\ ClosedProfiles' = ClosedProfiles
    BY SameRowsView DEF KeepingRows
  <1>2. Rows \subseteq DOMAIN tool.objs
    BY DEF Rows, Registered
  <1>3. {j \in Rows' : tool'.objs[j].accessed} = {j \in Rows : tool.objs[j].accessed}
    BY <1>1, <1>2 DEF KeepingRows, SameMarks
  <1>4. \A i \in Rows : tool'.objs[i].addr = tool.objs[i].addr
    BY <1>2 DEF KeepingRows, SameRows
  <1>5. TouchedBlocks' = TouchedBlocks
    BY <1>3, <1>4 DEF TouchedBlocks
  <1> QED
    BY <1>1, <1>5

(* Blocks that stay and keep their sizes look the same.                     *)
LEMMA SameSizes ==
    ASSUME Visible' = Visible, \A b \in Visible : heap'[b].size = heap[b].size
    PROVE  VisibleSizes' = VisibleSizes
  BY DEF VisibleSizes

(* A row at an address that is not negative is one of the promise's blocks. *)
LEMMA RowIsTracked ==
    ASSUME NEW i \in DOMAIN tool.objs, tool.objs[i].addr \in Nat
    PROVE  i \in Rows /\ tool.objs[i].addr \in TrackedBlocks
  BY DEF Rows, Registered, TrackedBlocks

-----------------------------------------------------------------------------
(* Every step is a step of the promise, or none.                            *)

PromiseStep == [Promise!Next]_(Promise!vars)

(* The initial states are initial for the promise.                          *)
LEMMA PromiseInit == Init => Promise!Init
  <1> SUFFICES ASSUME Init
               PROVE  Promise!Init
    OBVIOUS
  <1>1. DOMAIN heap = {} /\ tool.objs = <<>> /\ pc = "run"
    BY DEF Init, InitTool
  <1>2. DOMAIN tool.objs = {} /\ Rows = {} /\ Visible = {}
    BY <1>1 DEF Rows, Registered, Visible
  <1>3. VisibleSizes = Promise!NoBlocks
    BY <1>2 DEF VisibleSizes, Promise!NoBlocks
  <1>4. ClosedProfiles = 0
    BY <1>2, FS_EmptySet DEF ClosedProfiles
  <1> QED
    BY <1>1, <1>2, <1>3, <1>4
       DEF Promise!Init, FreshBlock, TrackedBlocks, TouchedBlocks

(* What is seen of the blocks stays, or the fresh block is passed over.     *)
LEMMA QuietStep ==
    ASSUME KeepingRows, VisibleSizes' = VisibleSizes,
           FreshBlock' = FreshBlock \/ FreshBlock' = 0
    PROVE  PromiseStep
  BY KeepingRowsView
     DEF PromiseStep, Promise!Next, Promise!vars, Promise!PassOver

(* The application's entry into free or realloc ends the promise for the    *)
(* block; an entry with no block shows nothing.                             *)
LEMMA ReleaseStep ==
    ASSUME PInv, PInv', Releasing
    PROVE  PromiseStep
  <1> DEFINE a == call'.old
             R == {i \in DOMAIN tool.objs : tool.objs[i].addr = a}
  <1>1. /\ IInv /\ TypeOK /\ tool \in ToolState /\ tool.objs \in Seq(Object)
        /\ scratch = {} /\ scratch' = {} /\ heap' = heap
        /\ a \in (DOMAIN heap \cap Cells) \cup {0} /\ a \in Nat
        /\ FreshBlock = 0 /\ FreshBlock' = 0
    BY CellFacts DEF PInv, IInv, TypeOK, AtPlace, ToolState, Releasing, FreshBlock
  <1>2. DOMAIN tool.objs = 1 .. Len(tool.objs) /\ Len(tool.objs) \in Nat
    BY <1>1
  <1>3. \A i \in DOMAIN tool.objs : /\ tool.objs[i].size \in Nat \ {0}
                                    /\ tool.objs[i].addr \in Int
                                    /\ ~(-tool.objs[i].size >= 0)
    BY <1>1, RowAddresses DEF IInv
  <1>4. /\ DOMAIN tool'.objs = DOMAIN tool.objs
        /\ \A i \in DOMAIN tool.objs :
             /\ tool'.objs[i].addr = IF tool.objs[i].addr = a
                                     THEN -tool.objs[i].size
                                     ELSE tool.objs[i].addr
             /\ tool'.objs[i].accessed = tool.objs[i].accessed
    BY DEF Releasing, RetiredAt, SameMarks
  <1>5. Visible = DOMAIN heap /\ Visible' = DOMAIN heap \ {a}
    BY <1>1 DEF Visible, Releasing
  <1>6. VisibleSizes' = [x \in DOMAIN VisibleSizes \ {a} |-> VisibleSizes[x]]
    BY <1>1, <1>5 DEF VisibleSizes
  <1>7. Rows' = Rows \ R
    BY <1>3, <1>4 DEF Rows, Registered
  <1>8. TrackedBlocks' = TrackedBlocks \ {a}
    <2>1. \A i \in Rows' : i \in Rows /\ tool.objs[i].addr # a
                           /\ tool'.objs[i].addr = tool.objs[i].addr
      BY <1>4, <1>7 DEF Rows, Registered
    <2>2. \A i \in Rows : tool.objs[i].addr # a => i \in Rows'
      BY <1>7
    <2> QED BY <2>1, <2>2 DEF TrackedBlocks
  <1>9. TouchedBlocks' = TouchedBlocks \ {a}
    <2>1. \A i \in Rows' : i \in Rows /\ tool.objs[i].addr # a
                           /\ tool'.objs[i].addr = tool.objs[i].addr
                           /\ tool'.objs[i].accessed = tool.objs[i].accessed
      BY <1>4, <1>7 DEF Rows, Registered
    <2>2. \A i \in Rows : tool.objs[i].addr # a => i \in Rows'
      BY <1>7
    <2> QED BY <2>1, <2>2 DEF TouchedBlocks
  <1>10. CASE a \in TrackedBlocks
    <2>1. PICK i \in Rows : tool.objs[i].addr = a
      BY <1>10 DEF TrackedBlocks
    <2>2. i \in DOMAIN tool.objs
      BY DEF Rows, Registered
    <2>3. R = {i}
      BY <1>1, <2>1, <2>2 DEF IInv, RowsDiffer
    <2>4. DOMAIN tool'.objs \ Rows' = (DOMAIN tool.objs \ Rows) \cup {i}
      BY <1>4, <1>7, <2>2, <2>3
    <2>5. i \notin DOMAIN tool.objs \ Rows /\ IsFiniteSet(DOMAIN tool.objs \ Rows)
      <3>1. IsFiniteSet(DOMAIN tool.objs)
        BY <1>2, FS_Interval
      <3> QED BY <3>1, FS_Difference
    <2>6. ClosedProfiles' = ClosedProfiles + 1
      BY <2>4, <2>5, FS_AddElement DEF ClosedProfiles
    <2>7. a # 0 /\ a \in DOMAIN VisibleSizes /\ a \in Cells
      <3>1. a # 0
        BY <1>1, <2>1, <2>2, NoRowAtZero
      <3> QED BY <1>1, <1>5, <3>1 DEF VisibleSizes
    <2>8. Promise!Release(a)
      BY <1>1, <1>6, <1>8, <1>9, <1>10, <2>6, <2>7 DEF Promise!Release
    <2> HIDE DEF a
    <2> QED BY <2>7, <2>8 DEF PromiseStep, Promise!Next
  <1>11. CASE a \notin TrackedBlocks
    <2>1. R = {}
      BY <1>1, <1>11, RowIsTracked
    <2>2. ClosedProfiles' = ClosedProfiles
      BY <1>4, <1>7, <2>1 DEF ClosedProfiles
    <2>3. CASE a = 0
      <3>1. 0 \notin DOMAIN heap
        BY <1>1, CellFacts DEF TypeOK
      <3>2. VisibleSizes' = VisibleSizes
        BY <1>1, <1>5, <2>3, <3>1, SameSizes
      <3>3. 0 \notin TrackedBlocks /\ 0 \notin TouchedBlocks
        BY <1>11, <2>3 DEF TrackedBlocks, TouchedBlocks
      <3> QED BY <1>1, <1>8, <1>9, <2>2, <2>3, <3>2, <3>3 DEF PromiseStep, Promise!vars
    <2>4. CASE a # 0
      <3>1. a \in DOMAIN VisibleSizes /\ a \in Cells
        BY <1>1, <1>5, <2>4 DEF VisibleSizes
      <3>2. Promise!Release(a)
        BY <1>1, <1>6, <1>8, <1>9, <1>11, <2>2, <3>1 DEF Promise!Release
      <3> HIDE DEF a
      <3> QED BY <3>1, <3>2 DEF PromiseStep, Promise!Next
    <2> QED BY <2>3, <2>4
  <1> QED
    BY <1>10, <1>11

(* libc's result is the promise's new block.                                *)
LEMMA AllocStep ==
    ASSUME PInv, IInv', RealAlloc
    PROVE  PromiseStep
  <1> DEFINE a == call.old
             h == RemoveBlocks(heap, {a})
             n == Request(call)
  <1>1. /\ IInv /\ HeapOK(heap) /\ call \in Call /\ n \in Nat
        /\ scratch = {} /\ scratch' = {} /\ pc = "libc" /\ pc' = "hook"
    BY RequestType DEF PInv, IInv, TypeOK, HeapOK, AtPlace, RealAlloc
  <1>2. PICK p \in Results(heap, call) :
          /\ heap' = AddBlock(h, p, n)
          /\ call' = [call EXCEPT !.ptr = p]
    BY DEF RealAlloc
  <1>3. p \in Cells /\ Extent(p, n) \cap Occupied(h) = {}
    BY <1>1, ResultIsFree
  <1>4. n \in 0 .. NumCells
    <2>1. Extent(p, n) \subseteq Cells
      BY <1>2 DEF Results, FreeBases
    <2>2. n > 0 => p + (n - 1) \in Cells
      BY <1>1, <1>3, <2>1 DEF Extent, Cells
    <2> HIDE DEF n
    <2> QED BY <1>1, <1>3, <2>2, NumCellsAssumption DEF Cells
  <1>5. DOMAIN h = DOMAIN heap \ {a} /\ \A b \in DOMAIN h : h[b] = heap[b]
    BY DEF RemoveBlocks
  <1>6. Visible = DOMAIN h
    BY <1>1, <1>5 DEF Visible
  <1>7. /\ DOMAIN heap' = DOMAIN h \cup {p}
        /\ heap'[p].size = n
        /\ \A b \in DOMAIN h \ {p} : heap'[b] = h[b]
    BY <1>2 DEF AddBlock
  <1>8. Visible' = Visible \cup {p}
    BY <1>1, <1>6, <1>7 DEF Visible
  <1>9. VisibleSizes' = [x \in DOMAIN VisibleSizes \cup {p} |->
                            IF x = p THEN n ELSE VisibleSizes[x]]
    <2> HIDE DEF h, n
    <2> QED BY <1>5, <1>6, <1>7, <1>8 DEF VisibleSizes
  <1>10. \A x \in DOMAIN VisibleSizes :
            Extent(x, VisibleSizes[x]) \cap Extent(p, n) = {}
    <2> HIDE DEF h, n
    <2>1. \A x \in DOMAIN h : Extent(x, h[x].size) \subseteq Occupied(h)
      BY DEF Occupied
    <2> QED BY <1>3, <1>5, <1>6, <2>1 DEF VisibleSizes
  <1>11. FreshBlock = 0 /\ FreshBlock' = p
    BY <1>1, <1>2 DEF FreshBlock, Call
  <1>12. KeepingRows
    BY <1>1, CallStepKeepsRows DEF CallStep
  <1> HIDE DEF n, h
  <1>13. Promise!Alloc(p, n)
    BY <1>9, <1>10, <1>11, <1>12, KeepingRowsView DEF Promise!Alloc
  <1> QED
    BY <1>3, <1>4, <1>13 DEF PromiseStep, Promise!Next

(* The other steps of the library and libc: what runs before the call       *)
(* returns passes the block over, if anything.                              *)
LEMMA CallStepRefines ==
    ASSUME PInv, IInv', CallStep
    PROVE  PromiseStep
  <1>1. /\ IInv /\ HeapOK(heap) /\ KeepingRows
        /\ pc \notin {"look", "found", "sent", "close"} => scratch = {}
    BY CallStepKeepsRows DEF PInv, IInv, TypeOK, HeapOK, AtPlace
  <1>2. CASE RealReallocToNothing
    <2>1. /\ pc = "libc" /\ pc' = "hook" /\ call' = call /\ scratch' = scratch
          /\ heap' = RemoveBlocks(heap, {call.old})
      BY <1>2 DEF RealReallocToNothing
    <2>2. FreshBlock = 0 /\ FreshBlock' = 0
      BY <2>1 DEF PInv, FreshBlock
    <2>3. Visible' = Visible /\ \A b \in Visible : heap'[b] = heap[b]
      BY <1>1, <2>1 DEF Visible, RemoveBlocks
    <2> QED BY <1>1, <2>2, <2>3, SameSizes, QuietStep
  <1>3. CASE RealFree
    <2>1. /\ pc = "freep" /\ pc' = "run" /\ scratch' = scratch
          /\ heap' = RemoveBlocks(heap, {call.old})
      BY <1>3 DEF RealFree, Return
    <2>2. FreshBlock = 0 /\ FreshBlock' = 0
      BY <2>1 DEF FreshBlock
    <2>3. Visible' = Visible /\ \A b \in Visible : heap'[b] = heap[b]
      BY <1>1, <2>1 DEF Visible, RemoveBlocks
    <2> QED BY <1>1, <2>2, <2>3, SameSizes, QuietStep
  <1>4. CASE HookSkip \/ NotSelected \/ Selected
    <2>1. /\ pc \in {"hook", "look"} /\ pc' \in {"run", "close", "found"}
          /\ pc' = "found" => call' = call
          /\ heap' = heap /\ scratch' = scratch
      BY <1>4 DEF HookSkip, NotSelected, Selected, Return
    <2>2. FreshBlock' = FreshBlock \/ FreshBlock' = 0
      BY <2>1 DEF FreshBlock
    <2>3. Visible' = Visible
      BY <2>1 DEF Visible
    <2> QED BY <1>1, <2>1, <2>2, <2>3, SameSizes, QuietStep
  <1>5. CASE Send
    <2>1. /\ pc = "found" /\ pc' = "sent" /\ call' = call /\ scratch' = scratch
          /\ heap' = [b \in DOMAIN heap |->
                        IF b = call.ptr THEN [heap[b] EXCEPT !.traced = TRUE]
                        ELSE heap[b]]
      BY <1>5 DEF Send
    <2>2. FreshBlock' = FreshBlock
      BY <2>1 DEF FreshBlock
    <2>3. DOMAIN heap' = DOMAIN heap /\ Visible' = Visible
      BY <2>1 DEF Visible
    <2>4. \A b \in DOMAIN heap : heap'[b].size = heap[b].size
      <3>1. \A b \in DOMAIN heap : heap[b] \in Block
        BY <1>1 DEF HeapOK
      <3> QED BY <2>1, <3>1 DEF Block
    <2> QED BY <1>1, <2>2, <2>3, <2>4, SameSizes, QuietStep DEF Visible
  <1>6. CASE HookOpen
    <2>1. /\ pc = "hook" /\ pc' = "look" /\ call' = call /\ scratch = {}
      BY <1>1, <1>6 DEF HookOpen
    <2>2. PICK p, q \in {b \in ScratchCells : b \notin Occupied(heap)} :
            /\ heap' = AddBlock(AddBlock(heap, p, 1), q, 1)
            /\ scratch' = {p, q}
      BY <1>6 DEF HookOpen
    <2>3. p \notin DOMAIN heap /\ q \notin DOMAIN heap
      BY <1>1, BaseOccupied
    <2>4. /\ DOMAIN heap' = DOMAIN heap \cup {p, q}
          /\ \A b \in DOMAIN heap : heap'[b] = heap[b]
      BY <2>2, <2>3 DEF AddBlock
    <2>5. FreshBlock' = FreshBlock
      BY <2>1 DEF FreshBlock
    <2>6. Visible' = Visible
      BY <2>1, <2>2, <2>3, <2>4 DEF Visible
    <2> QED BY <1>1, <2>4, <2>5, <2>6, SameSizes, QuietStep DEF Visible
  <1>7. CASE Close
    <2>1. /\ pc = "close" /\ pc' = "run" /\ scratch' = {}
          /\ heap' = RemoveBlocks(heap, scratch)
      BY <1>7 DEF Close, Return
    <2>2. FreshBlock' = 0
      BY <2>1 DEF FreshBlock
    <2>3. Visible' = Visible /\ \A b \in Visible : heap'[b] = heap[b]
      BY <2>1 DEF Visible, RemoveBlocks
    <2> QED BY <1>1, <2>2, <2>3, SameSizes, QuietStep
  <1> QED
    BY <1>2, <1>3, <1>4, <1>5, <1>6, <1>7, AllocStep DEF CallStep

-----------------------------------------------------------------------------
(* Accesses.                                                                *)

(* A row that covers an address of the process is a tracked block.          *)
LEMMA CoveringRow ==
    ASSUME IInv, NEW c \in Addresses, NEW i \in DOMAIN tool.objs,
           Covers(tool.objs[i], c)
    PROVE  /\ i \in Rows
           /\ tool.objs[i].addr \in TrackedBlocks
           /\ tool.objs[i].addr \in DOMAIN heap
           /\ heap[tool.objs[i].addr].traced
           /\ c \in Extent(tool.objs[i].addr, heap[tool.objs[i].addr].size)
  <1> DEFINE o == tool.objs[i]
             b == o.addr
  <1>1. o.size \in Nat \ {0} /\ b \in Int /\ RowOK(heap, o)
    BY RowAddresses DEF IInv, RowsAreBlocks
  <1>2. c \in Nat \ {0} /\ b <= c /\ c < b + o.size
    BY CellFacts DEF Covers
  <1>3. b # -o.size
    BY <1>1, <1>2
  <1>4. b \in DOMAIN heap /\ heap[b].traced /\ heap[b].size = o.size
    BY <1>1, <1>3 DEF RowOK
  <1>5. b \in Nat \ {0}
    BY <1>4, CellFacts DEF IInv, TypeOK
  <1> HIDE DEF o
  <1>6. c \in Extent(b, heap[b].size)
    BY <1>1, <1>2, <1>4, <1>5 DEF Extent
  <1>7. i \in Rows /\ b \in TrackedBlocks
    BY <1>5, RowIsTracked DEF o
  <1> QED
    BY <1>4, <1>6, <1>7 DEF o

(* An address the library touches is in no row.                             *)
LEMMA LibTouchesNoRow ==
    ASSUME IInv, NEW c \in Addresses, LibAccess(c), NEW i \in DOMAIN tool.objs
    PROVE  ~Covers(tool.objs[i], c)
  <1> SUFFICES ASSUME Covers(tool.objs[i], c)
               PROVE  FALSE
    OBVIOUS
  <1> DEFINE b == tool.objs[i].addr
  <1>1. b \in DOMAIN heap /\ heap[b].traced /\ c \in Extent(b, heap[b].size)
    BY CoveringRow
  <1>2. c \in TracedCells(heap)
    <2> HIDE DEF b
    <2> QED BY <1>1 DEF TracedCells
  <1>3. /\ pc = "libc" /\ call.old \in DOMAIN heap
        /\ c \in Extent(call.old, heap[call.old].size)
    BY <1>2 DEF LibAccess
  <1>4. b = call.old
    <2> HIDE DEF b
    <2> QED BY <1>1, <1>3 DEF IInv, BlocksAreDisjoint, Disjoint
  <1> QED
    BY <1>3, <1>4, OldHasNoRow DEF HasRow

(* An access of the application touches its block, or is to no tracked one. *)
LEMMA AppAccessStep ==
    ASSUME PInv, NEW c \in Addresses, AppAccess(c)
    PROVE  PromiseStep
  <1>1. /\ IInv /\ tool.objs \in Seq(Object) /\ pc = "run" /\ pc' = "run"
        /\ UNCHANGED <<heap, scratch, call>>
    BY DEF PInv, IInv, TypeOK, ToolState, AppAccess
  <1>2. DOMAIN tool.objs = 1 .. Len(tool.objs)
    BY <1>1
  <1>3. SameRows(tool, tool') /\ Credited(tool, tool', c)
    BY <1>1, AccessKeepsRows
  <1>4. FreshBlock = 0 /\ FreshBlock' = 0 /\ VisibleSizes' = VisibleSizes
    BY <1>1 DEF FreshBlock, VisibleSizes, Visible
  <1>5. CASE \A i \in DOMAIN tool.objs : ~IsOwner(tool, c, i)
    <2>1. KeepingRows
      BY <1>3, <1>5 DEF KeepingRows, SameMarks, Credited
    <2> QED BY <1>4, <2>1, QuietStep
  <1>6. ASSUME NEW i \in DOMAIN tool.objs, IsOwner(tool, c, i)
        PROVE  PromiseStep
    <2> DEFINE b == tool.objs[i].addr
    <2>1. i \in Rows /\ b \in TrackedBlocks /\ b \in DOMAIN heap
      BY <1>1, <1>6, CoveringRow DEF IsOwner
    <2>2. \A j \in DOMAIN tool.objs : IsOwner(tool, c, j) => j = i
      BY <1>2, <1>6 DEF IsOwner
    <2>3. /\ Rows' = Rows /\ Rows \subseteq DOMAIN tool.objs
          /\ TrackedBlocks' = TrackedBlocks /\ ClosedProfiles' = ClosedProfiles
      BY <1>3, SameRowsView DEF Rows, Registered
    <2>4. \A j \in Rows :
             /\ tool'.objs[j].addr = tool.objs[j].addr
             /\ tool'.objs[j].accessed = IF j = i THEN TRUE
                                         ELSE tool.objs[j].accessed
      BY <1>3, <1>6, <2>2, <2>3 DEF SameRows, Credited
    <2>5. TouchedBlocks' = TouchedBlocks \cup {b}
      <3> DEFINE S == {j \in Rows : tool.objs[j].accessed}
      <3>1. {j \in Rows' : tool'.objs[j].accessed} = S \cup {i}
        BY <2>1, <2>3, <2>4
      <3>2. \A j \in S \cup {i} : tool'.objs[j].addr = tool.objs[j].addr
        BY <2>1, <2>4
      <3>3. TouchedBlocks' = {tool'.objs[j].addr : j \in S \cup {i}}
        BY <3>1 DEF TouchedBlocks
      <3>4. TouchedBlocks' = {tool.objs[j].addr : j \in S \cup {i}}
        <4> HIDE DEF S
        <4> QED BY <3>2, <3>3
      <3>5. TouchedBlocks = {tool.objs[j].addr : j \in S}
        BY DEF TouchedBlocks
      <3> HIDE DEF S
      <3> QED BY <3>4, <3>5
    <2>6. b \in Cells
      BY <1>1, <2>1 DEF PInv, BlocksInCells, IInv, AtPlace
    <2>7. Promise!Touch(b)
      BY <1>4, <2>1, <2>3, <2>5 DEF Promise!Touch
    <2> HIDE DEF b
    <2> QED BY <2>6, <2>7 DEF PromiseStep, Promise!Next
  <1> QED
    BY <1>5, <1>6

(* An access of the library shows nothing while no message waits.           *)
LEMMA LibAccessStep ==
    ASSUME PInv, NEW c \in Addresses, LibAccess(c), pc # "sent"
    PROVE  PromiseStep
  <1>1. IInv /\ pc' = pc /\ UNCHANGED <<heap, scratch, call>>
    BY DEF PInv, LibAccess
  <1>2. SameRows(tool, tool') /\ Credited(tool, tool', c)
    BY <1>1, AccessKeepsRows
  <1>3. \A i \in DOMAIN tool.objs : ~IsOwner(tool, c, i)
    BY <1>1, LibTouchesNoRow DEF IsOwner
  <1>4. KeepingRows
    BY <1>2, <1>3 DEF KeepingRows, SameMarks, Credited
  <1>5. FreshBlock' = FreshBlock /\ VisibleSizes' = VisibleSizes
    BY <1>1 DEF FreshBlock, VisibleSizes, Visible
  <1> QED
    BY <1>4, <1>5, QuietStep

(* The poll that receives the announcement makes the fresh block tracked,   *)
(* with no access to its credit.                                            *)
LEMMA ReceiveStep ==
    ASSUME PInv, NEW c \in Addresses, LibAccess(c), pc = "sent"
    PROVE  PromiseStep
  <1> DEFINE k == Len(tool.objs) + 1
             p == call.ptr
  <1>1. /\ IInv /\ IsNewBlock(p) /\ heap[p].traced /\ p \notin scratch
        /\ tool \in ToolState /\ p \in Nat
    BY CellFacts DEF PInv, IInv, AtPlace, ScratchOK, TypeOK, IsNewBlock, Call
  <1>2. Receiving(k, c)
    BY <1>1, LibAccessReceives
  <1> HIDE DEF k
  <1>3. FreshBlock = p /\ FreshBlock' = 0 /\ VisibleSizes' = VisibleSizes
    BY <1>2 DEF Receiving, FreshBlock, VisibleSizes, Visible
  <1>4. p \in DOMAIN VisibleSizes
    BY <1>1 DEF VisibleSizes, Visible, IsNewBlock
  <1>5. ~HasRow(p)
    <2>1. p \in DOMAIN heap /\ Unlisted(p)
      BY <1>1 DEF IsNewBlock, Unlisted
    <2> QED BY <1>1, <2>1 DEF IInv, BlocksHaveRows
  <1>6. p \notin TrackedBlocks
    BY <1>5 DEF HasRow, TrackedBlocks, Rows, Registered
  <1>7. Rows' = Rows \cup {k} /\ k \notin Rows
    BY <1>1, <1>2 DEF Receiving, Rows, Registered
  <1>8. Rows \subseteq DOMAIN tool.objs
    BY DEF Rows, Registered
  <1>9. TrackedBlocks' = TrackedBlocks \cup {p}
    BY <1>2, <1>7, <1>8 DEF TrackedBlocks, Receiving
  <1>10. ClosedProfiles' = ClosedProfiles
    <2>1. DOMAIN tool'.objs \ Rows' = DOMAIN tool.objs \ Rows
      BY <1>2, <1>7 DEF Receiving
    <2> QED BY <2>1 DEF ClosedProfiles
  <1>11. TouchedBlocks' = TouchedBlocks
    <2>1. \A i \in DOMAIN tool.objs :
             /\ tool'.objs[i].addr = tool.objs[i].addr
             /\ tool'.objs[i].accessed = tool.objs[i].accessed
      BY <1>1, <1>2, LibTouchesNoRow DEF Receiving
    <2>2. ~tool'.objs[k].accessed
      <3> SUFFICES ASSUME tool'.objs[k].accessed
                   PROVE  FALSE
        OBVIOUS
      <3>1. /\ tool'.objs[k].addr = p
            /\ p <= c /\ c < p + tool'.objs[k].size
        BY <1>2 DEF Receiving, Covers
      <3>2. tool'.objs[k].size = heap[p].size /\ heap[p].size \in Nat
        BY <1>1, <1>2 DEF Receiving, IInv, TypeOK, IsNewBlock, Block
      <3>3. c \in Extent(p, heap[p].size)
        BY <1>1, <3>1, <3>2, CellFacts DEF Extent
      <3>4. c \in TracedCells(heap)
        BY <1>1, <3>3 DEF TracedCells, IsNewBlock
      <3> QED BY <3>4 DEF LibAccess
    <2>3. {j \in Rows' : tool'.objs[j].accessed} = {j \in Rows : tool.objs[j].accessed}
      BY <1>7, <1>8, <2>1, <2>2
    <2> QED BY <1>8, <2>1, <2>3 DEF TouchedBlocks
  <1>12. Promise!Track
    BY <1>3, <1>4, <1>6, <1>9, <1>10, <1>11 DEF Promise!Track
  <1> QED
    BY <1>12 DEF PromiseStep, Promise!Next

-----------------------------------------------------------------------------
(* The refinement.                                                          *)

(* Every step of the slow pass is a step of the promise or shows it         *)
(* nothing.                                                                 *)
LEMMA StepRefines ==
    ASSUME PInv, PInv', [Next]_vars
    PROVE  PromiseStep
  <1>1. IInv /\ IInv'
    BY DEF PInv
  <1>2. CASE CallStep
    BY <1>1, <1>2, CallStepRefines
  <1>3. ASSUME NEW c \in Addresses, AppAccess(c) \/ LibAccess(c)
        PROVE  PromiseStep
    BY <1>3, AppAccessStep, LibAccessStep, ReceiveStep
  <1>4. CASE EnterStep /\ ~(Constructor \/ Destructor \/ Exit \/ Start)
    BY <1>1, <1>4, EntryReleases, ReleaseStep
  <1>5. CASE Constructor \/ Destructor \/ Exit
    <2>1. /\ pc = "run" /\ pc' \in {"run", "done"}
          /\ heap' = heap /\ scratch' = scratch
      BY <1>5 DEF Constructor, Destructor, Exit
    <2>2. FreshBlock' = FreshBlock /\ VisibleSizes' = VisibleSizes
      BY <2>1 DEF FreshBlock, VisibleSizes, Visible
    <2> QED BY <1>1, <1>5, <2>2, PhaseKeepsRows, QuietStep
  <1>6. CASE Start
    <2>1. DOMAIN heap' = {} /\ tool'.objs = <<>> /\ pc' = "run"
      BY <1>6 DEF Start, InitTool
    <2>2. DOMAIN tool'.objs = {} /\ Rows' = {} /\ Visible' = {}
      BY <2>1 DEF Rows, Registered, Visible
    <2>3. VisibleSizes' = Promise!NoBlocks
      BY <2>2 DEF VisibleSizes, Promise!NoBlocks
    <2>4. ClosedProfiles' = 0
      BY <2>2, FS_EmptySet DEF ClosedProfiles
    <2>5. Promise!Restart
      BY <2>1, <2>2, <2>3, <2>4
         DEF Promise!Restart, FreshBlock, TrackedBlocks, TouchedBlocks
    <2> QED BY <2>5 DEF PromiseStep, Promise!Next
  <1>7. CASE UNCHANGED vars
    <2>1. VisibleSizes' = VisibleSizes /\ FreshBlock' = FreshBlock
      BY <1>7 DEF vars, VisibleSizes, Visible, FreshBlock
    <2>2. KeepingRows
      BY <1>1, <1>7, SameRowsRefl DEF vars, KeepingRows, SameMarks, IInv
    <2> QED BY <2>1, <2>2, QuietStep
  <1> QED
    BY <1>2, <1>3, <1>4, <1>5, <1>6, <1>7 DEF Next, LibStep, AppStep

(* Whatever the heap, the sizes and the queue, the library, the queue and   *)
(* the tool together track exactly the blocks they announce, from before    *)
(* the application's next action until the release begins, and credit every *)
(* access to its own block.                                                 *)
THEOREM Refinement == Spec => KeepsPromise
  <1>1. Init => Promise!Init
    BY PromiseInit
  <1>2. PInv /\ PInv' /\ [Next]_vars => [Promise!Next]_(Promise!vars)
    BY StepRefines DEF PromiseStep
  <1> QED
    BY <1>1, <1>2, PInvariance, PTL DEF Spec, KeepsPromise, Promise!Spec

-----------------------------------------------------------------------------
(***************************************************************************)
(* 4. Processes are killed and allocations fail.                           *)
(***************************************************************************)

(* t's rows are those of s; the rows at addresses in A, and no others, are  *)
(* retired.                                                                 *)
RetiredIn(s, t, A) ==
    /\ DOMAIN t.objs = DOMAIN s.objs
    /\ \A i \in DOMAIN s.objs :
         /\ t.objs[i].size = s.objs[i].size
         /\ IF s.objs[i].addr \in A
            THEN t.objs[i].addr <= 0
            ELSE t.objs[i].addr = s.objs[i].addr

(* What a routine of the tool does when a message may be waiting: the queue *)
(* is as it was, or it was received and its row is the only new one.        *)
Receives(s, t, A) ==
    /\ t \in ToolState
    /\ Len(t.queue) <= 1
    /\ \/ t.queue = s.queue /\ RetiredIn(s, t, A)
       \/ /\ s.queue # <<>> /\ t.queue = <<>>
          /\ DOMAIN t.objs \subseteq {1}

(* A routine runs with at most one message in the queue, and when there is  *)
(* one the table is empty.                                                  *)
Ready(s) ==
    /\ s \in ToolState
    /\ Len(s.queue) <= 1
    /\ s.queue # <<>> => DOMAIN s.objs = {}

-----------------------------------------------------------------------------
(* The routines of the tool.                                                *)

(* A table without rows is the empty sequence, and no message waits in a    *)
(* queue of length 0.                                                       *)
LEMMA ReadyFacts ==
    ASSUME NEW s, Ready(s)
    PROVE  /\ s.objs \in Seq(Object) /\ s.queue \in Seq(Message)
           /\ s.in_alloc \in {0, 1} /\ s.G_var_size \in Nat
           /\ DOMAIN s.objs = {} => s.objs = <<>>
           /\ \A i \in DOMAIN s.objs : s.objs[i] \in Object
  <1>1. s.objs \in Seq(Object) /\ s.queue \in Seq(Message)
        /\ s.in_alloc \in {0, 1} /\ s.G_var_size \in Nat
    BY DEF Ready, ToolState
  <1> DEFINE q == s.objs
  <1>2. q \in Seq(Object) /\ DOMAIN q = 1 .. Len(q) /\ Len(q) \in Nat
    BY <1>1
  <1> HIDE DEF q
  <1>3. DOMAIN q = {} => Len(q) = 0
    BY <1>2
  <1>4. Len(q) = 0 => q = <<>>
    BY <1>2
  <1>5. \A i \in DOMAIN q : q[i] \in Object
    BY <1>2
  <1> QED
    BY <1>1, <1>3, <1>4, <1>5 DEF q

(* Receiving takes the only message; its row is the only row.               *)
LEMMA TakeReceives ==
    ASSUME NEW s, Ready(s)
    PROVE  LET t == TestAndGetAddr(s)
           IN  /\ t \in ToolState
               /\ t.queue = <<>>
               /\ s.queue = <<>> => t = s
               /\ s.queue # <<>> => DOMAIN t.objs \subseteq {1}
  <1>1. CASE s.queue = <<>>
    BY <1>1 DEF TestAndGetAddr, Ready
  <1>2. CASE s.queue # <<>>
    <2> DEFINE m == Head(s.queue)
               q == [s EXCEPT !.queue = Tail(s.queue), !.in_alloc = 0,
                              !.G_var_size = m.size]
               t == TestAndGetAddr(s)
    <2>1. s.objs = <<>>
      BY <1>2, ReadyFacts DEF Ready
    <2>2. m \in Message /\ Tail(s.queue) = <<>>
      BY <1>2, ReadyFacts DEF Ready
    <2>3. m.addr \in Nat /\ m.size \in Nat
      BY <2>2 DEF Message
    <2>4. t = AllocAfter(q, m.addr)
      BY <1>2, Zenon DEF TestAndGetAddr
    <2> HIDE DEF m, t
    <2>5. q \in ToolState /\ q.queue = <<>> /\ q.objs = <<>> /\ q.G_var_size = m.size
      <3>1. <<>> \in Seq(Message) /\ s \in ToolState
        BY DEF Ready
      <3>2. q = [s EXCEPT !.queue = <<>>, !.in_alloc = 0, !.G_var_size = m.size]
        BY <2>2
      <3> HIDE DEF q
      <3> QED BY <2>1, <2>3, <3>1, <3>2 DEF ToolState
    <2> HIDE DEF q
    <2>6. NewObject(m.addr, q.G_var_size) \in Object
      BY <2>3, <2>5 DEF NewObject, Object
    <2> DEFINE o == NewObject(m.addr, q.G_var_size)
    <2>7. t = [q EXCEPT !.in_alloc = 0,
                        !.objs = IF q.G_var_size > TRACE_SIZE
                                 THEN Append(q.objs, o) ELSE q.objs]
      BY <2>4 DEF AllocAfter
    <2> HIDE DEF o
    <2>8. Append(q.objs, o) = <<o>> /\ <<o>> \in Seq(Object) /\ DOMAIN <<o>> = {1}
      BY <2>5, <2>6 DEF o
    <2>9. t.objs = <<o>> \/ t.objs = <<>>
      BY <2>5, <2>7, <2>8 DEF ToolState
    <2>10. t \in ToolState /\ t.queue = <<>>
      BY <2>5, <2>7, <2>8 DEF ToolState
    <2>11. DOMAIN t.objs \subseteq {1}
      BY <2>8, <2>9
    <2> QED BY <1>2, <2>10, <2>11 DEF t
  <1> QED
    BY <1>1, <1>2

(* The poll at the entry of an allocation receives or does nothing.         *)
LEMMA PollReceives ==
    ASSUME NEW s, Ready(s)
    PROVE  LET t == PollBefore(s)
           IN  /\ t \in ToolState
               /\ Len(t.queue) <= 1
               /\ \/ t = s
                  \/ s.queue # <<>> /\ t.queue = <<>> /\ DOMAIN t.objs \subseteq {1}
               /\ s.in_alloc = 1 /\ s.G_var_size > 0 => t.queue = <<>>
  <1> DEFINE u == TestAndGetAddr(s)
  <1>1. /\ u \in ToolState /\ u.queue = <<>>
        /\ s.queue = <<>> => u = s
        /\ s.queue # <<>> => DOMAIN u.objs \subseteq {1}
    BY TakeReceives
  <1>2. PollBefore(s) = u \/ PollBefore(s) = s
    BY DEF PollBefore
  <1>3. s.in_alloc = 1 /\ s.G_var_size > 0 => PollBefore(s) = u
    BY DEF PollBefore, TRACE_SIZE
  <1> HIDE DEF u
  <1> QED
    BY <1>1, <1>2, <1>3 DEF Ready

(* Noting the size asked for changes neither the rows nor the queue.        *)
LEMMA SizeNoted ==
    ASSUME NEW s \in ToolState, NEW n \in Nat
    PROVE  LET t == ChangeAllocStat([s EXCEPT !.G_var_size = n])
           IN  /\ t \in ToolState
               /\ t.queue = s.queue /\ t.objs = s.objs
               /\ t.G_var_size = n
               /\ n > 0 => t.in_alloc = 1
  BY DEF ChangeAllocStat, ToolState, TRACE_SIZE

(* Rows that are as they were are not retired.                              *)
LEMMA SameIsRetiredIn ==
    ASSUME NEW s, NEW t, t.objs = s.objs
    PROVE  RetiredIn(s, t, {}) /\ RetiredIn(s, t, {0})
  BY DEF RetiredIn

(* The entry of malloc and calloc, whatever waits in the queue.             *)
LEMMA AllocReceives ==
    ASSUME NEW s, Ready(s), NEW n \in Nat
    PROVE  LET t == ChangeAllocStat([PollBefore(s) EXCEPT !.G_var_size = n])
           IN  /\ Receives(s, t, {}) /\ Receives(s, t, {0})
               /\ t.G_var_size = n
               /\ n > 0 => t.in_alloc = 1
               /\ s.in_alloc = 1 /\ s.G_var_size > 0 => t.queue = <<>>
  <1> DEFINE p == PollBefore(s)
             t == ChangeAllocStat([p EXCEPT !.G_var_size = n])
  <1>1. /\ p \in ToolState
        /\ Len(p.queue) <= 1
        /\ \/ p = s
           \/ s.queue # <<>> /\ p.queue = <<>> /\ DOMAIN p.objs \subseteq {1}
        /\ s.in_alloc = 1 /\ s.G_var_size > 0 => p.queue = <<>>
    BY PollReceives
  <1> HIDE DEF p
  <1>2. /\ t \in ToolState /\ t.queue = p.queue /\ t.objs = p.objs
        /\ t.G_var_size = n /\ (n > 0 => t.in_alloc = 1)
    BY <1>1, SizeNoted
  <1> HIDE DEF t
  <1>3. p = s => RetiredIn(s, t, {}) /\ RetiredIn(s, t, {0})
    BY <1>2, SameIsRetiredIn
  <1> QED
    BY <1>1, <1>2, <1>3 DEF Receives, p, t

(* The entry of malloc.                                                     *)
LEMMA MallocReceives ==
    ASSUME NEW s, Ready(s), NEW n \in Nat
    PROVE  /\ Receives(s, MallocBefore(s, n), {})
           /\ Receives(s, MallocBefore(s, n), {0})
           /\ MallocBefore(s, n).G_var_size = n
           /\ n > 0 => MallocBefore(s, n).in_alloc = 1
           /\ s.in_alloc = 1 /\ s.G_var_size > 0 => MallocBefore(s, n).queue = <<>>
  <1> DEFINE t == ChangeAllocStat([PollBefore(s) EXCEPT !.G_var_size = n])
  <1>1. MallocBefore(s, n) = t
    BY DEF MallocBefore
  <1>2. /\ Receives(s, t, {}) /\ Receives(s, t, {0})
        /\ t.G_var_size = n
        /\ n > 0 => t.in_alloc = 1
        /\ s.in_alloc = 1 /\ s.G_var_size > 0 => t.queue = <<>>
    BY AllocReceives
  <1> HIDE DEF t
  <1> QED
    BY <1>1, <1>2

(* The entry of realloc, whatever waits in the queue.                       *)
LEMMA ReallocReceives ==
    ASSUME NEW s, Ready(s), NEW a \in Nat, NEW n \in Nat
    PROVE  Receives(s, ReallocBefore(s, a, n), {a})
  <1> DEFINE p == PollBefore(s)
             F(i) == IF p.objs[i].addr = a THEN Retire(p.objs[i]) ELSE p.objs[i]
             rows == [i \in DOMAIN p.objs |-> F(i)]
             r == [p EXCEPT !.objs = rows]
             t == ReallocBefore(s, a, n)
  <1>1. /\ p \in ToolState
        /\ Len(p.queue) <= 1
        /\ \/ p = s
           \/ s.queue # <<>> /\ p.queue = <<>> /\ DOMAIN p.objs \subseteq {1}
    BY PollReceives
  <1>2. t = ChangeAllocStat([r EXCEPT !.G_var_size = n])
    <2>1. t = ChangeAllocStat([p EXCEPT !.objs = rows, !.G_var_size = n])
      BY DEF ReallocBefore
    <2> HIDE DEF p, rows
    <2>2. [p EXCEPT !.objs = rows, !.G_var_size = n] = [r EXCEPT !.G_var_size = n]
      BY <1>1 DEF ToolState
    <2> QED BY <2>1, <2>2
  <1> HIDE DEF p
  <1>3. p.objs \in Seq(Object)
    BY <1>1 DEF ToolState
  <1>4. \A i \in DOMAIN p.objs : p.objs[i] \in Object
    BY <1>3
  <1>5. \A i \in DOMAIN p.objs :
          /\ F(i) \in Object
          /\ F(i).size = p.objs[i].size
          /\ IF p.objs[i].addr = a THEN F(i).addr <= 0 ELSE F(i).addr = p.objs[i].addr
    <2> SUFFICES ASSUME NEW i \in DOMAIN p.objs
                 PROVE  /\ F(i) \in Object
                        /\ F(i).size = p.objs[i].size
                        /\ IF p.objs[i].addr = a THEN F(i).addr <= 0
                           ELSE F(i).addr = p.objs[i].addr
      OBVIOUS
    <2>1. p.objs[i] \in Object /\ p.objs[i].size \in Nat
      BY <1>4 DEF Object
    <2>2. /\ Retire(p.objs[i]) \in Object
          /\ Retire(p.objs[i]).size = p.objs[i].size
          /\ Retire(p.objs[i]).addr = -p.objs[i].size
      BY <2>1, RetireType
    <2> QED BY <2>1, <2>2
  <1>6. rows \in [DOMAIN p.objs -> Object]
    BY <1>5
  <1>7. \A i \in DOMAIN p.objs : rows[i] = F(i)
    OBVIOUS
  <1>8. DOMAIN rows = DOMAIN p.objs
    OBVIOUS
  <1> HIDE DEF rows, F
  <1>9. r \in ToolState /\ r.objs = rows /\ r.queue = p.queue
    BY <1>1, <1>6, RowsRewritten DEF ToolState
  <1> HIDE DEF r
  <1>10. t \in ToolState /\ t.queue = p.queue /\ t.objs = rows
    BY <1>2, <1>9, SizeNoted
  <1> HIDE DEF t
  <1>11. p = s => RetiredIn(s, t, {a})
    BY <1>5, <1>7, <1>8, <1>10 DEF RetiredIn
  <1> QED
    BY <1>1, <1>8, <1>10, <1>11 DEF Receives, t

(* The entry routines at the library's and at libc's entry.                 *)
LEMMA EntryReceives ==
    ASSUME NEW s, Ready(s), NEW c \in Call,
           c.op \in {"malloc", "calloc", "realloc"},
           c.op # "realloc" => c.old = 0
    PROVE  Receives(s, EntryRoutine(s, c), {c.old})
  <1>1. c.old \in Nat /\ c.num \in Nat /\ c.unit \in Nat
    BY DEF Call
  <1>2. CASE c.op = "malloc"
    <2>1. EntryRoutine(s, c)
            = ChangeAllocStat([PollBefore(s) EXCEPT !.G_var_size = c.unit])
      BY <1>2 DEF EntryRoutine, MallocBefore
    <2> DEFINE t == ChangeAllocStat([PollBefore(s) EXCEPT !.G_var_size = c.unit])
    <2>2. Receives(s, t, {0})
      BY <1>1, AllocReceives
    <2> HIDE DEF t
    <2> QED BY <1>2, <2>1, <2>2 DEF t
  <1>3. CASE c.op = "calloc"
    <2> DEFINE n == c.unit * c.num
               t == ChangeAllocStat([PollBefore(s) EXCEPT !.G_var_size = n])
    <2>1. EntryRoutine(s, c) = t
      BY <1>3 DEF EntryRoutine, CallocBefore
    <2>2. n \in Nat
      BY <1>1
    <2> HIDE DEF n
    <2>3. Receives(s, t, {0})
      BY <2>2, AllocReceives
    <2> HIDE DEF t
    <2> QED BY <1>3, <2>1, <2>3
  <1>4. CASE c.op = "realloc"
    <2>1. EntryRoutine(s, c) = ReallocBefore(s, c.old, c.unit)
      BY <1>4 DEF EntryRoutine
    <2> QED BY <1>1, <2>1, ReallocReceives
  <1> QED
    BY <1>2, <1>3, <1>4

(* A memory access with the queue ready.                                    *)
LEMMA RecordReceives ==
    ASSUME NEW s, Ready(s), NEW c
    PROVE  /\ Receives(s, RecordMem(s, c), {})
           /\ s.queue = <<>> => /\ RecordMem(s, c).queue = <<>>
                                /\ RecordMem(s, c).in_alloc = s.in_alloc
  <1> DEFINE u == IF s.in_alloc = 1 THEN TestAndGetAddr(s) ELSE s
             t == Credit(u, c)
  <1>1. RecordMem(s, c) = t
    BY DEF RecordMem
  <1>2. /\ u \in ToolState /\ Len(u.queue) <= 1
        /\ \/ u = s
           \/ s.queue # <<>> /\ u.queue = <<>> /\ DOMAIN u.objs \subseteq {1}
        /\ s.queue = <<>> => u = s
    <2> DEFINE v == TestAndGetAddr(s)
    <2>1. /\ v \in ToolState /\ v.queue = <<>>
          /\ s.queue = <<>> => v = s
          /\ s.queue # <<>> => DOMAIN v.objs \subseteq {1}
      BY TakeReceives
    <2> HIDE DEF v
    <2>2. u = IF s.in_alloc = 1 THEN v ELSE s
      BY DEF v
    <2> HIDE DEF u
    <2> QED BY <2>1, <2>2 DEF Ready
  <1> HIDE DEF u
  <1>3. SameRows(u, t) /\ t.queue = u.queue /\ t.in_alloc = u.in_alloc
    BY <1>2, CreditEffect
  <1> HIDE DEF t
  <1>4. u = s => RetiredIn(s, t, {})
    BY <1>3 DEF SameRows, RetiredIn
  <1>5. Receives(s, t, {})
    BY <1>2, <1>3, <1>4 DEF Receives, SameRows
  <1> QED
    BY <1>1, <1>2, <1>3, <1>5

(* free's entry polls nothing.                                              *)
LEMMA FreeReceives ==
    ASSUME NEW s, Ready(s), NEW a \in Nat
    PROVE  /\ Receives(s, FreeBefore(s, a), {a})
           /\ FreeBefore(s, a).queue = s.queue
  <1> DEFINE t == FreeBefore(s, a)
  <1>1. RetiredAt(s, t, a) /\ t.queue = s.queue
    BY FreeBeforeEffect DEF Ready
  <1>2. \A i \in DOMAIN s.objs : s.objs[i].size \in Nat
    BY ReadyFacts DEF Object
  <1> HIDE DEF t
  <1>3. RetiredIn(s, t, {a})
    <2>1. ASSUME NEW i \in DOMAIN s.objs
          PROVE  /\ t.objs[i].size = s.objs[i].size
                 /\ IF s.objs[i].addr \in {a}
                    THEN t.objs[i].addr <= 0
                    ELSE t.objs[i].addr = s.objs[i].addr
      <3>1. /\ t.objs[i].size = s.objs[i].size
            /\ s.objs[i].addr = a => t.objs[i].addr = -s.objs[i].size
            /\ s.objs[i].addr # a => t.objs[i].addr = s.objs[i].addr
        BY <1>1 DEF RetiredAt
      <3>2. s.objs[i].size \in Nat
        BY <1>2
      <3>3. -s.objs[i].size <= 0
        BY <3>2
      <3> QED BY <3>1, <3>3
    <2> QED BY <1>1, <2>1 DEF RetiredAt, RetiredIn
  <1>4. Receives(s, t, {a})
    BY <1>1, <1>3 DEF Receives, RetiredAt, Ready
  <1> QED
    BY <1>1, <1>4 DEF t

(* The four entries of malloc under the library's own two allocations: the  *)
(* second one polls and leaves no message.                                  *)
LEMMA OwnAllocationsPoll ==
    ASSUME NEW s, Ready(s)
    PROVE  LET t == MallocBefore(MallocBefore(MallocBefore(MallocBefore(s, 1), 1), 1), 1)
           IN  /\ Receives(s, t, {})
               /\ t.queue = <<>>
               /\ t.in_alloc = 1
  <1> DEFINE s1 == MallocBefore(s, 1)
             s2 == MallocBefore(s1, 1)
             s3 == MallocBefore(s2, 1)
             s4 == MallocBefore(s3, 1)
  <1>0. 1 \in Nat /\ 1 > 0
    OBVIOUS
  <1>1. Receives(s, s1, {}) /\ s1.G_var_size = 1 /\ s1.in_alloc = 1
    BY <1>0, MallocReceives
  <1> HIDE DEF s1
  <1>2. Ready(s1)
    BY <1>1 DEF Receives, Ready, RetiredIn
  <1>3. Receives(s1, s2, {}) /\ s2.queue = <<>>
    BY <1>0, <1>1, <1>2, MallocReceives
  <1> HIDE DEF s2
  <1>4. s2 \in ToolState
    BY <1>3 DEF Receives
  <1>5. s3 \in ToolState /\ s3.objs = s2.objs /\ s3.queue = <<>>
    BY <1>3, <1>4, MallocBeforeEffect
  <1> HIDE DEF s3
  <1>6. s4 \in ToolState /\ s4.objs = s3.objs /\ s4.queue = <<>> /\ s4.in_alloc = 1
    BY <1>5, MallocBeforeEffect
  <1> HIDE DEF s4
  <1>7. Receives(s, s4, {})
    <2>1. CASE s1.queue = s.queue /\ RetiredIn(s, s1, {})
      <3>1. CASE s2.queue = s1.queue /\ RetiredIn(s1, s2, {})
        <4>1. RetiredIn(s, s4, {})
          BY <1>5, <1>6, <2>1, <3>1 DEF RetiredIn
        <4>2. s4.queue = s.queue /\ Len(s4.queue) <= 1
          BY <1>3, <1>6, <2>1, <3>1
        <4> QED BY <1>6, <4>1, <4>2 DEF Receives
      <3>2. CASE s1.queue # <<>> /\ s2.queue = <<>> /\ DOMAIN s2.objs \subseteq {1}
        BY <1>5, <1>6, <2>1, <3>2 DEF Receives
      <3> QED BY <1>3, <3>1, <3>2 DEF Receives
    <2>2. CASE s.queue # <<>> /\ s1.queue = <<>> /\ DOMAIN s1.objs \subseteq {1}
      <3>1. DOMAIN s2.objs = DOMAIN s1.objs
        BY <1>3, <2>2 DEF Receives, RetiredIn
      <3> QED BY <1>5, <1>6, <2>2, <3>1 DEF Receives
    <2> QED BY <1>1, <2>1, <2>2 DEF Receives
  <1> QED
    BY <1>6, <1>7 DEF s1, s2, s3, s4

-----------------------------------------------------------------------------
(* What a step does to the rows.                                            *)

(* The tool receives what it finds, and blocks whose rows stay stay too: at *)
(* most one row is foreign.                                                 *)
LEMMA ForeignRowStaysOne ==
    ASSUME FaultsIInv, pc \notin {"sent", "done"}, NEW A,
           Receives(tool, tool', A),
           \A b \in DOMAIN heap \ A :
              heap[b].traced => b \in DOMAIN heap' /\ heap'[b] = heap[b]
    PROVE  OneForeignRow' /\ PendingIsFirst' /\ QueueHoldsOneMessage'
  <1>1. QueueHoldsOneMessage'
    BY DEF Receives, QueueHoldsOneMessage
  <1>2. CASE tool'.queue = tool.queue /\ RetiredIn(tool, tool', A)
    <2>1. \A i \in DOMAIN tool.objs :
            Explained(heap, tool.objs[i]) => Explained(heap', tool'.objs[i])
      <3> SUFFICES ASSUME NEW i \in DOMAIN tool.objs, Explained(heap, tool.objs[i])
                   PROVE  Explained(heap', tool'.objs[i])
        OBVIOUS
      <3> DEFINE o == tool.objs[i]
                 n == tool'.objs[i]
      <3>1. /\ n.size = o.size
            /\ IF o.addr \in A THEN n.addr <= 0 ELSE n.addr = o.addr
        BY <1>2 DEF RetiredIn
      <3>2. Explained(heap, o)
        OBVIOUS
      <3> HIDE DEF o, n
      <3>3. CASE o.addr \in A \/ o.addr <= 0
        BY <3>1, <3>3 DEF Explained, n
      <3>4. CASE ~(o.addr \in A \/ o.addr <= 0)
        <4>1. /\ o.addr \in DOMAIN heap \ A
              /\ heap[o.addr] = [size |-> o.size, traced |-> TRUE]
          BY <3>2, <3>4 DEF Explained
        <4>2. heap[o.addr].traced
          BY <4>1
        <4>3. o.addr \in DOMAIN heap' /\ heap'[o.addr] = heap[o.addr]
          BY <4>1, <4>2
        <4> QED BY <3>1, <3>4, <4>1, <4>3 DEF Explained, n
      <3> QED BY <3>3, <3>4
    <2>2. DOMAIN tool'.objs = DOMAIN tool.objs
      BY <1>2 DEF RetiredIn
    <2>3. OneForeignRow'
      BY <2>1, <2>2 DEF FaultsIInv, OneForeignRow
    <2>4. PendingIsFirst'
      BY <1>2, <2>2 DEF FaultsIInv, PendingIsFirst
    <2> QED BY <1>1, <2>3, <2>4
  <1>3. CASE tool'.queue = <<>> /\ DOMAIN tool'.objs \subseteq {1}
    BY <1>1, <1>3 DEF OneForeignRow, PendingIsFirst
  <1> QED
    BY <1>2, <1>3 DEF Receives

(* Between two calls of a routine the tool is ready.                        *)
LEMMA ToolIsReady ==
    ASSUME FaultsIInv, pc \notin {"sent", "done"}
    PROVE  Ready(tool)
  BY DEF FaultsIInv, TypeOK, PendingIsFirst, QueueHoldsOneMessage, Ready

-----------------------------------------------------------------------------
(* Each action keeps the invariant.                                         *)

(* Nothing is in the table or in the queue when the first process starts.   *)
LEMMA FaultsInit ==
    ASSUME Init
    PROVE  FaultsIInv
  <1>1. InitTool \in ToolState /\ InitTool.objs = <<>> /\ InitTool.queue = <<>>
    BY DEF InitTool, ToolState
  <1>2. DOMAIN heap = {}
    BY DEF Init
  <1>3. NoCall \in Call
    BY DEF NoCall, Call
  <1>4. tool \in ToolState /\ DOMAIN tool.objs = {} /\ tool.queue = <<>>
    BY <1>1 DEF Init
  <1>5. TypeOK
    BY <1>2, <1>3, <1>4 DEF Init, TypeOK
  <1>6. QueueHoldsOneMessage /\ OneForeignRow /\ PendingIsFirst
    BY <1>4 DEF QueueHoldsOneMessage, OneForeignRow, PendingIsFirst
  <1>7. FaultsAtPlace
    BY <1>4 DEF Init, FaultsAtPlace
  <1> QED
    BY <1>5, <1>6, <1>7 DEF FaultsIInv

(* The next process has an empty table and the queue of the last one.       *)
LEMMA FaultsStart ==
    ASSUME FaultsIInv, Start
    PROVE  FaultsIInv'
  <1> DEFINE t == [InitTool EXCEPT !.queue = tool.queue]
  <1>1. t \in ToolState /\ t.objs = <<>> /\ t.queue = tool.queue
    <2>1. InitTool \in ToolState /\ InitTool.objs = <<>>
      BY DEF InitTool, ToolState
    <2>2. tool.queue \in Seq(Message)
      BY DEF FaultsIInv, TypeOK, ToolState
    <2> QED BY <2>1, <2>2 DEF ToolState
  <1>2. NoCall \in Call
    BY DEF NoCall, Call
  <1>3. tool' \in ToolState /\ DOMAIN tool'.objs = {} /\ tool'.queue = tool.queue
    BY <1>1 DEF Start
  <1>4. TypeOK'
    BY <1>2, <1>3 DEF Start, TypeOK
  <1>5. QueueHoldsOneMessage' /\ OneForeignRow' /\ PendingIsFirst'
    BY <1>3 DEF FaultsIInv, QueueHoldsOneMessage, OneForeignRow, PendingIsFirst
  <1>6. FaultsAtPlace'
    BY <1>3 DEF Start, FaultsAtPlace
  <1> QED
    BY <1>4, <1>5, <1>6 DEF FaultsIInv

(* Killing the process leaves everything where it is.                       *)
LEMMA FaultsKill ==
    ASSUME FaultsIInv, Kill
    PROVE  FaultsIInv'
  <1>1. /\ pc' = "done" /\ tool' = tool /\ heap' = heap /\ phase' = phase
        /\ call' = call /\ scratch' = scratch /\ trace_flag' = trace_flag
    BY DEF Kill
  <1>2. TypeOK'
    BY <1>1 DEF FaultsIInv, TypeOK
  <1>3. QueueHoldsOneMessage' /\ OneForeignRow' /\ PendingIsFirst'
    BY <1>1 DEF FaultsIInv, QueueHoldsOneMessage, OneForeignRow, PendingIsFirst,
                Explained
  <1>4. FaultsAtPlace'
    BY <1>1 DEF FaultsAtPlace
  <1> QED
    BY <1>2, <1>3, <1>4 DEF FaultsIInv

(* The application's call enters the library.                               *)
LEMMA FaultsEnter ==
    ASSUME FaultsIInv, NEW c \in Call, c.op \in {"malloc", "calloc", "realloc"},
           c.op # "realloc" => c.old = 0, c.ptr = 0, Enter(c)
    PROVE  FaultsIInv'
  <1>1. /\ pc = "run" /\ pc' = "libc" /\ call' = c /\ heap' = heap
        /\ phase' = phase /\ scratch' = scratch /\ trace_flag' = trace_flag
        /\ tool' = EntryRoutine(tool, c)
    BY DEF Enter
  <1>2. Receives(tool, tool', {c.old})
    BY <1>1, ToolIsReady, EntryReceives
  <1>3. OneForeignRow' /\ PendingIsFirst' /\ QueueHoldsOneMessage'
    BY <1>1, <1>2, ForeignRowStaysOne
  <1>4. TypeOK'
    BY <1>1, <1>2 DEF FaultsIInv, TypeOK, Receives
  <1>5. FaultsAtPlace'
    BY <1>1 DEF FaultsAtPlace
  <1> QED
    BY <1>3, <1>4, <1>5 DEF FaultsIInv

(* free enters the library.                                                 *)
LEMMA FaultsFreeEnter ==
    ASSUME FaultsIInv, NEW p \in Nat, FreeEnter(p)
    PROVE  FaultsIInv'
  <1>1. /\ pc = "run" /\ pc' = "freep" /\ heap' = heap
        /\ phase' = phase /\ scratch' = scratch /\ trace_flag' = trace_flag
        /\ tool' = FreeBefore(tool, p)
        /\ call' = [NoCall EXCEPT !.op = "free", !.old = p]
    BY DEF FreeEnter
  <1>2. Receives(tool, tool', {p})
    BY <1>1, ToolIsReady, FreeReceives
  <1>3. OneForeignRow' /\ PendingIsFirst' /\ QueueHoldsOneMessage'
    BY <1>1, <1>2, ForeignRowStaysOne
  <1>4. call' \in Call
    BY <1>1 DEF NoCall, Call
  <1>5. TypeOK'
    BY <1>1, <1>2, <1>4 DEF FaultsIInv, TypeOK, Receives
  <1>6. FaultsAtPlace'
    BY <1>1 DEF FaultsAtPlace
  <1> QED
    BY <1>3, <1>5, <1>6 DEF FaultsIInv

(* The entry of libc's allocation, where the tool's routine runs again.     *)
LEMMA FaultsAtLibc ==
    ASSUME FaultsIInv, pc = "libc", tool' = EntryRoutine(tool, call)
    PROVE  Receives(tool, tool', {call.old})
  <1>1. /\ call \in Call /\ call.op \in {"malloc", "calloc", "realloc"}
        /\ call.op # "realloc" => call.old = 0
    BY DEF FaultsIInv, TypeOK, FaultsAtPlace
  <1> QED
    BY <1>1, ToolIsReady, EntryReceives

(* libc's allocation: the new block overlaps none that stays.               *)
LEMMA FaultsRealAlloc ==
    ASSUME FaultsIInv, RealAlloc
    PROVE  FaultsIInv'
  <1> DEFINE a == call.old
             h == RemoveBlocks(heap, {a})
             n == Request(call)
  <1>1. /\ call \in Call /\ n \in Nat /\ HeapOK(heap)
        /\ pc = "libc" /\ pc' = "hook" /\ phase' = phase
        /\ scratch' = scratch /\ trace_flag' = trace_flag
    BY RequestType DEF FaultsIInv, TypeOK, RealAlloc, HeapOK
  <1>2. Receives(tool, tool', {a})
    BY FaultsAtLibc DEF RealAlloc
  <1>3. PICK p \in Results(heap, call) :
          /\ heap' = AddBlock(h, p, n)
          /\ call' = [call EXCEPT !.ptr = p]
    BY DEF RealAlloc
  <1>4. p \in Cells /\ Extent(p, n) \cap Occupied(h) = {}
    BY <1>1, ResultIsFree
  <1>5. p \in ScratchCells /\ p \in Nat
    BY <1>4, CellFacts
  <1>6. HeapOK(h) /\ DOMAIN h = DOMAIN heap \ {a}
    BY <1>1, RemoveBlocksFacts
  <1>7. Replaced(heap, heap', a, p, n)
    <2> HIDE DEF n, a
    <2> QED BY <1>1, <1>3, <1>5, AddBlockFacts DEF h
  <1> HIDE DEF h, n, a
  <1>8. p \notin DOMAIN heap \ {a}
    BY <1>1, <1>4, <1>5, <1>6, BaseInExtent, BaseOccupied
  <1>9. /\ HeapOK(heap') /\ p \in DOMAIN heap'
        /\ heap'[p].size = n /\ heap'[p].traced = FALSE /\ heap'[p] \in Block
        /\ \A b \in DOMAIN heap \ {a} : b \in DOMAIN heap' /\ heap'[b] = heap[b]
    BY <1>7, <1>8 DEF Replaced, HeapOK, Block
  <1>10. heap'[p] = [size |-> n, traced |-> FALSE]
    BY <1>9 DEF Block
  <1>11. call' \in Call /\ call'.ptr = p /\ Request(call') = n
    BY <1>1, <1>3, <1>5 DEF Call, Request, n
  <1>12. OneForeignRow' /\ PendingIsFirst' /\ QueueHoldsOneMessage'
    BY <1>1, <1>2, <1>9, ForeignRowStaysOne
  <1>13. TypeOK'
    BY <1>1, <1>2, <1>9, <1>11 DEF FaultsIInv, TypeOK, Receives, HeapOK
  <1>14. FaultsAtPlace'
    BY <1>1, <1>9, <1>10, <1>11 DEF FaultsAtPlace, IsResult
  <1> QED
    BY <1>12, <1>13, <1>14 DEF FaultsIInv

(* libc returns NULL: the rows retired at its entry stay retired.           *)
LEMMA FaultsAllocFails ==
    ASSUME FaultsIInv, AllocFails
    PROVE  FaultsIInv'
  <1>1. /\ pc = "libc" /\ pc' = "hook" /\ heap' = heap /\ phase' = phase
        /\ call' = call /\ scratch' = scratch /\ trace_flag' = trace_flag
        /\ call.ptr = 0
    BY DEF AllocFails, FaultsIInv, FaultsAtPlace
  <1>2. Receives(tool, tool', {call.old})
    BY FaultsAtLibc DEF AllocFails
  <1>3. OneForeignRow' /\ PendingIsFirst' /\ QueueHoldsOneMessage'
    BY <1>1, <1>2, ForeignRowStaysOne
  <1>4. TypeOK'
    BY <1>1, <1>2 DEF FaultsIInv, TypeOK, Receives
  <1>5. FaultsAtPlace'
    BY <1>1 DEF FaultsAtPlace, IsResult
  <1> QED
    BY <1>3, <1>4, <1>5 DEF FaultsIInv

(* Removing the block being released.                                       *)
LEMMA RemovedHeap ==
    ASSUME FaultsIInv, NEW S, heap' = RemoveBlocks(heap, S)
    PROVE  /\ HeapOK(heap')
           /\ \A b \in DOMAIN heap \ S : b \in DOMAIN heap' /\ heap'[b] = heap[b]
  <1> DEFINE g == RemoveBlocks(heap, S)
  <1>1. HeapOK(heap)
    BY DEF FaultsIInv, TypeOK, HeapOK
  <1>2. HeapOK(g) /\ DOMAIN g = DOMAIN heap \ S /\ \A b \in DOMAIN g : g[b] = heap[b]
    BY <1>1, RemoveBlocksFacts
  <1>3. heap' = g
    OBVIOUS
  <1> HIDE DEF g
  <1> QED
    BY <1>2, <1>3

(* realloc(ptr, 0) in libc.                                                 *)
LEMMA FaultsRealReallocToNothing ==
    ASSUME FaultsIInv, RealReallocToNothing
    PROVE  FaultsIInv'
  <1>1. /\ pc = "libc" /\ pc' = "hook" /\ phase' = phase
        /\ heap' = RemoveBlocks(heap, {call.old})
        /\ call' = call /\ scratch' = scratch /\ trace_flag' = trace_flag
        /\ Request(call) = 0 /\ call.ptr = 0
    BY DEF RealReallocToNothing, Releases, FaultsIInv, FaultsAtPlace
  <1>2. Receives(tool, tool', {call.old})
    BY FaultsAtLibc DEF RealReallocToNothing
  <1>3. /\ HeapOK(heap')
        /\ \A b \in DOMAIN heap \ {call.old} : b \in DOMAIN heap' /\ heap'[b] = heap[b]
    BY <1>1, RemovedHeap
  <1>4. OneForeignRow' /\ PendingIsFirst' /\ QueueHoldsOneMessage'
    BY <1>1, <1>2, <1>3, ForeignRowStaysOne
  <1>5. TypeOK'
    BY <1>1, <1>2, <1>3 DEF FaultsIInv, TypeOK, Receives, HeapOK
  <1>6. Request(call') = 0
    BY <1>1
  <1>7. FaultsAtPlace'
    BY <1>1, <1>6 DEF FaultsAtPlace
  <1> QED
    BY <1>4, <1>5, <1>7 DEF FaultsIInv

(* free in libc: the tool retires what was announced since the entry.       *)
LEMMA FaultsRealFree ==
    ASSUME FaultsIInv, RealFree
    PROVE  FaultsIInv'
  <1>1. /\ pc = "freep" /\ pc' = "run" /\ phase' = phase
        /\ heap' = RemoveBlocks(heap, {call.old})
        /\ scratch' = scratch /\ trace_flag' = trace_flag
        /\ call.old \in Nat /\ call' \in Call
        /\ tool' = FreeBefore(tool, call.old)
    BY DEF RealFree, Return, FaultsIInv, TypeOK, Call, NoCall
  <1>2. Receives(tool, tool', {call.old})
    BY <1>1, ToolIsReady, FreeReceives
  <1>3. /\ HeapOK(heap')
        /\ \A b \in DOMAIN heap \ {call.old} : b \in DOMAIN heap' /\ heap'[b] = heap[b]
    BY <1>1, RemovedHeap
  <1>4. OneForeignRow' /\ PendingIsFirst' /\ QueueHoldsOneMessage'
    BY <1>1, <1>2, <1>3, ForeignRowStaysOne
  <1>5. TypeOK'
    BY <1>1, <1>2, <1>3 DEF FaultsIInv, TypeOK, Receives, HeapOK
  <1>6. FaultsAtPlace'
    BY <1>1 DEF FaultsAtPlace
  <1> QED
    BY <1>4, <1>5, <1>6 DEF FaultsIInv

(* A call that is not traced returns.                                       *)
LEMMA FaultsHookSkip ==
    ASSUME FaultsIInv, HookSkip
    PROVE  FaultsIInv'
  <1>1. /\ pc = "hook" /\ pc' = "run" /\ call' \in Call /\ scratch' = scratch
        /\ tool' = tool /\ heap' = heap /\ phase' = phase
        /\ trace_flag' = trace_flag
    BY DEF HookSkip, Return, NoCall, Call
  <1>2. TypeOK'
    BY <1>1 DEF FaultsIInv, TypeOK
  <1>3. QueueHoldsOneMessage' /\ OneForeignRow' /\ PendingIsFirst'
    BY <1>1 DEF FaultsIInv, QueueHoldsOneMessage, OneForeignRow, PendingIsFirst,
                Explained
  <1>4. FaultsAtPlace'
    BY <1>1 DEF FaultsAtPlace
  <1> QED
    BY <1>2, <1>3, <1>4 DEF FaultsIInv

(* The library's own blocks lie in free cells, and their allocations empty  *)
(* the queue.                                                               *)
LEMMA FaultsHookOpen ==
    ASSUME FaultsIInv, HookOpen
    PROVE  FaultsIInv'
  <1>1. /\ pc = "hook" /\ pc' = "look" /\ HeapOK(heap)
        /\ IsResult(FALSE)
        /\ trace_flag' = TRUE /\ phase' = phase /\ call' = call
    BY DEF FaultsIInv, TypeOK, HeapOK, FaultsAtPlace, HookOpen
  <1>2. PICK p, q \in {b \in ScratchCells : b \notin Occupied(heap)} :
          /\ p # q
          /\ heap' = AddBlock(AddBlock(heap, p, 1), q, 1)
          /\ scratch' = {p, q}
    BY DEF HookOpen
  <1> DEFINE g == AddBlock(heap, p, 1)
  <1>3. p \notin DOMAIN heap /\ q \notin DOMAIN heap /\ 0 \notin DOMAIN heap
    BY <1>1, <1>2, BaseOccupied, CellFacts DEF HeapOK
  <1>4. Replaced(heap, g, 0, p, 1)
    <2>1. RemoveBlocks(heap, {0}) = heap
      BY <1>1, NoRemoval
    <2> QED BY <1>1, <1>2, <2>1, AddBlockFacts
  <1> HIDE DEF g
  <1>5. /\ HeapOK(g) /\ DOMAIN g = DOMAIN heap \cup {p}
        /\ \A b \in DOMAIN heap : g[b] = heap[b]
    BY <1>3, <1>4 DEF Replaced
  <1>6. Replaced(g, heap', 0, q, 1)
    <2>1. RemoveBlocks(g, {0}) = g
      BY <1>5, NoRemoval
    <2>2. heap' = AddBlock(g, q, 1)
      BY <1>2 DEF g
    <2> QED BY <1>2, <1>5, <2>1, <2>2, AddBlockFacts
  <1>7. /\ HeapOK(heap')
        /\ \A b \in DOMAIN heap : b \in DOMAIN heap' /\ heap'[b] = heap[b]
    BY <1>3, <1>5, <1>6 DEF Replaced
  <1>8. Receives(tool, tool', {}) /\ tool'.queue = <<>> /\ tool'.in_alloc = 1
    <2> DEFINE t == MallocBefore(MallocBefore(MallocBefore(MallocBefore(tool, 1), 1), 1), 1)
    <2>1. tool' = t
      BY DEF HookOpen
    <2>2. Receives(tool, t, {}) /\ t.queue = <<>> /\ t.in_alloc = 1
      BY <1>1, ToolIsReady, OwnAllocationsPoll
    <2> HIDE DEF t
    <2> QED BY <2>1, <2>2
  <1>9. OneForeignRow' /\ PendingIsFirst' /\ QueueHoldsOneMessage'
    BY <1>1, <1>7, <1>8, ForeignRowStaysOne
  <1>10. TypeOK'
    BY <1>1, <1>2, <1>7, <1>8 DEF FaultsIInv, TypeOK, HeapOK, Receives
  <1>11. FaultsAtPlace'
    BY <1>1, <1>7, <1>8 DEF FaultsAtPlace, IsResult
  <1> QED
    BY <1>9, <1>10, <1>11 DEF FaultsIInv

(* The lookup of the call site.                                             *)
LEMMA FaultsLook ==
    ASSUME FaultsIInv, NotSelected \/ Selected
    PROVE  FaultsIInv'
  <1>1. /\ pc = "look" /\ pc' \in {"close", "found"}
        /\ tool' = tool /\ heap' = heap /\ phase' = phase /\ call' = call
        /\ trace_flag' = trace_flag /\ scratch' = scratch
    BY DEF NotSelected, Selected
  <1>2. TypeOK'
    BY <1>1 DEF FaultsIInv, TypeOK
  <1>3. QueueHoldsOneMessage' /\ OneForeignRow' /\ PendingIsFirst'
    BY <1>1 DEF FaultsIInv, QueueHoldsOneMessage, OneForeignRow, PendingIsFirst,
                Explained
  <1>4. FaultsAtPlace'
    BY <1>1 DEF FaultsIInv, FaultsAtPlace, IsResult
  <1> QED
    BY <1>2, <1>3, <1>4 DEF FaultsIInv

(* The message is sent into an empty queue; it names a block that is live   *)
(* and counts as announced from now on, or NULL.                            *)
LEMMA FaultsSend ==
    ASSUME FaultsIInv, Send
    PROVE  FaultsIInv'
  <1> DEFINE p == call.ptr
             n == Request(call)
             m == [addr |-> p, size |-> n]
  <1>1. /\ pc = "found" /\ pc' = "sent" /\ tool.queue = <<>>
        /\ tool \in ToolState /\ tool.in_alloc = 1 /\ HeapOK(heap)
        /\ p \in Nat /\ n \in Nat /\ n > 0
        /\ p # 0 => p \in DOMAIN heap /\ heap[p] = [size |-> n, traced |-> FALSE]
        /\ UNCHANGED <<phase, call, scratch, trace_flag>>
    BY RequestType DEF FaultsIInv, TypeOK, HeapOK, FaultsAtPlace, IsResult, Send, Call
  <1>2. /\ DOMAIN heap' = DOMAIN heap
        /\ \A b \in DOMAIN heap :
             heap'[b] = IF b = p THEN [heap[b] EXCEPT !.traced = TRUE] ELSE heap[b]
        /\ heap' \in [DOMAIN heap -> Block]
    <2>1. \A b \in DOMAIN heap : heap[b] \in Block
      BY <1>1 DEF HeapOK
    <2>2. \A b \in DOMAIN heap : [heap[b] EXCEPT !.traced = TRUE] \in Block
      BY <2>1 DEF Block
    <2>3. heap' = [b \in DOMAIN heap |->
                     IF b = p THEN [heap[b] EXCEPT !.traced = TRUE] ELSE heap[b]]
      BY DEF Send
    <2> QED BY <2>1, <2>2, <2>3
  <1>3. tool' = [tool EXCEPT !.queue = Append(tool.queue, m)]
    BY DEF Send, Announce
  <1>4. tool' \in ToolState /\ tool'.queue = <<m>> /\ tool'.objs = tool.objs
        /\ tool'.in_alloc = 1
    <2>1. m \in Message
      BY <1>1 DEF Message
    <2> HIDE DEF m
    <2>2. Append(tool.queue, m) = <<m>> /\ <<m>> \in Seq(Message)
      BY <1>1, <2>1
    <2> QED BY <1>1, <1>3, <2>2 DEF ToolState
  <1>5. p # 0 => heap'[p] = [size |-> n, traced |-> TRUE]
    <2> HIDE DEF p, n
    <2> QED BY <1>1, <1>2
  <1>6. \A b \in DOMAIN heap : heap[b].traced => heap'[b] = heap[b]
    <2>1. p \in DOMAIN heap => p # 0
      BY <1>1, CellFacts DEF HeapOK
    <2> HIDE DEF p, n
    <2>2. p \in DOMAIN heap => heap[p].traced = FALSE
      BY <1>1, <2>1
    <2> QED BY <1>2, <2>2
  <1>7. OneForeignRow'
    <2>1. ASSUME NEW o, Explained(heap, o)
          PROVE  Explained(heap', o)
      BY <1>2, <1>6, <2>1 DEF Explained
    <2> QED BY <1>4, <2>1 DEF FaultsIInv, OneForeignRow
  <1>8. QueueHoldsOneMessage' /\ PendingIsFirst'
    <2> HIDE DEF m
    <2> QED BY <1>1, <1>4 DEF QueueHoldsOneMessage, PendingIsFirst
  <1>9. TypeOK'
    BY <1>1, <1>2, <1>4 DEF FaultsIInv, TypeOK, HeapOK
  <1>10. FaultsAtPlace'
    <2>1. call' = call /\ Request(call') = n
      BY <1>1
    <2>2. IsResult(TRUE)'
      BY <1>1, <1>2, <1>5, <2>1 DEF IsResult
    <2> QED BY <1>1, <1>4, <2>1, <2>2 DEF FaultsAtPlace
  <1> QED
    BY <1>7, <1>8, <1>9, <1>10 DEF FaultsIInv

(* Releasing the library's own blocks retires the rows at their addresses.  *)
LEMMA FaultsClose ==
    ASSUME FaultsIInv, Close
    PROVE  FaultsIInv'
  <1> DEFINE F(i) == IF tool.objs[i].addr \in scratch
                     THEN [Retire(tool.objs[i]) EXCEPT !.ended = TRUE]
                     ELSE tool.objs[i]
             rows == [i \in DOMAIN tool.objs |-> F(i)]
  <1>1. /\ pc = "close" /\ pc' = "run" /\ tool \in ToolState /\ tool.queue = <<>>
        /\ heap' = RemoveBlocks(heap, scratch) /\ phase' = phase
        /\ scratch' = {} /\ trace_flag' = FALSE /\ call' \in Call
        /\ tool' = [tool EXCEPT !.objs = rows]
    BY DEF FaultsIInv, TypeOK, FaultsAtPlace, Close, Return, NoCall, Call
  <1>2. \A i \in DOMAIN tool.objs : tool.objs[i] \in Object
    BY <1>1 DEF ToolState
  <1>3. ASSUME NEW i \in DOMAIN tool.objs
        PROVE  /\ F(i) \in Object
               /\ F(i).size = tool.objs[i].size
               /\ IF tool.objs[i].addr \in scratch THEN F(i).addr <= 0
                  ELSE F(i).addr = tool.objs[i].addr
    <2> DEFINE o == tool.objs[i]
               r == [Retire(o) EXCEPT !.ended = TRUE]
    <2>1. o \in Object /\ o.size \in Nat
      BY <1>2 DEF Object
    <2> HIDE DEF o
    <2>2. r \in Object /\ r.size = o.size /\ r.addr = -o.size
      BY <2>1, RetireType
    <2>3. F(i) = IF o.addr \in scratch THEN r ELSE o
      BY DEF o
    <2> HIDE DEF r, F
    <2> QED BY <2>1, <2>2, <2>3 DEF o
  <1>4. rows \in [DOMAIN tool.objs -> Object]
    BY <1>3
  <1>5. DOMAIN rows = DOMAIN tool.objs /\ \A i \in DOMAIN tool.objs : rows[i] = F(i)
    OBVIOUS
  <1> HIDE DEF rows, F
  <1>6. tool' \in ToolState /\ tool'.objs = rows /\ tool'.queue = <<>>
    BY <1>1, <1>4, RowsRewritten DEF ToolState
  <1>7. Receives(tool, tool', scratch)
    BY <1>1, <1>3, <1>5, <1>6 DEF Receives, RetiredIn
  <1>8. /\ HeapOK(heap')
        /\ \A b \in DOMAIN heap \ scratch : b \in DOMAIN heap' /\ heap'[b] = heap[b]
    BY <1>1, RemovedHeap
  <1>9. OneForeignRow' /\ PendingIsFirst' /\ QueueHoldsOneMessage'
    BY <1>1, <1>7, <1>8, ForeignRowStaysOne
  <1>10. TypeOK'
    BY <1>1, <1>6, <1>8 DEF FaultsIInv, TypeOK, HeapOK
  <1>11. FaultsAtPlace'
    BY <1>1 DEF FaultsAtPlace
  <1> QED
    BY <1>9, <1>10, <1>11 DEF FaultsIInv

(* The steps of the process's life cycle, but its start.                    *)
LEMMA FaultsPhase ==
    ASSUME FaultsIInv, Constructor \/ Destructor \/ Exit
    PROVE  FaultsIInv'
  <1>1. /\ pc = "run" /\ pc' \in {"run", "done"} /\ phase' \in {"init", "main", "final"}
        /\ heap' = heap /\ call' = call /\ scratch' = scratch
        /\ trace_flag' \in BOOLEAN
    BY DEF FaultsIInv, TypeOK, Constructor, Destructor, Exit
  <1>2. Ready(tool)
    BY <1>1, ToolIsReady
  <1>3. SameRows(tool, tool') /\ tool'.queue = tool.queue
    <2>1. CASE tool' = tool
      BY <1>2, <2>1 DEF SameRows, Ready
    <2>2. CASE tool' = Output(tool)
      BY <1>2, <2>2, OutputEffect DEF Ready
    <2> QED BY <2>1, <2>2 DEF Constructor, Destructor, Exit
  <1>4. Receives(tool, tool', {})
    BY <1>2, <1>3 DEF Receives, RetiredIn, SameRows, Ready
  <1>5. OneForeignRow' /\ PendingIsFirst' /\ QueueHoldsOneMessage'
    BY <1>1, <1>4, ForeignRowStaysOne
  <1>6. TypeOK'
    BY <1>1, <1>3 DEF FaultsIInv, TypeOK, SameRows
  <1>7. FaultsAtPlace'
    BY <1>1 DEF FaultsAtPlace
  <1> QED
    BY <1>5, <1>6, <1>7 DEF FaultsIInv

(* An access at any place but after msgsnd.                                 *)
LEMMA FaultsAccess ==
    ASSUME FaultsIInv, NEW c, pc \notin {"sent", "done"},
           tool' = RecordMem(tool, c), pc' = pc,
           UNCHANGED <<heap, phase, call, scratch, trace_flag>>
    PROVE  FaultsIInv'
  <1>1. /\ Receives(tool, tool', {})
        /\ tool.queue = <<>> => tool'.queue = <<>> /\ tool'.in_alloc = tool.in_alloc
    BY ToolIsReady, RecordReceives
  <1>2. OneForeignRow' /\ PendingIsFirst' /\ QueueHoldsOneMessage'
    BY <1>1, ForeignRowStaysOne
  <1>3. TypeOK'
    BY <1>1 DEF FaultsIInv, TypeOK, Receives
  <1>4. FaultsAtPlace'
    BY <1>1 DEF FaultsIInv, FaultsAtPlace, IsResult
  <1> QED
    BY <1>2, <1>3, <1>4 DEF FaultsIInv

(* The first access after msgsnd delivers the message: its row is explained *)
(* by the block just announced.                                             *)
LEMMA FaultsDeliver ==
    ASSUME FaultsIInv, NEW c, pc = "sent", LibAccess(c)
    PROVE  FaultsIInv'
  <1> DEFINE p == call.ptr
             n == Request(call)
             k == Len(tool.objs) + 1
  <1>1. /\ tool \in ToolState /\ tool.in_alloc = 1
        /\ tool.queue = <<[addr |-> p, size |-> n]>>
        /\ p \in Nat /\ n \in Nat /\ n > 0
        /\ p # 0 => p \in DOMAIN heap /\ heap[p] = [size |-> n, traced |-> TRUE]
    BY RequestType DEF FaultsIInv, TypeOK, FaultsAtPlace, IsResult, Call
  <1>2. /\ pc' = "close" /\ tool' = RecordMem(tool, c)
        /\ UNCHANGED <<heap, phase, call, scratch, trace_flag>>
    BY DEF LibAccess
  <1> HIDE DEF p, n, k
  <1>3. /\ tool' \in ToolState
        /\ tool'.queue = <<>>
        /\ DOMAIN tool'.objs = DOMAIN tool.objs \cup {k}
        /\ tool'.objs[k].addr = p /\ tool'.objs[k].size = n
        /\ \A i \in DOMAIN tool.objs :
             /\ tool'.objs[i].addr = tool.objs[i].addr
             /\ tool'.objs[i].size = tool.objs[i].size
    BY <1>1, <1>2, DeliverEffect DEF k
  <1>4. Explained(heap', tool'.objs[k])
    BY <1>1, <1>2, <1>3 DEF Explained
  <1>5. \A i \in DOMAIN tool.objs :
          Explained(heap, tool.objs[i]) => Explained(heap', tool'.objs[i])
    BY <1>2, <1>3 DEF Explained
  <1>6. OneForeignRow'
    BY <1>3, <1>4, <1>5 DEF FaultsIInv, OneForeignRow
  <1>7. QueueHoldsOneMessage' /\ PendingIsFirst'
    BY <1>3 DEF QueueHoldsOneMessage, PendingIsFirst
  <1>8. TypeOK'
    BY <1>2, <1>3 DEF FaultsIInv, TypeOK
  <1>9. FaultsAtPlace'
    BY <1>2, <1>3 DEF FaultsAtPlace
  <1> QED
    BY <1>6, <1>7, <1>8, <1>9 DEF FaultsIInv

-----------------------------------------------------------------------------
(* The theorems.                                                            *)

(* Every step of a process or of the one after it keeps the invariant.      *)
LEMMA FaultsNext ==
    ASSUME FaultsIInv, [NextFaults]_vars
    PROVE  FaultsIInv'
  <1>1. CASE LibStep
    <2>1. CASE RealAlloc
      BY <2>1, FaultsRealAlloc
    <2>2. CASE RealReallocToNothing
      BY <2>2, FaultsRealReallocToNothing
    <2>3. CASE HookSkip
      BY <2>3, FaultsHookSkip
    <2>4. CASE HookOpen
      BY <2>4, FaultsHookOpen
    <2>5. CASE NotSelected \/ Selected
      BY <2>5, FaultsLook
    <2>6. CASE Send
      BY <2>6, FaultsSend
    <2>7. CASE Close
      BY <2>7, FaultsClose
    <2>8. CASE RealFree
      BY <2>8, FaultsRealFree
    <2>9. ASSUME NEW c \in Addresses, LibAccess(c)
          PROVE  FaultsIInv'
      <3>1. CASE pc = "sent"
        BY <2>9, <3>1, FaultsDeliver
      <3>2. CASE pc # "sent"
        <4>1. /\ pc \notin {"sent", "done"} /\ pc' = pc
              /\ tool' = RecordMem(tool, c)
              /\ UNCHANGED <<heap, phase, call, scratch, trace_flag>>
          BY <2>9, <3>2 DEF LibAccess
        <4> QED BY <4>1, FaultsAccess
      <3> QED BY <3>1, <3>2
    <2> QED BY <1>1, <2>1, <2>2, <2>3, <2>4, <2>5, <2>6, <2>7, <2>8, <2>9
           DEF LibStep, CallStep
  <1>2. CASE AppStep
    <2>1. ASSUME NEW n \in Sizes, MallocEnter(n)
          PROVE  FaultsIInv'
      <3>1. n \in Nat
        BY SizesAssumption
      <3>2. /\ MallocCall(n) \in Call /\ MallocCall(n).op = "malloc"
            /\ MallocCall(n).old = 0 /\ MallocCall(n).ptr = 0
        BY <3>1 DEF MallocCall, Call
      <3> QED BY <2>1, <3>2, FaultsEnter DEF MallocEnter
    <2>2. ASSUME NEW m \in Counts, NEW n \in Sizes, CallocEnter(m, n)
          PROVE  FaultsIInv'
      <3>1. m \in Nat /\ n \in Nat
        BY CountsAssumption, SizesAssumption
      <3>2. /\ CallocCall(m, n) \in Call /\ CallocCall(m, n).op = "calloc"
            /\ CallocCall(m, n).old = 0 /\ CallocCall(m, n).ptr = 0
        BY <3>1 DEF CallocCall, Call
      <3> QED BY <2>2, <3>2, FaultsEnter DEF CallocEnter
    <2>3. ASSUME NEW var \in Cells \cup {0}, NEW n \in Sizes, ReallocEnter(var, n)
          PROVE  FaultsIInv'
      <3>1. n \in Nat /\ var \in Nat
        BY SizesAssumption, CellFacts
      <3>2. /\ ReallocCall(var, n) \in Call /\ ReallocCall(var, n).op = "realloc"
            /\ ReallocCall(var, n).ptr = 0
        BY <3>1 DEF ReallocCall, Call
      <3> QED BY <2>3, <3>2, FaultsEnter DEF ReallocEnter
    <2>4. ASSUME NEW p \in Cells \cup {0}, FreeEnter(p)
          PROVE  FaultsIInv'
      BY <2>4, FaultsFreeEnter, CellFacts
    <2>5. ASSUME NEW c \in Addresses, AppAccess(c)
          PROVE  FaultsIInv'
      <3>1. /\ pc \notin {"sent", "done"} /\ pc' = pc
            /\ tool' = RecordMem(tool, c)
            /\ UNCHANGED <<heap, phase, call, scratch, trace_flag>>
        BY <2>5 DEF AppAccess
      <3> QED BY <3>1, FaultsAccess
    <2>6. CASE Constructor \/ Destructor \/ Exit
      BY <2>6, FaultsPhase
    <2>7. CASE Start
      BY <2>7, FaultsStart
    <2> QED BY <1>2, <2>1, <2>2, <2>3, <2>4, <2>5, <2>6, <2>7
           DEF AppStep, EnterStep
  <1>3. CASE AllocFails
    BY <1>3, FaultsAllocFails
  <1>4. CASE Kill
    BY <1>4, FaultsKill
  <1>5. CASE UNCHANGED vars
    <2>1. /\ tool' = tool /\ heap' = heap /\ phase' = phase /\ pc' = pc
          /\ call' = call /\ scratch' = scratch /\ trace_flag' = trace_flag
      BY <1>5 DEF vars
    <2>2. TypeOK'
      BY <2>1 DEF FaultsIInv, TypeOK
    <2>3. QueueHoldsOneMessage' /\ OneForeignRow' /\ PendingIsFirst'
      BY <2>1 DEF FaultsIInv, QueueHoldsOneMessage, OneForeignRow, PendingIsFirst,
                  Explained
    <2>4. FaultsAtPlace'
      BY <2>1 DEF FaultsIInv, FaultsAtPlace, IsResult
    <2> QED BY <2>2, <2>3, <2>4 DEF FaultsIInv
  <1> QED
    BY <1>1, <1>2, <1>3, <1>4, <1>5 DEF NextFaults, Next

(* Kills and failing allocations included, the slow pass keeps the          *)
(* invariant.                                                               *)
THEOREM FaultsInvariance == SpecFaults => []FaultsIInv
  <1>1. Init => FaultsIInv
    BY FaultsInit
  <1>2. FaultsIInv /\ [NextFaults]_vars => FaultsIInv'
    BY FaultsNext
  <1> QED
    BY <1>1, <1>2, PTL DEF SpecFaults

(* However often processes of one pid are killed, no queue ever holds two   *)
(* messages.                                                                *)
THEOREM OneMessageAfterKills == SpecFaults => []QueueHoldsOneMessage
  <1>1. FaultsIInv => QueueHoldsOneMessage
    BY DEF FaultsIInv
  <1> QED
    BY <1>1, FaultsInvariance, PTL

(* msgsnd finds room whenever it is called, in a queue of any capacity: a  *)
(* thread never waits for a queue that only it could drain.                 *)
THEOREM MsgsndNeverBlocks ==
    SpecFaults => [](pc = "found" => Len(tool.queue) < Capacity)
  <1>1. FaultsIInv => (pc = "found" => Len(tool.queue) < Capacity)
    BY CapacityAssumption DEF FaultsIInv, FaultsAtPlace
  <1> QED
    BY <1>1, FaultsInvariance, PTL

(* A killed process spoils one row of the next one at most, and a failed    *)
(* allocation only rows at address 0: every other row that is not retired   *)
(* is a live announced block with its size.                                 *)
THEOREM WrongRowsAreExplained == SpecFaults => []ForeignRowsAreExplained
  <1>1. ASSUME FaultsIInv
        PROVE  ForeignRowsAreExplained
    <2> DEFINE W == {i \in Registered(tool) :
                       LET o == tool.objs[i]
                       IN  /\ o.addr # 0
                           /\ ~ /\ o.addr \in DOMAIN heap
                                /\ heap[o.addr] = [size |-> o.size, traced |-> TRUE]}
    <2>1. \A i \in DOMAIN tool.objs : tool.objs[i].addr \in Int
      <3>1. tool.objs \in Seq(Object)
        BY <1>1 DEF FaultsIInv, TypeOK, ToolState
      <3>2. \A i \in DOMAIN tool.objs : tool.objs[i] \in Object
        BY <3>1
      <3> QED BY <3>2 DEF Object
    <2>2. \A i \in W : i \in DOMAIN tool.objs /\ ~Explained(heap, tool.objs[i])
      BY <2>1 DEF Registered, Explained
    <2>3. \A i, j \in W : i = j
      BY <1>1, <2>2 DEF FaultsIInv, OneForeignRow
    <2> HIDE DEF W
    <2>4. Cardinality(W) <= 1
      <3>1. CASE W = {}
        BY <3>1, FS_EmptySet
      <3>2. CASE W # {}
        <4>1. PICK i : W = {i}
          BY <2>3, <3>2
        <4> QED BY <4>1, FS_Singleton
      <3> QED BY <3>1, <3>2
    <2> QED BY <2>4 DEF ForeignRowsAreExplained, W
  <1> QED
    BY <1>1, FaultsInvariance, PTL
=============================================================================
