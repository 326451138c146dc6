--------------------------- MODULE PinToolMTProofs ---------------------------
(***************************************************************************)
(* Proofs about the multi-threaded tools, for any threads, sizes, capacity *)
(* of the queue and file AllocInfo.                                        *)
(***************************************************************************)
EXTENDS PinToolMTInv, FiniteSetTheorems, SequenceTheorems, WellFoundedInduction, TLAPS

-----------------------------------------------------------------------------
(* The line of the i-th object that gets a row exists.                      *)
Below(n) == {j \in StaticLines : j < n}

(* Below counts the lines of AllocInfo that get a row, line by line.        *)
LEMMA BelowFacts ==
    /\ IsFiniteSet(StaticLines) /\ Cardinality(StaticLines) <= Len(AllocInfo)
    /\ Len(AllocInfo) \in Nat
    /\ Below(0) = {} /\ Below(Len(AllocInfo) + 1) = StaticLines
    /\ \A n \in Nat : /\ n \in StaticLines => Below(n + 1) = Below(n) \cup {n}
                      /\ n \notin StaticLines => Below(n + 1) = Below(n)
    /\ \A n : IsFiniteSet(Below(n)) /\ Cardinality(Below(n)) \in Nat
<1>1. /\ StaticLines \subseteq 1 .. Len(AllocInfo) /\ Len(AllocInfo) \in Nat
      /\ \A j \in StaticLines : j \in Nat /\ 1 <= j /\ j <= Len(AllocInfo)
    <2>1. Len(AllocInfo) \in Nat /\ DOMAIN AllocInfo = 1 .. Len(AllocInfo)
        BY AllocInfoAssumption
    <2> QED
        BY <2>1 DEF StaticLines
<1>2. IsFiniteSet(1 .. Len(AllocInfo)) /\ Cardinality(1 .. Len(AllocInfo)) = Len(AllocInfo)
    <2> DEFINE n == Len(AllocInfo)
    <2>1. n \in Nat
        BY <1>1
    <2> HIDE DEF n
    <2>2. IsFiniteSet(1 .. n) /\ Cardinality(1 .. n) = n
        BY <2>1, FS_Interval
    <2> QED
        BY <2>2 DEF n
<1>3. IsFiniteSet(StaticLines) /\ Cardinality(StaticLines) <= Len(AllocInfo)
    BY <1>1, <1>2, FS_Subset
<1>4. Below(0) = {} /\ Below(Len(AllocInfo) + 1) = StaticLines
    <2>1. ASSUME NEW j, j \in Below(0) PROVE FALSE
        <3>1. j \in StaticLines /\ j < 0
            BY <2>1 DEF Below
        <3>2. j \in Nat
            BY <1>1, <3>1
        <3> QED
            BY <3>1, <3>2
    <2>2. \A j : j \in StaticLines => j \in Below(Len(AllocInfo) + 1)
        BY <1>1 DEF Below
    <2>3. Below(Len(AllocInfo) + 1) \subseteq StaticLines
        BY DEF Below
    <2> QED
        BY <2>1, <2>2, <2>3
<1>5. ASSUME NEW n \in Nat
      PROVE  /\ n \in StaticLines => Below(n + 1) = Below(n) \cup {n}
             /\ n \notin StaticLines => Below(n + 1) = Below(n)
    <2>1. \A j \in StaticLines : j < n + 1 <=> j < n \/ j = n
        BY <1>1
    <2>2. \A j : j \in Below(n + 1) <=> j \in StaticLines /\ (j < n \/ j = n)
        BY <2>1 DEF Below
    <2>3. \A j : j \in Below(n) <=> j \in StaticLines /\ j < n
        BY DEF Below
    <2> QED
        BY <2>2, <2>3
<1>6. ASSUME NEW n
      PROVE  IsFiniteSet(Below(n)) /\ Cardinality(Below(n)) \in Nat
    <2>1. Below(n) \in SUBSET StaticLines
        BY DEF Below
    <2> QED
        BY <1>3, <2>1, FS_Subset, FS_CardinalityType
<1> QED
    BY <1>1, <1>3, <1>4, <1>5, <1>6

(* The line of the i-th object that gets a row exists.                      *)
LEMMA StaticLineExists ==
    ASSUME NEW i \in 1 .. Cardinality(StaticLines)
    PROVE  StaticLine(i) \in StaticLines
<1> DEFINE Reach == {n \in Nat : i <= Cardinality(Below(n))}
<1>0. Cardinality(StaticLines) \in Nat /\ i \in Nat /\ 1 <= i /\ i <= Cardinality(StaticLines)
    BY BelowFacts, FS_CardinalityType
<1>1. Len(AllocInfo) + 1 \in Reach
    BY <1>0, BelowFacts
<1>2. PICK m \in Reach : \A n \in Reach : <<n, m>> \notin OpToRel(<, Nat)
    BY <1>1, NatLessThanWellFounded, WFMin, Zenon
<1>3. m \in Nat /\ m # 0
    BY <1>0, BelowFacts, FS_EmptySet
<1>4. m - 1 \in Nat /\ m - 1 \notin Reach
    <2>1. m - 1 \in Nat /\ m - 1 < m
        BY <1>3
    <2>2. <<m - 1, m>> \in OpToRel(<, Nat)
        BY <1>3, <2>1 DEF OpToRel
    <2> QED
        BY <1>2, <2>1, <2>2
<1>5. Cardinality(Below(m - 1)) < i /\ i <= Cardinality(Below((m - 1) + 1))
    BY <1>0, <1>3, <1>4, BelowFacts
<1> DEFINE k == m - 1
<1>6. k \in Nat /\ Cardinality(Below(k)) < i /\ i <= Cardinality(Below(k + 1))
    BY <1>4, <1>5
<1> HIDE DEF k, Reach
<1>7. k \in StaticLines
    BY <1>0, <1>6, BelowFacts
<1>8. Cardinality(Below(k)) = i - 1
    <2>1. Cardinality(Below(k + 1)) <= Cardinality(Below(k)) + 1
        <3>1. Below(k + 1) = Below(k) \cup {k}
            BY <1>6, <1>7, BelowFacts
        <3>2. IsFiniteSet(Below(k)) /\ Cardinality(Below(k)) \in Nat
            BY BelowFacts
        <3>3. Cardinality(Below(k) \cup {k}) =
                  IF k \in Below(k) THEN Cardinality(Below(k)) ELSE Cardinality(Below(k)) + 1
            BY <3>2, FS_AddElement
        <3> QED
            BY <3>1, <3>2, <3>3
    <2> QED
        BY <1>0, <1>6, <2>1, BelowFacts
<1> QED
    BY <1>7, <1>8 DEF StaticLine, Below

(* The objects of AllocInfo that get a row are a sequence, no longer than   *)
(* the file.                                                                *)
LEMMA StaticFacts ==
    /\ StaticObjects \in Seq(Message)
    /\ Len(StaticObjects) \in Nat /\ Len(StaticObjects) <= Len(AllocInfo)
<1> DEFINE n == Cardinality(StaticLines)
<1>1. n \in Nat /\ n <= Len(AllocInfo)
    BY BelowFacts, FS_CardinalityType
<1>2. \A i \in 1 .. n : AllocInfo[StaticLine(i)] \in Message
    <2> TAKE i \in 1 .. n
    <2>1. StaticLine(i) \in StaticLines
        BY StaticLineExists
    <2>2. /\ AllocInfo[StaticLine(i)] \in [addr : Nat, size : Nat]
          /\ AllocInfo[StaticLine(i)].size > 0
        <3>1. StaticLine(i) \in DOMAIN AllocInfo /\ AllocInfo[StaticLine(i)].size > 0
            BY <2>1 DEF StaticLines
        <3>2. \A x \in DOMAIN AllocInfo : AllocInfo[x] \in [addr : Nat, size : Nat]
            <4> DEFINE S == [addr : Nat, size : Nat]
            <4>1. AllocInfo \in Seq(S)
                BY AllocInfoAssumption
            <4> HIDE DEF S
            <4>2. \A x \in DOMAIN AllocInfo : AllocInfo[x] \in S
                BY <4>1
            <4> QED
                BY <4>2 DEF S
        <3> QED
            BY <3>1, <3>2
    <2> QED
        BY <2>2 DEF Message
<1> HIDE DEF n
<1>3. StaticObjects = [i \in 1 .. n |-> AllocInfo[StaticLine(i)]]
    BY DEF n, StaticObjects
<1> QED
    BY <1>1, <1>2, <1>3

-----------------------------------------------------------------------------
(* Sets of threads and the number of rows.                                  *)

(* A nonempty set of natural numbers has a least element.                   *)
LEMMA LeastElement ==
    ASSUME NEW S, S \subseteq Nat, S # {}
    PROVE  \E x \in S : \A y \in S : x <= y
<1>1. PICK x \in S : \A y \in S : <<y, x>> \notin OpToRel(<, Nat)
    BY NatLessThanWellFounded, WFMin, Zenon
<1>2. ASSUME NEW y \in S
      PROVE  x <= y
    <2>1. ~(y < x)
        BY <1>1 DEF OpToRel
    <2>2. x \in Nat /\ y \in Nat
        OBVIOUS
    <2> QED
        BY <2>1, <2>2
<1> QED
    BY <1>2

(* A set that differs from another one at most in t.                        *)
LEMMA OneElement ==
    ASSUME NEW S, NEW T, NEW t, IsFiniteSet(S), T \ {t} = S \ {t}
    PROVE  /\ IsFiniteSet(T)
           /\ Cardinality(S) \in Nat /\ Cardinality(T) \in Nat
           /\ (t \in S <=> t \in T) => T = S
           /\ t \notin S /\ t \in T => Cardinality(T) = Cardinality(S) + 1
           /\ t \in S /\ t \notin T => Cardinality(S) = Cardinality(T) + 1
<1>1. (t \in S <=> t \in T) => T = S
    OBVIOUS
<1>2. t \notin S /\ t \in T => T = S \cup {t}
    OBVIOUS
<1>3. t \in S /\ t \notin T => T = S \ {t}
    OBVIOUS
<1>4. /\ IsFiniteSet(S \cup {t})
      /\ Cardinality(S \cup {t}) = IF t \in S THEN Cardinality(S) ELSE Cardinality(S) + 1
    BY FS_AddElement
<1>5. /\ IsFiniteSet(S \ {t})
      /\ Cardinality(S \ {t}) = IF t \in S THEN Cardinality(S) - 1 ELSE Cardinality(S)
    BY FS_RemoveElement
<1>6. Cardinality(S) \in Nat
    BY FS_CardinalityType
<1>7. IsFiniteSet(T)
    BY <1>1, <1>2, <1>3, <1>4, <1>5
<1>8. Cardinality(T) \in Nat
    BY <1>7, FS_CardinalityType
<1> QED
    BY <1>1, <1>2, <1>3, <1>4, <1>5, <1>6, <1>7, <1>8

(* Sets of threads are finite.                                              *)
LEMMA SubsetsAreFinite ==
    ASSUME NEW S, S \subseteq Threads
    PROVE  /\ IsFiniteSet(S) /\ Cardinality(S) \in Nat
           /\ Cardinality(S) <= Cardinality(Threads)
           /\ Cardinality(S) = 0 <=> S = {}
BY ThreadsAssumption, FS_Subset, FS_CardinalityType, FS_EmptySet

(* Every row in use or being filled is in the table.                        *)
LEMMA RowsFit ==
    ASSUME ControlInv
    PROVE  /\ MAX_SIZE \in Nat /\ Len(received) <= MAX_SIZE
           /\ count \in 0 .. MAX_SIZE
           /\ \A t \in Filling : /\ count + 1 \in 1 .. MAX_SIZE
                                 /\ thr[t].pc = "store" => thr[t].reg + 1 \in 1 .. MAX_SIZE
<1>1. /\ count \in Nat /\ received \in Seq(Message) /\ queue \in Seq(Message)
      /\ thr \in [Threads -> Frame]
    BY DEF ControlInv, Globals
<1>2. Len(AllocInfo) \in Nat /\ MaxCalls \in Nat /\ MAX_SIZE \in Nat
    BY StaticFacts, BelowFacts, BoundsAssumption DEF MAX_SIZE
<1>3. /\ Cardinality(Filling) \in Nat /\ Cardinality(Unsent) \in Nat
      /\ \A t \in Filling : Cardinality(Filling) >= 1
    <2>1. Filling \subseteq Threads /\ Unsent \subseteq Threads
        BY DEF Filling, Unsent
    <2> QED
        BY <2>1, SubsetsAreFinite
<1>4. Cardinality(DOMAIN heap) \in Nat /\ Cardinality(DOMAIN heap) <= MaxCalls
    BY FS_CardinalityType DEF ControlInv, HeapOK
<1>5. Len(received) \in Nat /\ Len(queue) \in Nat
    BY <1>1
<1>6. Len(received) <= MAX_SIZE
    <2>1. CASE variant.fortran
        BY <2>1, <1>2, StaticFacts DEF ControlInv, RowsSuffice, MAX_SIZE
    <2>2. CASE ~variant.fortran
        BY <2>2, <1>2, <1>3, <1>4, <1>5 DEF ControlInv, RowsSuffice, MAX_SIZE
    <2> QED
        BY <2>1, <2>2
<1>7. count + Cardinality(Filling) <= Len(received)
    BY DEF ControlInv, RowsSuffice
<1>8. ASSUME NEW t \in Filling
      PROVE  /\ count + 1 \in 1 .. MAX_SIZE
             /\ thr[t].pc = "store" => thr[t].reg + 1 \in 1 .. MAX_SIZE
    <2>1. t \in Threads /\ thr[t].reg \in Nat
        BY <1>1 DEF Filling, Frame
    <2>2. thr[t].pc = "store" => thr[t].reg + Cardinality(Filling) <= Len(received)
        BY <2>1 DEF ControlInv, RowsSuffice
    <2> DEFINE n == Len(received)
               k == Cardinality(Filling)
    <2>3. k >= 1 /\ k \in Nat /\ n \in Nat /\ n <= MAX_SIZE /\ count + k <= n
          /\ (thr[t].pc = "store" => thr[t].reg + k <= n)
        BY <1>3, <1>5, <1>6, <1>7, <2>2
    <2> HIDE DEF n, k
    <2> QED
        BY <1>1, <1>2, <2>1, <2>3
<1>9. count \in 0 .. MAX_SIZE
    BY <1>1, <1>2, <1>3, <1>5, <1>6, <1>7
<1> QED
    BY <1>2, <1>6, <1>8, <1>9

-----------------------------------------------------------------------------
(* What a step does to the frames.                                          *)

(* What is left of a sequence of more than one element.                     *)
LEMMA TailOfTwo ==
    ASSUME NEW S, NEW s \in Seq(S), Len(s) > 1
    PROVE  Tail(s) \in Seq(S) /\ Tail(s) # <<>>
<1> DEFINE n == Len(s)
<1>1. n \in Nat /\ n > 1 /\ s # <<>>
    OBVIOUS
<1>2. Tail(s) \in Seq(S) /\ Len(Tail(s)) = n - 1
    BY <1>1, HeadTailProperties
<1> HIDE DEF n
<1>3. n - 1 # 0
    BY <1>1
<1>4. Len(Tail(s)) # Len(<<>>)
    BY <1>2, <1>3, EmptySeq
<1> QED
    BY <1>2, <1>4, Zenon

FramesMove(t) ==
    /\ thr' \in [Threads -> Frame] /\ FrameOK(thr[t])' /\ UNCHANGED variant
    /\ \A u \in Threads \ {t} : thr'[u] = thr[u]
    /\ raced' \in BOOLEAN
    /\ ~raced' => ~raced /\ (Writing(t)' => \A u \in Threads \ {t} : ~Writing(u))

(* Thread t goes to pc, in the same call.                                   *)
Moved(t, pc) ==
    /\ FramesMove(t)
    /\ thr'[t].pc = pc
    /\ thr'[t].back = thr[t].back /\ thr'[t].todo = thr[t].todo
    /\ thr'[t].size = thr[t].size /\ thr'[t].old = thr[t].old
    /\ thr'[t].ptr = thr[t].ptr

USE DEF FrameOK, InEntry, AtStat, InLibrary, InAnalysis, Polling, Freeing, At

(* Goto moves the frame of one thread.                                      *)
LEMMA GotoMoves ==
    ASSUME NEW t \in Threads, NEW r \in Frame, thr \in [Threads -> Frame], Goto(t, r),
           FrameOK(r), UNCHANGED variant, raced \in BOOLEAN
    PROVE  FramesMove(t) /\ thr'[t] = r
BY DEF Goto, FramesMove

(* The frame of a thread that is in the application.                        *)
LEMMA IdleFields ==
    /\ Idle.pc = "run" /\ Idle.back = "run" /\ Idle.todo = 0
    /\ Idle.size = 0 /\ Idle.old = 0 /\ Idle.ptr = 0
BY DEF Idle

(* Thread t has returned to the application.                                *)
Returned(t) ==
    /\ FramesMove(t)
    /\ thr'[t].pc = "run" /\ thr'[t].back = "run" /\ thr'[t].todo = 0
    /\ thr'[t].size = 0 /\ thr'[t].old = 0 /\ thr'[t].ptr = 0

(* It is a frame, whatever the tool.                                        *)
LEMMA IdleIsFrame == Idle \in Frame /\ FrameOK(Idle)
BY DEF Idle, Frame, Variants, pintool_mt_whole

(* Addresses are natural numbers, and a new block's is above 0.             *)
LEMMA AddressFacts ==
    /\ Stack \in Nat
    /\ \A n \in Nat : AddressOf(n) \in Nat
    /\ ControlInv => Fresh \in Nat /\ Fresh > 0
BY BoundsAssumption, FS_CardinalityType
DEF Stack, AddressOf, Fresh, ControlInv, HeapOK

(* A poll with no message goes on after the poll.                           *)
LEMMA RecvNothingStep ==
    ASSUME ControlInv, NEW t \in Threads, RecvNothing(t)
    PROVE  Moved(t, AfterPoll(t))
<1> DEFINE r == [thr[t] EXCEPT !.pc = AfterPoll(t)]
<1>1. thr \in [Threads -> Frame] /\ thr[t] \in Frame /\ FrameOK(thr[t])
      /\ msg_addr \in [addr : Nat, size : Nat] /\ count \in Nat
      /\ raced \in BOOLEAN
    BY DEF ControlInv, Globals
<1>2. r \in Frame
    BY <1>1 DEF Frame, RecvNothing, AfterPoll, Entered
<1>3. FrameOK(r)
    BY <1>1 DEF Frame, RecvNothing, AfterPoll, Entered
<1>4. Goto(t, r) /\ UNCHANGED variant
    BY DEF RecvNothing, AfterPoll, Entered
<1>5. thr'[t] = r /\ FramesMove(t)
    <2> HIDE DEF r
    <2> QED
        BY <1>1, <1>2, <1>3, <1>4, GotoMoves
<1> QED
    BY <1>1, <1>5 DEF Moved, Frame, AfterPoll

(* A poll with a message goes on to read the buffer.                        *)
LEMMA RecvStep ==
    ASSUME ControlInv, NEW t \in Threads, Recv(t)
    PROVE  Moved(t, "read")
<1> DEFINE r == [thr[t] EXCEPT !.pc = "read"]
<1>1. thr \in [Threads -> Frame] /\ thr[t] \in Frame /\ FrameOK(thr[t])
      /\ msg_addr \in [addr : Nat, size : Nat] /\ count \in Nat
      /\ raced \in BOOLEAN
    BY DEF ControlInv, Globals
<1>2. r \in Frame
    BY <1>1 DEF Frame, Recv
<1>3. FrameOK(r)
    BY <1>1 DEF Frame, Recv
<1>4. Goto(t, r) /\ UNCHANGED variant
    BY DEF Recv
<1>5. thr'[t] = r /\ FramesMove(t)
    <2> HIDE DEF r
    <2> QED
        BY <1>1, <1>2, <1>3, <1>4, GotoMoves
<1> QED
    BY <1>1, <1>5 DEF Moved, Frame

(* A thread that has a message first clears in_alloc ...                    *)
LEMMA ReadMessageStep ==
    ASSUME ControlInv, NEW t \in Threads, ReadMessage(t)
    PROVE  Moved(t, "bytes")
<1> DEFINE r == [thr[t] EXCEPT !.pc = "bytes"]
<1>1. thr \in [Threads -> Frame] /\ thr[t] \in Frame /\ FrameOK(thr[t])
      /\ msg_addr \in [addr : Nat, size : Nat] /\ count \in Nat
      /\ raced \in BOOLEAN
    BY DEF ControlInv, Globals
<1>2. r \in Frame
    BY <1>1 DEF Frame, ReadMessage
<1>3. FrameOK(r)
    BY <1>1 DEF Frame, ReadMessage
<1>4. Goto(t, r) /\ UNCHANGED variant
    BY DEF ReadMessage
<1>5. thr'[t] = r /\ FramesMove(t)
    <2> HIDE DEF r
    <2> QED
        BY <1>1, <1>2, <1>3, <1>4, GotoMoves
<1> QED
    BY <1>1, <1>5 DEF Moved, Frame

(* ... then takes the size ...                                              *)
LEMMA ReadSizeStep ==
    ASSUME ControlInv, NEW t \in Threads, ReadSize(t)
    PROVE  Moved(t, "arg")
<1> DEFINE r == [thr[t] EXCEPT !.pc = "arg"]
<1>1. thr \in [Threads -> Frame] /\ thr[t] \in Frame /\ FrameOK(thr[t])
      /\ msg_addr \in [addr : Nat, size : Nat] /\ count \in Nat
      /\ raced \in BOOLEAN
    BY DEF ControlInv, Globals
<1>2. r \in Frame
    BY <1>1 DEF Frame, ReadSize
<1>3. FrameOK(r)
    BY <1>1 DEF Frame, ReadSize
<1>4. Goto(t, r) /\ UNCHANGED variant
    BY DEF ReadSize
<1>5. thr'[t] = r /\ FramesMove(t)
    <2> HIDE DEF r
    <2> QED
        BY <1>1, <1>2, <1>3, <1>4, GotoMoves
<1> QED
    BY <1>1, <1>5 DEF Moved, Frame

(* ... and the address, which is kept in the frame.                         *)
LEMMA ReadAddrStep ==
    ASSUME ControlInv, NEW t \in Threads, ReadAddr(t)
    PROVE  /\ Moved(t, "after")
           /\ thr'[t].ret = msg_addr.addr
<1> DEFINE r == [thr[t] EXCEPT !.pc = "after", !.ret = msg_addr.addr]
<1>1. thr \in [Threads -> Frame] /\ thr[t] \in Frame /\ FrameOK(thr[t])
      /\ msg_addr \in [addr : Nat, size : Nat] /\ count \in Nat
      /\ raced \in BOOLEAN
    BY DEF ControlInv, Globals
<1>2. r \in Frame
    BY <1>1 DEF Frame, ReadAddr
<1>3. FrameOK(r)
    BY <1>1 DEF Frame, ReadAddr
<1>4. Goto(t, r) /\ UNCHANGED variant
    BY DEF ReadAddr
<1>5. thr'[t] = r /\ FramesMove(t)
    <2> HIDE DEF r
    <2> QED
        BY <1>1, <1>2, <1>3, <1>4, GotoMoves
<1> QED
    BY <1>1, <1>5 DEF Moved, Frame

(* AllocAfter clears in_alloc again ...                                     *)
LEMMA AllocAfterStep ==
    ASSUME ControlInv, NEW t \in Threads, AllocAfter(t)
    PROVE  /\ Moved(t, "test")
           /\ thr'[t].ret = thr[t].ret
<1> DEFINE r == [thr[t] EXCEPT !.pc = "test"]
<1>1. thr \in [Threads -> Frame] /\ thr[t] \in Frame /\ FrameOK(thr[t])
      /\ msg_addr \in [addr : Nat, size : Nat] /\ count \in Nat
      /\ raced \in BOOLEAN
    BY DEF ControlInv, Globals
<1>2. r \in Frame
    BY <1>1 DEF Frame, AllocAfter
<1>3. FrameOK(r)
    BY <1>1 DEF Frame, AllocAfter
<1>4. Goto(t, r) /\ UNCHANGED variant
    BY DEF AllocAfter
<1>5. thr'[t] = r /\ FramesMove(t)
    <2> HIDE DEF r
    <2> QED
        BY <1>1, <1>2, <1>3, <1>4, GotoMoves
<1> QED
    BY <1>1, <1>5 DEF Moved, Frame

(* ... and goes on unless the size is 0.                                    *)
LEMMA TestSizeStep ==
    ASSUME ControlInv, NEW t \in Threads, TestSize(t)
    PROVE  /\ Moved(t, IF G_var_size > 0 THEN "size" ELSE AfterPoll(t))
           /\ G_var_size > 0 => thr'[t].ret = thr[t].ret
<1> DEFINE r == IF G_var_size > 0 THEN [thr[t] EXCEPT !.pc = "size"]
                ELSE [thr[t] EXCEPT !.pc = AfterPoll(t), !.ret = 0]
<1>1. thr \in [Threads -> Frame] /\ thr[t] \in Frame /\ FrameOK(thr[t])
      /\ msg_addr \in [addr : Nat, size : Nat] /\ count \in Nat
      /\ raced \in BOOLEAN
    BY DEF ControlInv, Globals
<1>2. r \in Frame
    BY <1>1 DEF Frame, TestSize, AfterPoll, Entered
<1>3. FrameOK(r)
    BY <1>1 DEF Frame, TestSize, AfterPoll, Entered
<1>4. Goto(t, r) /\ UNCHANGED variant
    BY DEF TestSize, AfterPoll, Entered
<1>5. thr'[t] = r /\ FramesMove(t)
    <2> HIDE DEF r
    <2> QED
        BY <1>1, <1>2, <1>3, <1>4, GotoMoves
<1> QED
    BY <1>1, <1>5 DEF Moved, Frame, AfterPoll, Entered

(* The row's size is written before its address.                            *)
LEMMA WriteSizeStep ==
    ASSUME ControlInv, NEW t \in Threads, WriteSize(t)
    PROVE  /\ Moved(t, "addr")
           /\ thr'[t].ret = thr[t].ret
<1> DEFINE r == [thr[t] EXCEPT !.pc = "addr"]
<1>1. thr \in [Threads -> Frame] /\ thr[t] \in Frame /\ FrameOK(thr[t])
      /\ msg_addr \in [addr : Nat, size : Nat] /\ count \in Nat
      /\ raced \in BOOLEAN
    BY DEF ControlInv, Globals
<1>2. r \in Frame
    BY <1>1 DEF Frame, WriteSize
<1>3. FrameOK(r)
    BY <1>1 DEF Frame, WriteSize
<1>4. Goto(t, r) /\ UNCHANGED variant
    BY DEF WriteSize
<1>5. thr'[t] = r /\ FramesMove(t)
    <2> HIDE DEF r
    <2> QED
        BY <1>1, <1>2, <1>3, <1>4, GotoMoves
<1> QED
    BY <1>1, <1>5 DEF Moved, Frame

(* The row is written before count is.                                      *)
LEMMA WriteAddrStep ==
    ASSUME ControlInv, NEW t \in Threads, WriteAddr(t)
    PROVE  Moved(t, "init")
<1> DEFINE r == [thr[t] EXCEPT !.pc = "init"]
<1>1. thr \in [Threads -> Frame] /\ thr[t] \in Frame /\ FrameOK(thr[t])
      /\ msg_addr \in [addr : Nat, size : Nat] /\ count \in Nat
      /\ raced \in BOOLEAN
    BY DEF ControlInv, Globals
<1>2. r \in Frame
    BY <1>1 DEF Frame, WriteAddr
<1>3. FrameOK(r)
    BY <1>1 DEF Frame, WriteAddr
<1>4. Goto(t, r) /\ UNCHANGED variant
    BY DEF WriteAddr
<1>5. thr'[t] = r /\ FramesMove(t)
    <2> HIDE DEF r
    <2> QED
        BY <1>1, <1>2, <1>3, <1>4, GotoMoves
<1> QED
    BY <1>1, <1>5 DEF Moved, Frame

(* So are its counters.                                                     *)
LEMMA InitVariableStep ==
    ASSUME ControlInv, NEW t \in Threads, InitVariable(t)
    PROVE  Moved(t, "load")
<1> DEFINE r == [thr[t] EXCEPT !.pc = "load"]
<1>1. thr \in [Threads -> Frame] /\ thr[t] \in Frame /\ FrameOK(thr[t])
      /\ msg_addr \in [addr : Nat, size : Nat] /\ count \in Nat
      /\ raced \in BOOLEAN
    BY DEF ControlInv, Globals
<1>2. r \in Frame
    BY <1>1 DEF Frame, InitVariable
<1>3. FrameOK(r)
    BY <1>1 DEF Frame, InitVariable
<1>4. Goto(t, r) /\ UNCHANGED variant
    BY DEF InitVariable
<1>5. thr'[t] = r /\ FramesMove(t)
    <2> HIDE DEF r
    <2> QED
        BY <1>1, <1>2, <1>3, <1>4, GotoMoves
<1> QED
    BY <1>1, <1>5 DEF Moved, Frame

(* count is read into the frame, to be written back plus one.               *)
LEMMA LoadCountStep ==
    ASSUME ControlInv, NEW t \in Threads, LoadCount(t)
    PROVE  /\ Moved(t, "store")
           /\ thr'[t].reg = count
<1> DEFINE r == [thr[t] EXCEPT !.pc = "store", !.reg = count]
<1>1. thr \in [Threads -> Frame] /\ thr[t] \in Frame /\ FrameOK(thr[t])
      /\ msg_addr \in [addr : Nat, size : Nat] /\ count \in Nat
      /\ raced \in BOOLEAN
    BY DEF ControlInv, Globals
<1>2. r \in Frame
    BY <1>1 DEF Frame, LoadCount
<1>3. FrameOK(r)
    BY <1>1 DEF Frame, LoadCount
<1>4. Goto(t, r) /\ UNCHANGED variant
    BY DEF LoadCount
<1>5. thr'[t] = r /\ FramesMove(t)
    <2> HIDE DEF r
    <2> QED
        BY <1>1, <1>2, <1>3, <1>4, GotoMoves
<1> QED
    BY <1>1, <1>5 DEF Moved, Frame

(* The row is published and the poll is over.                               *)
LEMMA StoreCountStep ==
    ASSUME ControlInv, NEW t \in Threads, StoreCount(t)
    PROVE  Moved(t, AfterPoll(t))
<1> DEFINE r == [thr[t] EXCEPT !.pc = AfterPoll(t), !.reg = 0, !.ret = 0]
<1>1. thr \in [Threads -> Frame] /\ thr[t] \in Frame /\ FrameOK(thr[t])
      /\ msg_addr \in [addr : Nat, size : Nat] /\ count \in Nat
      /\ raced \in BOOLEAN
    BY DEF ControlInv, Globals
<1>2. r \in Frame
    BY <1>1 DEF Frame, StoreCount, AfterPoll, Entered
<1>3. FrameOK(r)
    BY <1>1 DEF Frame, StoreCount, AfterPoll, Entered
<1>4. Goto(t, r) /\ UNCHANGED variant
    BY DEF StoreCount, AfterPoll, Entered
<1>5. thr'[t] = r /\ FramesMove(t)
    <2> HIDE DEF r
    <2> QED
        BY <1>1, <1>2, <1>3, <1>4, GotoMoves
<1> QED
    BY <1>1, <1>5 DEF Moved, Frame, AfterPoll

(* A ...Before routine polls if a message is expected.                      *)
LEMMA BeforeStep ==
    ASSUME ControlInv, NEW t \in Threads, Before(t)
    PROVE  Moved(t, IF in_alloc = 1 /\ G_var_size > 0
                       THEN "recv" ELSE Entered(thr[t]))
<1> DEFINE r == [thr[t] EXCEPT !.pc = IF in_alloc = 1 /\ G_var_size > 0
                                  THEN "recv" ELSE Entered(thr[t])]
<1>1. thr \in [Threads -> Frame] /\ thr[t] \in Frame /\ FrameOK(thr[t])
      /\ msg_addr \in [addr : Nat, size : Nat] /\ count \in Nat
      /\ raced \in BOOLEAN
    BY DEF ControlInv, Globals
<1>2. r \in Frame
    BY <1>1 DEF Frame, Before, EnterBefore, Entered
<1>3. FrameOK(r)
    BY <1>1 DEF Frame, Before, EnterBefore, Entered
<1>4. Goto(t, r) /\ UNCHANGED variant
    BY DEF Before, EnterBefore, Entered
<1>5. thr'[t] = r /\ FramesMove(t)
    <2> HIDE DEF r
    <2> QED
        BY <1>1, <1>2, <1>3, <1>4, GotoMoves
<1> QED
    BY <1>1, <1>5 DEF Moved, Frame

(* realloc's routine has retired the rows of the block.                     *)
LEMMA RetireStep ==
    ASSUME ControlInv, NEW t \in Threads, Retire(t)
    PROVE  Moved(t, "set")
<1> DEFINE r == [thr[t] EXCEPT !.pc = "set"]
<1>1. thr \in [Threads -> Frame] /\ thr[t] \in Frame /\ FrameOK(thr[t])
      /\ msg_addr \in [addr : Nat, size : Nat] /\ count \in Nat
      /\ raced \in BOOLEAN
    BY DEF ControlInv, Globals
<1>2. r \in Frame
    BY <1>1 DEF Frame, Retire
<1>3. FrameOK(r)
    BY <1>1 DEF Frame, Retire
<1>4. Goto(t, r) /\ UNCHANGED variant
    BY DEF Retire
<1>5. thr'[t] = r /\ FramesMove(t)
    <2> HIDE DEF r
    <2> QED
        BY <1>1, <1>2, <1>3, <1>4, GotoMoves
<1> QED
    BY <1>1, <1>5 DEF Moved, Frame

(* The routine has stored the size: one less to run.                        *)
LEMMA SetSizeStep ==
    ASSUME ControlInv, NEW t \in Threads, SetSize(t)
    PROVE  /\ FramesMove(t) /\ thr'[t].pc = "stat"
           /\ thr'[t].back = thr[t].back
           /\ thr'[t].todo = thr[t].todo - 1
           /\ thr'[t].size = thr[t].size
           /\ thr'[t].old = thr[t].old
           /\ thr'[t].ptr = thr[t].ptr
<1> DEFINE r == [thr[t] EXCEPT !.pc = "stat", !.todo = @ - 1]
<1>1. thr \in [Threads -> Frame] /\ thr[t] \in Frame /\ FrameOK(thr[t])
      /\ msg_addr \in [addr : Nat, size : Nat] /\ count \in Nat
      /\ raced \in BOOLEAN
    BY DEF ControlInv, Globals
<1>0. thr[t].todo \in Nat /\ thr[t].todo # 0 /\ thr[t].todo <= 2 /\ thr[t].todo - 1 \in Nat
      /\ thr[t].back \in {"hook", "return", "nested"}
    <2>1. thr[t].todo \in Nat /\ thr[t].pc = "set"
        BY <1>1 DEF Frame, SetSize
    <2>2. thr[t].todo # 0 /\ thr[t].todo <= 2 /\ thr[t].back \in {"hook", "return", "nested"}
        BY <1>1, <2>1
    <2> QED
        BY <2>1, <2>2
<1>2. r \in Frame
    BY <1>1, <1>0 DEF Frame
<1>3. FrameOK(r)
    <2>1. /\ r.pc = "stat" /\ r.todo <= 1 /\ r.back = thr[t].back /\ r.nest = thr[t].nest
          /\ thr[t].pc = "set"
        BY <1>1, <1>0 DEF Frame, SetSize
    <2> QED
        BY <1>1, <1>0, <2>1
<1>4. Goto(t, r) /\ UNCHANGED variant
    BY DEF SetSize
<1>5. thr'[t] = r /\ FramesMove(t)
    <2> HIDE DEF r
    <2> QED
        BY <1>1, <1>2, <1>3, <1>4, GotoMoves
<1> QED
    BY <1>1, <1>5 DEF Moved, Frame

(* The next routine runs, or the call goes on.                              *)
LEMMA ChangeAllocStatStep ==
    ASSUME ControlInv, NEW t \in Threads, ChangeAllocStat(t)
    PROVE  Moved(t, IF thr[t].todo = 0 THEN thr[t].back ELSE "before")
<1> DEFINE r == [thr[t] EXCEPT !.pc = IF thr[t].todo = 0 THEN thr[t].back ELSE "before"]
<1>1. thr \in [Threads -> Frame] /\ thr[t] \in Frame /\ FrameOK(thr[t])
      /\ raced \in BOOLEAN
    BY DEF ControlInv, Globals
<1>2. r \in Frame
    BY <1>1 DEF Frame, ChangeAllocStat
<1>3. FrameOK(r)
    BY <1>1 DEF Frame, ChangeAllocStat
<1>4. Goto(t, r) /\ UNCHANGED variant
    BY DEF ChangeAllocStat
<1>5. thr'[t] = r /\ FramesMove(t)
    <2> HIDE DEF r
    <2> QED
        BY <1>1, <1>2, <1>3, <1>4, GotoMoves
<1> QED
    BY <1>1, <1>5 DEF Moved, Frame

(* libc has returned a block, and tracing was on.                           *)
LEMMA HookStep ==
    ASSUME ControlInv, NEW t \in Threads, Hook(t)
    PROVE  /\ FramesMove(t) /\ thr'[t].pc = "setflag"
           /\ thr'[t].back = thr[t].back
           /\ thr'[t].todo = thr[t].todo
           /\ thr'[t].size = thr[t].size
           /\ thr'[t].old = 0
           /\ thr'[t].ptr = thr[t].ptr
<1> DEFINE r == [thr[t] EXCEPT !.pc = "setflag", !.old = 0]
<1>1. thr \in [Threads -> Frame] /\ thr[t] \in Frame /\ FrameOK(thr[t])
      /\ raced \in BOOLEAN
    BY DEF ControlInv, Globals
<1>2. r \in Frame
    BY <1>1 DEF Frame, Hook
<1>3. FrameOK(r)
    BY <1>1 DEF Frame, Hook
<1>4. Goto(t, r) /\ UNCHANGED variant
    BY DEF Hook
<1>5. thr'[t] = r /\ FramesMove(t)
    <2> HIDE DEF r
    <2> QED
        BY <1>1, <1>2, <1>3, <1>4, GotoMoves
<1> QED
    BY <1>1, <1>5 DEF Moved, Frame

(* The library's own work begins.                                           *)
LEMMA SetFlagStep ==
    ASSUME ControlInv, NEW t \in Threads, SetFlag(t)
    PROVE  Moved(t, "show")
<1> DEFINE r == [thr[t] EXCEPT !.pc = "show", !.nest = <<NestedMallocs>> \o @]
<1>1. thr \in [Threads -> Frame] /\ thr[t] \in Frame /\ FrameOK(thr[t])
      /\ raced \in BOOLEAN
    BY DEF ControlInv, Globals
<1>0. /\ <<NestedMallocs>> \o thr[t].nest \in Seq(Nat)
      /\ <<NestedMallocs>> \o thr[t].nest # <<>>
      /\ thr[t].back = "hook" => <<NestedMallocs>> \o thr[t].nest = <<NestedMallocs>>
    <2>1. thr[t].nest \in Seq(Nat) /\ <<NestedMallocs>> \in Seq(Nat)
        BY <1>1, BoundsAssumption DEF Frame
    <2>2. /\ <<NestedMallocs>> \o thr[t].nest \in Seq(Nat)
          /\ Len(<<NestedMallocs>> \o thr[t].nest) = 1 + Len(thr[t].nest)
        BY <2>1, ConcatProperties
    <2>3. Len(thr[t].nest) \in Nat /\ <<NestedMallocs>> \o thr[t].nest # <<>>
        BY <2>1, <2>2
    <2>4. thr[t].back = "hook" => thr[t].nest = <<>>
        BY <1>1 DEF SetFlag
    <2>5. <<NestedMallocs>> \o <<>> = <<NestedMallocs>>
        BY <2>1
    <2> QED
        BY <2>2, <2>3, <2>4, <2>5
<1>2. r \in Frame
    BY <1>1, <1>0 DEF Frame, SetFlag
<1>3. FrameOK(r)
    BY <1>1, <1>0 DEF Frame, SetFlag
<1>4. Goto(t, r) /\ UNCHANGED variant
    BY DEF SetFlag
<1>5. thr'[t] = r /\ FramesMove(t)
    <2> HIDE DEF r
    <2> QED
        BY <1>1, <1>2, <1>3, <1>4, GotoMoves
<1> QED
    BY <1>1, <1>5 DEF Moved, Frame

(* The library calls malloc: the routines run again for one byte.           *)
LEMMA NestedMallocStep ==
    ASSUME ControlInv, NEW t \in Threads, NestedMalloc(t)
    PROVE  /\ FramesMove(t) /\ thr'[t].pc = 
                 IF in_alloc = 1 /\ G_var_size > 0 THEN "recv" ELSE Entered(thr[t])
           /\ thr'[t].back = "nested"
           /\ thr'[t].todo = 2
           /\ thr'[t].size = thr[t].size
           /\ thr'[t].old = thr[t].old
           /\ thr'[t].ptr = thr[t].ptr
<1> DEFINE r == [[thr[t] EXCEPT !.todo = 2, !.back = "nested", !.nest[1] = @ - 1]
                EXCEPT !.pc = IF in_alloc = 1 /\ G_var_size > 0
                              THEN "recv" ELSE Entered(thr[t])]
<1>1. thr \in [Threads -> Frame] /\ thr[t] \in Frame /\ FrameOK(thr[t])
      /\ raced \in BOOLEAN
    BY DEF ControlInv, Globals
<1>0. /\ [thr[t].nest EXCEPT ![1] = @ - 1] \in Seq(Nat)
      /\ [thr[t].nest EXCEPT ![1] = @ - 1] # <<>>
    <2>1. thr[t].nest \in Seq(Nat) /\ thr[t].nest # <<>> /\ Head(thr[t].nest) > 0
        BY <1>1 DEF Frame, NestedMalloc
    <2>0. /\ Head(thr[t].nest) = thr[t].nest[1] /\ thr[t].nest[1] \in Nat
          /\ 1 \in 1 .. Len(thr[t].nest)
        BY <2>1, HeadTailProperties
    <2>2. 1 \in 1 .. Len(thr[t].nest) /\ thr[t].nest[1] - 1 \in Nat
        BY <2>0, <2>1
    <2>3. /\ [thr[t].nest EXCEPT ![1] = thr[t].nest[1] - 1] \in Seq(Nat)
          /\ Len([thr[t].nest EXCEPT ![1] = thr[t].nest[1] - 1]) = Len(thr[t].nest)
        BY <2>1, <2>2, ExceptSeq
    <2> QED
        BY <2>1, <2>2, <2>3
<1>2. r \in Frame
    BY <1>1, <1>0 DEF Frame, NestedMalloc, EnterBefore, Entered
<1>3. FrameOK(r)
    <2>1. /\ r.pc \in {"recv", "retire", "set"} /\ r.todo = 2 /\ r.back = "nested"
          /\ r.nest # <<>> /\ (r.pc = "retire" => r.old # 0)
        BY <1>1, <1>0 DEF Frame, Entered
    <2>2. ~variant.fortran
        BY <1>1 DEF NestedMalloc
    <2> QED
        BY <1>0, <2>1, <2>2
<1>4. Goto(t, r) /\ UNCHANGED variant
    BY DEF NestedMalloc, EnterBefore, Entered
<1>5. thr'[t] = r /\ FramesMove(t)
    <2> HIDE DEF r
    <2> QED
        BY <1>1, <1>2, <1>3, <1>4, GotoMoves
<1> QED
    BY <1>1, <1>5 DEF Moved, Frame

(* The nested call is traced only if another thread has cleared the flag.   *)
LEMMA NestedHookStep ==
    ASSUME ControlInv, NEW t \in Threads, NestedHook(t)
    PROVE  Moved(t, IF trace_flag THEN "show" ELSE "setflag")
<1> DEFINE r == [thr[t] EXCEPT !.pc = IF trace_flag THEN "show" ELSE "setflag"]
<1>1. thr \in [Threads -> Frame] /\ thr[t] \in Frame /\ FrameOK(thr[t])
      /\ raced \in BOOLEAN
    BY DEF ControlInv, Globals
<1>2. r \in Frame
    BY <1>1 DEF Frame, NestedHook
<1>3. FrameOK(r)
    BY <1>1 DEF Frame, NestedHook
<1>4. Goto(t, r) /\ UNCHANGED variant
    BY DEF NestedHook
<1>5. thr'[t] = r /\ FramesMove(t)
    <2> HIDE DEF r
    <2> QED
        BY <1>1, <1>2, <1>3, <1>4, GotoMoves
<1> QED
    BY <1>1, <1>5 DEF Moved, Frame

(* The innermost nested call returns.                                       *)
LEMMA NestedReturnsStep ==
    ASSUME ControlInv, NEW t \in Threads, NestedReturns(t)
    PROVE  Moved(t, "show")
<1> DEFINE r == [thr[t] EXCEPT !.nest = Tail(@)]
<1>1. thr \in [Threads -> Frame] /\ thr[t] \in Frame /\ FrameOK(thr[t])
      /\ raced \in BOOLEAN
    BY DEF ControlInv, Globals
<1>0. Tail(thr[t].nest) \in Seq(Nat) /\ Tail(thr[t].nest) # <<>>
    <2>1. thr[t].nest \in Seq(Nat) /\ Len(thr[t].nest) > 1
        BY <1>1 DEF Frame, NestedReturns
    <2> QED
        BY <2>1, TailOfTwo
<1>2. r \in Frame
    BY <1>1, <1>0 DEF Frame, NestedReturns
<1>3. FrameOK(r)
    <2>1. thr[t].pc = "show" /\ Len(thr[t].nest) > 1 /\ Len(<<NestedMallocs>>) = 1
        BY DEF NestedReturns
    <2>2. thr[t].back = "hook" => thr[t].nest = <<NestedMallocs>>
        BY <1>1, <2>1
    <2>3. thr[t].back # "hook"
        <3>1. ASSUME thr[t].back = "hook" PROVE FALSE
            <4>1. Len(thr[t].nest) = Len(<<NestedMallocs>>)
                BY <2>2, <3>1, Zenon
            <4> QED
                BY <2>1, <4>1
        <3> QED
            BY <3>1
    <2> QED
        BY <1>1, <1>0, <2>1, <2>3 DEF Frame
<1>4. Goto(t, r) /\ UNCHANGED variant
    BY DEF NestedReturns
<1>5. thr'[t] = r /\ FramesMove(t)
    <2> HIDE DEF r
    <2> QED
        BY <1>1, <1>2, <1>3, <1>4, GotoMoves
<1> QED
    BY <1>1, <1>5 DEF Moved, Frame, NestedReturns

(* The message's address is filled ...                                      *)
LEMMA FillAddrStep ==
    ASSUME ControlInv, NEW t \in Threads, FillAddr(t)
    PROVE  Moved(t, "fill")
<1> DEFINE r == [thr[t] EXCEPT !.pc = "fill", !.nest = <<>>]
<1>1. thr \in [Threads -> Frame] /\ thr[t] \in Frame /\ FrameOK(thr[t])
      /\ msg_addr \in [addr : Nat, size : Nat] /\ count \in Nat
      /\ raced \in BOOLEAN
    BY DEF ControlInv, Globals
<1>2. r \in Frame
    BY <1>1, EmptySeq DEF Frame, FillAddr
<1>3. FrameOK(r)
    <2>1. thr[t].pc = "show" /\ thr[t].nest = <<0>> /\ <<0>> # <<NestedMallocs>>
        BY BoundsAssumption DEF FillAddr
    <2>2. thr[t].back = "nested" /\ thr[t].todo = 0
        BY <1>1, <2>1
    <2>3. ~variant.fortran
        BY <1>1, <2>2
    <2>4. r.pc = "fill" /\ r.back = "nested" /\ r.todo = 0
        BY <1>1, <2>2 DEF Frame
    <2> QED
        BY <2>3, <2>4
<1>4. Goto(t, r) /\ UNCHANGED variant
    BY DEF FillAddr
<1>5. thr'[t] = r /\ FramesMove(t)
    <2> HIDE DEF r
    <2> QED
        BY <1>1, <1>2, <1>3, <1>4, GotoMoves
<1> QED
    BY <1>1, <1>5 DEF Moved, Frame

(* ... then its size, and it is ready to be sent.                           *)
LEMMA FillSizeStep ==
    ASSUME ControlInv, NEW t \in Threads, FillSize(t)
    PROVE  Moved(t, "send")
<1> DEFINE r == [thr[t] EXCEPT !.pc = "send"]
<1>1. thr \in [Threads -> Frame] /\ thr[t] \in Frame /\ FrameOK(thr[t])
      /\ msg_addr \in [addr : Nat, size : Nat] /\ count \in Nat
      /\ raced \in BOOLEAN
    BY DEF ControlInv, Globals
<1>2. r \in Frame
    BY <1>1 DEF Frame, FillSize
<1>3. FrameOK(r)
    BY <1>1 DEF Frame, FillSize
<1>4. Goto(t, r) /\ UNCHANGED variant
    BY DEF FillSize
<1>5. thr'[t] = r /\ FramesMove(t)
    <2> HIDE DEF r
    <2> QED
        BY <1>1, <1>2, <1>3, <1>4, GotoMoves
<1> QED
    BY <1>1, <1>5 DEF Moved, Frame

(* A thread that the tool analyses goes on to the access that follows       *)
(* msgsnd.                                                                  *)
LEMMA SendStep ==
    ASSUME ControlInv, NEW t \in Threads, Send(t)
    PROVE  /\ FramesMove(t) /\ thr'[t].pc = IF t \in variant.traced THEN "lock" ELSE "clear"
           /\ thr'[t].back = "clear"
           /\ thr'[t].todo = thr[t].todo
           /\ thr'[t].size = 0
           /\ thr'[t].old = thr[t].old
           /\ thr'[t].ptr = thr[t].ptr
<1> DEFINE r == [thr[t] EXCEPT !.pc = IF t \in variant.traced THEN "lock" ELSE "clear",
                                !.size = 0, !.back = "clear", !.at = Stack]
<1>1. thr \in [Threads -> Frame] /\ thr[t] \in Frame /\ FrameOK(thr[t])
      /\ raced \in BOOLEAN
    BY DEF ControlInv, Globals
<1>2. r \in Frame
    BY <1>1, AddressFacts DEF Frame, Send
<1>3. FrameOK(r)
    BY <1>1, AddressFacts DEF Frame, Send
<1>4. Goto(t, r) /\ UNCHANGED variant
    BY DEF Send
<1>5. thr'[t] = r /\ FramesMove(t)
    <2> HIDE DEF r
    <2> QED
        BY <1>1, <1>2, <1>3, <1>4, GotoMoves
<1> QED
    BY <1>1, <1>5 DEF Moved, Frame

(* A call that is not traced returns to the application.                    *)
LEMMA CallReturnsStep ==
    ASSUME ControlInv, NEW t \in Threads, CallReturns(t)
    PROVE  Returned(t)
<1> DEFINE r == Idle
<1>1. thr \in [Threads -> Frame] /\ thr[t] \in Frame /\ FrameOK(thr[t])
      /\ raced \in BOOLEAN
    BY DEF ControlInv, Globals
<1>2. r \in Frame
    BY <1>1, IdleIsFrame DEF Frame, CallReturns, Return
<1>3. FrameOK(r)
    BY <1>1, IdleIsFrame DEF Frame, CallReturns, Return
<1>4. Goto(t, r) /\ UNCHANGED variant
    BY DEF CallReturns, Return
<1>5. thr'[t] = r /\ FramesMove(t)
    <2> HIDE DEF r
    <2> QED
        BY <1>1, <1>2, <1>3, <1>4, GotoMoves
<1> QED
    BY <1>5, IdleFields DEF Returned

(* A traced call returns to the application.                                *)
LEMMA ClearFlagStep ==
    ASSUME ControlInv, NEW t \in Threads, ClearFlag(t)
    PROVE  Returned(t)
<1> DEFINE r == Idle
<1>1. thr \in [Threads -> Frame] /\ thr[t] \in Frame /\ FrameOK(thr[t])
      /\ raced \in BOOLEAN
    BY DEF ControlInv, Globals
<1>2. r \in Frame
    BY <1>1, IdleIsFrame DEF Frame, ClearFlag, Return
<1>3. FrameOK(r)
    BY <1>1, IdleIsFrame DEF Frame, ClearFlag, Return
<1>4. Goto(t, r) /\ UNCHANGED variant
    BY DEF ClearFlag, Return
<1>5. thr'[t] = r /\ FramesMove(t)
    <2> HIDE DEF r
    <2> QED
        BY <1>1, <1>2, <1>3, <1>4, GotoMoves
<1> QED
    BY <1>5, IdleFields DEF Returned

(* The analysis of an access polls if the tool does and a message is        *)
(* expected.                                                                *)
LEMMA GetLockStep ==
    ASSUME ControlInv, NEW t \in Threads, GetLock(t)
    PROVE  Moved(t, IF variant.polls /\ in_alloc = 1 THEN "recv" ELSE "scan")
<1> DEFINE r == [thr[t] EXCEPT !.pc = IF variant.polls /\ in_alloc = 1 THEN "recv" ELSE "scan"]
<1>1. thr \in [Threads -> Frame] /\ thr[t] \in Frame /\ FrameOK(thr[t])
      /\ raced \in BOOLEAN
    BY DEF ControlInv, Globals
<1>2. r \in Frame
    BY <1>1 DEF Frame, GetLock
<1>3. FrameOK(r)
    BY <1>1 DEF Frame, GetLock
<1>4. Goto(t, r) /\ UNCHANGED variant
    BY DEF GetLock
<1>5. thr'[t] = r /\ FramesMove(t)
    <2> HIDE DEF r
    <2> QED
        BY <1>1, <1>2, <1>3, <1>4, GotoMoves
<1> QED
    BY <1>1, <1>5 DEF Moved, Frame

(* An access without an owner is over.                                      *)
LEMMA NoOwnerStep ==
    ASSUME ControlInv, NEW t \in Threads, NoOwner(t)
    PROVE  Moved(t, thr[t].back)
<1> DEFINE r == [thr[t] EXCEPT !.pc = thr[t].back, !.at = 0]
<1>1. thr \in [Threads -> Frame] /\ thr[t] \in Frame /\ FrameOK(thr[t])
      /\ raced \in BOOLEAN
    BY DEF ControlInv, Globals
<1>2. r \in Frame
    BY <1>1 DEF Frame, NoOwner
<1>3. FrameOK(r)
    BY <1>1 DEF Frame, NoOwner
<1>4. Goto(t, r) /\ UNCHANGED variant
    BY DEF NoOwner
<1>5. thr'[t] = r /\ FramesMove(t)
    <2> HIDE DEF r
    <2> QED
        BY <1>1, <1>2, <1>3, <1>4, GotoMoves
<1> QED
    BY <1>1, <1>5 DEF Moved, Frame

(* An access is over once its owner's counter is written.                   *)
LEMMA CreditStep ==
    ASSUME ControlInv, NEW t \in Threads, Credit(t)
    PROVE  Moved(t, thr[t].back)
<1> DEFINE r == [thr[t] EXCEPT !.pc = thr[t].back, !.at = 0, !.reg = 0]
<1>1. thr \in [Threads -> Frame] /\ thr[t] \in Frame /\ FrameOK(thr[t])
      /\ raced \in BOOLEAN
    BY DEF ControlInv, Globals
<1>2. r \in Frame
    BY <1>1 DEF Frame, Credit
<1>3. FrameOK(r)
    BY <1>1 DEF Frame, Credit
<1>4. Goto(t, r) /\ UNCHANGED variant
    BY DEF Credit
<1>5. thr'[t] = r /\ FramesMove(t)
    <2> HIDE DEF r
    <2> QED
        BY <1>1, <1>2, <1>3, <1>4, GotoMoves
<1> QED
    BY <1>1, <1>5 DEF Moved, Frame

(* A call of the application begins with the routines at its entry.         *)
LEMMA MallocStep ==
    ASSUME ControlInv, NEW t \in Threads, NEW n \in Sizes, NEW old \in Live \cup {0},
           Malloc(t, n, old)
    PROVE  /\ FramesMove(t)
           /\ thr'[t].pc = IF in_alloc = 1 /\ G_var_size > 0 THEN "recv"
                           ELSE IF old # 0 THEN "retire" ELSE "set"
           /\ thr'[t].todo = IF variant.fortran THEN 1 ELSE 2
           /\ thr'[t].back = IF variant.fortran THEN "return" ELSE "hook"
           /\ thr'[t].todo # 0
           /\ thr'[t].size = n /\ thr'[t].old = old /\ thr'[t].ptr = Fresh
<1> DEFINE r == [[Idle EXCEPT !.ptr = Fresh, !.size = n, !.old = old,
                              !.todo = IF variant.fortran THEN 1 ELSE 2,
                              !.back = IF variant.fortran THEN "return" ELSE "hook"]
                 EXCEPT !.pc = IF in_alloc = 1 /\ G_var_size > 0 THEN "recv"
                               ELSE IF old # 0 THEN "retire" ELSE "set"]
<1>1. thr \in [Threads -> Frame] /\ raced \in BOOLEAN /\ Fresh \in Nat
    BY AddressFacts DEF ControlInv, Globals
<1>2. n \in Nat /\ old \in Nat
    BY SizesAssumption DEF ControlInv, HeapOK, Live
<1>4. /\ r.pc \in {"recv", "retire", "set"} /\ r.nest = <<>>
      /\ r.todo = IF variant.fortran THEN 1 ELSE 2
      /\ r.back = IF variant.fortran THEN "return" ELSE "hook"
      /\ r.size = n /\ r.old = old /\ r.ptr = Fresh
      /\ r.pc = IF in_alloc = 1 /\ G_var_size > 0 THEN "recv"
                ELSE IF old # 0 THEN "retire" ELSE "set"
    BY DEF Idle
<1>5. r \in Frame
    BY <1>1, <1>2, EmptySeq DEF Idle, Frame
<1>6. Goto(t, r) /\ UNCHANGED variant
    BY DEF Malloc, EnterBefore, Entered
<1> HIDE DEF r
<1>7. FrameOK(r)
    BY <1>1, <1>4
<1>8. thr'[t] = r /\ FramesMove(t)
    BY <1>1, <1>5, <1>6, <1>7, GotoMoves
<1> QED
    BY <1>4, <1>8

(* The library's free goes on ...                                           *)
LEMMA FreeStep ==
    ASSUME ControlInv, NEW t \in Threads, NEW p \in Live, Free(t, p)
    PROVE  /\ FramesMove(t)
           /\ thr'[t].pc = IF variant.fortran THEN "run" ELSE "free"
           /\ thr'[t].back = "run" /\ thr'[t].todo = 0 /\ thr'[t].size = 0
           /\ thr'[t].old \in {0, p} /\ thr'[t].ptr = 0
<1> DEFINE r == IF variant.fortran THEN Idle ELSE [Idle EXCEPT !.pc = "free", !.old = p]
<1>1. thr \in [Threads -> Frame] /\ raced \in BOOLEAN
      /\ p \in Nat /\ p > 0
    BY DEF ControlInv, Globals, HeapOK, Live
<1>2. r \in Frame
    BY <1>1, EmptySeq DEF Idle, Frame
<1>3. FrameOK(r)
    BY <1>1 DEF Idle, Variants, pintool_mt_whole
<1>4. Goto(t, r) /\ UNCHANGED variant
    BY DEF Free
<1>5. thr'[t] = r /\ FramesMove(t)
    <2> HIDE DEF r
    <2> QED
        BY <1>1, <1>2, <1>3, <1>4, GotoMoves
<1> QED
    BY <1>5 DEF Idle

(* ... over its test of the flag ...                                        *)
LEMMA FreeHookStep ==
    ASSUME ControlInv, NEW t \in Threads, FreeHook(t)
    PROVE  Moved(t, IF trace_flag THEN "freep" ELSE "freeset")
<1> DEFINE r == [thr[t] EXCEPT !.pc = IF trace_flag THEN "freep" ELSE "freeset"]
<1>1. thr \in [Threads -> Frame] /\ thr[t] \in Frame /\ FrameOK(thr[t])
      /\ msg_addr \in [addr : Nat, size : Nat] /\ count \in Nat
      /\ raced \in BOOLEAN
    BY DEF ControlInv, Globals
<1>2. r \in Frame
    BY <1>1 DEF Frame, FreeHook
<1>3. FrameOK(r)
    BY <1>1 DEF Frame, FreeHook
<1>4. Goto(t, r) /\ UNCHANGED variant
    BY DEF FreeHook
<1>5. thr'[t] = r /\ FramesMove(t)
    <2> HIDE DEF r
    <2> QED
        BY <1>1, <1>2, <1>3, <1>4, GotoMoves
<1> QED
    BY <1>1, <1>5 DEF Moved, Frame

(* ... setting it ...                                                       *)
LEMMA FreeSetFlagStep ==
    ASSUME ControlInv, NEW t \in Threads, FreeSetFlag(t)
    PROVE  Moved(t, "freeclear")
<1> DEFINE r == [thr[t] EXCEPT !.pc = "freeclear"]
<1>1. thr \in [Threads -> Frame] /\ thr[t] \in Frame /\ FrameOK(thr[t])
      /\ msg_addr \in [addr : Nat, size : Nat] /\ count \in Nat
      /\ raced \in BOOLEAN
    BY DEF ControlInv, Globals
<1>2. r \in Frame
    BY <1>1 DEF Frame, FreeSetFlag
<1>3. FrameOK(r)
    BY <1>1 DEF Frame, FreeSetFlag
<1>4. Goto(t, r) /\ UNCHANGED variant
    BY DEF FreeSetFlag
<1>5. thr'[t] = r /\ FramesMove(t)
    <2> HIDE DEF r
    <2> QED
        BY <1>1, <1>2, <1>3, <1>4, GotoMoves
<1> QED
    BY <1>1, <1>5 DEF Moved, Frame

(* ... and clearing it ...                                                  *)
LEMMA FreeClearFlagStep ==
    ASSUME ControlInv, NEW t \in Threads, FreeClearFlag(t)
    PROVE  Moved(t, "freep")
<1> DEFINE r == [thr[t] EXCEPT !.pc = "freep"]
<1>1. thr \in [Threads -> Frame] /\ thr[t] \in Frame /\ FrameOK(thr[t])
      /\ msg_addr \in [addr : Nat, size : Nat] /\ count \in Nat
      /\ raced \in BOOLEAN
    BY DEF ControlInv, Globals
<1>2. r \in Frame
    BY <1>1 DEF Frame, FreeClearFlag
<1>3. FrameOK(r)
    BY <1>1 DEF Frame, FreeClearFlag
<1>4. Goto(t, r) /\ UNCHANGED variant
    BY DEF FreeClearFlag
<1>5. thr'[t] = r /\ FramesMove(t)
    <2> HIDE DEF r
    <2> QED
        BY <1>1, <1>2, <1>3, <1>4, GotoMoves
<1> QED
    BY <1>1, <1>5 DEF Moved, Frame

(* ... to libc's.                                                           *)
LEMMA LibcFreeStep ==
    ASSUME ControlInv, NEW t \in Threads, LibcFree(t)
    PROVE  Returned(t)
<1> DEFINE r == Idle
<1>1. thr \in [Threads -> Frame] /\ raced \in BOOLEAN
    BY DEF ControlInv, Globals
<1>2. r \in Frame /\ FrameOK(r)
    BY IdleIsFrame
<1>4. Goto(t, r) /\ UNCHANGED variant
    BY DEF LibcFree
<1>5. thr'[t] = r /\ FramesMove(t)
    <2> HIDE DEF r
    <2> QED
        BY <1>1, <1>2, <1>4, GotoMoves
<1> QED
    BY <1>5, IdleFields DEF Returned

(* An access of the application begins with the lock.                       *)
LEMMA AccessStep ==
    ASSUME ControlInv, NEW t \in Threads, NEW a \in Nat, Access(t, a)
    PROVE  /\ FramesMove(t)
           /\ thr'[t].pc = "lock" /\ thr'[t].back = "run" /\ thr'[t].todo = 0
           /\ thr'[t].size = 0 /\ thr'[t].old = 0 /\ thr'[t].ptr = 0
<1> DEFINE r == [Idle EXCEPT !.pc = "lock", !.at = a]
<1>1. thr \in [Threads -> Frame] /\ raced \in BOOLEAN
    BY DEF ControlInv, Globals
<1>2. r \in Frame
    BY EmptySeq DEF Idle, Frame
<1>3. FrameOK(r)
    BY DEF Idle, Variants, pintool_mt_whole
<1>4. Goto(t, r) /\ UNCHANGED variant
    BY DEF Access
<1>5. thr'[t] = r /\ FramesMove(t)
    <2> HIDE DEF r
    <2> QED
        BY <1>1, <1>2, <1>3, <1>4, GotoMoves
<1> QED
    BY <1>5 DEF Idle

(* What the application touches lies at a natural number.                   *)
LEMMA TouchedFacts ==
    ASSUME ControlInv
    PROVE  /\ \A p \in Live : p \in Nat /\ p > 0 /\ p \in DOMAIN heap
           /\ \A i \in DOMAIN AllocInfo : AllocInfo[i].addr \in Nat
<1> DEFINE S == [addr : Nat, size : Nat]
<1>1. AllocInfo \in Seq(S)
    BY AllocInfoAssumption
<1> HIDE DEF S
<1>2. \A i \in DOMAIN AllocInfo : AllocInfo[i] \in S
    BY <1>1
<1> QED
    BY <1>2 DEF S, ControlInv, HeapOK, Live

(* The scan stops at the first owner.                                       *)
LEMMA ScanStep ==
    ASSUME ControlInv, NEW t \in Threads, Scan(t)
    PROVE  /\ Moved(t, "credit")
           /\ thr'[t].at \in 1 .. count /\ thr'[t].reg = table[thr'[t].at].ops
<1> DEFINE i == CHOOSE x \in Owners(thr[t].at) : \A y \in Owners(thr[t].at) : x <= y
           r == [thr[t] EXCEPT !.pc = "credit", !.at = i, !.reg = table[i].ops]
<1>1. /\ thr \in [Threads -> Frame] /\ thr[t] \in Frame /\ FrameOK(thr[t])
      /\ raced \in BOOLEAN /\ count \in Nat
      /\ table \in [1 .. MAX_SIZE -> [addr : Int, size : Nat, ops : Nat]]
    BY DEF ControlInv, Globals
<1>2. i \in 1 .. count
    <2>1. Owners(thr[t].at) \subseteq 1 .. count /\ Owners(thr[t].at) # {}
        BY DEF Owners, Scan
    <2>2. Owners(thr[t].at) \subseteq Nat
        BY <1>1, <2>1
    <2>3. \E x \in Owners(thr[t].at) : \A y \in Owners(thr[t].at) : x <= y
        BY <2>1, <2>2, LeastElement
    <2> QED
        BY <2>1, <2>3
<1>3. i \in 1 .. MAX_SIZE /\ i \in Nat
    BY <1>1, <1>2, RowsFit
<1>4. Goto(t, r) /\ UNCHANGED variant
    BY DEF Scan
<1> HIDE DEF i
<1>5. r \in Frame
    BY <1>1, <1>3 DEF Frame
<1>6. FrameOK(r)
    BY <1>1, <1>3 DEF Frame, Scan
<1>7. thr'[t] = r /\ FramesMove(t)
    <2> HIDE DEF r
    <2> QED
        BY <1>1, <1>4, <1>5, <1>6, GotoMoves
<1> QED
    BY <1>1, <1>2, <1>7 DEF Moved, Frame

HIDE DEF FrameOK, InEntry, AtStat, InLibrary, InAnalysis, Polling, Freeing, At

-----------------------------------------------------------------------------
(* ControlInv is preserved.  First what a step that leaves some part of the *)
(* state alone preserves of it.                                             *)

(* The frames of all threads stay well formed.                               *)
LEMMA KeepFrames ==
    ASSUME ControlInv, NEW t \in Threads, FramesMove(t)
    PROVE  \A u \in Threads : FrameOK(thr[u])'
<1> TAKE u \in Threads
<1>1. CASE u = t
    BY <1>1 DEF FramesMove
<1>2. CASE u # t
    <2>1. thr'[u] = thr[u] /\ variant' = variant /\ FrameOK(thr[u])
        BY <1>2 DEF FramesMove, ControlInv
    <2> QED
        BY <2>1 DEF FrameOK, InEntry, AtStat, InLibrary, InAnalysis
<1> QED
    BY <1>1, <1>2

(* A step that leaves the heap alone keeps what is known of every call's    *)
(* block.                                                                   *)
LEMMA KeepCalls ==
    ASSUME ControlInv, NEW t \in Threads, FramesMove(t), heap' = heap,
           thr'[t].pc \in {"fill", "send"} => thr[t].pc \in {"fill", "send"},
           thr'[t].pc \in {"setflag", "show"} =>
               \/ thr[t].pc \in {"setflag", "show"} \/ thr[t].back = "nested"
               \/ thr[t].size > 0,
           thr'[t].back # "run" => thr[t].back # "run" /\ thr'[t].ptr = thr[t].ptr,
           thr'[t].back \in {"hook", "return", "nested"} =>
               /\ thr[t].back \in {"hook", "return", "nested"}
               /\ thr'[t].size = thr[t].size,
           thr'[t].back = "nested" => thr[t].back = "nested" \/ thr[t].pc = "show",
           thr'[t].old \in {0, thr[t].old}
    PROVE  HeapOK' /\ \A u \in Threads : CallOK(u)'
<1>1. HeapOK'
    BY DEF ControlInv, HeapOK, Fresh
<1>2. ASSUME NEW u \in Threads PROVE CallOK(u)'
    <2>0. CallOK(u)
        BY DEF ControlInv
    <2>1. CASE u = t
        <3>1. /\ thr'[t].pc \in {"fill", "send"} => thr'[t].back = "nested"
              /\ thr'[t].pc \in {"setflag", "show"} => thr'[t].back \in {"hook", "nested"}
            BY DEF FramesMove, FrameOK, InEntry, AtStat, InLibrary, InAnalysis, Polling,
                   Freeing
        <3> QED
            BY <2>0, <2>1, <3>1 DEF CallOK
    <2>2. CASE u # t
        BY <2>0, <2>2 DEF CallOK, FramesMove
    <2> QED
        BY <2>1, <2>2
<1> QED
    BY <1>1, <1>2

(* A step that touches neither in_alloc nor a message keeps their sizes     *)
(* positive.                                                                *)
LEMMA KeepSizes ==
    ASSUME ControlInv, NEW t \in Threads, FramesMove(t),
           UNCHANGED <<in_alloc, G_var_size, msg_addr, lib_msg>>,
           NoZeroRequests' => NoZeroRequests,
           thr'[t].pc \notin {"stat", "read", "bytes", "send"}
    PROVE  SizesArePositive'
BY DEF ControlInv, SizesArePositive, FramesMove

(* Filling, Unsent and Owing change at most in t.                           *)
Publishing(r) ==
    r.pc \in {"read", "bytes", "arg", "after", "test", "size", "addr", "init", "load",
              "store"}

Calling(r) == r.back \in {"hook", "nested"} /\ r.size > 0

(* Filling, Unsent and Owing change at most in the thread that moves.       *)
LEMMA SetsMove ==
    ASSUME NEW t \in Threads, FramesMove(t)
    PROVE  /\ Filling' \ {t} = Filling \ {t} /\ Unsent' \ {t} = Unsent \ {t}
           /\ t \in Filling <=> Publishing(thr[t])
           /\ t \in Filling' <=> Publishing(thr'[t])
           /\ t \in Unsent <=> Calling(thr[t])
           /\ t \in Unsent' <=> Calling(thr'[t])
           /\ IsFiniteSet(Filling) /\ IsFiniteSet(Unsent)
<1>1. Filling \subseteq Threads /\ Unsent \subseteq Threads
    BY DEF Filling, Unsent
<1>2. IsFiniteSet(Filling) /\ IsFiniteSet(Unsent)
    BY <1>1, SubsetsAreFinite
<1> QED
    BY <1>2 DEF FramesMove, Filling, Unsent, Publishing, Calling

(* How many threads fill a row, have not sent, or owe a poll, before and    *)
(* after.                                                                   *)
LEMMA CountsMove ==
    ASSUME NEW t \in Threads, FramesMove(t)
    PROVE  /\ Cardinality(Filling) \in Nat /\ Cardinality(Filling') \in Nat
           /\ (Publishing(thr[t]) <=> Publishing(thr'[t])) => Filling' = Filling
           /\ ~Publishing(thr[t]) /\ Publishing(thr'[t]) =>
                Cardinality(Filling') = Cardinality(Filling) + 1
           /\ Publishing(thr[t]) /\ ~Publishing(thr'[t]) =>
                Cardinality(Filling) = Cardinality(Filling') + 1
           /\ Cardinality(Unsent) \in Nat /\ Cardinality(Unsent') \in Nat
           /\ (Calling(thr[t]) <=> Calling(thr'[t])) => Unsent' = Unsent
           /\ ~Calling(thr[t]) /\ Calling(thr'[t]) =>
                Cardinality(Unsent') = Cardinality(Unsent) + 1
           /\ Calling(thr[t]) /\ ~Calling(thr'[t]) =>
                Cardinality(Unsent) = Cardinality(Unsent') + 1
<1>1. /\ Cardinality(Filling) \in Nat /\ Cardinality(Filling') \in Nat
      /\ (t \in Filling <=> t \in Filling') => Filling' = Filling
      /\ t \notin Filling /\ t \in Filling' =>
           Cardinality(Filling') = Cardinality(Filling) + 1
      /\ t \in Filling /\ t \notin Filling' =>
           Cardinality(Filling) = Cardinality(Filling') + 1
    BY SetsMove, OneElement
<1>2. /\ Cardinality(Unsent) \in Nat /\ Cardinality(Unsent') \in Nat
      /\ (t \in Unsent <=> t \in Unsent') => Unsent' = Unsent
      /\ t \notin Unsent /\ t \in Unsent' =>
           Cardinality(Unsent') = Cardinality(Unsent) + 1
      /\ t \in Unsent /\ t \notin Unsent' =>
           Cardinality(Unsent) = Cardinality(Unsent') + 1
    BY SetsMove, OneElement
<1> QED
    BY <1>1, <1>2, SetsMove

(* A step that neither takes a message nor publishes a row keeps the count  *)
(* of rows.                                                                 *)
LEMMA KeepRows ==
    ASSUME ControlInv, NEW t \in Threads, FramesMove(t),
           UNCHANGED <<count, received, queue>>, DOMAIN heap' = DOMAIN heap,
           thr'[t].pc # "store",
           Publishing(thr'[t]) <=> Publishing(thr[t]),
           Calling(thr'[t]) => Calling(thr[t])
    PROVE  RowsSuffice'
<1>1. Filling' = Filling
    BY CountsMove
<1>2. /\ Cardinality(Unsent) \in Nat /\ Cardinality(Unsent') \in Nat
      /\ Cardinality(Unsent') <= Cardinality(Unsent)
    BY CountsMove
<1>3. RowsSuffice /\ variant' = variant
    BY DEF ControlInv, FramesMove
<1>4. \A u \in Threads : thr'[u].pc = "store" => thr'[u] = thr[u]
    BY DEF FramesMove
<1>5. Len(received) \in Nat /\ Len(queue) \in Nat /\ Cardinality(DOMAIN heap) \in Nat
    BY FS_CardinalityType DEF ControlInv, Globals, HeapOK
<1>6. /\ count + Cardinality(Filling') <= Len(received)
      /\ \A u \in Threads : thr'[u].pc = "store" =>
           thr'[u].reg + Cardinality(Filling') <= Len(received)
    BY <1>1, <1>3, <1>4 DEF RowsSuffice
<1>7. ~variant.fortran =>
        Len(received) + Len(queue) + Cardinality(Unsent') <= Cardinality(DOMAIN heap)
    BY <1>2, <1>3, <1>5 DEF RowsSuffice
<1>8. variant.fortran => queue = <<>> /\ received = StaticObjects
    BY <1>3 DEF RowsSuffice
<1> QED
    BY <1>3, <1>6, <1>7, <1>8 DEF RowsSuffice

(* In the part of an analysis that g_lock protects.                         *)
Locked(r) == InAnalysis(r) /\ r.pc # "lock"

(* A step that leaves the lock alone keeps who is inside.                   *)
LEMMA KeepLock ==
    ASSUME ControlInv, NEW t \in Threads, FramesMove(t), UNCHANGED g_lock,
           Locked(thr'[t]) => Locked(thr[t])
    PROVE  LockOK'
<1>1. LockOK /\ variant' = variant
    BY DEF ControlInv, FramesMove
<1>2. ASSUME variant.locks, NEW u \in Threads, Locked(thr'[u])
      PROVE  u \in g_lock
    <2>1. Locked(thr[u])
        BY <1>2 DEF FramesMove
    <2> QED
        BY <1>1, <1>2, <2>1 DEF LockOK, Locked
<1>3. \A u \in Threads : InAnalysis(thr'[u]) /\ thr'[u].pc # "lock" <=> Locked(thr'[u])
    BY DEF Locked
<1> QED
    BY <1>1, <1>2, <1>3 DEF LockOK, InAnalysis

(* A step that takes the lock or gives it back keeps who is inside.         *)
LEMMA MoveLock ==
    ASSUME ControlInv, NEW t \in Threads, FramesMove(t),
           \A x, y \in g_lock' : x = y,
           variant.locks => g_lock \ {t} \subseteq g_lock',
           variant.locks /\ Locked(thr'[t]) => t \in g_lock'
    PROVE  LockOK'
<1>1. LockOK /\ variant' = variant
    BY DEF ControlInv, FramesMove
<1>2. ASSUME variant.locks, NEW u \in Threads, Locked(thr'[u])
      PROVE  u \in g_lock'
    <2>1. CASE u = t
        BY <1>2, <2>1
    <2>2. CASE u # t
        <3>1. Locked(thr[u])
            BY <1>2, <2>2 DEF FramesMove
        <3> QED
            BY <1>1, <1>2, <2>2, <3>1 DEF LockOK, Locked
    <2> QED
        BY <2>1, <2>2
<1>3. \A u \in Threads : InAnalysis(thr'[u]) /\ thr'[u].pc # "lock" <=> Locked(thr'[u])
    BY DEF Locked
<1> QED
    BY <1>1, <1>2, <1>3 DEF LockOK, InAnalysis

(* Only the state of thread t's own block, or whether it is chosen.         *)
BlockMoves(p) ==
    /\ DOMAIN heap' = DOMAIN heap
    /\ \A q \in DOMAIN heap \ {p} : heap'[q] = heap[q]
    /\ p \in DOMAIN heap =>
         heap'[p] \in Block /\ heap'[p].size = heap[p].size /\ heap'[p].by = heap[p].by

(* A step that changes only its own block keeps what is known of the heap.  *)
LEMMA MoveCalls ==
    ASSUME ControlInv, NEW t \in Threads, FramesMove(t), thr[t].back # "run",
           BlockMoves(thr[t].ptr), CallOK(t)'
    PROVE  HeapOK' /\ \A u \in Threads : CallOK(u)'
<1> DEFINE p == thr[t].ptr
<1>1. p \in DOMAIN heap /\ heap[p].by = t /\ heap[p].state = "inside"
    BY DEF ControlInv, CallOK
<1>2. HeapOK'
    BY <1>1 DEF ControlInv, HeapOK, Fresh, BlockMoves
<1>3. ASSUME NEW u \in Threads \ {t} PROVE CallOK(u)'
    <2>1. CallOK(u) /\ thr'[u] = thr[u]
        BY DEF ControlInv, FramesMove
    <2>2. thr[u].back # "run" => thr[u].ptr # p
        BY <1>1, <2>1 DEF CallOK
    <2>3. thr[u].old # 0 => thr[u].old # p
        BY <1>1, <2>1 DEF CallOK
    <2> HIDE DEF p
    <2>4. /\ thr[u].back # "run" => heap'[thr[u].ptr] = heap[thr[u].ptr]
          /\ thr[u].old # 0 => heap'[thr[u].old] = heap[thr[u].old]
        BY <2>1, <2>2, <2>3 DEF BlockMoves, CallOK, p
    <2>5. /\ thr[u].pc \in {"fill", "send"} => thr[u].back # "run"
          /\ thr[u].back \in {"hook", "return", "nested"} => thr[u].back # "run"
        BY <2>1
        DEF ControlInv, FrameOK, InEntry, AtStat, InLibrary, InAnalysis, Polling,
            Freeing
    <2> QED
        BY <2>1, <2>4, <2>5 DEF CallOK, BlockMoves
<1> QED
    BY <1>2, <1>3

(* The rows of a block that is given back keep their sizes and counters.    *)
LEMMA RetiredFacts ==
    ASSUME ControlInv, NEW p \in Int
    PROVE  /\ Retired(p) \in [1 .. MAX_SIZE -> [addr : Int, size : Nat, ops : Nat]]
           /\ \A i \in 1 .. MAX_SIZE :
                /\ Retired(p)[i].size = table[i].size /\ Retired(p)[i].ops = table[i].ops
                /\ i <= count /\ table[i].addr = p => Retired(p)[i].addr = -table[i].size
                /\ ~(i <= count /\ table[i].addr = p) => Retired(p)[i] = table[i]
<1>1. table \in [1 .. MAX_SIZE -> [addr : Int, size : Nat, ops : Nat]]
    BY DEF ControlInv, Globals
<1>2. ASSUME NEW i \in 1 .. MAX_SIZE
      PROVE  /\ Retired(p)[i] \in [addr : Int, size : Nat, ops : Nat]
             /\ Retired(p)[i].size = table[i].size /\ Retired(p)[i].ops = table[i].ops
             /\ i <= count /\ table[i].addr = p => Retired(p)[i].addr = -table[i].size
             /\ ~(i <= count /\ table[i].addr = p) => Retired(p)[i] = table[i]
    <2>1. Retired(p)[i] = IF i <= count /\ table[i].addr = p
                          THEN [table[i] EXCEPT !.addr = -table[i].size] ELSE table[i]
        BY <1>1 DEF Retired
    <2>2. table[i] \in [addr : Int, size : Nat, ops : Nat]
        BY <1>1
    <2> QED
        BY <2>1, <2>2
<1>3. Retired(p) \in [1 .. MAX_SIZE -> [addr : Int, size : Nat, ops : Nat]]
    BY <1>1, <1>2 DEF Retired
<1> QED
    BY <1>2, <1>3

(* in_alloc stays set, so a later poll will find what is sent.              *)
LEMMA RecvNothingControl ==
    ASSUME ControlInv, NEW t \in Threads, RecvNothing(t)
    PROVE  ControlInv'
<1>1. Moved(t, AfterPoll(t))
    BY RecvNothingStep
<1>m. FramesMove(t) /\ thr[t] \in Frame /\ FrameOK(thr[t]) /\ CallOK(t)
    BY <1>1 DEF Moved, ControlInv, Globals
<1>p. thr[t].pc = "recv"
    BY <1>m
    DEF RecvNothing, CallOK, FrameOK, InEntry, AtStat, InLibrary, InAnalysis,
        Polling, Freeing, At
<1>2. Globals'
    BY <1>m
    DEF RecvNothing, ControlInv, Globals, FramesMove, tool, library, AfterPoll,
        Entered
<1>3. HeapOK' /\ \A u \in Threads : CallOK(u)'
    BY <1>1, <1>m, <1>p, KeepCalls
    DEF RecvNothing, Moved, tool, library, AfterPoll, Entered
<1>4. SizesArePositive'
    BY <1>1, <1>m, <1>p, KeepSizes
    DEF RecvNothing, Moved, NoZeroRequests, tool, library, AfterPoll, Entered
<1>5. RowsSuffice'
    BY <1>1, <1>m, <1>p, KeepRows
    DEF RecvNothing, Moved, Publishing, Calling, tool, library, AfterPoll,
        Entered
<1>6. LockOK'
    BY <1>1, <1>m, <1>p, KeepLock
    DEF RecvNothing, Moved, Locked, InAnalysis, Polling, tool, library,
        AfterPoll, Entered
<1> QED
    BY <1>m, <1>2, <1>3, <1>4, <1>5, <1>6, KeepFrames DEF ControlInv

(* A message taken from the queue becomes a row being filled: together they *)
(* stay within the table.                                                   *)
LEMMA RecvControl ==
    ASSUME ControlInv, NEW t \in Threads, Recv(t)
    PROVE  ControlInv'
<1>1. FramesMove(t) /\ FrameOK(thr[t]) /\ thr[t] \in Frame /\ thr'[t].pc = "read"
    BY RecvStep DEF Moved, ControlInv, Globals
<1>2. Globals'
    <2>1. queue \in Seq(Message) /\ queue # <<>> /\ received \in Seq(Message)
        BY DEF Recv, ControlInv, Globals
    <2>2. Head(queue) \in Message /\ Tail(queue) \in Seq(Message)
        BY <2>1, HeadTailProperties
    <2>3. Append(received, Head(queue)) \in Seq(Message)
        BY <2>1, <2>2, AppendProperties
    <2> QED
        BY <1>1, <2>2, <2>3
        DEF Recv, ControlInv, Globals, FramesMove, tool, library, Message
<1>3. HeapOK' /\ \A u \in Threads : CallOK(u)'
    BY <1>1, RecvStep, KeepCalls
    DEF Recv, Moved, FrameOK, InEntry, AtStat, InLibrary, InAnalysis, Polling,
        Freeing, At, tool, library
<1>4. SizesArePositive'
    <2>1. Head(queue) \in Message
        BY HeadTailProperties DEF Recv, ControlInv, Globals
    <2>2. msg_addr'.size > 0 /\ UNCHANGED <<in_alloc, G_var_size, lib_msg, heap>>
        BY <2>1 DEF Recv, Message, library
    <2>3. SizesArePositive /\ \A u \in Threads \ {t} : thr'[u] = thr[u]
        BY <1>1 DEF FramesMove, ControlInv
    <2> QED
        BY <1>1, <2>2, <2>3 DEF SizesArePositive, NoZeroRequests
<1>5. RowsSuffice'
    <2>1. /\ queue \in Seq(Message) /\ queue # <<>> /\ received \in Seq(Message)
          /\ Head(queue) \in Message /\ ~variant.fortran
        BY HeadTailProperties DEF Recv, ControlInv, Globals
    <2>2. /\ Len(queue') = Len(queue) - 1 /\ Len(received') = Len(received) + 1
          /\ Len(queue) \in Nat /\ Len(received) \in Nat
        BY <2>1, HeadTailProperties, AppendProperties DEF Recv
    <2>3. Cardinality(Filling') = Cardinality(Filling) + 1 /\ Cardinality(Filling) \in Nat
        BY <1>1, RecvStep, CountsMove DEF Recv, At, Moved, Publishing
    <2>4. Unsent' = Unsent
        BY <1>1, RecvStep, CountsMove DEF Moved, Calling
    <2>5. RowsSuffice /\ variant' = variant /\ count' = count /\ heap' = heap
        BY <1>1 DEF Recv, ControlInv, FramesMove
    <2>6. \A u \in Threads : thr'[u].pc = "store" =>
              thr[u].pc = "store" /\ thr'[u].reg = thr[u].reg /\ thr[u].reg \in Nat
        BY <1>1, RecvStep DEF Moved, FramesMove, ControlInv, Globals, Frame
    <2>7. count \in Nat /\ Cardinality(Unsent) \in Nat
        BY <1>1, CountsMove DEF ControlInv, Globals
    <2>8. count' + Cardinality(Filling') <= Len(received')
        BY <2>2, <2>3, <2>5, <2>7 DEF RowsSuffice
    <2>9. \A u \in Threads : thr'[u].pc = "store" =>
              thr'[u].reg + Cardinality(Filling') <= Len(received')
        BY <2>2, <2>3, <2>5, <2>6 DEF RowsSuffice
    <2> QED
        BY <2>1, <2>2, <2>4, <2>5, <2>7, <2>8, <2>9 DEF RowsSuffice
<1>6. LockOK'
    BY <1>1, RecvStep, KeepLock
    DEF Recv, Moved, Locked, FrameOK, InEntry, AtStat, InLibrary, InAnalysis,
        Polling, Freeing, At, tool, library
<1> QED
    BY <1>1, <1>2, <1>3, <1>4, <1>5, <1>6, KeepFrames DEF ControlInv

(* The message itself stays in the buffer.                                  *)
LEMMA ReadMessageControl ==
    ASSUME ControlInv, NEW t \in Threads, ReadMessage(t)
    PROVE  ControlInv'
<1>1. Moved(t, "bytes")
    BY ReadMessageStep
<1>m. FramesMove(t) /\ thr[t] \in Frame /\ FrameOK(thr[t]) /\ CallOK(t)
    BY <1>1 DEF Moved, ControlInv, Globals
<1>p. thr[t].pc = "read"
    BY <1>m
    DEF ReadMessage, CallOK, FrameOK, InEntry, AtStat, InLibrary, InAnalysis,
        Polling, Freeing, At
<1>2. Globals'
    BY <1>m
    DEF ReadMessage, ControlInv, Globals, FramesMove, tool, library
<1>3. HeapOK' /\ \A u \in Threads : CallOK(u)'
    BY <1>1, <1>m, <1>p, KeepCalls
    DEF ReadMessage, Moved, tool, library
<1>4. SizesArePositive'
    BY <1>1, <1>m, <1>p
    DEF ReadMessage, Moved, FramesMove, ControlInv, SizesArePositive, At, tool,
        library, NoZeroRequests
<1>5. RowsSuffice'
    BY <1>1, <1>m, <1>p, KeepRows
    DEF ReadMessage, Moved, Publishing, Calling, tool, library
<1>6. LockOK'
    BY <1>1, <1>m, <1>p, KeepLock
    DEF ReadMessage, Moved, Locked, InAnalysis, Polling, tool, library
<1> QED
    BY <1>m, <1>2, <1>3, <1>4, <1>5, <1>6, KeepFrames DEF ControlInv

(* No message is of 0 bytes.                                                *)
LEMMA ReadSizeControl ==
    ASSUME ControlInv, NEW t \in Threads, ReadSize(t)
    PROVE  ControlInv'
<1>1. Moved(t, "arg")
    BY ReadSizeStep
<1>m. FramesMove(t) /\ thr[t] \in Frame /\ FrameOK(thr[t]) /\ CallOK(t)
    BY <1>1 DEF Moved, ControlInv, Globals
<1>p. thr[t].pc = "bytes"
    BY <1>m
    DEF ReadSize, CallOK, FrameOK, InEntry, AtStat, InLibrary, InAnalysis,
        Polling, Freeing, At
<1>2. Globals'
    BY <1>m DEF ReadSize, ControlInv, Globals, FramesMove, library
<1>3. HeapOK' /\ \A u \in Threads : CallOK(u)'
    BY <1>1, <1>m, <1>p, KeepCalls
    DEF ReadSize, Moved, tool, library
<1>4. SizesArePositive'
    <2>1. G_var_size' = msg_addr.size /\ msg_addr.size > 0
        BY DEF ReadSize, At, ControlInv, SizesArePositive
    <2> QED
        BY <1>m, <2>1, <1>1, <1>p
        DEF ReadSize, Moved, FramesMove, ControlInv, SizesArePositive, library,
            NoZeroRequests
<1>5. RowsSuffice'
    BY <1>1, <1>m, <1>p, KeepRows
    DEF ReadSize, Moved, Publishing, Calling, tool, library
<1>6. LockOK'
    BY <1>1, <1>m, <1>p, KeepLock
    DEF ReadSize, Moved, Locked, InAnalysis, Polling, tool, library
<1> QED
    BY <1>m, <1>2, <1>3, <1>4, <1>5, <1>6, KeepFrames DEF ControlInv

(* The address is kept in the frame.                                        *)
LEMMA ReadAddrControl ==
    ASSUME ControlInv, NEW t \in Threads, ReadAddr(t)
    PROVE  ControlInv'
<1>1. /\ Moved(t, "after")
      /\ thr'[t].ret = msg_addr.addr
    BY ReadAddrStep
<1>m. FramesMove(t) /\ thr[t] \in Frame /\ FrameOK(thr[t]) /\ CallOK(t)
    BY <1>1 DEF Moved, ControlInv, Globals
<1>p. thr[t].pc = "arg"
    BY <1>m
    DEF ReadAddr, CallOK, FrameOK, InEntry, AtStat, InLibrary, InAnalysis,
        Polling, Freeing, At
<1>2. Globals'
    BY <1>m
    DEF ReadAddr, ControlInv, Globals, FramesMove, tool, library
<1>3. HeapOK' /\ \A u \in Threads : CallOK(u)'
    BY <1>1, <1>m, <1>p, KeepCalls
    DEF ReadAddr, Moved, tool, library
<1>4. SizesArePositive'
    BY <1>1, <1>m, <1>p, KeepSizes
    DEF ReadAddr, Moved, NoZeroRequests, tool, library
<1>5. RowsSuffice'
    BY <1>1, <1>m, <1>p, KeepRows
    DEF ReadAddr, Moved, Publishing, Calling, tool, library
<1>6. LockOK'
    BY <1>1, <1>m, <1>p, KeepLock
    DEF ReadAddr, Moved, Locked, InAnalysis, Polling, tool, library
<1> QED
    BY <1>m, <1>2, <1>3, <1>4, <1>5, <1>6, KeepFrames DEF ControlInv

(* in_alloc is 0 again.                                                     *)
LEMMA AllocAfterControl ==
    ASSUME ControlInv, NEW t \in Threads, AllocAfter(t)
    PROVE  ControlInv'
<1>1. /\ Moved(t, "test")
      /\ thr'[t].ret = thr[t].ret
    BY AllocAfterStep
<1>m. FramesMove(t) /\ thr[t] \in Frame /\ FrameOK(thr[t]) /\ CallOK(t)
    BY <1>1 DEF Moved, ControlInv, Globals
<1>p. thr[t].pc = "after"
    BY <1>m
    DEF AllocAfter, CallOK, FrameOK, InEntry, AtStat, InLibrary, InAnalysis,
        Polling, Freeing, At
<1>2. Globals'
    BY <1>m
    DEF AllocAfter, ControlInv, Globals, FramesMove, tool, library
<1>3. HeapOK' /\ \A u \in Threads : CallOK(u)'
    BY <1>1, <1>m, <1>p, KeepCalls
    DEF AllocAfter, Moved, tool, library
<1>4. SizesArePositive'
    BY <1>1, <1>m, <1>p
    DEF AllocAfter, Moved, FramesMove, ControlInv, SizesArePositive, At, tool,
        library, NoZeroRequests
<1>5. RowsSuffice'
    BY <1>1, <1>m, <1>p, KeepRows
    DEF AllocAfter, Moved, Publishing, Calling, tool, library
<1>6. LockOK'
    BY <1>1, <1>m, <1>p, KeepLock
    DEF AllocAfter, Moved, Locked, InAnalysis, Polling, tool, library
<1> QED
    BY <1>m, <1>2, <1>3, <1>4, <1>5, <1>6, KeepFrames DEF ControlInv

(* A message that is dropped leaves a row unused.                           *)
LEMMA TestSizeControl ==
    ASSUME ControlInv, NEW t \in Threads, TestSize(t)
    PROVE  ControlInv'
<1>1. /\ Moved(t, IF G_var_size > 0 THEN "size" ELSE AfterPoll(t))
      /\ G_var_size > 0 => thr'[t].ret = thr[t].ret
    BY TestSizeStep
<1>m. FramesMove(t) /\ thr[t] \in Frame /\ FrameOK(thr[t]) /\ CallOK(t)
    BY <1>1 DEF Moved, ControlInv, Globals
<1>p. thr[t].pc = "test"
    BY <1>m
    DEF TestSize, CallOK, FrameOK, InEntry, AtStat, InLibrary, InAnalysis,
        Polling, Freeing, At
<1>2. Globals'
    BY <1>m
    DEF TestSize, ControlInv, Globals, FramesMove, tool, library, AfterPoll,
        Entered
<1>3. HeapOK' /\ \A u \in Threads : CallOK(u)'
    BY <1>1, <1>m, <1>p, KeepCalls
    DEF TestSize, Moved, tool, library, AfterPoll, Entered
<1>4. SizesArePositive'
    BY <1>1, <1>m, <1>p, KeepSizes
    DEF TestSize, Moved, NoZeroRequests, tool, library, AfterPoll, Entered
<1>5. RowsSuffice'
    <2>1. /\ Cardinality(Filling') <= Cardinality(Filling) /\ Unsent' = Unsent
          /\ Cardinality(Filling) \in Nat /\ Cardinality(Filling') \in Nat
        BY <1>1, <1>m, <1>p, CountsMove
        DEF TestSize, AfterPoll, Entered, At, Moved, Publishing, Calling
    <2>2. RowsSuffice /\ UNCHANGED <<variant, count, received, queue, heap>>
        BY <1>m DEF TestSize, ControlInv, FramesMove, tool
    <2>3. \A u \in Threads : thr'[u].pc = "store" => thr'[u] = thr[u] /\ thr[u].reg \in Nat
        BY <1>1, <1>m, <1>p
        DEF Moved, AfterPoll, Entered, FramesMove, ControlInv, Globals, Frame
    <2>4. count \in Nat /\ Len(received) \in Nat
        BY DEF ControlInv, Globals
    <2>5. count' + Cardinality(Filling') <= Len(received')
        BY <2>1, <2>2, <2>4 DEF RowsSuffice
    <2>6. \A u \in Threads : thr'[u].pc = "store" =>
              thr'[u].reg + Cardinality(Filling') <= Len(received')
        BY <2>1, <2>2, <2>3, <2>4 DEF RowsSuffice
    <2> QED
        BY <2>1, <2>2, <2>5, <2>6 DEF RowsSuffice
<1>6. LockOK'
    BY <1>1, <1>m, <1>p, KeepLock
    DEF TestSize, Moved, Locked, InAnalysis, Polling, tool, library, AfterPoll,
        Entered
<1> QED
    BY <1>m, <1>2, <1>3, <1>4, <1>5, <1>6, KeepFrames DEF ControlInv

(* The row that is written is in the table.                                 *)
LEMMA WriteSizeControl ==
    ASSUME ControlInv, NEW t \in Threads, WriteSize(t)
    PROVE  ControlInv'
<1>1. /\ Moved(t, "addr")
      /\ thr'[t].ret = thr[t].ret
    BY WriteSizeStep
<1>m. FramesMove(t) /\ thr[t] \in Frame /\ FrameOK(thr[t]) /\ CallOK(t)
    BY <1>1 DEF Moved, ControlInv, Globals
<1>p. thr[t].pc = "size"
    BY <1>m
    DEF WriteSize, CallOK, FrameOK, InEntry, AtStat, InLibrary, InAnalysis,
        Polling, Freeing, At
<1>2. Globals'
    <2>1. G_var_size \in Nat /\ t \in Filling
        BY <1>m DEF Frame, WriteSize, At, Filling, ControlInv, Globals
    <2>2. count + 1 \in 1 .. MAX_SIZE
        BY <2>1, RowsFit
    <2>3. table' \in [1 .. MAX_SIZE -> [addr : Int, size : Nat, ops : Nat]]
        BY <2>1, <2>2 DEF WriteSize, ControlInv, Globals
    <2> QED
        BY <1>m, <2>3 DEF WriteSize, ControlInv, Globals, FramesMove, tool, library
<1>3. HeapOK' /\ \A u \in Threads : CallOK(u)'
    BY <1>1, <1>m, <1>p, KeepCalls
    DEF WriteSize, Moved, tool, library
<1>4. SizesArePositive'
    BY <1>1, <1>m, <1>p, KeepSizes
    DEF WriteSize, Moved, NoZeroRequests, tool, library
<1>5. RowsSuffice'
    BY <1>1, <1>m, <1>p, KeepRows
    DEF WriteSize, Moved, Publishing, Calling, tool, library
<1>6. LockOK'
    BY <1>1, <1>m, <1>p, KeepLock
    DEF WriteSize, Moved, Locked, InAnalysis, Polling, tool, library
<1> QED
    BY <1>m, <1>2, <1>3, <1>4, <1>5, <1>6, KeepFrames DEF ControlInv

(* So is its address.                                                       *)
LEMMA WriteAddrControl ==
    ASSUME ControlInv, NEW t \in Threads, WriteAddr(t)
    PROVE  ControlInv'
<1>1. Moved(t, "init")
    BY WriteAddrStep
<1>m. FramesMove(t) /\ thr[t] \in Frame /\ FrameOK(thr[t]) /\ CallOK(t)
    BY <1>1 DEF Moved, ControlInv, Globals
<1>p. thr[t].pc = "addr"
    BY <1>m
    DEF WriteAddr, CallOK, FrameOK, InEntry, AtStat, InLibrary, InAnalysis,
        Polling, Freeing, At
<1>2. Globals'
    <2>1. thr[t].ret \in Int /\ t \in Filling
        BY <1>m DEF Frame, WriteAddr, At, Filling
    <2>2. count + 1 \in 1 .. MAX_SIZE
        BY <2>1, RowsFit
    <2>3. table' \in [1 .. MAX_SIZE -> [addr : Int, size : Nat, ops : Nat]]
        BY <2>1, <2>2 DEF WriteAddr, ControlInv, Globals
    <2> QED
        BY <1>m, <2>3 DEF WriteAddr, ControlInv, Globals, FramesMove, tool, library
<1>3. HeapOK' /\ \A u \in Threads : CallOK(u)'
    BY <1>1, <1>m, <1>p, KeepCalls
    DEF WriteAddr, Moved, tool, library
<1>4. SizesArePositive'
    BY <1>1, <1>m, <1>p, KeepSizes
    DEF WriteAddr, Moved, NoZeroRequests, tool, library
<1>5. RowsSuffice'
    BY <1>1, <1>m, <1>p, KeepRows
    DEF WriteAddr, Moved, Publishing, Calling, tool, library
<1>6. LockOK'
    BY <1>1, <1>m, <1>p, KeepLock
    DEF WriteAddr, Moved, Locked, InAnalysis, Polling, tool, library
<1> QED
    BY <1>m, <1>2, <1>3, <1>4, <1>5, <1>6, KeepFrames DEF ControlInv

(* So are its counters.                                                     *)
LEMMA InitVariableControl ==
    ASSUME ControlInv, NEW t \in Threads, InitVariable(t)
    PROVE  ControlInv'
<1>1. Moved(t, "load")
    BY InitVariableStep
<1>m. FramesMove(t) /\ thr[t] \in Frame /\ FrameOK(thr[t]) /\ CallOK(t)
    BY <1>1 DEF Moved, ControlInv, Globals
<1>p. thr[t].pc = "init"
    BY <1>m
    DEF InitVariable, CallOK, FrameOK, InEntry, AtStat, InLibrary, InAnalysis,
        Polling, Freeing, At
<1>2. Globals'
    <2>1. t \in Filling
        BY <1>m DEF Frame, InitVariable, At, Filling
    <2>2. count + 1 \in 1 .. MAX_SIZE
        BY <2>1, RowsFit
    <2>3. table' \in [1 .. MAX_SIZE -> [addr : Int, size : Nat, ops : Nat]]
        BY <2>1, <2>2 DEF InitVariable, ControlInv, Globals
    <2>4. credits' \in [1 .. MAX_SIZE -> Nat]
        BY <2>2 DEF InitVariable, ControlInv, Globals
    <2> QED
        BY <1>m, <2>3, <2>4
        DEF InitVariable, ControlInv, Globals, FramesMove, tool, library
<1>3. HeapOK' /\ \A u \in Threads : CallOK(u)'
    BY <1>1, <1>m, <1>p, KeepCalls
    DEF InitVariable, Moved, tool, library
<1>4. SizesArePositive'
    BY <1>1, <1>m, <1>p, KeepSizes
    DEF InitVariable, Moved, NoZeroRequests, tool, library
<1>5. RowsSuffice'
    BY <1>1, <1>m, <1>p, KeepRows
    DEF InitVariable, Moved, Publishing, Calling, tool, library
<1>6. LockOK'
    BY <1>1, <1>m, <1>p, KeepLock
    DEF InitVariable, Moved, Locked, InAnalysis, Polling, tool, library
<1> QED
    BY <1>m, <1>2, <1>3, <1>4, <1>5, <1>6, KeepFrames DEF ControlInv

(* What is loaded is a number of rows.                                      *)
LEMMA LoadCountControl ==
    ASSUME ControlInv, NEW t \in Threads, LoadCount(t)
    PROVE  ControlInv'
<1>1. /\ Moved(t, "store")
      /\ thr'[t].reg = count
    BY LoadCountStep
<1>m. FramesMove(t) /\ thr[t] \in Frame /\ FrameOK(thr[t]) /\ CallOK(t)
    BY <1>1 DEF Moved, ControlInv, Globals
<1>p. thr[t].pc = "load"
    BY <1>m
    DEF LoadCount, CallOK, FrameOK, InEntry, AtStat, InLibrary, InAnalysis,
        Polling, Freeing, At
<1>2. Globals'
    BY <1>m
    DEF LoadCount, ControlInv, Globals, FramesMove, tool, library
<1>3. HeapOK' /\ \A u \in Threads : CallOK(u)'
    BY <1>1, <1>m, <1>p, KeepCalls
    DEF LoadCount, Moved, tool, library
<1>4. SizesArePositive'
    BY <1>1, <1>m, <1>p, KeepSizes
    DEF LoadCount, Moved, NoZeroRequests, tool, library
<1>5. RowsSuffice'
    <2>1. Filling' = Filling /\ Unsent' = Unsent /\ Cardinality(Filling) \in Nat
        BY <1>1, <1>m, <1>p, CountsMove
        DEF LoadCount, At, Moved, Publishing, Calling
    <2>2. RowsSuffice /\ UNCHANGED <<variant, count, received, queue, heap>>
        BY <1>m DEF LoadCount, ControlInv, FramesMove, tool
    <2>3. \A u \in Threads \ {t} : thr'[u] = thr[u]
        BY <1>m DEF FramesMove
    <2>4. thr'[t].reg = count
        BY <1>1, <1>m, <1>p
    <2> QED
        BY <2>1, <2>2, <2>3, <2>4 DEF RowsSuffice
<1>6. LockOK'
    BY <1>1, <1>m, <1>p, KeepLock
    DEF LoadCount, Moved, Locked, InAnalysis, Polling, tool, library
<1> QED
    BY <1>m, <1>2, <1>3, <1>4, <1>5, <1>6, KeepFrames DEF ControlInv

(* Even from a stale load, count stays within the messages received.        *)
LEMMA StoreCountControl ==
    ASSUME ControlInv, NEW t \in Threads, StoreCount(t)
    PROVE  ControlInv'
<1>1. Moved(t, AfterPoll(t))
    BY StoreCountStep
<1>m. FramesMove(t) /\ thr[t] \in Frame /\ FrameOK(thr[t]) /\ CallOK(t)
    BY <1>1 DEF Moved, ControlInv, Globals
<1>p. thr[t].pc = "store"
    BY <1>m
    DEF StoreCount, CallOK, FrameOK, InEntry, AtStat, InLibrary, InAnalysis,
        Polling, Freeing, At
<1>2. Globals'
    <2>1. thr[t].reg \in Nat
        BY <1>m DEF Frame
    <2> QED
        BY <1>m, <2>1 DEF StoreCount, ControlInv, Globals, FramesMove, tool, library
<1>3. HeapOK' /\ \A u \in Threads : CallOK(u)'
    BY <1>1, <1>m, <1>p, KeepCalls
    DEF StoreCount, Moved, tool, library, AfterPoll, Entered
<1>4. SizesArePositive'
    BY <1>1, <1>m, <1>p, KeepSizes
    DEF StoreCount, Moved, NoZeroRequests, tool, library, AfterPoll, Entered
<1>5. RowsSuffice'
    <2>1. /\ Cardinality(Filling) = Cardinality(Filling') + 1
          /\ Cardinality(Filling') \in Nat /\ Unsent' = Unsent
        BY <1>1, <1>m, <1>p, CountsMove
        DEF StoreCount, AfterPoll, Entered, At, Moved, Publishing, Calling
    <2>2. RowsSuffice /\ UNCHANGED <<variant, received, queue, heap>>
        BY <1>m DEF StoreCount, ControlInv, FramesMove
    <2>3. \A u \in Threads : thr'[u].pc = "store" => thr'[u] = thr[u] /\ thr[u].reg \in Nat
        BY <1>1, <1>m, <1>p
        DEF Moved, AfterPoll, Entered, FramesMove, ControlInv, Globals, Frame
    <2>4. /\ count' = thr[t].reg + 1 /\ thr[t].reg \in Nat
          /\ thr[t].reg + Cardinality(Filling) <= Len(received) /\ Len(received) \in Nat
        <3>1. thr[t].pc = "store" /\ count' = thr[t].reg + 1
            BY DEF StoreCount, At
        <3>2. thr[t].reg \in Nat /\ received \in Seq(Message)
            BY <1>m DEF Frame, ControlInv, Globals
        <3> QED
            BY <2>2, <3>1, <3>2 DEF RowsSuffice
    <2>5. count' + Cardinality(Filling') <= Len(received')
        BY <2>1, <2>2, <2>4
    <2>6. \A u \in Threads : thr'[u].pc = "store" =>
              thr'[u].reg + Cardinality(Filling') <= Len(received')
        BY <2>1, <2>2, <2>3, <2>4 DEF RowsSuffice
    <2> QED
        BY <2>1, <2>2, <2>5, <2>6 DEF RowsSuffice
<1>6. LockOK'
    BY <1>1, <1>m, <1>p, KeepLock
    DEF StoreCount, Moved, Locked, InAnalysis, Polling, tool, library,
        AfterPoll, Entered
<1> QED
    BY <1>m, <1>2, <1>3, <1>4, <1>5, <1>6, KeepFrames DEF ControlInv

(* The entry routine changes its frame alone.                               *)
LEMMA BeforeControl ==
    ASSUME ControlInv, NEW t \in Threads, Before(t)
    PROVE  ControlInv'
<1>1. Moved(t, IF in_alloc = 1 /\ G_var_size > 0
                  THEN "recv" ELSE Entered(thr[t]))
    BY BeforeStep
<1>m. FramesMove(t) /\ thr[t] \in Frame /\ FrameOK(thr[t]) /\ CallOK(t)
    BY <1>1 DEF Moved, ControlInv, Globals
<1>p. thr[t].pc = "before" /\ thr[t].todo # 0
    BY <1>m
    DEF Before, CallOK, FrameOK, InEntry, AtStat, InLibrary, InAnalysis,
        Polling, Freeing, At
<1>2. Globals'
    BY <1>m
    DEF Before, ControlInv, Globals, FramesMove, tool, library, Entered,
        EnterBefore
<1>3. HeapOK' /\ \A u \in Threads : CallOK(u)'
    BY <1>1, <1>m, <1>p, KeepCalls
    DEF Before, Moved, tool, library, Entered, EnterBefore
<1>4. SizesArePositive'
    BY <1>1, <1>m, <1>p, KeepSizes
    DEF Before, Moved, NoZeroRequests, tool, library, Entered, EnterBefore
<1>5. RowsSuffice'
    BY <1>1, <1>m, <1>p, KeepRows
    DEF Before, Moved, Publishing, Calling, tool, library, Entered, EnterBefore
<1>6. LockOK'
    BY <1>1, <1>m, <1>p, KeepLock
    DEF Before, Moved, Locked, InAnalysis, Polling, tool, library, Entered,
        EnterBefore
<1> QED
    BY <1>m, <1>2, <1>3, <1>4, <1>5, <1>6, KeepFrames DEF ControlInv

(* Rows are only retired.                                                   *)
LEMMA RetireControl ==
    ASSUME ControlInv, NEW t \in Threads, Retire(t)
    PROVE  ControlInv'
<1>1. Moved(t, "set")
    BY RetireStep
<1>m. FramesMove(t) /\ thr[t] \in Frame /\ FrameOK(thr[t]) /\ CallOK(t)
    BY <1>1 DEF Moved, ControlInv, Globals
<1>p. thr[t].pc = "retire" /\ thr[t].todo # 0
    BY <1>m
    DEF Retire, CallOK, FrameOK, InEntry, AtStat, InLibrary, InAnalysis,
        Polling, Freeing, At
<1>2. Globals'
    <2>1. thr[t].old \in Int
        BY <1>m DEF Frame
    <2>2. table' \in [1 .. MAX_SIZE -> [addr : Int, size : Nat, ops : Nat]]
        BY <2>1, RetiredFacts DEF Retire, ControlInv, Globals
    <2> QED
        BY <1>m, <2>2 DEF Retire, ControlInv, Globals, FramesMove, library
<1>3. HeapOK' /\ \A u \in Threads : CallOK(u)'
    BY <1>1, <1>m, <1>p, KeepCalls
    DEF Retire, Moved, tool, library
<1>4. SizesArePositive'
    BY <1>1, <1>m, <1>p, KeepSizes
    DEF Retire, Moved, NoZeroRequests, tool, library
<1>5. RowsSuffice'
    BY <1>1, <1>m, <1>p, KeepRows
    DEF Retire, Moved, Publishing, Calling, tool, library
<1>6. LockOK'
    BY <1>1, <1>m, <1>p, KeepLock
    DEF Retire, Moved, Locked, InAnalysis, Polling, tool, library
<1> QED
    BY <1>m, <1>2, <1>3, <1>4, <1>5, <1>6, KeepFrames DEF ControlInv

(* The request's size is a size.                                            *)
LEMMA SetSizeControl ==
    ASSUME ControlInv, NEW t \in Threads, SetSize(t)
    PROVE  ControlInv'
<1>1. /\ FramesMove(t) /\ thr'[t].pc = "stat"
      /\ thr'[t].back = thr[t].back
      /\ thr'[t].todo = thr[t].todo - 1
      /\ thr'[t].size = thr[t].size
      /\ thr'[t].old = thr[t].old
      /\ thr'[t].ptr = thr[t].ptr
    BY SetSizeStep
<1>m. FramesMove(t) /\ thr[t] \in Frame /\ FrameOK(thr[t]) /\ CallOK(t)
    BY <1>1 DEF Moved, ControlInv, Globals
<1>p. thr[t].pc = "set" /\ thr[t].back \in {"hook", "return", "nested"}
    BY <1>m
    DEF SetSize, CallOK, FrameOK, InEntry, AtStat, InLibrary, InAnalysis,
        Polling, Freeing, At
<1>2. Globals'
    <2>1. Asked(thr[t]) \in Nat
        BY <1>m DEF Asked, Frame
    <2> QED
        BY <1>m, <2>1 DEF SetSize, ControlInv, Globals, FramesMove, library
<1>3. HeapOK' /\ \A u \in Threads : CallOK(u)'
    BY <1>1, <1>m, <1>p, KeepCalls
    DEF SetSize, Moved, tool, library
<1>4. SizesArePositive'
    <2>1. NoZeroRequests => G_var_size' > 0
        <3>1. thr[t].back \in {"hook", "return", "nested"}
            BY <1>m, <1>p
            DEF SetSize, FrameOK, InEntry, AtStat, InLibrary, InAnalysis, Polling,
                Freeing, At
        <3>2. CallOK(t) /\ HeapOK
            BY DEF ControlInv
        <3>3. NoZeroRequests => thr[t].size > 0
            BY <3>1, <3>2 DEF NoZeroRequests, CallOK
        <3> QED
            BY <3>3 DEF SetSize, Asked
    <2>2. SizesArePositive /\ \A u \in Threads \ {t} : thr'[u] = thr[u]
        BY <1>m DEF FramesMove, ControlInv
    <2>3. UNCHANGED <<msg_addr, lib_msg, heap>> /\ thr'[t].pc = "stat"
        BY <1>1, <1>m, <1>p DEF SetSize, library
    <2> QED
        BY <2>1, <2>2, <2>3 DEF SizesArePositive, NoZeroRequests
<1>5. RowsSuffice'
    BY <1>1, <1>m, <1>p, KeepRows
    DEF SetSize, Moved, Publishing, Calling, tool, library
<1>6. LockOK'
    BY <1>1, <1>m, <1>p, KeepLock
    DEF SetSize, Moved, Locked, InAnalysis, Polling, tool, library
<1> QED
    BY <1>m, <1>2, <1>3, <1>4, <1>5, <1>6, KeepFrames DEF ControlInv

(* in_alloc becomes 0 or 1, and is set only by a request of some bytes.     *)
LEMMA ChangeAllocStatControl ==
    ASSUME ControlInv, NEW t \in Threads, ChangeAllocStat(t)
    PROVE  ControlInv'
<1>1. Moved(t, IF thr[t].todo = 0 THEN thr[t].back ELSE "before")
    BY ChangeAllocStatStep
<1>m. FramesMove(t) /\ thr[t] \in Frame /\ FrameOK(thr[t]) /\ CallOK(t)
    BY <1>1 DEF Moved, ControlInv, Globals
<1>p. thr[t].pc = "stat" /\ thr[t].back \in {"hook", "return", "nested"}
    BY <1>m
    DEF ChangeAllocStat, CallOK, FrameOK, InEntry, AtStat, InLibrary,
        InAnalysis, Polling, Freeing, At
<1>2. Globals'
    BY <1>m
    DEF ChangeAllocStat, ControlInv, Globals, FramesMove, tool, library
<1>3. HeapOK' /\ \A u \in Threads : CallOK(u)'
    BY <1>1, <1>m, <1>p, KeepCalls
    DEF ChangeAllocStat, Moved, tool, library
<1>4. SizesArePositive'
    <2>1. in_alloc' = 1 /\ NoZeroRequests => G_var_size > 0
        BY DEF ChangeAllocStat, At, ControlInv, SizesArePositive
    <2>2. thr'[t].pc \notin {"stat", "read", "bytes", "send"}
        BY <1>1, <1>m, <1>p
        DEF Moved, ChangeAllocStat, FrameOK, InEntry, AtStat, InLibrary, InAnalysis,
            Polling, Freeing, At
    <2> QED
        BY <1>m, <2>1, <2>2
        DEF ChangeAllocStat, FramesMove, ControlInv, SizesArePositive, library,
            NoZeroRequests
<1>5. RowsSuffice'
    BY <1>1, <1>m, <1>p, KeepRows
    DEF ChangeAllocStat, Moved, Publishing, Calling, tool, library
<1>6. LockOK'
    BY <1>1, <1>m, <1>p, KeepLock
    DEF ChangeAllocStat, Moved, Locked, InAnalysis, Polling, tool, library
<1> QED
    BY <1>m, <1>2, <1>3, <1>4, <1>5, <1>6, KeepFrames DEF ControlInv

(* The block is live when the application gets it.                          *)
LEMMA CallReturnsControl ==
    ASSUME ControlInv, NEW t \in Threads, CallReturns(t)
    PROVE  ControlInv'
<1>1. Returned(t)
    BY CallReturnsStep
<1>m. FramesMove(t) /\ thr[t] \in Frame /\ FrameOK(thr[t]) /\ CallOK(t)
    BY <1>1 DEF Returned, ControlInv, Globals
<1>p. thr[t].pc \in {"hook", "return"} /\ thr[t].back # "run"
    BY <1>m
    DEF CallReturns, CallOK, FrameOK, InEntry, AtStat, InLibrary, InAnalysis,
        Polling, Freeing, At
<1>2. Globals'
    BY <1>m
    DEF CallReturns, ControlInv, Globals, FramesMove, tool, library, Return
<1>3. HeapOK' /\ \A u \in Threads : CallOK(u)'
    <2>1. thr[t].back # "run"
        BY <1>m, <1>p
        DEF CallReturns, FrameOK, InEntry, AtStat, InLibrary, InAnalysis, Polling,
            Freeing, At
    <2>2. BlockMoves(thr[t].ptr)
        BY DEF CallReturns, BlockMoves, ControlInv, HeapOK, Block, Return
    <2>3. CallOK(t)'
        BY <1>1, <1>m, <1>p
        DEF Returned, CallOK, FramesMove
    <2> QED
        BY <1>m, <2>1, <2>2, <2>3, MoveCalls
<1>4. SizesArePositive'
    <2>1. NoZeroRequests' => NoZeroRequests
        BY DEF CallReturns, Return, ControlInv, HeapOK, Block, NoZeroRequests
    <2> QED
        BY <1>m, <2>1, <1>1, <1>p, KeepSizes DEF CallReturns, Returned, tool, library
<1>5. RowsSuffice'
    <2>1. DOMAIN heap' = DOMAIN heap
        BY DEF CallReturns, Return
    <2>2. ~Publishing(thr'[t]) /\ ~Publishing(thr[t]) /\ ~Calling(thr'[t])
        BY <1>1, <1>m, <1>p DEF CallReturns, At, Returned, Publishing, Calling
    <2> QED
        BY <1>m, <2>1, <2>2, <1>1, <1>p, KeepRows DEF CallReturns, Returned, tool
<1>6. LockOK'
    <2>1. ~Locked(thr'[t])
        BY <1>1, <1>m, <1>p DEF Returned, Locked, InAnalysis, Polling
    <2> QED
        BY <1>m, <2>1, KeepLock DEF CallReturns
<1> QED
    BY <1>m, <1>2, <1>3, <1>4, <1>5, <1>6, KeepFrames DEF ControlInv

(* The block is not the application's yet.                                  *)
LEMMA HookControl ==
    ASSUME ControlInv, NEW t \in Threads, Hook(t)
    PROVE  ControlInv'
<1>1. /\ FramesMove(t) /\ thr'[t].pc = "setflag"
      /\ thr'[t].back = thr[t].back
      /\ thr'[t].todo = thr[t].todo
      /\ thr'[t].size = thr[t].size
      /\ thr'[t].old = 0
      /\ thr'[t].ptr = thr[t].ptr
    BY HookStep
<1>m. FramesMove(t) /\ thr[t] \in Frame /\ FrameOK(thr[t]) /\ CallOK(t)
    BY <1>1 DEF Moved, ControlInv, Globals
<1>p. thr[t].pc = "hook" /\ thr[t].back = "hook" /\ thr[t].size > 0
    BY <1>m
    DEF Hook, CallOK, FrameOK, InEntry, AtStat, InLibrary, InAnalysis, Polling,
        Freeing, At
<1>2. Globals'
    BY <1>m
    DEF Hook, ControlInv, Globals, FramesMove, tool, library
<1>3. HeapOK' /\ \A u \in Threads : CallOK(u)'
    BY <1>1, <1>m, <1>p, KeepCalls
    DEF Hook, Moved, tool, library
<1>4. SizesArePositive'
    BY <1>1, <1>m, <1>p, KeepSizes
    DEF Hook, Moved, NoZeroRequests, tool, library
<1>5. RowsSuffice'
    BY <1>1, <1>m, <1>p, KeepRows
    DEF Hook, Moved, Publishing, Calling, tool, library
<1>6. LockOK'
    BY <1>1, <1>m, <1>p, KeepLock
    DEF Hook, Moved, Locked, InAnalysis, Polling, tool, library
<1> QED
    BY <1>m, <1>2, <1>3, <1>4, <1>5, <1>6, KeepFrames DEF ControlInv

(* The flag is one for all threads, and has no owner to keep.               *)
LEMMA SetFlagControl ==
    ASSUME ControlInv, NEW t \in Threads, SetFlag(t)
    PROVE  ControlInv'
<1>1. Moved(t, "show")
    BY SetFlagStep
<1>m. FramesMove(t) /\ thr[t] \in Frame /\ FrameOK(thr[t]) /\ CallOK(t)
    BY <1>1 DEF Moved, ControlInv, Globals
<1>p. thr[t].pc = "setflag" /\ thr[t].back \in {"hook", "nested"}
    BY <1>m
    DEF SetFlag, CallOK, FrameOK, InEntry, AtStat, InLibrary, InAnalysis,
        Polling, Freeing, At
<1>2. Globals'
    BY <1>m
    DEF SetFlag, ControlInv, Globals, FramesMove, tool, library
<1>3. HeapOK' /\ \A u \in Threads : CallOK(u)'
    BY <1>1, <1>m, <1>p, KeepCalls
    DEF SetFlag, Moved, tool, library
<1>4. SizesArePositive'
    BY <1>1, <1>m, <1>p, KeepSizes
    DEF SetFlag, Moved, NoZeroRequests, tool, library
<1>5. RowsSuffice'
    BY <1>1, <1>m, <1>p, KeepRows
    DEF SetFlag, Moved, Publishing, Calling, tool, library
<1>6. LockOK'
    BY <1>1, <1>m, <1>p, KeepLock
    DEF SetFlag, Moved, Locked, InAnalysis, Polling, tool, library
<1> QED
    BY <1>m, <1>2, <1>3, <1>4, <1>5, <1>6, KeepFrames DEF ControlInv

(* The nested request is for one byte.                                      *)
LEMMA NestedMallocControl ==
    ASSUME ControlInv, NEW t \in Threads, NestedMalloc(t)
    PROVE  ControlInv'
<1>1. /\ FramesMove(t) /\ thr'[t].pc =
            IF in_alloc = 1 /\ G_var_size > 0 THEN "recv" ELSE Entered(thr[t])
      /\ thr'[t].back = "nested"
      /\ thr'[t].todo = 2
      /\ thr'[t].size = thr[t].size
      /\ thr'[t].old = thr[t].old
      /\ thr'[t].ptr = thr[t].ptr
    BY NestedMallocStep
<1>m. FramesMove(t) /\ thr[t] \in Frame /\ FrameOK(thr[t]) /\ CallOK(t)
    BY <1>1 DEF Moved, ControlInv, Globals
<1>p. thr[t].pc = "show" /\ thr[t].back \in {"hook", "nested"} /\ thr[t].size > 0
    BY <1>m
    DEF NestedMalloc, CallOK, FrameOK, InEntry, AtStat, InLibrary, InAnalysis,
        Polling, Freeing, At
<1>2. Globals'
    BY <1>m
    DEF NestedMalloc, ControlInv, Globals, FramesMove, tool, library, Entered,
        EnterBefore
<1>3. HeapOK' /\ \A u \in Threads : CallOK(u)'
    BY <1>1, <1>m, <1>p, KeepCalls
    DEF NestedMalloc, Moved, tool, library, Entered, EnterBefore
<1>4. SizesArePositive'
    BY <1>1, <1>m, <1>p, KeepSizes
    DEF NestedMalloc, Moved, NoZeroRequests, tool, library, Entered, EnterBefore
<1>5. RowsSuffice'
    BY <1>1, <1>m, <1>p, KeepRows
    DEF NestedMalloc, Moved, Publishing, Calling, tool, library, Entered,
        EnterBefore
<1>6. LockOK'
    BY <1>1, <1>m, <1>p, KeepLock
    DEF NestedMalloc, Moved, Locked, InAnalysis, Polling, tool, library,
        Entered, EnterBefore
<1> QED
    BY <1>m, <1>2, <1>3, <1>4, <1>5, <1>6, KeepFrames DEF ControlInv

(* A nested call is the library's own: no block of the heap changes.        *)
LEMMA NestedHookControl ==
    ASSUME ControlInv, NEW t \in Threads, NestedHook(t)
    PROVE  ControlInv'
<1>1. Moved(t, IF trace_flag THEN "show" ELSE "setflag")
    BY NestedHookStep
<1>m. FramesMove(t) /\ thr[t] \in Frame /\ FrameOK(thr[t]) /\ CallOK(t)
    BY <1>1 DEF Moved, ControlInv, Globals
<1>p. thr[t].pc = "nested" /\ thr[t].back = "nested"
    BY <1>m
    DEF NestedHook, CallOK, FrameOK, InEntry, AtStat, InLibrary, InAnalysis,
        Polling, Freeing, At
<1>2. Globals'
    BY <1>m
    DEF NestedHook, ControlInv, Globals, FramesMove, tool, library
<1>3. HeapOK' /\ \A u \in Threads : CallOK(u)'
    BY <1>1, <1>m, <1>p, KeepCalls
    DEF NestedHook, Moved, tool, library
<1>4. SizesArePositive'
    BY <1>1, <1>m, <1>p, KeepSizes
    DEF NestedHook, Moved, NoZeroRequests, tool, library
<1>5. RowsSuffice'
    BY <1>1, <1>m, <1>p, KeepRows
    DEF NestedHook, Moved, Publishing, Calling, tool, library
<1>6. LockOK'
    BY <1>1, <1>m, <1>p, KeepLock
    DEF NestedHook, Moved, Locked, InAnalysis, Polling, tool, library
<1> QED
    BY <1>m, <1>2, <1>3, <1>4, <1>5, <1>6, KeepFrames DEF ControlInv

(* There is a call left to return to.                                       *)
LEMMA NestedReturnsControl ==
    ASSUME ControlInv, NEW t \in Threads, NestedReturns(t)
    PROVE  ControlInv'
<1>1. Moved(t, "show")
    BY NestedReturnsStep
<1>m. FramesMove(t) /\ thr[t] \in Frame /\ FrameOK(thr[t]) /\ CallOK(t)
    BY <1>1 DEF Moved, ControlInv, Globals
<1>p. thr[t].pc = "show"
    BY <1>m
    DEF NestedReturns, CallOK, FrameOK, InEntry, AtStat, InLibrary, InAnalysis,
        Polling, Freeing, At
<1>2. Globals'
    BY <1>m
    DEF NestedReturns, ControlInv, Globals, FramesMove, tool, library
<1>3. HeapOK' /\ \A u \in Threads : CallOK(u)'
    BY <1>1, <1>m, <1>p, KeepCalls
    DEF NestedReturns, Moved, tool, library
<1>4. SizesArePositive'
    BY <1>1, <1>m, <1>p, KeepSizes
    DEF NestedReturns, Moved, NoZeroRequests, tool, library
<1>5. RowsSuffice'
    BY <1>1, <1>m, <1>p, KeepRows
    DEF NestedReturns, Moved, Publishing, Calling, tool, library
<1>6. LockOK'
    BY <1>1, <1>m, <1>p, KeepLock
    DEF NestedReturns, Moved, Locked, InAnalysis, Polling, tool, library
<1> QED
    BY <1>m, <1>2, <1>3, <1>4, <1>5, <1>6, KeepFrames DEF ControlInv

(* The message is of the call's block, which is chosen from now on.         *)
LEMMA FillAddrControl ==
    ASSUME ControlInv, NEW t \in Threads, FillAddr(t)
    PROVE  ControlInv'
<1>1. Moved(t, "fill")
    BY FillAddrStep
<1>m. FramesMove(t) /\ thr[t] \in Frame /\ FrameOK(thr[t]) /\ CallOK(t)
    BY <1>1 DEF Moved, ControlInv, Globals
<1>p. thr[t].pc = "show" /\ thr[t].back # "run" /\ thr[t].size > 0
    BY <1>m
    DEF FillAddr, CallOK, FrameOK, InEntry, AtStat, InLibrary, InAnalysis,
        Polling, Freeing, At
<1>2. Globals'
    <2>1. thr[t].ptr \in Nat
        BY <1>m DEF Frame
    <2> QED
        BY <1>m, <2>1 DEF FillAddr, ControlInv, Globals, FramesMove, tool
<1>3. HeapOK' /\ \A u \in Threads : CallOK(u)'
    <2>1. thr[t].back # "run"
        BY <1>m, <1>p
        DEF FillAddr, FrameOK, InEntry, AtStat, InLibrary, InAnalysis, Polling,
            Freeing, At
    <2>2. BlockMoves(thr[t].ptr)
        BY DEF FillAddr, BlockMoves, ControlInv, HeapOK, Block
    <2>3. CallOK(t)'
        <3>1. CallOK(t) /\ thr[t].ptr \in DOMAIN heap
            BY <2>1 DEF ControlInv, CallOK
        <3>2. thr[t].old # 0 => thr[t].old # thr[t].ptr
            BY <2>1, <3>1 DEF CallOK
        <3>3. /\ heap'[thr[t].ptr].state = heap[thr[t].ptr].state
              /\ heap'[thr[t].ptr].chosen = TRUE
            BY <3>1 DEF FillAddr, ControlInv, HeapOK, Block
        <3>4. thr[t].size > 0
            BY <3>1 DEF FillAddr, At, CallOK
        <3> QED
            BY <2>1, <2>2, <3>1, <3>2, <3>3, <3>4, <1>1, <1>p
            DEF Moved, CallOK, BlockMoves
    <2> QED
        BY <1>m, <2>1, <2>2, <2>3, MoveCalls
<1>4. SizesArePositive'
    <2>1. lib_msg'.size = lib_msg.size
        BY DEF FillAddr, ControlInv, Globals
    <2>2. NoZeroRequests' => NoZeroRequests
        BY DEF FillAddr, ControlInv, HeapOK, Block, NoZeroRequests
    <2> QED
        BY <1>m, <2>1, <2>2, <1>1, <1>p
        DEF FillAddr, Moved, FramesMove, ControlInv, SizesArePositive, tool
<1>5. RowsSuffice'
    BY <1>1, <1>m, <1>p, KeepRows
    DEF FillAddr, Moved, Publishing, Calling, tool, library
<1>6. LockOK'
    BY <1>1, <1>m, <1>p, KeepLock
    DEF FillAddr, Moved, Locked, InAnalysis, Polling, tool, library
<1> QED
    BY <1>m, <1>2, <1>3, <1>4, <1>5, <1>6, KeepFrames DEF ControlInv

(* So is its size, which is not 0.                                          *)
LEMMA FillSizeControl ==
    ASSUME ControlInv, NEW t \in Threads, FillSize(t)
    PROVE  ControlInv'
<1>1. Moved(t, "send")
    BY FillSizeStep
<1>m. FramesMove(t) /\ thr[t] \in Frame /\ FrameOK(thr[t]) /\ CallOK(t)
    BY <1>1 DEF Moved, ControlInv, Globals
<1>p. thr[t].pc = "fill" /\ thr[t].back = "nested" /\ thr[t].size > 0
    BY <1>m
    DEF FillSize, CallOK, FrameOK, InEntry, AtStat, InLibrary, InAnalysis,
        Polling, Freeing, At
<1>2. Globals'
    <2>1. thr[t].size \in Nat
        BY <1>m DEF Frame
    <2> QED
        BY <1>m, <2>1 DEF FillSize, ControlInv, Globals, FramesMove, tool
<1>3. HeapOK' /\ \A u \in Threads : CallOK(u)'
    BY <1>1, <1>m, <1>p, KeepCalls
    DEF FillSize, Moved, tool, library
<1>4. SizesArePositive'
    <2>1. thr[t].size > 0
        <3>1. thr[t].back = "nested"
            BY <1>m, <1>p
            DEF FillSize, FrameOK, InEntry, AtStat, InLibrary, InAnalysis, Polling,
                Freeing, At
        <3> QED
            BY <3>1 DEF ControlInv, CallOK
    <2>2. lib_msg'.size > 0
        BY <2>1 DEF FillSize, ControlInv, Globals
    <2> QED
        BY <1>m, <2>2, <1>1, <1>p
        DEF FillSize, Moved, FramesMove, ControlInv, SizesArePositive, tool,
            NoZeroRequests
<1>5. RowsSuffice'
    BY <1>1, <1>m, <1>p, KeepRows
    DEF FillSize, Moved, Publishing, Calling, tool, library
<1>6. LockOK'
    BY <1>1, <1>m, <1>p, KeepLock
    DEF FillSize, Moved, Locked, InAnalysis, Polling, tool, library
<1> QED
    BY <1>m, <1>2, <1>3, <1>4, <1>5, <1>6, KeepFrames DEF ControlInv

(* The queue has room, and every message stands for a block that was        *)
(* chosen.                                                                  *)
LEMMA SendControl ==
    ASSUME ControlInv, NEW t \in Threads, Send(t)
    PROVE  ControlInv'
<1>1. /\ FramesMove(t) /\ thr'[t].pc = IF t \in variant.traced THEN "lock" ELSE "clear"
      /\ thr'[t].back = "clear"
      /\ thr'[t].todo = thr[t].todo
      /\ thr'[t].size = 0
      /\ thr'[t].old = thr[t].old
      /\ thr'[t].ptr = thr[t].ptr
    BY SendStep
<1>m. FramesMove(t) /\ thr[t] \in Frame /\ FrameOK(thr[t]) /\ CallOK(t)
    BY <1>1 DEF ControlInv, Globals
<1>p. thr[t].pc = "send" /\ thr[t].back = "nested" /\ thr[t].size > 0 /\ ~variant.fortran
    BY <1>m
    DEF Send, CallOK, FrameOK, InEntry, AtStat, InLibrary, InAnalysis, Polling,
        Freeing, At
<1>2. Globals'
    <2>1. lib_msg \in Message /\ queue \in Seq(Message)
        BY DEF Send, At, ControlInv, Globals, SizesArePositive, Message
    <2>2. Append(queue, lib_msg) \in Seq(Message)
        BY <2>1, AppendProperties
    <2> QED
        BY <1>m, <2>2 DEF Send, ControlInv, Globals, FramesMove, tool, library
<1>3. HeapOK' /\ \A u \in Threads : CallOK(u)'
    BY <1>1, <1>m, <1>p, KeepCalls
    DEF Send, tool, library
<1>4. SizesArePositive'
    BY <1>1, <1>m, <1>p, KeepSizes
    DEF Send, NoZeroRequests, tool, library
<1>5. RowsSuffice'
    <2>1. lib_msg \in Message /\ queue \in Seq(Message)
        BY DEF Send, At, ControlInv, Globals, SizesArePositive, Message
    <2>2. Len(queue') = Len(queue) + 1 /\ Len(queue) \in Nat
        BY <2>1, AppendProperties DEF Send
    <2>3. Calling(thr[t]) /\ ~variant.fortran /\ ~Calling(thr'[t])
        BY <1>1, <1>m, <1>p
        DEF Send, Calling, ControlInv, CallOK, FrameOK, InEntry, AtStat, InLibrary,
            InAnalysis, Polling, Freeing, At
    <2>4. ~Publishing(thr[t]) /\ ~Publishing(thr'[t]) /\ thr'[t].pc # "store"
        BY <1>1, <1>m, <1>p DEF Send, At, Publishing
    <2>5. /\ Filling' = Filling /\ Cardinality(Unsent) = Cardinality(Unsent') + 1
          /\ Cardinality(Unsent') \in Nat
        BY <1>m, <2>3, <2>4, CountsMove
    <2>6. RowsSuffice /\ UNCHANGED <<variant, count, received, heap>>
        BY <1>m DEF Send, ControlInv, FramesMove, tool
    <2>7. \A u \in Threads : thr'[u].pc = "store" => thr'[u] = thr[u]
        BY <1>m, <2>4 DEF FramesMove
    <2>8. Len(received) \in Nat /\ Cardinality(DOMAIN heap) \in Nat
        BY FS_CardinalityType DEF ControlInv, Globals, HeapOK
    <2>9. Len(received') + Len(queue') + Cardinality(Unsent') <= Cardinality(DOMAIN heap')
        BY <2>2, <2>3, <2>5, <2>6, <2>8 DEF RowsSuffice
    <2> QED
        BY <2>3, <2>5, <2>6, <2>7, <2>9 DEF RowsSuffice
<1>6. LockOK'
    BY <1>1, <1>m, <1>p, KeepLock
    DEF Send, Locked, InAnalysis, Polling, tool, library
<1> QED
    BY <1>m, <1>2, <1>3, <1>4, <1>5, <1>6, KeepFrames DEF ControlInv

(* The block is live when the application gets it.                          *)
LEMMA ClearFlagControl ==
    ASSUME ControlInv, NEW t \in Threads, ClearFlag(t)
    PROVE  ControlInv'
<1>1. Returned(t)
    BY ClearFlagStep
<1>m. FramesMove(t) /\ thr[t] \in Frame /\ FrameOK(thr[t]) /\ CallOK(t)
    BY <1>1 DEF Returned, ControlInv, Globals
<1>p. thr[t].pc \in {"clear", "show"} /\ thr[t].back # "run"
    BY <1>m
    DEF ClearFlag, CallOK, FrameOK, InEntry, AtStat, InLibrary, InAnalysis,
        Polling, Freeing, At
<1>2. Globals'
    BY <1>m
    DEF ClearFlag, ControlInv, Globals, FramesMove, tool, library, Return
<1>3. HeapOK' /\ \A u \in Threads : CallOK(u)'
    <2>1. thr[t].back # "run"
        BY <1>m, <1>p
        DEF ClearFlag, FrameOK, InEntry, AtStat, InLibrary, InAnalysis, Polling,
            Freeing, At
    <2>2. BlockMoves(thr[t].ptr)
        BY DEF ClearFlag, BlockMoves, ControlInv, HeapOK, Block, Return
    <2>3. CallOK(t)'
        BY <1>1, <1>m, <1>p
        DEF Returned, CallOK, FramesMove
    <2> QED
        BY <1>m, <2>1, <2>2, <2>3, MoveCalls
<1>4. SizesArePositive'
    <2>1. NoZeroRequests' => NoZeroRequests
        BY DEF ClearFlag, Return, ControlInv, HeapOK, Block, NoZeroRequests
    <2> QED
        BY <1>m, <2>1, <1>1, <1>p, KeepSizes DEF ClearFlag, Returned, tool, library
<1>5. RowsSuffice'
    <2>1. DOMAIN heap' = DOMAIN heap
        BY DEF ClearFlag, Return
    <2>2. ~Publishing(thr'[t]) /\ ~Publishing(thr[t]) /\ ~Calling(thr'[t])
        BY <1>1, <1>m, <1>p DEF ClearFlag, At, Returned, Publishing, Calling
    <2> QED
        BY <1>m, <2>1, <2>2, <1>1, <1>p, KeepRows DEF ClearFlag, Returned, tool
<1>6. LockOK'
    <2>1. ~Locked(thr'[t])
        BY <1>1, <1>m, <1>p DEF Returned, Locked, InAnalysis, Polling
    <2> QED
        BY <1>m, <2>1, KeepLock DEF ClearFlag
<1> QED
    BY <1>m, <1>2, <1>3, <1>4, <1>5, <1>6, KeepFrames DEF ControlInv

(* free of a thread that is inside no call.                                 *)
LEMMA FreeHookControl ==
    ASSUME ControlInv, NEW t \in Threads, FreeHook(t)
    PROVE  ControlInv'
<1>1. Moved(t, IF trace_flag THEN "freep" ELSE "freeset")
    BY FreeHookStep
<1>m. FramesMove(t) /\ thr[t] \in Frame /\ FrameOK(thr[t]) /\ CallOK(t)
    BY <1>1 DEF Moved, ControlInv, Globals
<1>p. thr[t].pc = "free"
    BY <1>m
    DEF FreeHook, CallOK, FrameOK, InEntry, AtStat, InLibrary, InAnalysis,
        Polling, Freeing, At
<1>2. Globals'
    BY <1>m
    DEF FreeHook, ControlInv, Globals, FramesMove, tool, library
<1>3. HeapOK' /\ \A u \in Threads : CallOK(u)'
    BY <1>1, <1>m, <1>p, KeepCalls
    DEF FreeHook, Moved, tool, library
<1>4. SizesArePositive'
    BY <1>1, <1>m, <1>p, KeepSizes
    DEF FreeHook, Moved, NoZeroRequests, tool, library
<1>5. RowsSuffice'
    BY <1>1, <1>m, <1>p, KeepRows
    DEF FreeHook, Moved, Publishing, Calling, tool, library
<1>6. LockOK'
    BY <1>1, <1>m, <1>p, KeepLock
    DEF FreeHook, Moved, Locked, InAnalysis, Polling, tool, library
<1> QED
    BY <1>m, <1>2, <1>3, <1>4, <1>5, <1>6, KeepFrames DEF ControlInv

(* The flag may be set already.                                             *)
LEMMA FreeSetFlagControl ==
    ASSUME ControlInv, NEW t \in Threads, FreeSetFlag(t)
    PROVE  ControlInv'
<1>1. Moved(t, "freeclear")
    BY FreeSetFlagStep
<1>m. FramesMove(t) /\ thr[t] \in Frame /\ FrameOK(thr[t]) /\ CallOK(t)
    BY <1>1 DEF Moved, ControlInv, Globals
<1>p. thr[t].pc = "freeset"
    BY <1>m
    DEF FreeSetFlag, CallOK, FrameOK, InEntry, AtStat, InLibrary, InAnalysis,
        Polling, Freeing, At
<1>2. Globals'
    BY <1>m
    DEF FreeSetFlag, ControlInv, Globals, FramesMove, tool, library
<1>3. HeapOK' /\ \A u \in Threads : CallOK(u)'
    BY <1>1, <1>m, <1>p, KeepCalls
    DEF FreeSetFlag, Moved, tool, library
<1>4. SizesArePositive'
    BY <1>1, <1>m, <1>p, KeepSizes
    DEF FreeSetFlag, Moved, NoZeroRequests, tool, library
<1>5. RowsSuffice'
    BY <1>1, <1>m, <1>p, KeepRows
    DEF FreeSetFlag, Moved, Publishing, Calling, tool, library
<1>6. LockOK'
    BY <1>1, <1>m, <1>p, KeepLock
    DEF FreeSetFlag, Moved, Locked, InAnalysis, Polling, tool, library
<1> QED
    BY <1>m, <1>2, <1>3, <1>4, <1>5, <1>6, KeepFrames DEF ControlInv

(* The flag is cleared, whoever has set it.                                 *)
LEMMA FreeClearFlagControl ==
    ASSUME ControlInv, NEW t \in Threads, FreeClearFlag(t)
    PROVE  ControlInv'
<1>1. Moved(t, "freep")
    BY FreeClearFlagStep
<1>m. FramesMove(t) /\ thr[t] \in Frame /\ FrameOK(thr[t]) /\ CallOK(t)
    BY <1>1 DEF Moved, ControlInv, Globals
<1>p. thr[t].pc = "freeclear"
    BY <1>m
    DEF FreeClearFlag, CallOK, FrameOK, InEntry, AtStat, InLibrary, InAnalysis,
        Polling, Freeing, At
<1>2. Globals'
    BY <1>m
    DEF FreeClearFlag, ControlInv, Globals, FramesMove, tool, library
<1>3. HeapOK' /\ \A u \in Threads : CallOK(u)'
    BY <1>1, <1>m, <1>p, KeepCalls
    DEF FreeClearFlag, Moved, tool, library
<1>4. SizesArePositive'
    BY <1>1, <1>m, <1>p, KeepSizes
    DEF FreeClearFlag, Moved, NoZeroRequests, tool, library
<1>5. RowsSuffice'
    BY <1>1, <1>m, <1>p, KeepRows
    DEF FreeClearFlag, Moved, Publishing, Calling, tool, library
<1>6. LockOK'
    BY <1>1, <1>m, <1>p, KeepLock
    DEF FreeClearFlag, Moved, Locked, InAnalysis, Polling, tool, library
<1> QED
    BY <1>m, <1>2, <1>3, <1>4, <1>5, <1>6, KeepFrames DEF ControlInv

(* The rows of the block are retired again.                                 *)
LEMMA LibcFreeControl ==
    ASSUME ControlInv, NEW t \in Threads, LibcFree(t)
    PROVE  ControlInv'
<1>1. Returned(t)
    BY LibcFreeStep
<1>m. FramesMove(t) /\ thr[t] \in Frame /\ FrameOK(thr[t]) /\ CallOK(t)
    BY <1>1 DEF Returned, ControlInv, Globals
<1>p. thr[t].pc = "freep"
    BY <1>m
    DEF LibcFree, CallOK, FrameOK, InEntry, AtStat, InLibrary, InAnalysis,
        Polling, Freeing, At
<1>2. Globals'
    <2>1. thr[t].old \in Int
        BY <1>m DEF Frame
    <2>2. table' \in [1 .. MAX_SIZE -> [addr : Int, size : Nat, ops : Nat]]
        BY <2>1, RetiredFacts DEF LibcFree, ControlInv, Globals
    <2> QED
        BY <1>m, <2>2 DEF LibcFree, ControlInv, Globals, FramesMove, library
<1>3. HeapOK' /\ \A u \in Threads : CallOK(u)'
    BY <1>1, <1>m, <1>p, KeepCalls
    DEF LibcFree, Returned, tool, library
<1>4. SizesArePositive'
    BY <1>1, <1>m, <1>p, KeepSizes
    DEF LibcFree, Returned, NoZeroRequests, tool, library
<1>5. RowsSuffice'
    BY <1>1, <1>m, <1>p, KeepRows
    DEF LibcFree, Returned, Publishing, Calling, tool, library
<1>6. LockOK'
    BY <1>1, <1>m, <1>p, KeepLock
    DEF LibcFree, Returned, Locked, InAnalysis, Polling, tool, library
<1> QED
    BY <1>m, <1>2, <1>3, <1>4, <1>5, <1>6, KeepFrames DEF ControlInv

(* The lock is free where the tool locks.                                   *)
LEMMA GetLockControl ==
    ASSUME ControlInv, NEW t \in Threads, GetLock(t)
    PROVE  ControlInv'
<1>1. Moved(t, IF variant.polls /\ in_alloc = 1 THEN "recv" ELSE "scan")
    BY GetLockStep
<1>m. FramesMove(t) /\ thr[t] \in Frame /\ FrameOK(thr[t]) /\ CallOK(t)
    BY <1>1 DEF Moved, ControlInv, Globals
<1>p. thr[t].pc = "lock"
    BY <1>m
    DEF GetLock, CallOK, FrameOK, InEntry, AtStat, InLibrary, InAnalysis,
        Polling, Freeing, At
<1>2. Globals'
    BY <1>m
    DEF GetLock, ControlInv, Globals, FramesMove, tool, library
<1>3. HeapOK' /\ \A u \in Threads : CallOK(u)'
    BY <1>1, <1>m, <1>p, KeepCalls
    DEF GetLock, Moved, tool, library
<1>4. SizesArePositive'
    BY <1>1, <1>m, <1>p, KeepSizes
    DEF GetLock, Moved, NoZeroRequests, tool, library
<1>5. RowsSuffice'
    BY <1>1, <1>m, <1>p, KeepRows
    DEF GetLock, Moved, Publishing, Calling, tool, library
<1>6. LockOK'
    <2>1. LockOK /\ ~Locked(thr[t])
        BY DEF ControlInv, GetLock, At, Locked
    <2> QED
        BY <1>m, <2>1, MoveLock DEF GetLock, LockOK
<1> QED
    BY <1>m, <1>2, <1>3, <1>4, <1>5, <1>6, KeepFrames DEF ControlInv

(* The lock is given back by the thread that holds it.                      *)
LEMMA NoOwnerControl ==
    ASSUME ControlInv, NEW t \in Threads, NoOwner(t)
    PROVE  ControlInv'
<1>1. Moved(t, thr[t].back)
    BY NoOwnerStep
<1>m. FramesMove(t) /\ thr[t] \in Frame /\ FrameOK(thr[t]) /\ CallOK(t)
    BY <1>1 DEF Moved, ControlInv, Globals
<1>p. thr[t].pc = "scan" /\ thr[t].back \in {"run", "clear"}
    BY <1>m
    DEF NoOwner, CallOK, FrameOK, InEntry, AtStat, InLibrary, InAnalysis,
        Polling, Freeing, At
<1>2. Globals'
    BY <1>m
    DEF NoOwner, ControlInv, Globals, FramesMove, tool, library, Release
<1>3. HeapOK' /\ \A u \in Threads : CallOK(u)'
    BY <1>1, <1>m, <1>p, KeepCalls
    DEF NoOwner, Moved, tool, library, Release
<1>4. SizesArePositive'
    BY <1>1, <1>m, <1>p, KeepSizes
    DEF NoOwner, Moved, NoZeroRequests, tool, library, Release
<1>5. RowsSuffice'
    BY <1>1, <1>m, <1>p, KeepRows
    DEF NoOwner, Moved, Publishing, Calling, tool, library, Release
<1>6. LockOK'
    <2>1. LockOK /\ ~Locked(thr'[t])
        BY <1>1, <1>m, <1>p
        DEF NoOwner, Moved, ControlInv, Locked, FrameOK, InEntry, AtStat, InLibrary,
            InAnalysis, Polling, Freeing, At
    <2> QED
        BY <1>m, <2>1, MoveLock DEF NoOwner, Release, LockOK
<1> QED
    BY <1>m, <1>2, <1>3, <1>4, <1>5, <1>6, KeepFrames DEF ControlInv

(* The row that is found is in the table.                                   *)
LEMMA ScanControl ==
    ASSUME ControlInv, NEW t \in Threads, Scan(t)
    PROVE  ControlInv'
<1>1. /\ Moved(t, "credit")
      /\ thr'[t].at \in 1 .. count /\ thr'[t].reg = table[thr'[t].at].ops
    BY ScanStep
<1>m. FramesMove(t) /\ thr[t] \in Frame /\ FrameOK(thr[t]) /\ CallOK(t)
    BY <1>1 DEF Moved, ControlInv, Globals
<1>p. thr[t].pc = "scan"
    BY <1>m
    DEF Scan, CallOK, FrameOK, InEntry, AtStat, InLibrary, InAnalysis, Polling,
        Freeing, At
<1>2. Globals'
    BY <1>m
    DEF Scan, ControlInv, Globals, FramesMove, tool, library
<1>3. HeapOK' /\ \A u \in Threads : CallOK(u)'
    BY <1>1, <1>m, <1>p, KeepCalls
    DEF Scan, Moved, tool, library
<1>4. SizesArePositive'
    BY <1>1, <1>m, <1>p, KeepSizes
    DEF Scan, Moved, NoZeroRequests, tool, library
<1>5. RowsSuffice'
    BY <1>1, <1>m, <1>p, KeepRows
    DEF Scan, Moved, Publishing, Calling, tool, library
<1>6. LockOK'
    BY <1>1, <1>m, <1>p, KeepLock
    DEF Scan, Moved, Locked, InAnalysis, Polling, tool, library
<1> QED
    BY <1>m, <1>2, <1>3, <1>4, <1>5, <1>6, KeepFrames DEF ControlInv

(* The counter goes up, and the lock is given back.                         *)
LEMMA CreditControl ==
    ASSUME ControlInv, NEW t \in Threads, Credit(t)
    PROVE  ControlInv'
<1>1. Moved(t, thr[t].back)
    BY CreditStep
<1>m. FramesMove(t) /\ thr[t] \in Frame /\ FrameOK(thr[t]) /\ CallOK(t)
    BY <1>1 DEF Moved, ControlInv, Globals
<1>p. thr[t].pc = "credit" /\ thr[t].back \in {"run", "clear"}
    BY <1>m
    DEF Credit, CallOK, FrameOK, InEntry, AtStat, InLibrary, InAnalysis,
        Polling, Freeing, At
<1>2. Globals'
    <2>1. thr[t].at \in 1 .. MAX_SIZE /\ thr[t].reg \in Nat
        BY <1>m DEF Credit, At, FrameOK, Frame
    <2>t. /\ table \in [1 .. MAX_SIZE -> [addr : Int, size : Nat, ops : Nat]]
          /\ credits \in [1 .. MAX_SIZE -> Nat]
        BY DEF ControlInv, Globals
    <2>2. table' \in [1 .. MAX_SIZE -> [addr : Int, size : Nat, ops : Nat]]
        <3> DEFINE i == thr[t].at
        <3>1. table' = [table EXCEPT ![i].ops = thr[t].reg + 1] /\ i \in 1 .. MAX_SIZE
            BY <2>1 DEF Credit
        <3> HIDE DEF i
        <3>2. [table[i] EXCEPT !.ops = thr[t].reg + 1] \in [addr : Int, size : Nat, ops : Nat]
            BY <2>1, <2>t, <3>1
        <3> QED
            BY <2>t, <3>1, <3>2
    <2>3. credits' \in [1 .. MAX_SIZE -> Nat]
        <3> DEFINE i == thr[t].at
        <3>1. credits' = [credits EXCEPT ![i] = @ + 1] /\ i \in 1 .. MAX_SIZE
            BY <2>1 DEF Credit
        <3> HIDE DEF i
        <3> QED
            BY <2>t, <3>1
    <2> QED
        BY <1>m, <2>2, <2>3
        DEF Credit, Release, ControlInv, Globals, FramesMove, library
<1>3. HeapOK' /\ \A u \in Threads : CallOK(u)'
    BY <1>1, <1>m, <1>p, KeepCalls
    DEF Credit, Moved, tool, library, Release
<1>4. SizesArePositive'
    BY <1>1, <1>m, <1>p, KeepSizes
    DEF Credit, Moved, NoZeroRequests, tool, library, Release
<1>5. RowsSuffice'
    BY <1>1, <1>m, <1>p, KeepRows
    DEF Credit, Moved, Publishing, Calling, tool, library, Release
<1>6. LockOK'
    <2>1. LockOK /\ ~Locked(thr'[t])
        BY <1>1, <1>m, <1>p
        DEF Credit, Moved, ControlInv, Locked, FrameOK, InEntry, AtStat, InLibrary,
            InAnalysis, Polling, Freeing, At
    <2> QED
        BY <1>m, <2>1, MoveLock DEF Credit, Release, LockOK
<1> QED
    BY <1>m, <1>2, <1>3, <1>4, <1>5, <1>6, KeepFrames DEF ControlInv

(* A new block lies above all the others.                                   *)
BlockAdded(t, n, old) ==
    /\ DOMAIN heap' = DOMAIN heap \cup {Fresh} /\ Fresh \notin DOMAIN heap
    /\ Cardinality(DOMAIN heap) \in Nat
    /\ Cardinality(DOMAIN heap') = Cardinality(DOMAIN heap) + 1
    /\ heap'[Fresh] = [state |-> "inside", size |-> n, chosen |-> FALSE, by |-> t]
    /\ old # 0 => /\ old \in DOMAIN heap /\ heap[old].state = "live"
                  /\ heap'[old] = [heap[old] EXCEPT !.state = "freed"]
                  /\ heap'[old].state = "freed"
    /\ \A p \in DOMAIN heap \ {old} : heap'[p] = heap[p]

(* The new block is at an address of its own, and the old one is given      *)
(* back.                                                                    *)
LEMMA MallocHeap ==
    ASSUME ControlInv, NEW t \in Threads, NEW n \in Sizes, NEW old \in Live \cup {0},
           Malloc(t, n, old)
    PROVE  BlockAdded(t, n, old) /\ HeapOK'
<1>1. /\ HeapOK /\ IsFiniteSet(DOMAIN heap) /\ Fresh \notin DOMAIN heap
    BY DEF ControlInv, HeapOK
<1>2. /\ heap' = [p \in DOMAIN heap \cup {Fresh} |->
                  IF p = Fresh THEN [state |-> "inside", size |-> n, chosen |-> FALSE, by |-> t]
                  ELSE IF p = old THEN [heap[p] EXCEPT !.state = "freed"]
                  ELSE heap[p]]
      /\ Cardinality(DOMAIN heap) < MaxCalls
    BY DEF Malloc
<1>3. DOMAIN heap' = DOMAIN heap \cup {Fresh}
    BY <1>2
<1>4. /\ Cardinality(DOMAIN heap) \in Nat /\ IsFiniteSet(DOMAIN heap')
      /\ Cardinality(DOMAIN heap') = Cardinality(DOMAIN heap) + 1
    BY <1>1, <1>3, FS_AddElement, FS_CardinalityType
<1>5. /\ heap'[Fresh] = [state |-> "inside", size |-> n, chosen |-> FALSE, by |-> t]
      /\ old \in DOMAIN heap => heap'[old] = [heap[old] EXCEPT !.state = "freed"]
      /\ \A p \in DOMAIN heap \ {old} : heap'[p] = heap[p]
    BY <1>1, <1>2
<1>6. n \in Nat
    BY SizesAssumption
<1>7. Fresh' = Fresh + 10 /\ Fresh \in Nat /\ Fresh > 0
    BY <1>4 DEF Fresh, AddressOf
<1>8. ASSUME NEW p \in DOMAIN heap'
      PROVE  p \in Nat /\ 0 < p /\ p < Fresh' /\ heap'[p] \in Block
    <2>1. CASE p = Fresh
        <3>1. [state |-> "inside", size |-> n, chosen |-> FALSE, by |-> t] \in Block
            BY <1>6 DEF Block
        <3>2. heap'[p] \in Block
            BY <1>5, <2>1, <3>1
        <3>3. p \in Nat /\ 0 < p /\ p < Fresh'
            BY <1>7, <2>1
        <3> QED
            BY <3>2, <3>3
    <2>2. CASE p \in DOMAIN heap
        <3>1. p \in Nat /\ 0 < p /\ p < Fresh /\ heap[p] \in Block
            BY <1>1, <2>2 DEF HeapOK
        <3>2. heap'[p] \in Block
            BY <1>5, <2>2, <3>1 DEF Block
        <3> QED
            BY <1>7, <3>1, <3>2
    <2>3. p = Fresh \/ p \in DOMAIN heap
        BY <1>3
    <2> QED
        BY <2>1, <2>2, <2>3, Zenon
<1>9. Cardinality(DOMAIN heap') <= MaxCalls
    BY <1>2, <1>4, BoundsAssumption
<1>10. ASSUME old # 0
       PROVE  /\ old \in DOMAIN heap /\ heap[old].state = "live"
              /\ heap'[old].state = "freed"
    <2>1. old \in DOMAIN heap /\ heap[old].state = "live"
        BY <1>10 DEF Live
    <2>2. heap[old] \in Block
        BY <1>1, <2>1 DEF HeapOK
    <2> QED
        BY <1>5, <2>1, <2>2 DEF Block
<1>11. HeapOK'
    BY <1>4, <1>8, <1>9 DEF HeapOK
<1> QED
    BY <1>1, <1>3, <1>4, <1>5, <1>10, <1>11 DEF BlockAdded

(* A call of the application begins, with a block that is not live yet.     *)
LEMMA MallocControl ==
    ASSUME ControlInv, NEW t \in Threads, NEW n \in Sizes, NEW old \in Live \cup {0},
           Malloc(t, n, old)
    PROVE  ControlInv'
<1>1. FramesMove(t)
    BY MallocStep
<1>h. BlockAdded(t, n, old) /\ HeapOK'
    BY MallocHeap
<1>b. /\ DOMAIN heap' = DOMAIN heap \cup {Fresh}
      /\ \A p \in DOMAIN heap \ {old} : heap'[p] = heap[p]
      /\ old # 0 => /\ old \in DOMAIN heap /\ heap[old].state = "live"
                    /\ heap'[old].state = "freed"
                    /\ heap'[old].size = heap[old].size
    <2>1. \A p \in DOMAIN heap : heap[p] \in Block
        BY DEF ControlInv, HeapOK
    <2> QED
        BY <1>h, <2>1 DEF BlockAdded, Block
<1>2. Globals'
    BY <1>1 DEF Malloc, ControlInv, Globals, FramesMove, tool, library
<1>p. /\ thr'[t].pc \in {"recv", "retire", "set"} /\ thr'[t].back \in {"hook", "return"}
      /\ thr'[t].todo # 0
      /\ thr'[t].ptr = Fresh /\ thr'[t].size = n /\ thr'[t].old = old
    <2>1. /\ thr'[t].pc = IF in_alloc = 1 /\ G_var_size > 0 THEN "recv"
                          ELSE IF old # 0 THEN "retire" ELSE "set"
          /\ thr'[t].back = (IF variant.fortran THEN "return" ELSE "hook")
          /\ thr'[t].todo # 0
          /\ thr'[t].size = n /\ thr'[t].old = old /\ thr'[t].ptr = Fresh
        BY MallocStep
    <2> QED
        BY <2>1
<1>3. \A u \in Threads : CallOK(u)'
    <2>1. CallOK(t)'
        <3>2. old # 0 => old \in DOMAIN heap' /\ heap'[old].state = "freed"
            BY <1>b
        <3>j. heap'[Fresh] = [state |-> "inside", size |-> n, chosen |-> FALSE, by |-> t]
            BY <1>h DEF BlockAdded
        <3>3. /\ Fresh \in DOMAIN heap' /\ heap'[Fresh].state = "inside"
              /\ heap'[Fresh].by = t /\ heap'[Fresh].size = n
            BY <1>b, <3>j
        <3> QED
            BY <1>p, <3>2, <3>3 DEF CallOK
    <2>2. ASSUME NEW u \in Threads \ {t} PROVE CallOK(u)'
        <3>1. CallOK(u) /\ thr'[u] = thr[u] /\ FrameOK(thr[u])
            BY <1>1 DEF ControlInv, FramesMove
        <3>3. /\ thr[u].back \in {"hook", "return", "nested"} => thr[u].back # "run"
              /\ thr[u].pc \in {"fill", "send"} => thr[u].back # "run"
            BY <3>1
            DEF FrameOK, InEntry, AtStat, InLibrary, InAnalysis, Polling, Freeing
        <3>4. ASSUME thr[u].back # "run"
              PROVE  thr[u].ptr \in DOMAIN heap' /\ heap'[thr[u].ptr] = heap[thr[u].ptr]
            <4>1. thr[u].ptr \in DOMAIN heap /\ heap[thr[u].ptr].state = "inside"
                BY <3>1, <3>4 DEF CallOK
            <4>2. thr[u].ptr # old
                <5>1. old = 0 => thr[u].ptr # old
                    BY <4>1 DEF ControlInv, HeapOK
                <5> QED
                    BY <1>b, <4>1, <5>1
            <4> QED
                BY <1>b, <4>1, <4>2
        <3>5. ASSUME thr[u].old # 0
              PROVE  thr[u].old \in DOMAIN heap' /\ heap'[thr[u].old].state = "freed"
            <4>1. thr[u].old \in DOMAIN heap /\ heap[thr[u].old].state = "freed"
                BY <3>1, <3>5 DEF CallOK
            <4>2. thr[u].old # old
                BY <1>b, <3>5, <4>1
            <4> QED
                BY <1>b, <4>1, <4>2
        <3> QED
            BY <3>1, <3>3, <3>4, <3>5 DEF CallOK
    <2> QED
        BY <2>1, <2>2
<1>4. SizesArePositive'
    <2>1. NoZeroRequests' => NoZeroRequests
        <3>1. SUFFICES ASSUME NoZeroRequests', NEW p \in DOMAIN heap
                       PROVE  heap[p].size > 0
            BY DEF NoZeroRequests
        <3>2. p \in DOMAIN heap' /\ heap'[p].size = heap[p].size
            <4>1. CASE p = old
                BY <1>b, <4>1 DEF ControlInv, HeapOK
            <4>2. CASE p # old
                BY <1>b, <4>2
            <4> QED
                BY <4>1, <4>2
        <3> QED
            BY <3>1, <3>2 DEF NoZeroRequests
    <2> QED
        BY <1>1, <1>p, <2>1, KeepSizes DEF Malloc, tool, library
<1>5. RowsSuffice'
    <2>1. RowsSuffice /\ UNCHANGED <<variant, count, received, queue>>
        BY <1>1 DEF Malloc, ControlInv, FramesMove, tool
    <2>3. ~Publishing(thr'[t]) /\ ~Publishing(thr[t])
        BY <1>p DEF Malloc, At, Publishing
    <2>4. Filling' = Filling
        BY <1>1, <2>3, CountsMove
    <2>5. \A u \in Threads : thr'[u].pc = "store" => thr'[u] = thr[u]
        BY <1>1, <1>p DEF FramesMove
    <2>6. /\ Cardinality(Unsent) \in Nat /\ Cardinality(Unsent') \in Nat
          /\ Cardinality(Unsent') <= Cardinality(Unsent) + 1
        BY <1>1, CountsMove
    <2>7. Len(received) \in Nat /\ Len(queue) \in Nat
        BY DEF ControlInv, Globals
    <2>h. /\ Cardinality(DOMAIN heap) \in Nat
          /\ Cardinality(DOMAIN heap') = Cardinality(DOMAIN heap) + 1
        BY <1>h DEF BlockAdded
    <2>i. ~variant.fortran =>
            Len(received) + Len(queue) + Cardinality(Unsent) <= Cardinality(DOMAIN heap)
        BY <2>1 DEF RowsSuffice
    <2>8. ~variant.fortran =>
            Len(received) + Len(queue) + Cardinality(Unsent') <= Cardinality(DOMAIN heap')
        BY <2>6, <2>7, <2>h, <2>i
    <2> QED
        BY <2>1, <2>4, <2>5, <2>8 DEF RowsSuffice
<1>6. LockOK'
    <2>2. ~Locked(thr'[t])
        BY <1>p DEF Locked, InAnalysis
    <2> QED
        BY <1>1, <2>2, KeepLock DEF Malloc
<1> QED
    BY <1>1, <1>2, <1>3, <1>4, <1>5, <1>6, <1>h, KeepFrames DEF ControlInv

(* A block that is given back retires its rows.                             *)
LEMMA FreeControl ==
    ASSUME ControlInv, NEW t \in Threads, NEW p \in Live, Free(t, p)
    PROVE  ControlInv'
<1>1. p \in DOMAIN heap /\ heap[p].state = "live" /\ p \in Int
    BY TouchedFacts DEF Live
<1>2. /\ UNCHANGED <<in_alloc, G_var_size, msg_addr, lib_msg, count, g_lock, queue,
                     trace_flag, received, credits>>
      /\ table' = Retired(p) /\ heap' = [heap EXCEPT ![p].state = "freed"]
    BY DEF Free, library
<1>f. /\ FramesMove(t) /\ thr'[t].pc \in {"run", "free"}
      /\ thr'[t].back = "run" /\ thr'[t].todo = 0 /\ thr'[t].size = 0
      /\ thr'[t].old \in {0, p} /\ thr'[t].ptr = 0
    BY FreeStep
<1>3. Globals'
    BY <1>1, <1>2, <1>f, RetiredFacts DEF ControlInv, Globals, FramesMove
<1>5. HeapOK /\ DOMAIN heap' = DOMAIN heap
    BY <1>2 DEF ControlInv
<1>6. /\ heap'[p] \in Block /\ heap'[p].state = "freed"
      /\ heap'[p].size = heap[p].size
    BY <1>1, <1>2, <1>5 DEF HeapOK, Block
<1>7. \A q \in DOMAIN heap \ {p} : heap'[q] = heap[q]
    BY <1>2
<1>8. HeapOK'
    BY <1>5, <1>6, <1>7 DEF HeapOK, Fresh
<1>9. ASSUME NEW u \in Threads PROVE CallOK(u)'
    <2>1. CASE u = t
        BY <1>1, <1>5, <1>6, <1>f, <2>1 DEF CallOK
    <2>2. CASE u # t
        <3>1. CallOK(u) /\ FrameOK(thr[u]) /\ thr'[u] = thr[u]
            BY <1>f, <2>2 DEF ControlInv, FramesMove
        <3>2. /\ thr[u].back \in {"hook", "return", "nested"} => thr[u].back # "run"
              /\ thr[u].pc \in {"fill", "send"} => thr[u].back # "run"
            BY <3>1
            DEF FrameOK, InEntry, AtStat, InLibrary, InAnalysis, Polling, Freeing
        <3>3. thr[u].back # "run" => thr[u].ptr # p
            BY <1>1, <3>1 DEF CallOK
        <3>4. thr[u].old # 0 =>
                thr[u].old \in DOMAIN heap' /\ heap'[thr[u].old].state = "freed"
            BY <1>5, <1>6, <1>7, <3>1 DEF CallOK
        <3>5. thr[u].back # "run" => heap'[thr[u].ptr] = heap[thr[u].ptr]
            BY <1>7, <3>1, <3>3 DEF CallOK
        <3> QED
            BY <1>5, <3>1, <3>2, <3>4, <3>5 DEF CallOK
    <2> QED
        BY <2>1, <2>2
<1>10. SizesArePositive'
    <2>1. NoZeroRequests' => NoZeroRequests
        BY <1>5, <1>6, <1>7 DEF NoZeroRequests
    <2> QED
        BY <1>2, <1>f, <2>1, KeepSizes
<1>11. RowsSuffice'
    <2>1. ~Publishing(thr'[t]) /\ ~Publishing(thr[t]) /\ ~Calling(thr'[t])
        BY <1>f DEF Free, At, Publishing, Calling
    <2> QED
        BY <1>2, <1>5, <1>f, <2>1, KeepRows
<1>12. LockOK'
    <2>1. ~Locked(thr'[t])
        BY <1>f DEF Locked, InAnalysis, Polling
    <2> QED
        BY <1>2, <1>f, <2>1, KeepLock
<1> QED
    BY <1>f, <1>3, <1>8, <1>9, <1>10, <1>11, <1>12, KeepFrames DEF ControlInv

(* An access of the application begins.                                     *)
LEMMA AccessControl ==
    ASSUME ControlInv, NEW t \in Threads, NEW a \in Nat, Access(t, a)
    PROVE  ControlInv'
<1>1. /\ FramesMove(t)
      /\ thr'[t].pc = "lock" /\ thr'[t].back = "run" /\ thr'[t].todo = 0
      /\ thr'[t].size = 0 /\ thr'[t].old = 0 /\ thr'[t].ptr = 0
    BY AccessStep
<1>2. Globals'
    BY <1>1 DEF Access, ControlInv, Globals, FramesMove, tool, library
<1>3. HeapOK' /\ \A u \in Threads : CallOK(u)'
    BY <1>1, KeepCalls DEF Access
<1>4. SizesArePositive'
    BY <1>1, KeepSizes DEF Access, tool, library, NoZeroRequests
<1>5. RowsSuffice'
    <2>1. ~Publishing(thr'[t]) /\ ~Publishing(thr[t]) /\ ~Calling(thr'[t])
        BY <1>1 DEF Access, At, Publishing, Calling
    <2> QED
        BY <1>1, <2>1, KeepRows DEF Access, tool
<1>6. LockOK'
    <2>1. ~Locked(thr'[t])
        BY <1>1 DEF Locked
    <2> QED
        BY <1>1, <2>1, KeepLock DEF Access
<1> QED
    BY <1>1, <1>2, <1>3, <1>4, <1>5, <1>6, KeepFrames DEF ControlInv

(* A step that changes nothing keeps the invariant.                         *)
LEMMA ControlStutters ==
    ASSUME ControlInv, UNCHANGED vars
    PROVE  ControlInv'
BY DEF ControlInv, Globals, FrameOK, InEntry, AtStat, InLibrary, InAnalysis, CallOK,
       Unsent, HeapOK, Fresh, SizesArePositive, NoZeroRequests, RowsSuffice, Filling,
       LockOK, vars, tool, library

-----------------------------------------------------------------------------
(* The initial states.                                                      *)

(* The table of a Fortran tool is AllocInfo.                                *)
LEMMA ReadTable ==
    /\ MAX_SIZE \in Nat
    /\ ReadAllocInfo \in [1 .. MAX_SIZE -> [addr : Int, size : Nat, ops : Nat]]
    /\ \A i \in 1 .. Len(StaticObjects) :
         ReadAllocInfo[i] = [addr |-> AsInt(StaticObjects[i].addr),
                             size |-> StaticObjects[i].size, ops |-> 0]
<1> DEFINE n == Len(StaticObjects)
<1>1. n \in Nat /\ n <= Len(AllocInfo) /\ Len(AllocInfo) \in Nat /\ MAX_SIZE \in Nat
    BY StaticFacts, BelowFacts, BoundsAssumption DEF MAX_SIZE
<1>2. n <= MAX_SIZE
    BY <1>1, BoundsAssumption DEF MAX_SIZE
<1>3. \A i \in 1 .. n : StaticObjects[i] \in Message
    BY StaticFacts
<1>4. \A a \in Nat : AsInt(a) \in Int
    BY BoundsAssumption DEF AsInt
<1> HIDE DEF n
<1>5. ReadAllocInfo = [i \in 1 .. MAX_SIZE |->
                         IF i <= n
                         THEN [addr |-> AsInt(StaticObjects[i].addr),
                               size |-> StaticObjects[i].size, ops |-> 0]
                         ELSE EmptyRow]
    BY DEF ReadAllocInfo, n
<1>6. \A i \in 1 .. n :
         [addr |-> AsInt(StaticObjects[i].addr), size |-> StaticObjects[i].size, ops |-> 0]
             \in [addr : Int, size : Nat, ops : Nat]
    BY <1>3, <1>4 DEF Message
<1>7. EmptyRow \in [addr : Int, size : Nat, ops : Nat]
    BY DEF EmptyRow
<1>8. \A i \in 1 .. MAX_SIZE : i <= n => i \in 1 .. n
    BY <1>1
<1>9. \A i \in 1 .. n : i \in 1 .. MAX_SIZE /\ i <= n
    BY <1>1, <1>2
<1>10. ReadAllocInfo \in [1 .. MAX_SIZE -> [addr : Int, size : Nat, ops : Nat]]
    <2> DEFINE R == [addr : Int, size : Nat, ops : Nat]
    <2> HIDE DEF R
    <2>1. \A i \in 1 .. n :
         [addr |-> AsInt(StaticObjects[i].addr), size |-> StaticObjects[i].size, ops |-> 0] \in R
        BY <1>6 DEF R
    <2>2. ReadAllocInfo \in [1 .. MAX_SIZE -> R]
        BY <1>5, <1>7, <1>8, <2>1 DEF R
    <2> QED
        BY <2>2 DEF R
<1>11. \A i \in 1 .. n :
         ReadAllocInfo[i] = [addr |-> AsInt(StaticObjects[i].addr),
                             size |-> StaticObjects[i].size, ops |-> 0]
    BY <1>5, <1>9
<1> QED
    BY <1>1, <1>10, <1>11 DEF n

(* The invariant holds when the tool starts.                                *)
LEMMA ControlStarts ==
    ASSUME Init
    PROVE  ControlInv
<1>1. \A t \in Threads : thr[t] = Idle
    BY DEF Init
<1>2. Filling = {} /\ Unsent = {}
    BY <1>1, IdleFields DEF Filling, Unsent
<1>3. /\ Cardinality(Filling) = 0 /\ Cardinality(Unsent) = 0
      /\ DOMAIN heap = {} /\ Cardinality(DOMAIN heap) = 0 /\ IsFiniteSet(DOMAIN heap)
    BY <1>2, FS_EmptySet DEF Init
<1>4. variant \in Variants /\ variant.fortran \in BOOLEAN
    <2>1. variant \in Variants
        BY ToolsAssumption DEF Init
    <2>2. /\ pintool_mt_whole.fortran = FALSE /\ pintool_mt_sep.fortran = FALSE
          /\ pintool_mt_whole_fortran.fortran = TRUE /\ pintool_mt_sep_fortran.fortran = TRUE
          /\ pintool_fortran.fortran = TRUE
        BY DEF pintool_mt_whole, pintool_mt_sep, pintool_mt_whole_fortran,
               pintool_mt_sep_fortran, pintool_fortran
    <2> QED
        BY <2>1, <2>2 DEF Variants
<1>5. /\ table \in [1 .. MAX_SIZE -> [addr : Int, size : Nat, ops : Nat]]
      /\ count \in Nat /\ G_var_size \in Nat /\ received \in Seq(Message)
      /\ count = Len(received) /\ (variant.fortran => received = StaticObjects)
      /\ ~variant.fortran => Len(received) = 0
    <2>1. CASE variant.fortran
        <3>1. /\ table = ReadAllocInfo /\ count = Len(StaticObjects) /\ received = StaticObjects
              /\ G_var_size = IF AllocInfo = <<>> THEN 0 ELSE AllocInfo[Len(AllocInfo)].size
            BY <2>1 DEF Init
        <3>2. G_var_size \in Nat
            <4> DEFINE S == [addr : Nat, size : Nat]
            <4>1. AllocInfo \in Seq(S)
                BY AllocInfoAssumption
            <4> HIDE DEF S
            <4>2. AllocInfo # <<>> => AllocInfo[Len(AllocInfo)] \in S
                BY <4>1
            <4> QED
                BY <3>1, <4>2 DEF S
        <3> QED
            BY <2>1, <3>1, <3>2, ReadTable, StaticFacts
    <2>2. CASE ~variant.fortran
        <3>1. /\ table = [i \in 1 .. MAX_SIZE |-> EmptyRow] /\ count = 0 /\ received = <<>>
              /\ G_var_size = 0
            BY <2>2 DEF Init
        <3>2. EmptyRow \in [addr : Int, size : Nat, ops : Nat]
            BY DEF EmptyRow
        <3> QED
            BY <2>2, <3>1, <3>2, EmptySeq
    <2> QED
        BY <2>1, <2>2
<1>6. Globals
    <2>1. /\ in_alloc = 0 /\ msg_addr = [addr |-> 0, size |-> 0]
          /\ lib_msg = [addr |-> 0, size |-> 0] /\ g_lock = {} /\ trace_flag = FALSE
          /\ raced = FALSE
        BY DEF Init
    <2>2. queue \in Seq(Message)
        BY EmptySeq DEF Init
    <2>3. credits \in [1 .. MAX_SIZE -> Nat]
        BY DEF Init
    <2>4. thr \in [Threads -> Frame]
        BY IdleIsFrame DEF Init
    <2> QED
        BY <1>4, <1>5, <2>1, <2>2, <2>3, <2>4 DEF Globals
<1>7. \A t \in Threads : FrameOK(thr[t]) /\ CallOK(t)
    BY <1>1, IdleIsFrame, IdleFields DEF CallOK, Unsent
<1>8. HeapOK
    BY <1>3, BoundsAssumption DEF HeapOK
<1>9. SizesArePositive
    BY <1>1, IdleFields DEF Init, SizesArePositive
<1>10. RowsSuffice
    <2>1. queue = <<>> /\ Len(queue) = 0
        BY DEF Init
    <2> QED
        BY <1>1, <1>3, <1>5, <2>1, IdleFields DEF RowsSuffice
<1>11. LockOK
    BY <1>1, IdleFields DEF Init, LockOK, InAnalysis, Polling
<1> QED
    BY <1>6, <1>7, <1>8, <1>9, <1>10, <1>11 DEF ControlInv

(* Every step inside the library and the tool keeps the invariant.          *)
LEMMA InsideControl ==
    ASSUME ControlInv, NEW t \in Threads, Inside(t)
    PROVE  ControlInv'
BY RecvNothingControl, RecvControl, ReadMessageControl, ReadSizeControl,
   ReadAddrControl, AllocAfterControl, TestSizeControl, WriteSizeControl,
   WriteAddrControl, InitVariableControl, LoadCountControl, StoreCountControl,
   BeforeControl, RetireControl, SetSizeControl, ChangeAllocStatControl,
   CallReturnsControl, HookControl, SetFlagControl, NestedMallocControl,
   NestedHookControl, NestedReturnsControl, FillAddrControl, FillSizeControl,
   SendControl, ClearFlagControl, FreeHookControl, FreeSetFlagControl,
   FreeClearFlagControl, LibcFreeControl, GetLockControl, NoOwnerControl, ScanControl,
   CreditControl DEF Inside

(* Every step of the application keeps the invariant.                       *)
LEMMA ApplicationControl ==
    ASSUME ControlInv, NEW t \in Threads, Application(t)
    PROVE  ControlInv'
<1>1. CASE \E n \in Sizes, old \in Live \cup {0} : Malloc(t, n, old)
    BY <1>1, MallocControl
<1>2. CASE \E p \in Live : Free(t, p)
    BY <1>2, FreeControl
<1>3. CASE \E p \in Live : Access(t, p)
    BY <1>3, AccessControl, TouchedFacts
<1>4. CASE \E i \in DOMAIN AllocInfo : Access(t, AllocInfo[i].addr)
    BY <1>4, AccessControl, TouchedFacts
<1> QED
    BY <1>1, <1>2, <1>3, <1>4 DEF Application

(* The control of all threads, the heap and the bounds of the table, under  *)
(* any races: no assumption is made on who is inside the routines together  *)
(* (MallocBefore, AllocAfter, RecordMemReadMT).                             *)
THEOREM ControlInvariance == Spec => []ControlInv
<1>1. Init => ControlInv
    BY ControlStarts
<1>2. ControlInv /\ [Next]_vars => ControlInv'
    <2> SUFFICES ASSUME ControlInv, [Next]_vars PROVE ControlInv'
        OBVIOUS
    <2>1. ASSUME NEW t \in Threads, Inside(t) PROVE ControlInv'
        BY <2>1, InsideControl
    <2>2. ASSUME NEW t \in Threads, Application(t) PROVE ControlInv'
        BY <2>2, ApplicationControl
    <2>3. CASE Exit \/ UNCHANGED vars
        BY <2>3, ControlStutters DEF Exit
    <2> QED
        BY <2>1, <2>2, <2>3 DEF Next
<1> QED
    BY <1>1, <1>2, PTL DEF Spec

(* The types follow.                                                        *)
LEMMA ControlTypes ==
    ASSUME ControlInv
    PROVE  TypeOK
<1>1. Cardinality(g_lock) <= 1
    <2>1. g_lock \subseteq Threads /\ \A t, u \in g_lock : t = u
        BY DEF ControlInv, Globals, LockOK
    <2>2. CASE g_lock = {}
        <3>1. Cardinality(g_lock) = 0
            BY <2>2, FS_EmptySet, Zenon
        <3> QED
            BY <3>1
    <2>3. CASE g_lock # {}
        <3>1. PICK t : g_lock = {t}
            BY <2>1, <2>3
        <3>2. Cardinality(g_lock) = 1
            BY <3>1, FS_Singleton, Zenon
        <3> QED
            BY <3>2
    <2> QED
        BY <2>2, <2>3
<1>2. ASSUME NEW t \in Threads
      PROVE  thr[t].todo \in Nat /\ thr[t].nest \in Seq(Nat)
    BY DEF ControlInv, Globals, Frame
<1> QED
    BY <1>1, <1>2, RowsFit DEF ControlInv, Globals, TypeOK

(* The shared state keeps its types for any number of threads, blocks and   *)
(* messages, however the threads race; at most one thread holds g_lock, and *)
(* count stays within the table.                                            *)
THEOREM ToolTypes == Spec => []TypeOK
BY ControlInvariance, ControlTypes, PTL

-----------------------------------------------------------------------------
(* What holds as long as no two threads race: one writer at a time.         *)

(* Unless a race is noted, one thread at most writes.                       *)
LEMMA WriterMoves ==
    ASSUME NEW t \in Threads, FramesMove(t), ~raced => OneWriter
    PROVE  ~raced' => OneWriter'
<1> SUFFICES ASSUME ~raced', NEW u \in Threads, NEW v \in Threads,
                    Writing(u)', Writing(v)'
             PROVE  u = v
    BY DEF OneWriter
<1>1. ~raced /\ OneWriter /\ (Writing(t)' => \A x \in Threads \ {t} : ~Writing(x))
    BY DEF FramesMove
<1>2. \A x \in Threads \ {t} : Writing(x)' => Writing(x)
    BY DEF FramesMove, Writing
<1> QED
    BY <1>1, <1>2 DEF OneWriter

(* The threads that fill a row are those that have received a message.      *)
LEMMA PublishersWrite ==
    \A t \in Threads : t \in Filling <=> Publishing(thr[t])
BY DEF Filling, Publishing

(* Only one thread is filling a row, and no thread is while t writes        *)
(* elsewhere.                                                               *)
LEMMA OneIsFilling ==
    ASSUME OneWriter, NEW t \in Threads, Writing(t)
    PROVE  /\ t \in Filling => Filling = {t} /\ Cardinality(Filling) = 1
           /\ t \notin Filling => Filling = {} /\ Cardinality(Filling) = 0
<1>1. \A u \in Filling : u \in Threads /\ Writing(u)
    BY DEF Filling, Writing
<1>2. t \in Filling => Filling = {t}
    BY <1>1 DEF OneWriter
<1>3. t \notin Filling => Filling = {}
    BY <1>1 DEF OneWriter
<1>4. t \in Filling => Cardinality(Filling) = 1
    BY <1>2, FS_Singleton, Zenon
<1>5. t \notin Filling => Cardinality(Filling) = 0
    BY <1>3, FS_EmptySet, Zenon
<1> QED
    BY <1>2, <1>3, <1>4, <1>5

(* A Fortran tool receives nothing.                                         *)
LEMMA FortranFillsNothing ==
    ASSUME ControlInv, variant.fortran
    PROVE  Filling = {} /\ Cardinality(Filling) = 0
<1>1. \A t \in Threads : ~Publishing(thr[t])
    BY DEF ControlInv, FrameOK, Publishing, Polling
<1>2. Filling = {}
    BY <1>1, PublishersWrite DEF Filling
<1> QED
    BY <1>2, FS_EmptySet, Zenon

-----------------------------------------------------------------------------
(* The table is the list of the received messages.                          *)

(* Blocks that are freed stay so.                                           *)
FreedStayFreed ==
    \A p \in DOMAIN heap : p \in DOMAIN heap' /\ (heap[p].state = "freed" => heap'[p].state = "freed")

(* Rows that keep their ranges keep their messages.                         *)
LEMMA RowsStay ==
    ASSUME ControlInv, RowsOK, UNCHANGED <<variant, count, received>>,
           Filling' = Filling,
           \A u \in Filling : /\ thr'[u] = thr[u] /\ msg_addr' = msg_addr
                              /\ G_var_size' = G_var_size
                              /\ table'[count + 1].addr = table[count + 1].addr
                              /\ table'[count + 1].size = table[count + 1].size,
           \A i \in 1 .. count : RowOK(table[i], received[i]) => RowOK(table[i], received[i])'
    PROVE  RowsOK'
<1>1. \A i \in 1 .. count : RowOK(table[i], received[i])'
    BY DEF RowsOK
<1>2. ASSUME NEW u \in Filling PROVE FillingOK(u)'
    BY <1>2 DEF RowsOK, FillingOK
<1>3. Len(received') = count' + Cardinality(Filling')
    BY DEF RowsOK
<1> QED
    BY <1>1, <1>2, <1>3 DEF RowsOK, RowOK, Placed

(* Steps that leave the addresses and the sizes of the rows alone.          *)
TableStays(t) ==
    /\ FramesMove(t) /\ ~Publishing(thr[t]) /\ ~Publishing(thr'[t]) /\ thr'[t].pc # "stat"
    /\ UNCHANGED <<count, received, msg_addr, G_var_size>>
    /\ \A i \in 1 .. MAX_SIZE :
         table'[i].addr = table[i].addr /\ table'[i].size = table[i].size
    /\ FreedStayFreed

(* A step that writes no row keeps the table right.                         *)
LEMMA QuietRows ==
    ASSUME ControlInv, RowsOK, NEW t \in Threads, TableStays(t)
    PROVE  RowsOK'
<1>1. variant' = variant /\ count \in 0 .. MAX_SIZE /\ MAX_SIZE \in Nat
    BY RowsFit DEF TableStays, FramesMove
<1>2. Filling' = Filling
    BY CountsMove DEF TableStays
<1>3. ASSUME NEW u \in Filling
      PROVE  /\ thr'[u] = thr[u] /\ table'[count + 1].addr = table[count + 1].addr
             /\ table'[count + 1].size = table[count + 1].size
    <2>1. u \in Threads /\ u # t
        BY PublishersWrite DEF TableStays, Filling
    <2>2. count + 1 \in 1 .. MAX_SIZE
        BY RowsFit
    <2> QED
        BY <2>1, <2>2 DEF TableStays, FramesMove
<1>4. ASSUME NEW i \in 1 .. count, RowOK(table[i], received[i])
      PROVE  RowOK(table[i], received[i])'
    <2>1. i \in 1 .. MAX_SIZE
        BY <1>1
    <2>2. table'[i].addr = table[i].addr /\ table'[i].size = table[i].size
        BY <2>1 DEF TableStays
    <2> QED
        BY <1>1, <1>4, <2>2 DEF RowOK, Placed, TableStays, FreedStayFreed
<1> QED
    BY <1>1, <1>2, <1>3, <1>4, RowsStay DEF TableStays

(* Steps that give back the block at p.                                     *)
LEMMA RetiredRows ==
    ASSUME ControlInv, RowsOK, NEW p \in DOMAIN heap, table' = Retired(p),
           UNCHANGED <<variant, count, received>>, Filling' = Filling,
           \A u \in Filling : /\ thr'[u] = thr[u] /\ msg_addr' = msg_addr
                              /\ G_var_size' = G_var_size,
           FreedStayFreed, heap'[p].state = "freed"
    PROVE  RowsOK'
<1>1. count \in 0 .. MAX_SIZE /\ MAX_SIZE \in Nat /\ p \in Nat /\ p > 0
    BY RowsFit DEF ControlInv, HeapOK
<1>2. ASSUME NEW u \in Filling
      PROVE  /\ table'[count + 1].addr = table[count + 1].addr
             /\ table'[count + 1].size = table[count + 1].size
    <2>1. count + 1 \in 1 .. MAX_SIZE /\ ~(count + 1 <= count)
        BY <1>1, RowsFit
    <2>2. Retired(p)[count + 1] = table[count + 1]
        <3>1. p \in Int
            BY <1>1
        <3>2. \A j \in 1 .. MAX_SIZE :
                ~(j <= count /\ table[j].addr = p) => Retired(p)[j] = table[j]
            BY <3>1, RetiredFacts
        <3> QED
            BY <2>1, <3>2
    <2> QED
        BY <2>2
<1>3. ASSUME NEW i \in 1 .. count, RowOK(table[i], received[i])
      PROVE  RowOK(table[i], received[i])'
    <2>1. i \in 1 .. MAX_SIZE /\ i <= count
        BY <1>1
    <2>2. received[i] \in Message
        <3>1. received \in Seq(Message) /\ Len(received) \in Nat
            BY DEF ControlInv, Globals
        <3>2. count <= Len(received)
            <4>1. Cardinality(Filling) \in Nat
                BY SubsetsAreFinite DEF Filling
            <4> QED
                BY <1>1, <3>1, <4>1 DEF RowsOK
        <3>3. i \in 1 .. Len(received)
            BY <1>1, <3>1, <3>2
        <3> QED
            BY <3>1, <3>3
    <2>3. received[i].size \in Nat /\ received[i].size > 0
        BY <2>2 DEF Message
    <2>4. Placed(received[i])' = Placed(received[i])
        BY DEF Placed
    <2>5. CASE table[i].addr = p
        <3>0. /\ Retired(p)[i].addr = -table[i].size
              /\ Retired(p)[i].size = table[i].size
            <4>1. p \in Int
                BY <1>1
            <4>2. \A j \in 1 .. MAX_SIZE :
                    /\ Retired(p)[j].size = table[j].size
                    /\ j <= count /\ table[j].addr = p => Retired(p)[j].addr = -table[j].size
                BY <4>1, RetiredFacts
            <4> QED
                BY <2>1, <2>5, <4>2
        <3>1. table'[i].addr = -table[i].size /\ table'[i].size = table[i].size
            BY <3>0
        <3>2. table[i].size = received[i].size
            BY <1>3 DEF RowOK
        <3>3. Placed(received[i]) = p
            BY <1>1, <1>3, <2>3, <2>5 DEF RowOK
        <3>4. p \in DOMAIN heap' /\ heap'[p].state = "freed"
            BY DEF FreedStayFreed
        <3> QED
            BY <2>4, <3>1, <3>2, <3>3, <3>4 DEF RowOK
    <2>6. CASE table[i].addr # p
        <3>1. table'[i] = table[i]
            <4>1. p \in Int
                BY <1>1
            <4>2. \A j \in 1 .. MAX_SIZE :
                    ~(j <= count /\ table[j].addr = p) => Retired(p)[j] = table[j]
                BY <4>1, RetiredFacts
            <4>3. Retired(p)[i] = table[i]
                BY <2>1, <2>6, <4>2
            <4> QED
                BY <4>3
        <3> QED
            BY <1>3, <2>4, <3>1 DEF RowOK, FreedStayFreed
    <2> QED
        BY <2>5, <2>6
<1> QED
    BY <1>2, <1>3, RowsStay

(* A step that changes none of what rows are made from leaves the table.    *)
LEMMA TableUntouched ==
    ASSUME NEW t \in Threads, FramesMove(t), ~Publishing(thr[t]), ~Publishing(thr'[t]),
           thr'[t].pc # "stat",
           UNCHANGED <<count, received, msg_addr, G_var_size, table, heap>>
    PROVE  TableStays(t)
BY DEF TableStays, FreedStayFreed

(* Only the routines that publish or retire a row change more.              *)
Quiet(t) ==
    \/ RecvNothing(t) \/ Before(t) \/ ChangeAllocStat(t) \/ CallReturns(t) \/ Hook(t)
    \/ SetFlag(t) \/ NestedMalloc(t) \/ NestedHook(t) \/ NestedReturns(t) \/ FillAddr(t)
    \/ FillSize(t) \/ Send(t) \/ ClearFlag(t) \/ FreeHook(t) \/ FreeSetFlag(t)
    \/ FreeClearFlag(t) \/ GetLock(t) \/ NoOwner(t) \/ Scan(t) \/ Credit(t)

(* The steps outside the publication of a row leave the table.              *)
LEMMA QuietStays ==
    ASSUME ControlInv, NEW t \in Threads, Quiet(t)
    PROVE  TableStays(t)
<1>0. FrameOK(thr[t]) /\ thr[t] \in Frame /\ CallOK(t)
    BY DEF ControlInv, Globals
<1>b. thr[t].back \in {"run", "hook", "return", "nested", "clear"}
    BY <1>0 DEF Frame
<1>1. CASE RecvNothing(t)
    <2>0. Moved(t, AfterPoll(t))
        BY <1>1, RecvNothingStep
    <2>1. thr[t].pc = "recv"
        BY <1>1 DEF RecvNothing, At
    <2>2. /\ FramesMove(t) /\ ~Publishing(thr[t]) /\ ~Publishing(thr'[t])
          /\ thr'[t].pc # "stat"
        BY <1>b, <2>0, <2>1 DEF Moved, Publishing, AfterPoll, Entered
    <2>3. UNCHANGED <<count, received, msg_addr, G_var_size, table, heap>>
        BY <1>1 DEF RecvNothing, tool
    <2> QED
        BY <2>2, <2>3, TableUntouched
<1>2. CASE Before(t)
    <2>0. Moved(t, IF in_alloc = 1 /\ G_var_size > 0 THEN "recv" ELSE Entered(thr[t]))
        BY <1>2, BeforeStep
    <2>1. thr[t].pc = "before"
        BY <1>2 DEF Before, At
    <2>2. /\ FramesMove(t) /\ ~Publishing(thr[t]) /\ ~Publishing(thr'[t])
          /\ thr'[t].pc # "stat"
        BY <1>b, <2>0, <2>1 DEF Moved, Publishing, Entered
    <2>3. UNCHANGED <<count, received, msg_addr, G_var_size, table, heap>>
        BY <1>2 DEF Before, tool
    <2> QED
        BY <2>2, <2>3, TableUntouched
<1>3. CASE ChangeAllocStat(t)
    <2>0. Moved(t, IF thr[t].todo = 0 THEN thr[t].back ELSE "before")
        BY <1>3, ChangeAllocStatStep
    <2>1. thr[t].pc = "stat"
        BY <1>3 DEF ChangeAllocStat, At
    <2>2. /\ FramesMove(t) /\ ~Publishing(thr[t]) /\ ~Publishing(thr'[t])
          /\ thr'[t].pc # "stat"
        BY <1>b, <2>0, <2>1 DEF Moved, Publishing
    <2>3. UNCHANGED <<count, received, msg_addr, G_var_size, table, heap>>
        BY <1>3 DEF ChangeAllocStat, tool
    <2> QED
        BY <2>2, <2>3, TableUntouched
<1>4. CASE Hook(t)
    <2>0. FramesMove(t) /\ thr'[t].pc = "setflag"
        BY <1>4, HookStep
    <2>1. thr[t].pc = "hook"
        BY <1>4 DEF Hook, At
    <2>2. /\ FramesMove(t) /\ ~Publishing(thr[t]) /\ ~Publishing(thr'[t])
          /\ thr'[t].pc # "stat"
        BY <1>b, <2>0, <2>1 DEF Moved, Publishing
    <2>3. UNCHANGED <<count, received, msg_addr, G_var_size, table, heap>>
        BY <1>4 DEF Hook, tool
    <2> QED
        BY <2>2, <2>3, TableUntouched
<1>5. CASE SetFlag(t)
    <2>0. Moved(t, "show")
        BY <1>5, SetFlagStep
    <2>1. thr[t].pc = "setflag"
        BY <1>5 DEF SetFlag, At
    <2>2. /\ FramesMove(t) /\ ~Publishing(thr[t]) /\ ~Publishing(thr'[t])
          /\ thr'[t].pc # "stat"
        BY <1>b, <2>0, <2>1 DEF Moved, Publishing
    <2>3. UNCHANGED <<count, received, msg_addr, G_var_size, table, heap>>
        BY <1>5 DEF SetFlag, tool
    <2> QED
        BY <2>2, <2>3, TableUntouched
<1>6. CASE NestedMalloc(t)
    <2>0. FramesMove(t) /\ thr'[t].pc \in {"recv", "retire", "set"}
        BY <1>6, NestedMallocStep DEF Entered
    <2>1. thr[t].pc = "show"
        BY <1>6 DEF NestedMalloc, At
    <2>2. /\ FramesMove(t) /\ ~Publishing(thr[t]) /\ ~Publishing(thr'[t])
          /\ thr'[t].pc # "stat"
        BY <1>b, <2>0, <2>1 DEF Moved, Publishing
    <2>3. UNCHANGED <<count, received, msg_addr, G_var_size, table, heap>>
        BY <1>6 DEF NestedMalloc, tool
    <2> QED
        BY <2>2, <2>3, TableUntouched
<1>7. CASE NestedHook(t)
    <2>0. Moved(t, IF trace_flag THEN "show" ELSE "setflag")
        BY <1>7, NestedHookStep
    <2>1. thr[t].pc = "nested"
        BY <1>7 DEF NestedHook, At
    <2>2. /\ FramesMove(t) /\ ~Publishing(thr[t]) /\ ~Publishing(thr'[t])
          /\ thr'[t].pc # "stat"
        BY <1>b, <2>0, <2>1 DEF Moved, Publishing
    <2>3. UNCHANGED <<count, received, msg_addr, G_var_size, table, heap>>
        BY <1>7 DEF NestedHook, tool
    <2> QED
        BY <2>2, <2>3, TableUntouched
<1>8. CASE NestedReturns(t)
    <2>0. Moved(t, "show")
        BY <1>8, NestedReturnsStep
    <2>1. thr[t].pc = "show"
        BY <1>8 DEF NestedReturns, At
    <2>2. /\ FramesMove(t) /\ ~Publishing(thr[t]) /\ ~Publishing(thr'[t])
          /\ thr'[t].pc # "stat"
        BY <1>b, <2>0, <2>1 DEF Moved, Publishing
    <2>3. UNCHANGED <<count, received, msg_addr, G_var_size, table, heap>>
        BY <1>8 DEF NestedReturns, tool
    <2> QED
        BY <2>2, <2>3, TableUntouched
<1>9. CASE FillSize(t)
    <2>0. Moved(t, "send")
        BY <1>9, FillSizeStep
    <2>1. thr[t].pc = "fill"
        BY <1>9 DEF FillSize, At
    <2>2. /\ FramesMove(t) /\ ~Publishing(thr[t]) /\ ~Publishing(thr'[t])
          /\ thr'[t].pc # "stat"
        BY <1>b, <2>0, <2>1 DEF Moved, Publishing
    <2>3. UNCHANGED <<count, received, msg_addr, G_var_size, table, heap>>
        BY <1>9 DEF FillSize, tool
    <2> QED
        BY <2>2, <2>3, TableUntouched
<1>10. CASE Send(t)
    <2>0. FramesMove(t) /\ thr'[t].pc \in {"lock", "clear"}
        BY <1>10, SendStep
    <2>1. thr[t].pc = "send"
        BY <1>10 DEF Send, At
    <2>2. /\ FramesMove(t) /\ ~Publishing(thr[t]) /\ ~Publishing(thr'[t])
          /\ thr'[t].pc # "stat"
        BY <1>b, <2>0, <2>1 DEF Moved, Publishing
    <2>3. UNCHANGED <<count, received, msg_addr, G_var_size, table, heap>>
        BY <1>10 DEF Send, tool
    <2> QED
        BY <2>2, <2>3, TableUntouched
<1>11. CASE GetLock(t)
    <2>0. Moved(t, IF variant.polls /\ in_alloc = 1 THEN "recv" ELSE "scan")
        BY <1>11, GetLockStep
    <2>1. thr[t].pc = "lock"
        BY <1>11 DEF GetLock, At
    <2>2. /\ FramesMove(t) /\ ~Publishing(thr[t]) /\ ~Publishing(thr'[t])
          /\ thr'[t].pc # "stat"
        BY <1>b, <2>0, <2>1 DEF Moved, Publishing
    <2>3. UNCHANGED <<count, received, msg_addr, G_var_size, table, heap>>
        BY <1>11 DEF GetLock, tool
    <2> QED
        BY <2>2, <2>3, TableUntouched
<1>12. CASE NoOwner(t)
    <2>0. Moved(t, thr[t].back)
        BY <1>12, NoOwnerStep
    <2>1. thr[t].pc = "scan"
        BY <1>12 DEF NoOwner, At
    <2>2. /\ FramesMove(t) /\ ~Publishing(thr[t]) /\ ~Publishing(thr'[t])
          /\ thr'[t].pc # "stat"
        BY <1>b, <2>0, <2>1 DEF Moved, Publishing
    <2>3. UNCHANGED <<count, received, msg_addr, G_var_size, table, heap>>
        BY <1>12 DEF NoOwner, tool
    <2> QED
        BY <2>2, <2>3, TableUntouched
<1>13. CASE Scan(t)
    <2>0. Moved(t, "credit")
        BY <1>13, ScanStep
    <2>1. thr[t].pc = "scan"
        BY <1>13 DEF Scan, At
    <2>2. /\ FramesMove(t) /\ ~Publishing(thr[t]) /\ ~Publishing(thr'[t])
          /\ thr'[t].pc # "stat"
        BY <1>b, <2>0, <2>1 DEF Moved, Publishing
    <2>3. UNCHANGED <<count, received, msg_addr, G_var_size, table, heap>>
        BY <1>13 DEF Scan, tool
    <2> QED
        BY <2>2, <2>3, TableUntouched
<1>14. CASE FreeHook(t)
    <2>0. Moved(t, IF trace_flag THEN "freep" ELSE "freeset")
        BY <1>14, FreeHookStep
    <2>1. thr[t].pc = "free"
        BY <1>14 DEF FreeHook, At
    <2>2. /\ FramesMove(t) /\ ~Publishing(thr[t]) /\ ~Publishing(thr'[t])
          /\ thr'[t].pc # "stat"
        BY <1>b, <2>0, <2>1 DEF Moved, Publishing
    <2>3. UNCHANGED <<count, received, msg_addr, G_var_size, table, heap>>
        BY <1>14 DEF FreeHook, tool
    <2> QED
        BY <2>2, <2>3, TableUntouched
<1>15. CASE FreeSetFlag(t)
    <2>0. Moved(t, "freeclear")
        BY <1>15, FreeSetFlagStep
    <2>1. thr[t].pc = "freeset"
        BY <1>15 DEF FreeSetFlag, At
    <2>2. /\ FramesMove(t) /\ ~Publishing(thr[t]) /\ ~Publishing(thr'[t])
          /\ thr'[t].pc # "stat"
        BY <1>b, <2>0, <2>1 DEF Moved, Publishing
    <2>3. UNCHANGED <<count, received, msg_addr, G_var_size, table, heap>>
        BY <1>15 DEF FreeSetFlag, tool
    <2> QED
        BY <2>2, <2>3, TableUntouched
<1>16. CASE FreeClearFlag(t)
    <2>0. Moved(t, "freep")
        BY <1>16, FreeClearFlagStep
    <2>1. thr[t].pc = "freeclear"
        BY <1>16 DEF FreeClearFlag, At
    <2>2. /\ FramesMove(t) /\ ~Publishing(thr[t]) /\ ~Publishing(thr'[t])
          /\ thr'[t].pc # "stat"
        BY <1>b, <2>0, <2>1 DEF Moved, Publishing
    <2>3. UNCHANGED <<count, received, msg_addr, G_var_size, table, heap>>
        BY <1>16 DEF FreeClearFlag, tool
    <2> QED
        BY <2>2, <2>3, TableUntouched
<1>17. CASE CallReturns(t)
    <2>1. Returned(t) /\ thr[t].pc \in {"return", "hook"}
        BY <1>17, CallReturnsStep DEF CallReturns, At
    <2>2. /\ FramesMove(t) /\ ~Publishing(thr[t]) /\ ~Publishing(thr'[t])
          /\ thr'[t].pc # "stat"
        BY <2>1 DEF Returned, Publishing
    <2>3. UNCHANGED <<count, received, msg_addr, G_var_size, table>>
        BY <1>17 DEF CallReturns, tool
    <2>4. thr[t].back # "run"
        BY <1>0, <2>1 DEF FrameOK, InEntry, AtStat, InLibrary, InAnalysis, Polling, Freeing
    <2>5. thr[t].ptr \in DOMAIN heap /\ heap[thr[t].ptr].state = "inside"
        BY <1>0, <2>4 DEF CallOK
    <2>6. DOMAIN heap' = DOMAIN heap /\ \A p \in DOMAIN heap \ {thr[t].ptr} : heap'[p] = heap[p]
        BY <1>17 DEF CallReturns, Return
    <2>7. FreedStayFreed
        BY <2>5, <2>6 DEF FreedStayFreed
    <2> QED
        BY <2>2, <2>3, <2>7 DEF TableStays
<1>18. CASE ClearFlag(t)
    <2>1. Returned(t) /\ thr[t].pc \in {"clear", "show"}
        BY <1>18, ClearFlagStep DEF ClearFlag, At
    <2>2. /\ FramesMove(t) /\ ~Publishing(thr[t]) /\ ~Publishing(thr'[t])
          /\ thr'[t].pc # "stat"
        BY <2>1 DEF Returned, Publishing
    <2>3. UNCHANGED <<count, received, msg_addr, G_var_size, table>>
        BY <1>18 DEF ClearFlag, tool
    <2>4. thr[t].back # "run"
        BY <1>0, <2>1 DEF FrameOK, InEntry, AtStat, InLibrary, InAnalysis, Polling, Freeing
    <2>5. thr[t].ptr \in DOMAIN heap /\ heap[thr[t].ptr].state = "inside"
        BY <1>0, <2>4 DEF CallOK
    <2>6. DOMAIN heap' = DOMAIN heap /\ \A p \in DOMAIN heap \ {thr[t].ptr} : heap'[p] = heap[p]
        BY <1>18 DEF ClearFlag, Return
    <2>7. FreedStayFreed
        BY <2>5, <2>6 DEF FreedStayFreed
    <2> QED
        BY <2>2, <2>3, <2>7 DEF TableStays
<1>19. CASE FillAddr(t)
    <2>0. Moved(t, "fill")
        BY <1>19, FillAddrStep
    <2>1. thr[t].pc = "show"
        BY <1>19 DEF FillAddr, At
    <2>2. /\ FramesMove(t) /\ ~Publishing(thr[t]) /\ ~Publishing(thr'[t])
          /\ thr'[t].pc # "stat"
        BY <1>b, <2>0, <2>1 DEF Moved, Publishing
    <2>3. UNCHANGED <<count, received, msg_addr, G_var_size, table>>
        BY <1>19 DEF FillAddr, tool
    <2>4. thr[t].back # "run"
        BY <1>0, <2>1 DEF FrameOK, InEntry, AtStat, InLibrary, InAnalysis, Polling, Freeing
    <2>5. thr[t].ptr \in DOMAIN heap /\ heap[thr[t].ptr].state = "inside"
        BY <1>0, <2>4 DEF CallOK
    <2>6. DOMAIN heap' = DOMAIN heap /\ \A p \in DOMAIN heap \ {thr[t].ptr} : heap'[p] = heap[p]
        BY <1>19 DEF FillAddr
    <2>7. FreedStayFreed
        BY <2>5, <2>6 DEF FreedStayFreed
    <2> QED
        BY <2>2, <2>3, <2>7 DEF TableStays
<1>20. CASE Credit(t)
    <2>0. Moved(t, thr[t].back)
        BY <1>20, CreditStep
    <2>1. thr[t].pc = "credit"
        BY <1>20 DEF Credit, At
    <2>2. /\ FramesMove(t) /\ ~Publishing(thr[t]) /\ ~Publishing(thr'[t])
          /\ thr'[t].pc # "stat"
        BY <1>b, <2>0, <2>1 DEF Moved, Publishing
    <2>3. UNCHANGED <<count, received, msg_addr, G_var_size, heap>>
        BY <1>20 DEF Credit
    <2>4. table \in [1 .. MAX_SIZE -> [addr : Int, size : Nat, ops : Nat]]
        BY DEF ControlInv, Globals
    <2>5. \A i \in 1 .. MAX_SIZE :
            table'[i].addr = table[i].addr /\ table'[i].size = table[i].size
        <3> TAKE i \in 1 .. MAX_SIZE
        <3>1. table' = [table EXCEPT ![thr[t].at].ops = thr[t].reg + 1]
            BY <1>20 DEF Credit
        <3>2. table[i] \in [addr : Int, size : Nat, ops : Nat]
            BY <2>4
        <3> QED
            BY <2>4, <3>1, <3>2
    <2> QED
        BY <2>2, <2>3, <2>5 DEF TableStays, FreedStayFreed
<1> QED
    BY <1>1, <1>2, <1>3, <1>4, <1>5, <1>6, <1>7, <1>8, <1>9, <1>10, <1>11,
       <1>12, <1>13, <1>14, <1>15, <1>16, <1>17, <1>18, <1>19, <1>20
    DEF Quiet

(* The beginning of a call leaves the table.                                *)
LEMMA MallocStays ==
    ASSUME ControlInv, NEW t \in Threads, NEW n \in Sizes, NEW old \in Live \cup {0},
           Malloc(t, n, old)
    PROVE  TableStays(t)
<1>0. FramesMove(t) /\ thr'[t].pc \in {"recv", "retire", "set"}
    BY MallocStep
<1>1. /\ FramesMove(t) /\ ~Publishing(thr[t]) /\ ~Publishing(thr'[t])
      /\ thr'[t].pc # "stat"
    BY <1>0 DEF Malloc, At, Publishing
<1>2. UNCHANGED <<count, received, msg_addr, G_var_size, table>>
    BY DEF Malloc, tool
<1>3. BlockAdded(t, n, old)
    BY MallocHeap
<1>4. FreedStayFreed
    <2>1. \A p \in DOMAIN heap : p \in DOMAIN heap'
        BY <1>3 DEF BlockAdded
    <2>2. \A p \in DOMAIN heap : heap[p].state = "freed" => heap'[p].state = "freed"
        <3>1. 0 \notin DOMAIN heap
            BY DEF ControlInv, HeapOK
        <3>2. \A p \in DOMAIN heap : p = old => old # 0
            BY <3>1
        <3> QED
            BY <1>3, <3>2 DEF BlockAdded
    <2> QED
        BY <2>1, <2>2 DEF FreedStayFreed
<1> QED
    BY <1>1, <1>2, <1>4 DEF TableStays

(* The beginning of an access leaves the table.                             *)
LEMMA AccessStays ==
    ASSUME ControlInv, NEW t \in Threads, NEW a \in Nat, Access(t, a)
    PROVE  TableStays(t)
<1>0. FramesMove(t) /\ thr'[t].pc = "lock"
    BY AccessStep
<1>1. /\ FramesMove(t) /\ ~Publishing(thr[t]) /\ ~Publishing(thr'[t])
      /\ thr'[t].pc # "stat"
    BY <1>0 DEF Access, At, Publishing
<1>2. UNCHANGED <<count, received, msg_addr, G_var_size, table, heap>>
    BY DEF Access, tool
<1> QED
    BY <1>1, <1>2, TableUntouched

(* The thread that publishes a row is the only one that does.               *)
LEMMA PublisherFacts ==
    ASSUME ControlInv, RowsOK, OneWriter, NEW t \in Threads, Publishing(thr[t])
    PROVE  /\ Filling = {t} /\ ~variant.fortran /\ FillingOK(t)
           /\ received \in Seq(Message) /\ Len(received) = count + 1
           /\ count \in 0 .. MAX_SIZE /\ count + 1 \in 1 .. MAX_SIZE
           /\ table \in [1 .. MAX_SIZE -> [addr : Int, size : Nat, ops : Nat]]
           /\ thr[t] \in Frame
<1>1. Writing(t) /\ t \in Filling
    BY PublishersWrite DEF Publishing, Writing
<1>2. Filling = {t} /\ Cardinality(Filling) = 1
    BY <1>1, OneIsFilling
<1>3. FillingOK(t) /\ Len(received) = count + 1
    BY <1>2 DEF RowsOK
<1>4. ~variant.fortran
    BY <1>2, FortranFillsNothing
<1> QED
    BY <1>1, <1>2, <1>3, <1>4, RowsFit DEF ControlInv, Globals

(* A step of its own that leaves the published rows keeps the table right.  *)
LEMMA PublisherMoves ==
    ASSUME ControlInv, RowsOK, OneWriter, NEW t \in Threads, Publishing(thr[t]),
           Publishing(thr'[t]), FramesMove(t), UNCHANGED <<count, received, heap>>,
           \A i \in 1 .. count :
             table'[i].addr = table[i].addr /\ table'[i].size = table[i].size,
           FillingOK(t)'
    PROVE  RowsOK'
<1>1. Filling = {t} /\ Filling' = Filling /\ variant' = variant
    BY PublisherFacts, CountsMove DEF FramesMove
<1>2. \A i \in 1 .. count : RowOK(table[i], received[i])'
    BY <1>1 DEF RowsOK, RowOK, Placed
<1> QED
    BY <1>1, <1>2 DEF RowsOK

(* The message taken from the queue is the next row's.                      *)
LEMMA RecvRows ==
    ASSUME ControlInv, RowsOK, OneWriter, NEW t \in Threads, Recv(t)
    PROVE  RowsOK'
<1>1. FramesMove(t) /\ thr'[t].pc = "read" /\ ~Publishing(thr[t]) /\ Publishing(thr'[t])
    BY RecvStep DEF Moved, Recv, At, Publishing
<1>2. Writing(t) /\ t \notin Filling
    BY <1>1, PublishersWrite DEF Recv, At, Writing
<1>3. Filling = {} /\ Cardinality(Filling) = 0
    BY <1>2, OneIsFilling
<1>4. Cardinality(Filling') = 1
    BY <1>1, <1>3, CountsMove
<1>5. Filling' = {t}
    BY <1>1, <1>3, SetsMove
<1>6. /\ received \in Seq(Message) /\ queue \in Seq(Message) /\ queue # <<>>
      /\ count \in Nat /\ Len(received) = count
      /\ received' = Append(received, Head(queue)) /\ msg_addr' = Head(queue)
      /\ UNCHANGED <<variant, table, count, heap>>
    BY <1>3 DEF Recv, ControlInv, Globals, RowsOK
<1>7. Head(queue) \in Message
    BY <1>6, HeadTailProperties
<1>8. /\ Len(received') = count + 1 /\ received'[count + 1] = Head(queue)
      /\ \A i \in 1 .. count : received'[i] = received[i]
    BY <1>6, <1>7, AppendProperties
<1>9. \A i \in 1 .. count : RowOK(table[i], received[i])'
    BY <1>6, <1>8 DEF RowsOK, RowOK, Placed
<1>10. FillingOK(t)'
    BY <1>1, <1>6, <1>8 DEF FillingOK
<1> QED
    BY <1>4, <1>5, <1>6, <1>8, <1>9, <1>10 DEF RowsOK

(* in_alloc says nothing of the rows.                                       *)
LEMMA ReadMessageRows ==
    ASSUME ControlInv, RowsOK, OneWriter, NEW t \in Threads, ReadMessage(t)
    PROVE  RowsOK'
<1>1. FramesMove(t) /\ thr'[t].pc = "bytes"
    BY ReadMessageStep DEF Moved
<1>2. thr[t].pc = "read"
    BY DEF ReadMessage, At
<1>3. Publishing(thr[t]) /\ Publishing(thr'[t])
    BY <1>1, <1>2 DEF Publishing
<1>4. msg_addr = received[count + 1]
    BY <1>2, <1>3, PublisherFacts DEF FillingOK
<1>5. UNCHANGED <<table, count, msg_addr, received, heap>>
    BY DEF ReadMessage
<1>6. FillingOK(t)'
    BY <1>1, <1>4, <1>5 DEF FillingOK
<1> QED
    BY <1>1, <1>3, <1>5, <1>6, PublisherMoves

(* Nobody has received another message into the buffer ...                  *)
LEMMA ReadSizeRows ==
    ASSUME ControlInv, RowsOK, OneWriter, NEW t \in Threads, ReadSize(t)
    PROVE  RowsOK'
<1>1. FramesMove(t) /\ thr'[t].pc = "arg"
    BY ReadSizeStep DEF Moved
<1>2. thr[t].pc = "bytes"
    BY DEF ReadSize, At
<1>3. Publishing(thr[t]) /\ Publishing(thr'[t])
    BY <1>1, <1>2 DEF Publishing
<1>4. msg_addr = received[count + 1]
    BY <1>2, <1>3, PublisherFacts DEF FillingOK
<1>5. UNCHANGED <<table, count, msg_addr, received, heap>> /\ G_var_size' = msg_addr.size
    BY DEF ReadSize
<1>6. FillingOK(t)'
    BY <1>1, <1>4, <1>5 DEF FillingOK
<1> QED
    BY <1>1, <1>3, <1>5, <1>6, PublisherMoves

(* ... nor does until AllocAfter has its argument.                          *)
LEMMA ReadAddrRows ==
    ASSUME ControlInv, RowsOK, OneWriter, NEW t \in Threads, ReadAddr(t)
    PROVE  RowsOK'
<1>1. FramesMove(t) /\ thr'[t].pc = "after" /\ thr'[t].ret = msg_addr.addr
    BY ReadAddrStep DEF Moved
<1>2. thr[t].pc = "arg"
    BY DEF ReadAddr, At
<1>3. Publishing(thr[t]) /\ Publishing(thr'[t])
    BY <1>1, <1>2 DEF Publishing
<1>4. msg_addr = received[count + 1] /\ G_var_size = received[count + 1].size
    BY <1>2, <1>3, PublisherFacts DEF FillingOK
<1>5. UNCHANGED <<table, count, G_var_size, received, heap>>
    BY DEF ReadAddr, tool
<1>6. FillingOK(t)'
    BY <1>1, <1>4, <1>5 DEF FillingOK
<1> QED
    BY <1>1, <1>3, <1>5, <1>6, PublisherMoves

(* The object is then in AllocAfter's argument and in G_var_size.           *)
LEMMA AllocAfterRows ==
    ASSUME ControlInv, RowsOK, OneWriter, NEW t \in Threads, AllocAfter(t)
    PROVE  RowsOK'
<1>1. FramesMove(t) /\ thr'[t].pc = "test" /\ thr'[t].ret = thr[t].ret
    BY AllocAfterStep DEF Moved
<1>2. thr[t].pc = "after"
    BY DEF AllocAfter, At
<1>3. Publishing(thr[t]) /\ Publishing(thr'[t])
    BY <1>1, <1>2 DEF Publishing
<1>4. thr[t].ret = received[count + 1].addr /\ G_var_size = received[count + 1].size
    BY <1>2, <1>3, PublisherFacts DEF FillingOK
<1>5. UNCHANGED <<table, count, G_var_size, received, heap>>
    BY DEF AllocAfter
<1>6. FillingOK(t)'
    BY <1>1, <1>4, <1>5 DEF FillingOK
<1> QED
    BY <1>1, <1>3, <1>5, <1>6, PublisherMoves

(* No 0-byte request has come in between: the message is not dropped.       *)
LEMMA TestSizeRows ==
    ASSUME ControlInv, RowsOK, OneWriter, NEW t \in Threads, TestSize(t)
    PROVE  RowsOK'
<1>1. thr[t].pc = "test"
    BY DEF TestSize, At
<1>2. Publishing(thr[t])
    BY <1>1 DEF Publishing
<1>3. /\ thr[t].ret = received[count + 1].addr /\ G_var_size = received[count + 1].size
      /\ received \in Seq(Message) /\ Len(received) = count + 1 /\ count \in 0 .. MAX_SIZE
    BY <1>1, <1>2, PublisherFacts DEF FillingOK
<1>4. count + 1 \in 1 .. Len(received)
    BY <1>3, RowsFit
<1>5. received[count + 1] \in Message
    BY <1>3, <1>4
<1>6. G_var_size > 0
    BY <1>3, <1>5 DEF Message
<1>7. FramesMove(t) /\ thr'[t].pc = "size" /\ thr'[t].ret = thr[t].ret
    BY <1>6, TestSizeStep DEF Moved
<1>8. Publishing(thr'[t])
    BY <1>7 DEF Publishing
<1>9. UNCHANGED <<table, count, G_var_size, received, heap>>
    BY DEF TestSize, tool
<1>10. FillingOK(t)'
    BY <1>3, <1>7, <1>9 DEF FillingOK
<1> QED
    BY <1>2, <1>7, <1>8, <1>9, <1>10, PublisherMoves

(* Nobody has written another size into G_var_size.                         *)
LEMMA WriteSizeRows ==
    ASSUME ControlInv, RowsOK, OneWriter, NEW t \in Threads, WriteSize(t)
    PROVE  RowsOK'
<1>0. thr[t].pc = "size"
    BY DEF WriteSize, At
<1>1. FramesMove(t) /\ thr'[t].pc = "addr" /\ thr'[t].ret = thr[t].ret
    BY WriteSizeStep DEF Moved
<1>2. Publishing(thr[t]) /\ Publishing(thr'[t])
    BY <1>0, <1>1 DEF Publishing
<1> DEFINE m == received[count + 1]
<1>3. G_var_size = m.size /\ thr[t].ret = m.addr
    BY <1>0, <1>2, PublisherFacts DEF FillingOK
<1>4. /\ UNCHANGED <<count, received, heap>>
      /\ table' = [table EXCEPT ![count + 1].size = G_var_size]
    BY DEF WriteSize
<1>6. /\ count \in Nat /\ count + 1 \in 1 .. MAX_SIZE
      /\ table \in [1 .. MAX_SIZE -> [addr : Int, size : Nat, ops : Nat]]
    BY <1>2, PublisherFacts
<1>7. table'[count + 1].size = G_var_size
    BY <1>4, <1>6
<1>8. \A i \in 1 .. count : table'[i] = table[i]
    BY <1>4, <1>6
<1>9. FillingOK(t)'
    BY <1>1, <1>3, <1>4, <1>7 DEF FillingOK
<1> QED
    BY <1>1, <1>2, <1>4, <1>8, <1>9, PublisherMoves

(* Nobody writes the same row.                                              *)
LEMMA WriteAddrRows ==
    ASSUME ControlInv, RowsOK, OneWriter, NEW t \in Threads, WriteAddr(t)
    PROVE  RowsOK'
<1>0. thr[t].pc = "addr"
    BY DEF WriteAddr, At
<1>1. FramesMove(t) /\ thr'[t].pc = "init"
    BY WriteAddrStep DEF Moved
<1>2. Publishing(thr[t]) /\ Publishing(thr'[t])
    BY <1>0, <1>1 DEF Publishing
<1>3. /\ thr[t].ret = received[count + 1].addr
      /\ table[count + 1].size = received[count + 1].size
    BY <1>0, <1>2, PublisherFacts DEF FillingOK
<1>4. /\ UNCHANGED <<count, received, heap>>
      /\ table' = [table EXCEPT ![count + 1].addr = thr[t].ret]
    BY DEF WriteAddr
<1>5. /\ count \in Nat /\ count + 1 \in 1 .. MAX_SIZE
      /\ table \in [1 .. MAX_SIZE -> [addr : Int, size : Nat, ops : Nat]]
      /\ thr[t] \in Frame
    BY <1>2, PublisherFacts
<1>6. table[count + 1] \in [addr : Int, size : Nat, ops : Nat]
    BY <1>5
<1>7. /\ table'[count + 1].addr = thr[t].ret
      /\ table'[count + 1].size = table[count + 1].size
    BY <1>4, <1>5, <1>6
<1>8. \A i \in 1 .. count : table'[i] = table[i]
    <2> TAKE i \in 1 .. count
    <2>1. i # count + 1 /\ i \in 1 .. MAX_SIZE
        BY <1>5, RowsFit
    <2> QED
        BY <1>4, <1>5, <2>1
<1>9. FillingOK(t)'
    BY <1>1, <1>3, <1>4, <1>7 DEF FillingOK
<1> QED
    BY <1>1, <1>2, <1>4, <1>8, <1>9, PublisherMoves

(* InitVariable clears the counters of that row.                            *)
LEMMA InitVariableRows ==
    ASSUME ControlInv, RowsOK, OneWriter, NEW t \in Threads, InitVariable(t)
    PROVE  RowsOK'
<1>0. thr[t].pc = "init"
    BY DEF InitVariable, At
<1>1. FramesMove(t) /\ thr'[t].pc = "load"
    BY InitVariableStep DEF Moved
<1>2. Publishing(thr[t]) /\ Publishing(thr'[t])
    BY <1>0, <1>1 DEF Publishing
<1>3. /\ table[count + 1].addr = received[count + 1].addr
      /\ table[count + 1].size = received[count + 1].size
    BY <1>0, <1>2, PublisherFacts DEF FillingOK
<1>4. /\ UNCHANGED <<count, received, heap>>
      /\ table' = [table EXCEPT ![count + 1].ops = 0]
    BY DEF InitVariable
<1>5. /\ count \in Nat /\ count + 1 \in 1 .. MAX_SIZE
      /\ table \in [1 .. MAX_SIZE -> [addr : Int, size : Nat, ops : Nat]]
    BY <1>2, PublisherFacts
<1>6. table[count + 1] \in [addr : Int, size : Nat, ops : Nat]
    BY <1>5
<1>7. /\ table'[count + 1].addr = table[count + 1].addr
      /\ table'[count + 1].size = table[count + 1].size
    BY <1>4, <1>5, <1>6
<1>8. \A i \in 1 .. count : table'[i] = table[i]
    <2> TAKE i \in 1 .. count
    <2>1. i # count + 1 /\ i \in 1 .. MAX_SIZE
        BY <1>5, RowsFit
    <2> QED
        BY <1>4, <1>5, <2>1
<1>9. FillingOK(t)'
    BY <1>1, <1>3, <1>4, <1>7 DEF FillingOK
<1> QED
    BY <1>1, <1>2, <1>4, <1>8, <1>9, PublisherMoves

(* count is the number of the rows before.                                  *)
LEMMA LoadCountRows ==
    ASSUME ControlInv, RowsOK, OneWriter, NEW t \in Threads, LoadCount(t)
    PROVE  RowsOK'
<1>0. thr[t].pc = "load"
    BY DEF LoadCount, At
<1>1. FramesMove(t) /\ thr'[t].pc = "store" /\ thr'[t].reg = count
    BY LoadCountStep DEF Moved
<1>2. Publishing(thr[t]) /\ Publishing(thr'[t])
    BY <1>0, <1>1 DEF Publishing
<1>3. /\ table[count + 1].addr = received[count + 1].addr
      /\ table[count + 1].size = received[count + 1].size
    BY <1>0, <1>2, PublisherFacts DEF FillingOK
<1>4. UNCHANGED <<table, count, received, heap>>
    BY DEF LoadCount, tool
<1>5. FillingOK(t)'
    BY <1>1, <1>3, <1>4 DEF FillingOK
<1> QED
    BY <1>1, <1>2, <1>4, <1>5, PublisherMoves

(* count has not moved since it was loaded: the row is published.           *)
LEMMA StoreCountRows ==
    ASSUME ControlInv, RowsOK, OneWriter, NEW t \in Threads, StoreCount(t)
    PROVE  RowsOK'
<1>0. thr[t].pc = "store"
    BY DEF StoreCount, At
<1>1. FramesMove(t) /\ thr'[t].pc = AfterPoll(t)
    BY StoreCountStep DEF Moved
<1>2. Publishing(thr[t]) /\ ~Publishing(thr'[t])
    BY <1>0, <1>1 DEF Publishing, AfterPoll, Entered
<1>3. /\ Filling = {t} /\ ~variant.fortran /\ FillingOK(t) /\ Len(received) = count + 1
      /\ count \in Nat
    BY <1>2, PublisherFacts
<1>4. /\ thr[t].reg = count /\ table[count + 1].addr = received[count + 1].addr
      /\ table[count + 1].size = received[count + 1].size
    BY <1>0, <1>3 DEF FillingOK
<1>5. /\ UNCHANGED <<variant, table, received, heap>> /\ count' = count + 1
    BY <1>4 DEF StoreCount
<1>6. Filling' = {}
    BY <1>1, <1>2, <1>3, SetsMove
<1>7. Cardinality(Filling') = 0
    BY <1>6, FS_EmptySet, Zenon
<1>8. \A i \in 1 .. count : RowOK(table[i], received[i])'
    BY <1>5 DEF RowsOK, RowOK, Placed
<1>9. RowOK(table[count + 1], received[count + 1])
    BY <1>3, <1>4 DEF RowOK, Placed
<1>11. \A i \in 1 .. count' : i \in 1 .. count \/ i = count'
    BY <1>3, <1>5
<1>12. \A i \in 1 .. count' : RowOK(table[i], received[i])' <=> RowOK(table[i], received[i])
    BY <1>5 DEF RowOK, Placed
<1>13. \A i \in 1 .. count' : RowOK(table[i], received[i])'
    BY <1>5, <1>8, <1>9, <1>11, <1>12
<1>14. Len(received') = count' + Cardinality(Filling')
    BY <1>3, <1>5, <1>7
<1> QED
    BY <1>6, <1>13, <1>14 DEF RowsOK

(* The only rows retired are those of the block that realloc has given      *)
(* back.                                                                    *)
LEMMA RetireRows ==
    ASSUME ControlInv, RowsOK, NEW t \in Threads, Retire(t), OneWriter \/ variant.fortran
    PROVE  RowsOK'
<1>1. FramesMove(t) /\ thr'[t].pc = "set"
    BY RetireStep DEF Moved
<1>2. thr[t].pc = "retire"
    BY DEF Retire, At
<1>3. ~Publishing(thr[t]) /\ ~Publishing(thr'[t])
    BY <1>1, <1>2 DEF Publishing
<1>4. Writing(t) /\ t \notin Filling
    BY <1>2 DEF Writing, Filling
<1>5. Filling = {} /\ Filling' = Filling
    BY <1>1, <1>3, <1>4, OneIsFilling, FortranFillsNothing, CountsMove
<1>6. /\ UNCHANGED <<variant, count, received, msg_addr, heap>>
      /\ table' = Retired(thr[t].old)
    BY DEF Retire
<1>7. FrameOK(thr[t]) /\ CallOK(t)
    BY DEF ControlInv
<1>8. thr[t].old # 0
    BY <1>2, <1>7 DEF FrameOK
<1>9. thr[t].old \in DOMAIN heap /\ heap[thr[t].old].state = "freed"
    BY <1>7, <1>8 DEF CallOK
<1> QED
    BY <1>5, <1>6, <1>9, RetiredRows DEF FreedStayFreed

(* G_var_size is not that of a message: nobody is filling a row.            *)
LEMMA SetSizeRows ==
    ASSUME ControlInv, RowsOK, NEW t \in Threads, SetSize(t), OneWriter \/ variant.fortran
    PROVE  RowsOK'
<1>1. FramesMove(t) /\ thr'[t].pc = "stat"
    BY SetSizeStep
<1>2. thr[t].pc = "set"
    BY DEF SetSize, At
<1>3. ~Publishing(thr[t]) /\ ~Publishing(thr'[t])
    BY <1>1, <1>2 DEF Publishing
<1>4. Writing(t) /\ t \notin Filling
    BY <1>2 DEF Writing, Filling
<1>5. Filling = {} /\ Filling' = Filling
    BY <1>1, <1>3, <1>4, OneIsFilling, FortranFillsNothing, CountsMove
<1>6. UNCHANGED <<variant, count, received, heap, table>>
    BY DEF SetSize
<1> QED
    BY <1>5, <1>6, RowsStay DEF RowOK, Placed

(* The only rows retired are those of the block that is given back ...      *)
LEMMA FreeRows ==
    ASSUME ControlInv, RowsOK, NEW t \in Threads, NEW p \in Live, Free(t, p)
    PROVE  RowsOK'
<1>1. p \in DOMAIN heap
    BY DEF Live
<1>2. /\ UNCHANGED <<variant, count, received, msg_addr, G_var_size>>
      /\ table' = Retired(p) /\ heap' = [heap EXCEPT ![p].state = "freed"]
    BY DEF Free
<1>3. FramesMove(t) /\ thr'[t].pc \in {"run", "free"}
    BY FreeStep
<1>4. ~Publishing(thr[t]) /\ ~Publishing(thr'[t])
    BY <1>3 DEF Free, At, Publishing
<1>5. Filling' = Filling /\ \A u \in Filling : thr'[u] = thr[u]
    <2>1. Filling' = Filling
        BY <1>3, <1>4, CountsMove
    <2>2. t \notin Filling
        BY <1>4, PublishersWrite
    <2>3. \A u \in Filling : u \in Threads \ {t}
        BY <2>2 DEF Filling
    <2> QED
        BY <1>3, <2>1, <2>3 DEF FramesMove
<1>6. HeapOK
    BY DEF ControlInv
<1>7. heap'[p].state = "freed" /\ FreedStayFreed
    BY <1>1, <1>2, <1>6 DEF FreedStayFreed, HeapOK, Block
<1> QED
    BY <1>1, <1>2, <1>5, <1>7, RetiredRows

(* ... when libc gives it back, too.                                        *)
LEMMA LibcFreeRows ==
    ASSUME ControlInv, RowsOK, NEW t \in Threads, LibcFree(t)
    PROVE  RowsOK'
<1>1. Returned(t)
    BY LibcFreeStep
<1>2. thr[t].pc = "freep"
    BY DEF LibcFree, At
<1>3. FramesMove(t) /\ ~Publishing(thr[t]) /\ ~Publishing(thr'[t])
    BY <1>1, <1>2 DEF Returned, Publishing
<1>4. FrameOK(thr[t]) /\ CallOK(t)
    BY DEF ControlInv
<1>5. thr[t].old # 0
    BY <1>2, <1>4 DEF FrameOK, Freeing
<1>6. thr[t].old \in DOMAIN heap /\ heap[thr[t].old].state = "freed"
    BY <1>4, <1>5 DEF CallOK
<1>7. Filling' = Filling /\ \A u \in Filling : thr'[u] = thr[u]
    <2>1. Filling' = Filling
        BY <1>3, CountsMove
    <2>2. t \notin Filling
        BY <1>3, PublishersWrite
    <2>3. \A u \in Filling : u \in Threads \ {t}
        BY <2>2 DEF Filling
    <2> QED
        BY <1>3, <2>1, <2>3 DEF FramesMove
<1>8. /\ UNCHANGED <<variant, count, received, msg_addr, G_var_size, heap>>
      /\ table' = Retired(thr[t].old)
    BY DEF LibcFree
<1> QED
    BY <1>6, <1>7, <1>8, RetiredRows DEF FreedStayFreed

(* A step inside moves the frame of one thread.                             *)
LEMMA InsideMoves ==
    ASSUME ControlInv, NEW t \in Threads, Inside(t)
    PROVE  FramesMove(t)
BY RecvNothingStep, RecvStep, ReadMessageStep, ReadSizeStep, ReadAddrStep,
   AllocAfterStep, TestSizeStep, WriteSizeStep, WriteAddrStep, InitVariableStep,
   LoadCountStep, StoreCountStep, BeforeStep, RetireStep, SetSizeStep,
   ChangeAllocStatStep, CallReturnsStep, HookStep, SetFlagStep, NestedMallocStep,
   NestedHookStep, NestedReturnsStep, FillAddrStep, FillSizeStep, SendStep,
   ClearFlagStep, FreeHookStep, FreeSetFlagStep, FreeClearFlagStep, LibcFreeStep,
   GetLockStep, NoOwnerStep, ScanStep, CreditStep
DEF Inside, Moved, Returned

(* The routines that publish a row.                                         *)
Publishes(t) ==
    \/ Recv(t) \/ ReadMessage(t) \/ ReadSize(t) \/ ReadAddr(t) \/ AllocAfter(t)
    \/ TestSize(t) \/ WriteSize(t) \/ WriteAddr(t) \/ InitVariable(t) \/ LoadCount(t)
    \/ StoreCount(t)

(* A Fortran tool publishes no row.                                         *)
LEMMA PublishersAreNotFortran ==
    ASSUME ControlInv, NEW t \in Threads, Publishes(t)
    PROVE  ~variant.fortran
<1>1. FrameOK(thr[t])
    BY DEF ControlInv
<1>2. Recv(t) \/ Publishing(thr[t])
    BY DEF Publishes, ReadMessage, ReadSize, ReadAddr, AllocAfter, TestSize, WriteSize,
           WriteAddr, InitVariable, LoadCount, StoreCount, At, Publishing
<1>3. CASE Recv(t)
    BY <1>3 DEF Recv
<1>4. CASE Publishing(thr[t])
    BY <1>1, <1>4 DEF FrameOK, Publishing, Polling
<1> QED
    BY <1>2, <1>3, <1>4

(* Every step inside is quiet, publishes or retires a row or sets a size.   *)
LEMMA InsideKinds ==
    ASSUME NEW t \in Threads, Inside(t)
    PROVE  Quiet(t) \/ Publishes(t) \/ Retire(t) \/ SetSize(t) \/ LibcFree(t)
BY DEF Inside, Quiet, Publishes

(* What G_var_size holds between MallocBefore's store and its test.         *)
LEMMA SizeStays ==
    ASSUME NEW t \in Threads, FramesMove(t), ~raced => OneWriter /\ SizeIsAsked,
           thr'[t].pc # "stat", G_var_size' = G_var_size \/ Writing(t)'
    PROVE  ~raced' => SizeIsAsked'
<1> SUFFICES ASSUME ~raced', NEW u \in Threads, thr'[u].pc = "stat"
             PROVE  G_var_size' = Asked(thr'[u])
    BY DEF SizeIsAsked, Asked
<1>1. u # t /\ thr'[u] = thr[u]
    BY DEF FramesMove
<1>2. ~raced /\ Writing(u)
    BY <1>1 DEF FramesMove, Writing
<1>3. ~Writing(t)'
    BY <1>1, <1>2 DEF FramesMove
<1>4. G_var_size = Asked(thr[u])
    BY <1>1, <1>2 DEF SizeIsAsked
<1> QED
    BY <1>1, <1>3, <1>4 DEF Asked

(* It stores what it is asked for.                                          *)
LEMMA SetSizeAsks ==
    ASSUME ControlInv, NEW t \in Threads, SetSize(t)
    PROVE  ~raced' => SizeIsAsked'
<1> SUFFICES ASSUME ~raced', NEW u \in Threads, thr'[u].pc = "stat"
             PROVE  G_var_size' = Asked(thr'[u])
    BY DEF SizeIsAsked, Asked
<1>1. /\ FramesMove(t) /\ thr'[t].pc = "stat"
      /\ thr'[t].back = thr[t].back /\ thr'[t].size = thr[t].size
    BY SetSizeStep
<1>2. Writing(t)'
    BY <1>1 DEF Writing
<1>3. u = t
    <2>1. ASSUME u # t PROVE FALSE
        <3>1. thr'[u] = thr[u] /\ ~Writing(u)
            BY <1>1, <1>2, <2>1 DEF FramesMove
        <3> QED
            BY <3>1 DEF Writing
    <2> QED
        BY <2>1
<1>4. G_var_size' = Asked(thr[t])
    BY DEF SetSize
<1> QED
    BY <1>1, <1>3, <1>4 DEF Asked

(* The routines that publish a row come to no such test.                    *)
LEMMA PublishesSize ==
    ASSUME ControlInv, NEW t \in Threads, Publishes(t)
    PROVE  thr'[t].pc # "stat" /\ (G_var_size' = G_var_size \/ Writing(t)')
<1>1. CASE Recv(t)
    BY <1>1, RecvStep DEF Moved, Recv
<1>2. CASE ReadMessage(t)
    BY <1>2, ReadMessageStep DEF Moved, ReadMessage
<1>3. CASE ReadSize(t)
    BY <1>3, ReadSizeStep DEF Moved, Writing
<1>4. CASE ReadAddr(t)
    <2>1. Moved(t, "after")
        BY <1>4, ReadAddrStep
    <2>2. G_var_size' = G_var_size
        BY <1>4 DEF ReadAddr, tool
    <2> QED
        BY <2>1, <2>2 DEF Moved
<1>5. CASE AllocAfter(t)
    BY <1>5, AllocAfterStep DEF Moved, AllocAfter
<1>6. CASE TestSize(t)
    <2>1. Moved(t, IF G_var_size > 0 THEN "size" ELSE AfterPoll(t))
        BY <1>6, TestSizeStep
    <2>2. G_var_size' = G_var_size
        BY <1>6 DEF TestSize, tool
    <2> QED
        BY <2>1, <2>2 DEF Moved, AfterPoll, Entered
<1>7. CASE WriteSize(t)
    BY <1>7, WriteSizeStep DEF Moved, WriteSize
<1>8. CASE WriteAddr(t)
    BY <1>8, WriteAddrStep DEF Moved, WriteAddr
<1>9. CASE InitVariable(t)
    BY <1>9, InitVariableStep DEF Moved, InitVariable
<1>10. CASE LoadCount(t)
    <2>1. Moved(t, "store")
        BY <1>10, LoadCountStep
    <2>2. G_var_size' = G_var_size
        BY <1>10 DEF LoadCount, tool
    <2> QED
        BY <2>1, <2>2 DEF Moved
<1>11. CASE StoreCount(t)
    <2>1. Moved(t, AfterPoll(t))
        BY <1>11, StoreCountStep
    <2>2. G_var_size' = G_var_size
        BY <1>11 DEF StoreCount
    <2> QED
        BY <2>1, <2>2 DEF Moved, AfterPoll, Entered
<1> QED
    BY <1>1, <1>2, <1>3, <1>4, <1>5, <1>6, <1>7, <1>8, <1>9, <1>10, <1>11 DEF Publishes

RowsInv ==
    /\ ControlInv
    /\ ~raced => OneWriter /\ SizeIsAsked
    /\ ~raced \/ variant.fortran => RowsOK

(* Every step inside the library and the tool keeps the table right.        *)
LEMMA RowsInside ==
    ASSUME RowsInv, NEW t \in Threads, Inside(t)
    PROVE  RowsInv'
<1>1. ControlInv /\ ControlInv' /\ FramesMove(t)
    BY InsideControl, InsideMoves DEF RowsInv
<1>2. ~raced' => OneWriter'
    BY <1>1, WriterMoves DEF RowsInv
<1>3. variant' = variant /\ (~raced' => ~raced)
    BY <1>1 DEF FramesMove
<1>4. ASSUME ~raced' \/ variant.fortran PROVE RowsOK'
    <2>1. RowsOK /\ (OneWriter \/ variant.fortran)
        BY <1>3, <1>4 DEF RowsInv
    <2>2. CASE Quiet(t)
        BY <1>1, <2>1, <2>2, QuietStays, QuietRows
    <2>3. CASE Publishes(t)
        BY <1>1, <2>1, <2>3, PublishersAreNotFortran, RecvRows, ReadMessageRows,
           ReadSizeRows, ReadAddrRows, AllocAfterRows, TestSizeRows, WriteSizeRows,
           WriteAddrRows, InitVariableRows, LoadCountRows, StoreCountRows DEF Publishes
    <2>4. CASE Retire(t) \/ SetSize(t) \/ LibcFree(t)
        BY <1>1, <2>1, <2>4, RetireRows, SetSizeRows, LibcFreeRows
    <2> QED
        BY <2>2, <2>3, <2>4, InsideKinds
<1>5. ~raced' => SizeIsAsked'
    <2>0. ~raced => OneWriter /\ SizeIsAsked
        BY DEF RowsInv
    <2>1. CASE Quiet(t)
        <3>1. thr'[t].pc # "stat" /\ G_var_size' = G_var_size
            BY <1>1, <2>1, QuietStays DEF TableStays
        <3> QED
            BY <1>1, <2>0, <3>1, SizeStays
    <2>2. CASE Publishes(t)
        BY <1>1, <2>0, <2>2, PublishesSize, SizeStays
    <2>3. CASE Retire(t)
        <3>1. thr'[t].pc # "stat" /\ G_var_size' = G_var_size
            BY <1>1, <2>3, RetireStep DEF Moved, Retire
        <3> QED
            BY <1>1, <2>0, <3>1, SizeStays
    <2>4. CASE SetSize(t)
        BY <1>1, <2>4, SetSizeAsks
    <2>5. CASE LibcFree(t)
        <3>1. thr'[t].pc # "stat" /\ G_var_size' = G_var_size
            BY <1>1, <2>5, LibcFreeStep DEF Returned, LibcFree
        <3> QED
            BY <1>1, <2>0, <3>1, SizeStays
    <2> QED
        BY <2>1, <2>2, <2>3, <2>4, <2>5, InsideKinds
<1> QED
    BY <1>1, <1>2, <1>3, <1>4, <1>5 DEF RowsInv

(* Every step of the application keeps the table right.                     *)
LEMMA RowsApplication ==
    ASSUME RowsInv, NEW t \in Threads, Application(t)
    PROVE  RowsInv'
<1>1. ControlInv /\ ControlInv'
    BY ApplicationControl DEF RowsInv
<1>2. ASSUME TableStays(t)
      PROVE  RowsInv'
    <2>1. ~raced' => OneWriter' /\ SizeIsAsked'
        BY <1>2, WriterMoves, SizeStays DEF RowsInv, TableStays
    <2>2. ~raced' \/ variant'.fortran => RowsOK'
        BY <1>1, <1>2, QuietRows DEF RowsInv, TableStays, FramesMove
    <2> QED
        BY <1>1, <2>1, <2>2 DEF RowsInv
<1>3. CASE \E n \in Sizes, old \in Live \cup {0} : Malloc(t, n, old)
    BY <1>1, <1>2, <1>3, MallocStays
<1>4. CASE \E p \in Live : Free(t, p)
    <2>1. PICK p \in Live : Free(t, p)
        BY <1>4
    <2>2. FramesMove(t) /\ thr'[t].pc \in {"run", "free"}
        BY <1>1, <2>1, FreeStep
    <2>3. ~raced' => OneWriter'
        BY <2>2, WriterMoves DEF RowsInv
    <2>4. ~raced' => SizeIsAsked'
        <3>1. G_var_size' = G_var_size /\ thr'[t].pc # "stat"
            BY <2>1, <2>2 DEF Free
        <3> QED
            BY <2>2, <3>1, SizeStays DEF RowsInv
    <2>5. ~raced' \/ variant'.fortran => RowsOK'
        BY <1>1, <2>1, <2>2, FreeRows DEF RowsInv, FramesMove
    <2> QED
        BY <1>1, <2>3, <2>4, <2>5 DEF RowsInv
<1>5. CASE \E p \in Live : heap[p].size > 0 /\ Access(t, p)
    BY <1>1, <1>2, <1>5, AccessStays, TouchedFacts
<1>6. CASE \E i \in DOMAIN AllocInfo : Access(t, AllocInfo[i].addr)
    BY <1>1, <1>2, <1>6, AccessStays, TouchedFacts
<1> QED
    BY <1>3, <1>4, <1>5, <1>6 DEF Application

(* A step that changes nothing keeps the table right.                       *)
LEMMA RowsStutter ==
    ASSUME RowsInv, UNCHANGED vars
    PROVE  RowsInv'
<1>1. ControlInv'
    BY ControlStutters DEF RowsInv
<1>2. (~raced => OneWriter /\ SizeIsAsked)'
    BY DEF RowsInv, OneWriter, SizeIsAsked, Asked, Writing, vars, tool
<1>3. (~raced \/ variant.fortran => RowsOK)'
    BY DEF RowsInv, RowsOK, RowOK, Placed, FillingOK, Filling, vars, tool
<1> QED
    BY <1>1, <1>2, <1>3 DEF RowsInv

(* The table starts empty, or with what AllocInfo says.                     *)
LEMMA RowsStart ==
    ASSUME Init
    PROVE  RowsInv
<1>1. ControlInv
    BY ControlStarts
<1>2. \A t \in Threads : ~Writing(t) /\ t \notin Filling
    BY IdleFields DEF Init, Writing, Filling
<1>3. OneWriter /\ SizeIsAsked /\ Filling = {}
    BY <1>2 DEF OneWriter, SizeIsAsked, Writing, Filling
<1>4. Cardinality(Filling) = 0
    BY <1>3, FS_EmptySet, Zenon
<1>5. RowsOK
    <2>1. CASE variant.fortran
        <3>1. table = ReadAllocInfo /\ count = Len(StaticObjects) /\ received = StaticObjects
            BY <2>1 DEF Init
        <3>2. \A i \in 1 .. count : RowOK(table[i], received[i])
            <4> TAKE i \in 1 .. count
            <4>1. ReadAllocInfo[i] = [addr |-> AsInt(StaticObjects[i].addr),
                                      size |-> StaticObjects[i].size, ops |-> 0]
                BY <3>1, ReadTable
            <4>2. /\ table[i].addr = AsInt(received[i].addr)
                  /\ table[i].size = received[i].size
                BY <3>1, <4>1
            <4> QED
                BY <2>1, <4>2 DEF RowOK, Placed
        <3> QED
            BY <1>3, <1>4, <3>1, <3>2, StaticFacts DEF RowsOK
    <2>2. CASE ~variant.fortran
        <3>1. count = 0 /\ received = <<>> /\ Len(received) = 0
            BY <2>2 DEF Init
        <3> QED
            BY <1>3, <1>4, <3>1 DEF RowsOK
    <2> QED
        BY <2>1, <2>2
<1> QED
    BY <1>1, <1>3, <1>5 DEF RowsInv

(* As long as no two threads race, and always in a Fortran tool, each row   *)
(* is the message received in its place, or retired with its block, and the *)
(* one thread that publishes carries the next (AllocAfter, InitVariable).   *)
THEOREM RowsInvariance == Spec => []RowsInv
<1>1. Init => RowsInv
    BY RowsStart
<1>2. RowsInv /\ [Next]_vars => RowsInv'
    <2> SUFFICES ASSUME RowsInv, [Next]_vars PROVE RowsInv'
        OBVIOUS
    <2>1. ASSUME NEW t \in Threads, Inside(t) PROVE RowsInv'
        BY <2>1, RowsInside
    <2>2. ASSUME NEW t \in Threads, Application(t) PROVE RowsInv'
        BY <2>2, RowsApplication
    <2>3. CASE Exit \/ UNCHANGED vars
        BY <2>3, RowsStutter DEF Exit
    <2> QED
        BY <2>1, <2>2, <2>3 DEF Next
<1> QED
    BY <1>1, <1>2, PTL DEF Spec

(* Addresses below 2 GB fit in an int.                                      *)
LEMMA SmallAddresses ==
    \A a \in Nat : a < IntLimit => AsInt(a) = a
<1> TAKE a \in Nat
<1>1. IntLimit \in Nat /\ IntLimit > 0
    BY BoundsAssumption
<1>2. ASSUME a < IntLimit PROVE (a + IntLimit) % (2 * IntLimit) = a + IntLimit
    BY <1>1, <1>2
<1> QED
    BY <1>1, <1>2 DEF AsInt

(* The table is then what was received.                                     *)
LEMMA RowsAreReceived ==
    ASSUME RowsInv
    PROVE  TableIsReceived
<1> DEFINE Row(i) ==
        /\ table[i].size = received[i].size
        /\ (variant.fortran => received[i].addr < IntLimit) =>
             \/ table[i].addr = received[i].addr
             \/ /\ table[i].addr = -received[i].size
                /\ heap[received[i].addr].state = "freed"
<1> SUFFICES ASSUME ~raced \/ variant.fortran
             PROVE  /\ Len(received) = count + Cardinality(Filling)
                    /\ \A i \in 1 .. count : Row(i)
    BY DEF TableIsReceived
<1>1. RowsOK
    BY DEF RowsInv
<1>2. ASSUME NEW i \in 1 .. count PROVE Row(i)
    <2>1. RowOK(table[i], received[i])
        BY <1>1 DEF RowsOK
    <2>2. received[i].addr \in Nat
        <3>1. /\ received \in Seq(Message) /\ Len(received) \in Nat /\ count \in Nat
              /\ Cardinality(Filling) \in Nat
            BY SubsetsAreFinite DEF RowsInv, ControlInv, Globals, Filling
        <3>2. i \in 1 .. Len(received)
            BY <1>1, <3>1 DEF RowsOK
        <3>3. received[i] \in Message
            BY <3>1, <3>2
        <3> QED
            BY <3>3 DEF Message
    <2>3. (variant.fortran => received[i].addr < IntLimit) =>
             Placed(received[i]) = received[i].addr
        BY <2>2, SmallAddresses DEF Placed
    <2> QED
        BY <2>1, <2>3 DEF RowOK
<1> QED
    BY <1>1, <1>2 DEF RowsOK

(* As long as no two threads are inside the unlocked routines at the same   *)
(* time, the table is the list of the received messages, in order and       *)
(* whole, whatever other threads analyse or free meanwhile; in a Fortran    *)
(* tool it is the list of AllocInfo even when they race, but for the        *)
(* addresses of objects above 2 GB.                                         *)
THEOREM TableIsTheMessages == Spec => []TableIsReceived
BY RowsInvariance, RowsAreReceived, PTL

-----------------------------------------------------------------------------
(* No access is lost under g_lock.                                          *)

(* A step that writes no counter keeps the credits.                         *)
LEMMA CountersStay ==
    ASSUME ControlInv, CreditsOK, NEW t \in Threads, thr'[t].pc # "credit",
           \A u \in Threads \ {t} : thr'[u] = thr[u], credits' = credits,
           \A i \in 1 .. MAX_SIZE : table'[i].ops = table[i].ops,
           count' \in Nat, count <= count'
    PROVE  CreditsOK'
<1>1. \A i \in 1 .. MAX_SIZE : table'[i].ops = credits'[i]
    BY DEF CreditsOK
<1>2. ASSUME NEW u \in Threads, thr'[u].pc = "credit"
      PROVE  thr'[u].at <= count' /\ thr'[u].reg = table'[thr'[u].at].ops
    <2>1. thr'[u] = thr[u] /\ thr[u].pc = "credit"
        BY <1>2
    <2>2. thr[u].at \in 1 .. MAX_SIZE
        BY <2>1 DEF ControlInv, FrameOK
    <2>3. count \in Nat /\ MAX_SIZE \in Nat
        BY RowsFit
    <2> QED
        BY <2>1, <2>2, <2>3 DEF CreditsOK
<1> QED
    BY <1>1, <1>2 DEF CreditsOK

(* What the scan reads is the credits so far.                               *)
LEMMA ScanCredits ==
    ASSUME ControlInv, CreditsOK, NEW t \in Threads, Scan(t)
    PROVE  CreditsOK'
<1>1. /\ \A u \in Threads \ {t} : thr'[u] = thr[u]
      /\ thr'[t].at \in 1 .. count /\ thr'[t].reg = table[thr'[t].at].ops
    BY ScanStep DEF Moved, FramesMove
<1>2. UNCHANGED <<table, credits, count>> /\ count \in Nat
    BY RowsFit DEF Scan, tool
<1> QED
    BY <1>1, <1>2 DEF CreditsOK

(* What is written is one more, and under the lock nobody else is between.  *)
LEMMA CreditCredits ==
    ASSUME ControlInv, CreditsOK, variant.locks, NEW t \in Threads, Credit(t)
    PROVE  CreditsOK'
<1> DEFINE i == thr[t].at
<1>0. thr[t].pc = "credit"
    BY DEF Credit, At
<1>1. FramesMove(t) /\ thr'[t].pc = thr[t].back
    BY CreditStep DEF Moved
<1>2. i <= count /\ thr[t].reg = table[i].ops /\ i \in 1 .. MAX_SIZE
    BY <1>0 DEF CreditsOK, ControlInv, FrameOK
<1>3. /\ table \in [1 .. MAX_SIZE -> [addr : Int, size : Nat, ops : Nat]]
      /\ credits \in [1 .. MAX_SIZE -> Nat]
    BY DEF ControlInv, Globals
<1>4. /\ table' = [table EXCEPT ![i].ops = thr[t].reg + 1]
      /\ credits' = [credits EXCEPT ![i] = @ + 1] /\ count' = count
    BY DEF Credit
<1>5. ASSUME NEW u \in Threads PROVE thr'[u].pc # "credit"
    <2>1. CASE u = t
        <3>1. thr[t] \in Frame
            BY DEF ControlInv, Globals
        <3> QED
            BY <1>1, <2>1, <3>1 DEF Frame
    <2>2. CASE u # t
        <3>1. thr'[u] = thr[u] /\ FrameOK(thr[u]) /\ FrameOK(thr[t])
            BY <1>1, <2>2 DEF FramesMove, ControlInv
        <3>2. \A x \in Threads : thr[x].pc = "credit" /\ FrameOK(thr[x]) => InAnalysis(thr[x])
            BY DEF FrameOK, InEntry, AtStat, InLibrary, InAnalysis, Polling, Freeing
        <3>3. \A x \in Threads : InAnalysis(thr[x]) /\ thr[x].pc # "lock" => x \in g_lock
            BY DEF ControlInv, LockOK
        <3>4. \A x, y \in g_lock : x = y
            BY DEF ControlInv, LockOK
        <3> QED
            BY <1>0, <2>2, <3>1, <3>2, <3>3, <3>4
    <2> QED
        BY <2>1, <2>2
<1> HIDE DEF i
<1>6. \A j \in 1 .. MAX_SIZE : table'[j].ops = credits'[j]
    <2> TAKE j \in 1 .. MAX_SIZE
    <2>0. table[j].ops = credits[j] /\ table[i].ops = credits[i]
        BY <1>2 DEF CreditsOK
    <2>1. CASE j = i
        BY <1>2, <1>3, <1>4, <2>0, <2>1
    <2>2. CASE j # i
        BY <1>2, <1>3, <1>4, <2>0, <2>2
    <2> QED
        BY <2>1, <2>2
<1> QED
    BY <1>5, <1>6 DEF CreditsOK

(* A new row starts at zero, above the published rows.                      *)
LEMMA InitVariableCredits ==
    ASSUME ControlInv, CreditsOK, NEW t \in Threads, InitVariable(t)
    PROVE  CreditsOK'
<1>0. thr[t].pc = "init"
    BY DEF InitVariable, At
<1>1. FramesMove(t) /\ thr'[t].pc = "load"
    BY InitVariableStep DEF Moved
<1>2. t \in Filling
    BY <1>0 DEF Filling
<1>3. count + 1 \in 1 .. MAX_SIZE /\ count \in Nat /\ MAX_SIZE \in Nat
    BY <1>2, RowsFit
<1>4. /\ table \in [1 .. MAX_SIZE -> [addr : Int, size : Nat, ops : Nat]]
      /\ credits \in [1 .. MAX_SIZE -> Nat]
    BY DEF ControlInv, Globals
<1>5. /\ table' = [table EXCEPT ![count + 1].ops = 0]
      /\ credits' = [credits EXCEPT ![count + 1] = 0] /\ count' = count
    BY DEF InitVariable
<1>6. \A j \in 1 .. MAX_SIZE : j # count + 1 =>
          table'[j] = table[j] /\ credits'[j] = credits[j]
    BY <1>3, <1>4, <1>5
<1>7. table'[count + 1].ops = 0 /\ credits'[count + 1] = 0
    <2>1. table[count + 1] \in [addr : Int, size : Nat, ops : Nat]
        BY <1>3, <1>4
    <2> QED
        BY <1>3, <1>4, <1>5, <2>1
<1>8. \A j \in 1 .. MAX_SIZE : table'[j].ops = credits'[j]
    BY <1>6, <1>7 DEF CreditsOK
<1>9. ASSUME NEW u \in Threads, thr'[u].pc = "credit"
      PROVE  thr'[u].at <= count' /\ thr'[u].reg = table'[thr'[u].at].ops
    <2>1. u # t
        BY <1>1, <1>9
    <2>2. thr'[u] = thr[u]
        BY <1>1, <2>1 DEF FramesMove
    <2>3. thr[u].at \in 1 .. MAX_SIZE /\ thr[u].at <= count
        BY <1>9, <2>2 DEF ControlInv, FrameOK, CreditsOK
    <2>4. thr[u].at # count + 1
        BY <1>3, <2>3
    <2>5. table'[thr[u].at] = table[thr[u].at]
        BY <1>6, <2>3, <2>4
    <2>6. thr[u].reg = table[thr[u].at].ops
        BY <1>9, <2>2 DEF CreditsOK
    <2> QED
        BY <1>5, <2>2, <2>3, <2>5, <2>6
<1> QED
    BY <1>8, <1>9 DEF CreditsOK

(* Every step inside keeps the credits, under the lock and without races.   *)
LEMMA CreditsInside ==
    ASSUME RowsInv, ~raced, variant.locks, CreditsOK, NEW t \in Threads, Inside(t)
    PROVE  CreditsOK'
<1>0. ControlInv /\ FramesMove(t) /\ OneWriter /\ RowsOK
    BY InsideMoves DEF RowsInv
<1>1. \A u \in Threads \ {t} : thr'[u] = thr[u]
    BY <1>0 DEF FramesMove
<1>2. /\ count \in Nat /\ MAX_SIZE \in Nat /\ thr[t] \in Frame
      /\ table \in [1 .. MAX_SIZE -> [addr : Int, size : Nat, ops : Nat]]
    BY <1>0, RowsFit DEF ControlInv, Globals
<1>b. thr[t].back \in {"run", "hook", "return", "nested", "clear"} /\ thr[t].old \in Int
    BY <1>2 DEF Frame
<1>3. ASSUME UNCHANGED <<table, credits, count>>, thr'[t].pc # "credit"
      PROVE  CreditsOK'
    BY <1>0, <1>1, <1>2, <1>3, CountersStay
<1>4. CASE RecvNothing(t)
    <2>1. Moved(t, AfterPoll(t))
        BY <1>0, <1>4, RecvNothingStep
    <2>2. thr'[t].pc # "credit"
        BY <1>b, <2>1 DEF Moved, AfterPoll, Entered
    <2>3. UNCHANGED <<table, credits, count>>
        BY <1>4 DEF RecvNothing, tool
    <2> QED
        BY <1>3, <2>2, <2>3
<1>5. CASE Recv(t)
    <2>1. Moved(t, "read")
        BY <1>0, <1>5, RecvStep
    <2>2. thr'[t].pc # "credit"
        BY <1>b, <2>1 DEF Moved
    <2>3. UNCHANGED <<table, credits, count>>
        BY <1>5 DEF Recv, tool
    <2> QED
        BY <1>3, <2>2, <2>3
<1>6. CASE ReadMessage(t)
    <2>1. Moved(t, "bytes")
        BY <1>0, <1>6, ReadMessageStep
    <2>2. thr'[t].pc # "credit"
        BY <1>b, <2>1 DEF Moved
    <2>3. UNCHANGED <<table, credits, count>>
        BY <1>6 DEF ReadMessage, tool
    <2> QED
        BY <1>3, <2>2, <2>3
<1>7. CASE ReadSize(t)
    <2>1. Moved(t, "arg")
        BY <1>0, <1>7, ReadSizeStep
    <2>2. thr'[t].pc # "credit"
        BY <1>b, <2>1 DEF Moved
    <2>3. UNCHANGED <<table, credits, count>>
        BY <1>7 DEF ReadSize, tool
    <2> QED
        BY <1>3, <2>2, <2>3
<1>8. CASE ReadAddr(t)
    <2>1. Moved(t, "after")
        BY <1>0, <1>8, ReadAddrStep
    <2>2. thr'[t].pc # "credit"
        BY <1>b, <2>1 DEF Moved
    <2>3. UNCHANGED <<table, credits, count>>
        BY <1>8 DEF ReadAddr, tool
    <2> QED
        BY <1>3, <2>2, <2>3
<1>9. CASE AllocAfter(t)
    <2>1. Moved(t, "test")
        BY <1>0, <1>9, AllocAfterStep
    <2>2. thr'[t].pc # "credit"
        BY <1>b, <2>1 DEF Moved
    <2>3. UNCHANGED <<table, credits, count>>
        BY <1>9 DEF AllocAfter, tool
    <2> QED
        BY <1>3, <2>2, <2>3
<1>10. CASE TestSize(t)
    <2>1. Moved(t, IF G_var_size > 0 THEN "size" ELSE AfterPoll(t))
        BY <1>0, <1>10, TestSizeStep
    <2>2. thr'[t].pc # "credit"
        BY <1>b, <2>1 DEF Moved, AfterPoll, Entered
    <2>3. UNCHANGED <<table, credits, count>>
        BY <1>10 DEF TestSize, tool
    <2> QED
        BY <1>3, <2>2, <2>3
<1>11. CASE WriteSize(t)
    <2>1. Moved(t, "addr")
        BY <1>0, <1>11, WriteSizeStep
    <2>2. thr'[t].pc # "credit"
        BY <1>b, <2>1 DEF Moved
    <2>3. t \in Filling
        BY <1>11 DEF WriteSize, At, Filling
    <2>4. count + 1 \in 1 .. MAX_SIZE
        BY <1>0, <2>3, RowsFit
    <2>5. table' = [table EXCEPT ![count + 1].size = G_var_size] /\ UNCHANGED <<count, credits>>
        BY <1>11 DEF WriteSize
    <2>6. \A i \in 1 .. MAX_SIZE : table'[i].ops = table[i].ops
        <3> TAKE i \in 1 .. MAX_SIZE
        <3>1. table[i] \in [addr : Int, size : Nat, ops : Nat]
            BY <1>2
        <3> QED
            BY <1>2, <2>4, <2>5, <3>1
    <2> QED
        BY <1>0, <1>1, <1>2, <2>2, <2>5, <2>6, CountersStay
<1>12. CASE WriteAddr(t)
    <2>1. Moved(t, "init")
        BY <1>0, <1>12, WriteAddrStep
    <2>2. thr'[t].pc # "credit"
        BY <1>b, <2>1 DEF Moved
    <2>3. t \in Filling
        BY <1>12 DEF WriteAddr, At, Filling
    <2>4. count + 1 \in 1 .. MAX_SIZE
        BY <1>0, <2>3, RowsFit
    <2>5. table' = [table EXCEPT ![count + 1].addr = thr[t].ret] /\ UNCHANGED <<count, credits>>
        BY <1>12 DEF WriteAddr
    <2>6. \A i \in 1 .. MAX_SIZE : table'[i].ops = table[i].ops
        <3> TAKE i \in 1 .. MAX_SIZE
        <3>1. table[i] \in [addr : Int, size : Nat, ops : Nat]
            BY <1>2
        <3> QED
            BY <1>2, <2>4, <2>5, <3>1
    <2> QED
        BY <1>0, <1>1, <1>2, <2>2, <2>5, <2>6, CountersStay
<1>13. CASE InitVariable(t)
    BY <1>0, <1>13, InitVariableCredits
<1>14. CASE LoadCount(t)
    <2>1. Moved(t, "store")
        BY <1>0, <1>14, LoadCountStep
    <2>2. thr'[t].pc # "credit"
        BY <1>b, <2>1 DEF Moved
    <2>3. UNCHANGED <<table, credits, count>>
        BY <1>14 DEF LoadCount, tool
    <2> QED
        BY <1>3, <2>2, <2>3
<1>15. CASE StoreCount(t)
    <2>1. Moved(t, AfterPoll(t))
        BY <1>0, <1>15, StoreCountStep
    <2>2. thr'[t].pc # "credit"
        BY <1>b, <2>1 DEF Moved, AfterPoll, Entered
    <2>3. thr[t].pc = "store"
        BY <1>15 DEF StoreCount, At
    <2>4. thr[t].reg = count
        BY <1>0, <2>3, PublisherFacts DEF Publishing, FillingOK
    <2>5. UNCHANGED <<table, credits>> /\ count' = count + 1
        BY <1>15, <2>4 DEF StoreCount
    <2> QED
        BY <1>0, <1>1, <1>2, <2>2, <2>5, CountersStay
<1>16. CASE Before(t)
    <2>1. Moved(t, IF in_alloc = 1 /\ G_var_size > 0 THEN "recv" ELSE Entered(thr[t]))
        BY <1>0, <1>16, BeforeStep
    <2>2. thr'[t].pc # "credit"
        BY <1>b, <2>1 DEF Moved, Entered
    <2>3. UNCHANGED <<table, credits, count>>
        BY <1>16 DEF Before, tool
    <2> QED
        BY <1>3, <2>2, <2>3
<1>17. CASE Retire(t)
    <2>1. Moved(t, "set")
        BY <1>0, <1>17, RetireStep
    <2>2. thr'[t].pc # "credit"
        BY <1>b, <2>1 DEF Moved
    <2>3. table' = Retired(thr[t].old) /\ UNCHANGED <<count, credits>>
        BY <1>17 DEF Retire
    <2>4. \A i \in 1 .. MAX_SIZE : table'[i].ops = table[i].ops
        BY <1>0, <1>b, <2>3, RetiredFacts
    <2> QED
        BY <1>0, <1>1, <1>2, <2>2, <2>3, <2>4, CountersStay
<1>18. CASE SetSize(t)
    <2>1. FramesMove(t) /\ thr'[t].pc = "stat"
        BY <1>0, <1>18, SetSizeStep
    <2>2. thr'[t].pc # "credit"
        BY <1>b, <2>1
    <2>3. UNCHANGED <<table, credits, count>>
        BY <1>18 DEF SetSize, tool
    <2> QED
        BY <1>3, <2>2, <2>3
<1>19. CASE ChangeAllocStat(t)
    <2>1. Moved(t, IF thr[t].todo = 0 THEN thr[t].back ELSE "before")
        BY <1>0, <1>19, ChangeAllocStatStep
    <2>2. thr'[t].pc # "credit"
        BY <1>b, <2>1 DEF Moved
    <2>3. UNCHANGED <<table, credits, count>>
        BY <1>19 DEF ChangeAllocStat, tool
    <2> QED
        BY <1>3, <2>2, <2>3
<1>20. CASE CallReturns(t)
    <2>1. Returned(t)
        BY <1>0, <1>20, CallReturnsStep
    <2>2. thr'[t].pc # "credit"
        BY <1>b, <2>1 DEF Returned
    <2>3. UNCHANGED <<table, credits, count>>
        BY <1>20 DEF CallReturns, tool
    <2> QED
        BY <1>3, <2>2, <2>3
<1>21. CASE Hook(t)
    <2>1. FramesMove(t) /\ thr'[t].pc = "setflag"
        BY <1>0, <1>21, HookStep
    <2>2. thr'[t].pc # "credit"
        BY <1>b, <2>1
    <2>3. UNCHANGED <<table, credits, count>>
        BY <1>21 DEF Hook, tool
    <2> QED
        BY <1>3, <2>2, <2>3
<1>22. CASE SetFlag(t)
    <2>1. Moved(t, "show")
        BY <1>0, <1>22, SetFlagStep
    <2>2. thr'[t].pc # "credit"
        BY <1>b, <2>1 DEF Moved
    <2>3. UNCHANGED <<table, credits, count>>
        BY <1>22 DEF SetFlag, tool
    <2> QED
        BY <1>3, <2>2, <2>3
<1>23. CASE NestedMalloc(t)
    <2>1. FramesMove(t) /\ thr'[t].pc \in {"recv", "retire", "set"}
        BY <1>0, <1>23, NestedMallocStep DEF Entered
    <2>2. thr'[t].pc # "credit"
        BY <1>b, <2>1
    <2>3. UNCHANGED <<table, credits, count>>
        BY <1>23 DEF NestedMalloc, tool
    <2> QED
        BY <1>3, <2>2, <2>3
<1>24. CASE NestedHook(t)
    <2>1. Moved(t, IF trace_flag THEN "show" ELSE "setflag")
        BY <1>0, <1>24, NestedHookStep
    <2>2. thr'[t].pc # "credit"
        BY <1>b, <2>1 DEF Moved
    <2>3. UNCHANGED <<table, credits, count>>
        BY <1>24 DEF NestedHook, tool
    <2> QED
        BY <1>3, <2>2, <2>3
<1>25. CASE NestedReturns(t)
    <2>1. Moved(t, "show")
        BY <1>0, <1>25, NestedReturnsStep
    <2>2. thr'[t].pc # "credit"
        BY <1>b, <2>1 DEF Moved
    <2>3. UNCHANGED <<table, credits, count>>
        BY <1>25 DEF NestedReturns, tool
    <2> QED
        BY <1>3, <2>2, <2>3
<1>26. CASE FillAddr(t)
    <2>1. Moved(t, "fill")
        BY <1>0, <1>26, FillAddrStep
    <2>2. thr'[t].pc # "credit"
        BY <1>b, <2>1 DEF Moved
    <2>3. UNCHANGED <<table, credits, count>>
        BY <1>26 DEF FillAddr, tool
    <2> QED
        BY <1>3, <2>2, <2>3
<1>27. CASE FillSize(t)
    <2>1. Moved(t, "send")
        BY <1>0, <1>27, FillSizeStep
    <2>2. thr'[t].pc # "credit"
        BY <1>b, <2>1 DEF Moved
    <2>3. UNCHANGED <<table, credits, count>>
        BY <1>27 DEF FillSize, tool
    <2> QED
        BY <1>3, <2>2, <2>3
<1>28. CASE Send(t)
    <2>1. FramesMove(t) /\ thr'[t].pc \in {"lock", "clear"}
        BY <1>0, <1>28, SendStep
    <2>2. thr'[t].pc # "credit"
        BY <1>b, <2>1
    <2>3. UNCHANGED <<table, credits, count>>
        BY <1>28 DEF Send, tool
    <2> QED
        BY <1>3, <2>2, <2>3
<1>29. CASE ClearFlag(t)
    <2>1. Returned(t)
        BY <1>0, <1>29, ClearFlagStep
    <2>2. thr'[t].pc # "credit"
        BY <1>b, <2>1 DEF Returned
    <2>3. UNCHANGED <<table, credits, count>>
        BY <1>29 DEF ClearFlag, tool
    <2> QED
        BY <1>3, <2>2, <2>3
<1>30. CASE FreeHook(t)
    <2>1. Moved(t, IF trace_flag THEN "freep" ELSE "freeset")
        BY <1>0, <1>30, FreeHookStep
    <2>2. thr'[t].pc # "credit"
        BY <1>b, <2>1 DEF Moved
    <2>3. UNCHANGED <<table, credits, count>>
        BY <1>30 DEF FreeHook, tool
    <2> QED
        BY <1>3, <2>2, <2>3
<1>31. CASE FreeSetFlag(t)
    <2>1. Moved(t, "freeclear")
        BY <1>0, <1>31, FreeSetFlagStep
    <2>2. thr'[t].pc # "credit"
        BY <1>b, <2>1 DEF Moved
    <2>3. UNCHANGED <<table, credits, count>>
        BY <1>31 DEF FreeSetFlag, tool
    <2> QED
        BY <1>3, <2>2, <2>3
<1>32. CASE FreeClearFlag(t)
    <2>1. Moved(t, "freep")
        BY <1>0, <1>32, FreeClearFlagStep
    <2>2. thr'[t].pc # "credit"
        BY <1>b, <2>1 DEF Moved
    <2>3. UNCHANGED <<table, credits, count>>
        BY <1>32 DEF FreeClearFlag, tool
    <2> QED
        BY <1>3, <2>2, <2>3
<1>33. CASE LibcFree(t)
    <2>1. Returned(t)
        BY <1>0, <1>33, LibcFreeStep
    <2>2. thr'[t].pc # "credit"
        BY <1>b, <2>1 DEF Returned
    <2>3. table' = Retired(thr[t].old) /\ UNCHANGED <<count, credits>>
        BY <1>33 DEF LibcFree
    <2>4. \A i \in 1 .. MAX_SIZE : table'[i].ops = table[i].ops
        BY <1>0, <1>b, <2>3, RetiredFacts
    <2> QED
        BY <1>0, <1>1, <1>2, <2>2, <2>3, <2>4, CountersStay
<1>34. CASE GetLock(t)
    <2>1. Moved(t, IF variant.polls /\ in_alloc = 1 THEN "recv" ELSE "scan")
        BY <1>0, <1>34, GetLockStep
    <2>2. thr'[t].pc # "credit"
        BY <1>b, <2>1 DEF Moved
    <2>3. UNCHANGED <<table, credits, count>>
        BY <1>34 DEF GetLock, tool
    <2> QED
        BY <1>3, <2>2, <2>3
<1>35. CASE NoOwner(t)
    <2>1. Moved(t, thr[t].back)
        BY <1>0, <1>35, NoOwnerStep
    <2>2. thr'[t].pc # "credit"
        BY <1>b, <2>1 DEF Moved
    <2>3. UNCHANGED <<table, credits, count>>
        BY <1>35 DEF NoOwner, tool
    <2> QED
        BY <1>3, <2>2, <2>3
<1>36. CASE Scan(t)
    BY <1>0, <1>36, ScanCredits
<1>37. CASE Credit(t)
    BY <1>0, <1>37, CreditCredits
<1> QED
    BY <1>4, <1>5, <1>6, <1>7, <1>8, <1>9, <1>10, <1>11, <1>12, <1>13, <1>14,
       <1>15, <1>16, <1>17, <1>18, <1>19, <1>20, <1>21, <1>22, <1>23,
       <1>24, <1>25, <1>26, <1>27, <1>28, <1>29, <1>30, <1>31, <1>32,
       <1>33, <1>34, <1>35, <1>36, <1>37
    DEF Inside

(* The application's steps keep the credits.                                *)
LEMMA CreditsApplication ==
    ASSUME ControlInv, CreditsOK, NEW t \in Threads, Application(t)
    PROVE  CreditsOK'
<1>1. count \in Nat
    BY RowsFit
<1>2. CASE \E n \in Sizes, old \in Live \cup {0} : Malloc(t, n, old)
    <2>1. PICK n \in Sizes, old \in Live \cup {0} : Malloc(t, n, old)
        BY <1>2
    <2>2. thr'[t].pc # "credit" /\ \A u \in Threads \ {t} : thr'[u] = thr[u]
        BY <2>1, MallocStep DEF FramesMove
    <2>3. UNCHANGED <<table, credits, count>>
        BY <2>1 DEF Malloc, tool
    <2> QED
        BY <1>1, <2>2, <2>3, CountersStay
<1>3. CASE \E p \in Live : Free(t, p)
    <2>1. PICK p \in Live : Free(t, p)
        BY <1>3
    <2>2. thr'[t].pc # "credit" /\ \A u \in Threads \ {t} : thr'[u] = thr[u]
        BY <2>1, FreeStep DEF FramesMove
    <2>3. UNCHANGED <<credits, count>> /\ table' = Retired(p) /\ p \in Int
        BY <2>1, TouchedFacts DEF Free
    <2>4. \A i \in 1 .. MAX_SIZE : table'[i].ops = table[i].ops
        BY <2>3, RetiredFacts
    <2> QED
        BY <1>1, <2>2, <2>3, <2>4, CountersStay
<1>4. ASSUME NEW a \in Nat, Access(t, a) PROVE CreditsOK'
    <2>2. thr'[t].pc # "credit" /\ \A u \in Threads \ {t} : thr'[u] = thr[u]
        BY <1>4, AccessStep DEF FramesMove
    <2>3. UNCHANGED <<table, credits, count>>
        BY <1>4 DEF Access, tool
    <2> QED
        BY <1>1, <2>2, <2>3, CountersStay
<1> QED
    BY <1>2, <1>3, <1>4, TouchedFacts DEF Application

CreditsInv == RowsInv /\ (~raced /\ variant.locks => CreditsOK)

(* The application's steps keep the tool, and a race once noted.            *)
LEMMA ApplicationMoves ==
    ASSUME ControlInv, NEW t \in Threads, Application(t)
    PROVE  UNCHANGED variant /\ (raced => raced')
<1>1. \A n \in Sizes, old \in Live \cup {0} :
        Malloc(t, n, old) => UNCHANGED variant /\ (raced => raced')
    BY MallocStep DEF FramesMove
<1>2. \A p \in Live : Free(t, p) => UNCHANGED variant /\ (raced => raced')
    BY FreeStep DEF FramesMove
<1>3. \A a \in Nat : Access(t, a) => UNCHANGED variant /\ (raced => raced')
    BY AccessStep DEF FramesMove
<1> QED
    BY <1>1, <1>2, <1>3, TouchedFacts DEF Application

(* Under g_lock and without races, the counters of the published rows, and  *)
(* what the thread in the critical section has read of them, are the        *)
(* accesses credited (RecordMemReadMT, GetMetrics).                         *)
THEOREM CreditsInvariance == Spec => []CreditsInv
<1>1. Init => CreditsInv
    <2> SUFFICES ASSUME Init PROVE CreditsInv
        OBVIOUS
    <2>1. \A t \in Threads : thr[t].pc # "credit"
        BY IdleFields DEF Init
    <2>2. \A i \in 1 .. MAX_SIZE : credits[i] = 0 /\ table[i].ops = 0
        <3>1. CASE variant.fortran
            <4> TAKE i \in 1 .. MAX_SIZE
            <4>1. table = ReadAllocInfo
                BY <3>1 DEF Init
            <4>2. table[i] = IF i <= Len(StaticObjects)
                             THEN [addr |-> AsInt(StaticObjects[i].addr),
                                   size |-> StaticObjects[i].size, ops |-> 0]
                             ELSE EmptyRow
                BY <4>1 DEF ReadAllocInfo
            <4>3. table[i].ops = 0
                BY <4>2 DEF EmptyRow
            <4> QED
                BY <4>3 DEF Init
        <3>2. CASE ~variant.fortran
            BY <3>2 DEF Init, EmptyRow
        <3> QED
            BY <3>1, <3>2
    <2> QED
        BY <2>1, <2>2, RowsStart DEF CreditsInv, CreditsOK
<1>2. CreditsInv /\ [Next]_vars => CreditsInv'
    <2> SUFFICES ASSUME CreditsInv, [Next]_vars PROVE CreditsInv'
        OBVIOUS
    <2>1. ASSUME NEW t \in Threads, Inside(t) PROVE CreditsInv'
        <3>1. FramesMove(t)
            BY <2>1, InsideMoves DEF CreditsInv, RowsInv
        <3>2. variant' = variant /\ (~raced' => ~raced)
            BY <3>1 DEF FramesMove
        <3> QED
            BY <2>1, <3>2, RowsInside, CreditsInside DEF CreditsInv
    <2>2. ASSUME NEW t \in Threads, Application(t) PROVE CreditsInv'
        <3>1. variant' = variant /\ (raced => raced')
            BY <2>2, ApplicationMoves DEF CreditsInv, RowsInv
        <3>2. ~raced /\ variant.locks => CreditsOK'
            BY <2>2, CreditsApplication DEF CreditsInv, RowsInv
        <3> QED
            BY <2>2, <3>1, <3>2, RowsApplication DEF CreditsInv
    <2>3. CASE Exit \/ UNCHANGED vars
        <3>1. UNCHANGED vars
            BY <2>3 DEF Exit
        <3>2. (~raced /\ variant.locks => CreditsOK)'
            BY <3>1 DEF CreditsInv, CreditsOK, vars, tool
        <3> QED
            BY <3>1, <3>2, RowsStutter DEF CreditsInv
    <2> QED
        BY <2>1, <2>2, <2>3 DEF Next
<1> QED
    BY <1>1, <1>2, PTL DEF Spec

(* No access credited is missing in the counters.                           *)
LEMMA CreditsAreCounted ==
    ASSUME CreditsInv
    PROVE  NoAccessIsLost
<1>1. count \in 0 .. MAX_SIZE /\ MAX_SIZE \in Nat
    BY RowsFit DEF CreditsInv, RowsInv
<1> QED
    BY <1>1 DEF CreditsInv, CreditsOK, NoAccessIsLost

(* Under g_lock the counters of a row count every access that was credited  *)
(* to it: what Credit writes is one more than what Scan has read, because   *)
(* nobody else writes the counters of a published row in between.           *)
THEOREM AccessesAreCounted == Spec => []NoAccessIsLost
BY CreditsInvariance, CreditsAreCounted, PTL

-----------------------------------------------------------------------------
(* The queue never holds more messages than there are threads that owe it a *)
(* poll.                                                                    *)

Owes(r) ==
    \/ ~Calling(r)
    \/ r.back = "hook" /\ r.todo = 2
    \/ AtSecond(r)

(* The set of threads that owe a poll changes at most in the thread that    *)
(* moves.                                                                   *)
LEMMA OwingMoves ==
    ASSUME NEW t \in Threads, FramesMove(t)
    PROVE  /\ Owing' \ {t} = Owing \ {t}
           /\ t \in Owing <=> Owes(thr[t])
           /\ t \in Owing' <=> Owes(thr'[t])
           /\ IsFiniteSet(Owing)
<1>1. \A u \in Threads : u \in Owing <=> Owes(thr[u])
    BY DEF Owing, Owes, Unsent, Calling
<1>2. \A u \in Threads : u \in Owing' <=> Owes(thr'[u])
    BY DEF Owing, Owes, Unsent, Calling, AtSecond
<1>3. Owing \subseteq Threads /\ Owing' \subseteq Threads
    BY DEF Owing
<1>4. \A u \in Threads \ {t} : thr'[u] = thr[u]
    BY DEF FramesMove
<1>5. Owing' \ {t} = Owing \ {t}
    BY <1>1, <1>2, <1>3, <1>4
<1> QED
    BY <1>1, <1>2, <1>3, <1>5, SubsetsAreFinite

(* And their number by one at most.                                         *)
LEMMA OwingCounts ==
    ASSUME NEW t \in Threads, FramesMove(t)
    PROVE  /\ Cardinality(Owing) \in Nat /\ Cardinality(Owing') \in Nat
           /\ Cardinality(Owing) <= Cardinality(Owing') + 1
           /\ (Owes(thr[t]) => Owes(thr'[t])) => Cardinality(Owing) <= Cardinality(Owing')
           /\ ~Owes(thr[t]) /\ Owes(thr'[t]) => Cardinality(Owing') = Cardinality(Owing) + 1
<1>1. /\ Cardinality(Owing) \in Nat /\ Cardinality(Owing') \in Nat
      /\ (t \in Owing <=> t \in Owing') => Owing' = Owing
      /\ t \notin Owing /\ t \in Owing' => Cardinality(Owing') = Cardinality(Owing) + 1
      /\ t \in Owing /\ t \notin Owing' => Cardinality(Owing) = Cardinality(Owing') + 1
    BY OwingMoves, OneElement
<1> QED
    BY <1>1, OwingMoves

(* About to poll, or to skip the poll, with a block to announce afterwards. *)
Waits(r) == r.pc = "before" /\ r.back = "hook" /\ r.size > 0

(* Those of the steps that make polls fail.                                 *)
Spoils(r) == AsksNothing(r) \/ (Publishing(r) /\ r.todo = 0)

(* MaySkip by these names, and after a step of t.                           *)
LEMMA SkipFacts ==
    ASSUME NEW t \in Threads, FramesMove(t)
    PROVE  /\ MaySkip <=>
               /\ \/ (in_alloc = 0 \/ G_var_size = 0) /\ \A u \in Threads : ~Writing(u)
                  \/ \E u \in Threads : Spoils(thr[u])
               /\ \E u \in Threads : Waits(thr[u])
           /\ MaySkip' <=>
               /\ \/ (in_alloc' = 0 \/ G_var_size' = 0) /\ \A u \in Threads : ~Writing(u)'
                  \/ \E u \in Threads : Spoils(thr'[u])
               /\ \E u \in Threads : Waits(thr'[u])
           /\ \A u \in Threads : Spoils(thr[u]) => Writing(u)
           /\ \A u \in Threads : Spoils(thr'[u]) => Writing(u)'
<1>1. \A u \in Threads : Spoils(thr[u]) => Writing(u)
    BY DEF Spoils, AsksNothing, Publishing, Polling, Writing
<1>2. \A u \in Threads : Spoils(thr'[u]) => Writing(u)'
    BY DEF Spoils, AsksNothing, Publishing, Polling, Writing
<1>3. (\E u \in Threads : Spoils(thr[u])) <=>
        \/ \E u \in Filling : thr[u].todo = 0
        \/ \E u \in Threads : AsksNothing(thr[u])
    BY DEF Spoils, Filling, Publishing
<1>4. (\E u \in Threads : Spoils(thr'[u])) <=>
        \/ \E u \in Filling' : thr'[u].todo = 0
        \/ \E u \in Threads : AsksNothing(thr'[u])
    BY DEF Spoils, Filling, Publishing
<1>5. MaySkip <=>
        /\ \/ (in_alloc = 0 \/ G_var_size = 0) /\ \A u \in Threads : ~Writing(u)
           \/ \E u \in Threads : Spoils(thr[u])
        /\ \E u \in Threads : Waits(thr[u])
    BY <1>3, Zenon DEF MaySkip, Waits
<1>6. MaySkip' <=>
        /\ \/ (in_alloc' = 0 \/ G_var_size' = 0) /\ \A u \in Threads : ~Writing(u)'
           \/ \E u \in Threads : Spoils(thr'[u])
        /\ \E u \in Threads : Waits(thr'[u])
    <2>1. MaySkip' <=>
            /\ \/ (in_alloc' = 0 \/ G_var_size' = 0) /\ \A u \in Threads : ~Writing(u)'
               \/ \E u \in Filling' : thr'[u].todo = 0
               \/ \E u \in Threads : AsksNothing(thr'[u])
            /\ \E u \in Threads : Waits(thr'[u])
        BY DEF MaySkip, Waits, AsksNothing
    <2> QED
        BY <1>4, <2>1, Zenon
<1> QED
    BY <1>1, <1>2, <1>5, <1>6

(* Nobody can skip a poll while a thread is in the unlocked routines, other *)
(* than one that takes a message for the analysis of an access or for a     *)
(* 0-byte request.                                                          *)
LEMMA WritersDontSkip ==
    ASSUME NEW t \in Threads, FramesMove(t), ~raced', Writing(t)', ~Spoils(thr'[t])
    PROVE  ~MaySkip'
<1>1. \A u \in Threads \ {t} : ~Writing(u) /\ thr'[u] = thr[u]
    BY DEF FramesMove
<1>2. \A u \in Threads \ {t} : ~Spoils(thr'[u])
    BY <1>1, SkipFacts
<1> QED
    BY <1>2, SkipFacts

(* A step that leaves in_alloc, G_var_size and its place alone lets nobody  *)
(* skip a poll.                                                             *)
LEMMA SkipStays ==
    ASSUME NEW t \in Threads, FramesMove(t), in_alloc' = in_alloc,
           G_var_size' = G_var_size, ~Writing(t), ~Writing(t)', ~Waits(thr'[t])
    PROVE  MaySkip' => MaySkip
<1> SUFFICES ASSUME MaySkip' PROVE MaySkip
    OBVIOUS
<1>1. \A u \in Threads \ {t} : thr'[u] = thr[u]
    BY DEF FramesMove
<1>2. \E u \in Threads : Waits(thr[u])
    <2>1. PICK u \in Threads : Waits(thr'[u])
        BY SkipFacts
    <2> QED
        BY <1>1, <2>1
<1>3. CASE (in_alloc' = 0 \/ G_var_size' = 0) /\ \A u \in Threads : ~Writing(u)'
    <2>1. \A u \in Threads : ~Writing(u)
        BY <1>1, <1>3 DEF Writing
    <2> QED
        BY <1>2, <1>3, <2>1, SkipFacts
<1>4. CASE \E u \in Threads : Spoils(thr'[u])
    <2>1. PICK u \in Threads : Spoils(thr'[u])
        BY <1>4
    <2>2. u # t
        BY <2>1, SkipFacts
    <2>3. Spoils(thr[u])
        BY <1>1, <2>1, <2>2
    <2> QED
        BY <1>2, <2>3, SkipFacts
<1> QED
    BY <1>3, <1>4, SkipFacts

(* Nor does one of a thread that already makes polls fail.                  *)
LEMMA SpoilersSkip ==
    ASSUME NEW t \in Threads, FramesMove(t), Spoils(thr[t]), ~Waits(thr'[t])
    PROVE  MaySkip' => MaySkip
<1> SUFFICES ASSUME MaySkip' PROVE MaySkip
    OBVIOUS
<1>1. PICK u \in Threads : Waits(thr'[u])
    BY SkipFacts
<1>2. Waits(thr[u])
    BY <1>1 DEF FramesMove
<1> QED
    BY <1>2, SkipFacts

(* Nor does a step of the thread that publishes a row.                      *)
LEMMA PublishersSkip ==
    ASSUME NEW t \in Threads, FramesMove(t), ~raced', Publishing(thr[t]),
           thr'[t].todo = thr[t].todo, thr'[t].back = thr[t].back,
           thr'[t].size = thr[t].size, thr'[t].pc # "before",
           Writing(t)' \/ thr[t].todo = 0
    PROVE  MaySkip' => MaySkip
<1>1. CASE Spoils(thr[t])
    BY <1>1, SpoilersSkip DEF Waits
<1>2. CASE ~Spoils(thr[t])
    <2>1. thr[t].todo # 0 /\ ~(thr[t].back = "hook" /\ thr[t].size = 0)
        BY <1>2 DEF Spoils, AsksNothing, Publishing, Polling
    <2>2. ~Spoils(thr'[t])
        BY <2>1 DEF Spoils, AsksNothing
    <2> QED
        BY <2>1, <2>2, WritersDontSkip
<1> QED
    BY <1>1, <1>2

(* A step that leaves the queue, the debts and the slack keeps the bound.   *)
LEMMA QueueStays ==
    ASSUME ControlInv, QueueOK, NEW t \in Threads, FramesMove(t), queue' = queue,
           Owes(thr[t]) => Owes(thr'[t]), MaySkip' => MaySkip
    PROVE  QueueOK'
<1>1. /\ Cardinality(Owing) \in Nat /\ Cardinality(Owing') \in Nat
      /\ Cardinality(Owing) <= Cardinality(Owing')
    BY OwingCounts
<1>2. Len(queue) \in Nat /\ Len(queue') = Len(queue)
    BY DEF ControlInv, Globals
<1> QED
    BY <1>1, <1>2 DEF QueueOK

(* An empty queue is within any bound.                                      *)
LEMMA NoMessagesNoDebt ==
    ASSUME NEW t \in Threads, FramesMove(t), queue' = <<>>
    PROVE  QueueOK'
<1>1. Cardinality(Owing') \in Nat /\ Len(queue') = 0
    BY OwingCounts
<1> QED
    BY <1>1 DEF QueueOK

(* A routine that does not poll finds no message that its thread owes.      *)
LEMMA BeforeQueue ==
    ASSUME ControlInv, OneWriter, QueueOK, ~variant.fortran, NEW t \in Threads, Before(t),
           ~raced'
    PROVE  QueueOK'
<1>0. thr[t].pc = "before" /\ queue' = queue
    BY DEF Before, At
<1>1. Moved(t, IF in_alloc = 1 /\ G_var_size > 0 THEN "recv" ELSE Entered(thr[t]))
    BY BeforeStep
<1>2. /\ FramesMove(t) /\ thr'[t].back = thr[t].back /\ thr'[t].todo = thr[t].todo
      /\ thr'[t].size = thr[t].size
      /\ IF in_alloc = 1 /\ G_var_size > 0 THEN thr'[t].pc = "recv"
         ELSE thr'[t].pc \in {"retire", "set"}
    BY <1>1 DEF Moved, Entered
<1>3. Writing(t)' /\ thr'[t].pc \in {"recv", "retire", "set"}
    BY <1>2 DEF Writing
<1>4. FrameOK(thr[t]) /\ CallOK(t) /\ in_alloc \in {0, 1} /\ G_var_size \in Nat
      /\ thr[t] \in Frame
    BY DEF ControlInv, Globals
<1>5. thr[t].back \in {"hook", "nested"}
    BY <1>0, <1>4 DEF FrameOK, InEntry, AtStat, InLibrary, InAnalysis, Polling, Freeing
<1>6. thr[t].size \in Nat /\ (thr[t].back = "nested" => thr[t].size > 0)
    BY <1>4 DEF CallOK, Frame
<1>7. CASE thr'[t].pc = "recv"
    <2>1. ~MaySkip'
        BY <1>2, <1>3, <1>7, WritersDontSkip DEF Spoils, AsksNothing, Publishing, Polling
    <2>2. Owes(thr[t]) => Owes(thr'[t])
        BY <1>2, <1>7 DEF Owes, Calling, AtSecond
    <2> QED
        BY <1>0, <1>2, <2>1, <2>2, QueueStays
<1>8. CASE thr'[t].pc \in {"retire", "set"}
    <2>1. (in_alloc = 0 \/ G_var_size = 0) /\ \A u \in Threads : ~Writing(u)
        <3>1. in_alloc = 0 \/ G_var_size = 0
            BY <1>2, <1>4, <1>8
        <3>2. \A u \in Threads \ {t} : ~Writing(u)
            BY <1>2, <1>3 DEF FramesMove
        <3> QED
            BY <1>0, <3>1, <3>2 DEF Writing
    <2>2. CASE Waits(thr[t])
        <3>1. MaySkip
            BY <1>2, <2>1, <2>2, SkipFacts
        <3>2. ~Spoils(thr'[t])
            BY <1>2, <1>8, <2>2 DEF Spoils, AsksNothing, Publishing, Waits
        <3>3. ~MaySkip'
            BY <1>2, <1>3, <3>2, WritersDontSkip
        <3>4. CASE queue = <<>>
            BY <1>0, <1>2, <3>4, NoMessagesNoDebt
        <3>5. CASE queue # <<>>
            <4>1. Len(queue) < Cardinality(Owing)
                BY <3>1, <3>5 DEF QueueOK
            <4>2. /\ Cardinality(Owing) \in Nat /\ Cardinality(Owing') \in Nat
                  /\ Cardinality(Owing) <= Cardinality(Owing') + 1
                BY <1>2, OwingCounts
            <4>3. Len(queue) \in Nat /\ Len(queue') = Len(queue)
                BY <1>0 DEF ControlInv, Globals
            <4>4. Len(queue') <= Cardinality(Owing')
                BY <4>1, <4>2, <4>3
            <4> QED
                BY <3>3, <4>4 DEF QueueOK
        <3> QED
            BY <3>4, <3>5
    <2>3. CASE thr[t].back = "nested"
        <3>1. Owes(thr[t]) => Owes(thr'[t])
            BY <1>6, <2>3 DEF Owes, Calling, AtSecond
        <3>2. ~Spoils(thr'[t])
            BY <1>2, <1>8, <2>3 DEF Spoils, AsksNothing, Publishing
        <3>3. ~MaySkip'
            BY <1>2, <1>3, <3>2, WritersDontSkip
        <3> QED
            BY <1>0, <1>2, <3>1, <3>3, QueueStays
    <2>4. CASE thr[t].back = "hook" /\ thr[t].size = 0
        <3>1. Owes(thr'[t])
            BY <1>2, <2>4 DEF Owes, Calling
        <3>2. MaySkip' => MaySkip
            <4>1. ASSUME NEW u \in Threads, Waits(thr'[u]) PROVE Waits(thr[u])
                <5>1. u # t
                    BY <1>2, <2>4, <4>1 DEF Waits
                <5> QED
                    BY <1>2, <4>1, <5>1 DEF FramesMove
            <4> QED
                BY <1>2, <2>1, <4>1, SkipFacts
        <3> QED
            BY <1>0, <1>2, <3>1, <3>2, QueueStays
    <2> QED
        BY <1>0, <1>5, <1>6, <2>2, <2>3, <2>4 DEF Waits
<1> QED
    BY <1>3, <1>7, <1>8

(* A poll takes one message and pays one debt.                              *)
LEMMA RecvQueue ==
    ASSUME ControlInv, QueueOK, NEW t \in Threads, Recv(t), ~raced'
    PROVE  QueueOK'
<1>0. thr[t].pc = "recv"
    BY DEF Recv, At
<1>1. /\ FramesMove(t) /\ thr'[t].pc = "read" /\ thr'[t].size = thr[t].size
      /\ thr'[t].back = thr[t].back /\ thr'[t].todo = thr[t].todo
    BY RecvStep DEF Moved
<1>2. Writing(t)' /\ FrameOK(thr[t])
    BY <1>1 DEF Writing, ControlInv
<1>3. /\ Len(queue) \in Nat /\ Len(queue') = Len(queue) - 1
      /\ Len(queue) <= Cardinality(Owing)
    BY HeadTailProperties DEF Recv, ControlInv, Globals, QueueOK
<1>4. /\ Cardinality(Owing) \in Nat /\ Cardinality(Owing') \in Nat
      /\ Cardinality(Owing) <= Cardinality(Owing') + 1
      /\ (Owes(thr[t]) => Owes(thr'[t])) => Cardinality(Owing) <= Cardinality(Owing')
    BY <1>1, OwingCounts
<1>5. Len(queue') <= Cardinality(Owing')
    BY <1>3, <1>4
<1>6. CASE ~Spoils(thr'[t])
    <2>1. ~MaySkip'
        BY <1>1, <1>2, <1>6, WritersDontSkip
    <2> QED
        BY <1>5, <2>1 DEF QueueOK
<1>7. CASE Spoils(thr'[t])
    <2>1. thr[t].back \in {"run", "clear"} \/ (thr[t].back = "hook" /\ thr[t].size = 0)
        <3>1. CASE thr[t].todo = 0
            BY <1>0, <1>2, <3>1 DEF FrameOK, InEntry, AtStat, InLibrary, InAnalysis, Freeing
        <3>2. CASE thr[t].todo # 0
            BY <1>1, <1>7, <3>2 DEF Spoils, AsksNothing
        <3> QED
            BY <3>1, <3>2
    <2>2. Owes(thr'[t])
        BY <1>1, <2>1 DEF Owes, Calling
    <2>3. Len(queue') < Cardinality(Owing')
        BY <1>3, <1>4, <2>2
    <2> QED
        BY <1>5, <2>3 DEF QueueOK
<1> QED
    BY <1>6, <1>7

(* A message is sent by a thread that then owes a poll.                     *)
LEMMA SendQueue ==
    ASSUME ControlInv, QueueOK, NEW t \in Threads, Send(t), ~raced'
    PROVE  QueueOK'
<1>0. thr[t].pc = "send" /\ UNCHANGED <<in_alloc, G_var_size, lib_msg>>
    BY DEF Send, At, tool, library
<1>1. FramesMove(t) /\ thr'[t].back = "clear" /\ thr'[t].pc \in {"lock", "clear"}
    BY SendStep
<1>2. FrameOK(thr[t]) /\ CallOK(t) /\ thr \in [Threads -> Frame]
    BY DEF ControlInv, Globals
<1>3. thr[t].back = "nested" /\ thr[t].todo = 0
    BY <1>0, <1>2 DEF FrameOK, InEntry, AtStat, InLibrary, InAnalysis, Polling, Freeing
<1>4. ~Owes(thr[t]) /\ Owes(thr'[t])
    BY <1>1, <1>2, <1>3 DEF Owes, Calling, AtSecond, CallOK
<1>5. /\ Cardinality(Owing) \in Nat /\ Cardinality(Owing') = Cardinality(Owing) + 1
    BY <1>1, <1>4, OwingCounts
<1>6. Len(queue) \in Nat /\ Len(queue') = Len(queue) + 1 /\ Len(queue) <= Cardinality(Owing)
    <2>1. lib_msg \in Message /\ queue \in Seq(Message)
        BY <1>0 DEF ControlInv, Globals, SizesArePositive, Message
    <2> QED
        BY <2>1, AppendProperties DEF Send, QueueOK
<1>7. MaySkip' => MaySkip
    BY <1>0, <1>1, SkipStays DEF Writing, Waits
<1>8. ASSUME MaySkip PROVE Len(queue) < Cardinality(Owing)
    <2>1. CASE queue # <<>>
        BY <1>8, <2>1 DEF QueueOK
    <2>2. CASE queue = <<>>
        <3>1. PICK u \in Threads : Waits(thr[u])
            BY <1>1, <1>8, SkipFacts
        <3>2. FrameOK(thr[u]) /\ thr[u] \in Frame /\ thr[u].pc = "before"
            BY <1>2, <3>1 DEF ControlInv, Waits
        <3>3. thr[u].todo # 0 /\ thr[u].todo <= 2 /\ thr[u].todo \in Nat
            BY <3>2
            DEF FrameOK, InEntry, AtStat, InLibrary, InAnalysis, Polling, Freeing, Frame
        <3>4. thr[u].todo = 1 \/ thr[u].todo = 2
            BY <3>3
        <3>5. u \in Owing
            BY <3>1, <3>4 DEF Owing, AtSecond, Waits
        <3>6. Owing \subseteq Threads
            BY DEF Owing
        <3>7. Cardinality(Owing) # 0
            BY <3>5, <3>6, SubsetsAreFinite
        <3> QED
            BY <1>5, <2>2, <3>7
    <2> QED
        BY <2>1, <2>2
<1> QED
    BY <1>5, <1>6, <1>7, <1>8 DEF QueueOK

(* Every step inside keeps the bound.                                       *)
LEMMA QueueInside ==
    ASSUME RowsInv, ~raced, ~raced', QueueOK, ~variant.fortran, NEW t \in Threads, Inside(t)
    PROVE  QueueOK'
<1>0. /\ ControlInv /\ FramesMove(t) /\ FrameOK(thr[t]) /\ CallOK(t) /\ OneWriter
      /\ SizeIsAsked /\ thr[t] \in Frame
    BY InsideMoves DEF RowsInv, ControlInv, Globals
<1>a. thr[t].back \in {"run", "hook", "return", "nested", "clear"} /\ thr[t].todo \in Nat
      /\ thr[t].size \in Nat
    BY <1>0 DEF Frame
<1>1. CASE RecvNothing(t)
    <2>1. queue' = <<>>
        BY <1>0, <1>1 DEF RecvNothing
    <2> QED
        BY <1>0, <2>1, NoMessagesNoDebt
<1>2. CASE Recv(t)
    BY <1>0, <1>2, RecvQueue
<1>3. CASE ReadMessage(t)
    <2>1. Moved(t, "bytes")
        BY <1>0, <1>3, ReadMessageStep
    <2>2. thr[t].pc = "read" /\ queue' = queue
        BY <1>3 DEF ReadMessage, At
    <2>3. MaySkip' => MaySkip
        BY <1>0, <2>1, <2>2, PublishersSkip DEF Moved, Publishing, Writing
    <2>4. Owes(thr[t]) => Owes(thr'[t])
        BY <2>1, <2>2 DEF Moved, Owes, Calling, AtSecond
    <2> QED
        BY <1>0, <2>2, <2>3, <2>4, QueueStays
<1>4. CASE ReadSize(t)
    <2>1. Moved(t, "arg")
        BY <1>0, <1>4, ReadSizeStep
    <2>2. thr[t].pc = "bytes" /\ queue' = queue
        BY <1>4 DEF ReadSize, At
    <2>3. MaySkip' => MaySkip
        BY <1>0, <2>1, <2>2, PublishersSkip DEF Moved, Publishing, Writing
    <2>4. Owes(thr[t]) => Owes(thr'[t])
        BY <2>1, <2>2 DEF Moved, Owes, Calling, AtSecond
    <2> QED
        BY <1>0, <2>2, <2>3, <2>4, QueueStays
<1>5. CASE ReadAddr(t)
    <2>1. Moved(t, "after")
        BY <1>0, <1>5, ReadAddrStep
    <2>2. thr[t].pc = "arg" /\ queue' = queue
        BY <1>5 DEF ReadAddr, At
    <2>3. MaySkip' => MaySkip
        BY <1>0, <2>1, <2>2, PublishersSkip DEF Moved, Publishing, Writing
    <2>4. Owes(thr[t]) => Owes(thr'[t])
        BY <2>1, <2>2 DEF Moved, Owes, Calling, AtSecond
    <2> QED
        BY <1>0, <2>2, <2>3, <2>4, QueueStays
<1>6. CASE AllocAfter(t)
    <2>1. Moved(t, "test")
        BY <1>0, <1>6, AllocAfterStep
    <2>2. thr[t].pc = "after" /\ queue' = queue
        BY <1>6 DEF AllocAfter, At
    <2>3. MaySkip' => MaySkip
        BY <1>0, <2>1, <2>2, PublishersSkip DEF Moved, Publishing, Writing
    <2>4. Owes(thr[t]) => Owes(thr'[t])
        BY <2>1, <2>2 DEF Moved, Owes, Calling, AtSecond
    <2> QED
        BY <1>0, <2>2, <2>3, <2>4, QueueStays
<1>7. CASE TestSize(t)
    <2>1. Moved(t, IF G_var_size > 0 THEN "size" ELSE AfterPoll(t))
        BY <1>0, <1>7, TestSizeStep
    <2>2. thr[t].pc = "test" /\ queue' = queue
        BY <1>7 DEF TestSize, At
    <2>3. MaySkip' => MaySkip
        BY <1>0, <2>1, <2>2, PublishersSkip DEF Moved, Publishing, Writing, AfterPoll, Entered
    <2>4. Owes(thr[t]) => Owes(thr'[t])
        BY <2>1, <2>2 DEF Moved, Owes, Calling, AtSecond
    <2> QED
        BY <1>0, <2>2, <2>3, <2>4, QueueStays
<1>8. CASE WriteSize(t)
    <2>1. Moved(t, "addr")
        BY <1>0, <1>8, WriteSizeStep
    <2>2. thr[t].pc = "size" /\ queue' = queue
        BY <1>8 DEF WriteSize, At
    <2>3. MaySkip' => MaySkip
        BY <1>0, <2>1, <2>2, PublishersSkip DEF Moved, Publishing, Writing
    <2>4. Owes(thr[t]) => Owes(thr'[t])
        BY <2>1, <2>2 DEF Moved, Owes, Calling, AtSecond
    <2> QED
        BY <1>0, <2>2, <2>3, <2>4, QueueStays
<1>9. CASE WriteAddr(t)
    <2>1. Moved(t, "init")
        BY <1>0, <1>9, WriteAddrStep
    <2>2. thr[t].pc = "addr" /\ queue' = queue
        BY <1>9 DEF WriteAddr, At
    <2>3. MaySkip' => MaySkip
        BY <1>0, <2>1, <2>2, PublishersSkip DEF Moved, Publishing, Writing
    <2>4. Owes(thr[t]) => Owes(thr'[t])
        BY <2>1, <2>2 DEF Moved, Owes, Calling, AtSecond
    <2> QED
        BY <1>0, <2>2, <2>3, <2>4, QueueStays
<1>10. CASE InitVariable(t)
    <2>1. Moved(t, "load")
        BY <1>0, <1>10, InitVariableStep
    <2>2. thr[t].pc = "init" /\ queue' = queue
        BY <1>10 DEF InitVariable, At
    <2>3. MaySkip' => MaySkip
        BY <1>0, <2>1, <2>2, PublishersSkip DEF Moved, Publishing, Writing
    <2>4. Owes(thr[t]) => Owes(thr'[t])
        BY <2>1, <2>2 DEF Moved, Owes, Calling, AtSecond
    <2> QED
        BY <1>0, <2>2, <2>3, <2>4, QueueStays
<1>11. CASE LoadCount(t)
    <2>1. Moved(t, "store")
        BY <1>0, <1>11, LoadCountStep
    <2>2. thr[t].pc = "load" /\ queue' = queue
        BY <1>11 DEF LoadCount, At
    <2>3. MaySkip' => MaySkip
        BY <1>0, <2>1, <2>2, PublishersSkip DEF Moved, Publishing, Writing
    <2>4. Owes(thr[t]) => Owes(thr'[t])
        BY <2>1, <2>2 DEF Moved, Owes, Calling, AtSecond
    <2> QED
        BY <1>0, <2>2, <2>3, <2>4, QueueStays
<1>12. CASE StoreCount(t)
    <2>1. Moved(t, AfterPoll(t))
        BY <1>0, <1>12, StoreCountStep
    <2>2. thr[t].pc = "store" /\ queue' = queue
        BY <1>12 DEF StoreCount, At
    <2>3. MaySkip' => MaySkip
        BY <1>0, <2>1, <2>2, PublishersSkip DEF Moved, Publishing, Writing, AfterPoll, Entered
    <2>4. Owes(thr[t]) => Owes(thr'[t])
        BY <2>1, <2>2 DEF Moved, Owes, Calling, AtSecond
    <2> QED
        BY <1>0, <2>2, <2>3, <2>4, QueueStays
<1>13. CASE Before(t)
    BY <1>0, <1>13, BeforeQueue
<1>14. CASE Retire(t)
    <2>1. Moved(t, "set")
        BY <1>0, <1>14, RetireStep
    <2>2. thr[t].pc = "retire" /\ queue' = queue
        BY <1>14 DEF Retire, At
    <2>3. MaySkip' => MaySkip
        <3>1. CASE Spoils(thr[t])
            BY <1>0, <2>1, <3>1, SpoilersSkip DEF Moved, Waits
        <3>2. CASE ~Spoils(thr[t])
            <4>1. ~Spoils(thr'[t])
                BY <2>1, <2>2, <3>2 DEF Moved, Spoils, AsksNothing, Publishing
            <4> QED
                BY <1>0, <2>1, <4>1, WritersDontSkip DEF Moved, Writing
        <3> QED
            BY <3>1, <3>2
    <2>4. Owes(thr[t]) => Owes(thr'[t])
        BY <2>1, <2>2 DEF Moved, Owes, Calling, AtSecond
    <2> QED
        BY <1>0, <2>2, <2>3, <2>4, QueueStays
<1>15. CASE SetSize(t)
    <2>1. /\ thr'[t].pc = "stat" /\ thr'[t].back = thr[t].back
          /\ thr'[t].todo = thr[t].todo - 1 /\ thr'[t].size = thr[t].size
        BY <1>0, <1>15, SetSizeStep
    <2>2. thr[t].pc = "set" /\ queue' = queue
        BY <1>15 DEF SetSize, At
    <2>3. MaySkip' => MaySkip
        <3>1. CASE Spoils(thr[t])
            BY <1>0, <2>1, <3>1, SpoilersSkip DEF Waits
        <3>2. CASE ~Spoils(thr[t])
            <4>1. ~Spoils(thr'[t])
                BY <2>1, <2>2, <3>2 DEF Spoils, AsksNothing, Publishing
            <4> QED
                BY <1>0, <2>1, <4>1, WritersDontSkip DEF Writing
        <3> QED
            BY <3>1, <3>2
    <2>4. Owes(thr[t]) => Owes(thr'[t])
        BY <1>a, <2>1, <2>2 DEF Owes, Calling, AtSecond
    <2> QED
        BY <1>0, <2>2, <2>3, <2>4, QueueStays
<1>16. CASE ChangeAllocStat(t)
    <2>1. Moved(t, IF thr[t].todo = 0 THEN thr[t].back ELSE "before")
        BY <1>0, <1>16, ChangeAllocStatStep
    <2>2. /\ thr[t].pc = "stat" /\ queue' = queue /\ G_var_size' = G_var_size
          /\ in_alloc' = IF G_var_size > 0 THEN 1 ELSE in_alloc
        BY <1>16 DEF ChangeAllocStat, At
    <2>3. thr[t].back \in {"hook", "nested"}
        BY <1>0, <2>2
        DEF FrameOK, InEntry, AtStat, InLibrary, InAnalysis, Polling, Freeing
    <2>4. MaySkip' => MaySkip
        <3>1. CASE thr[t].back = "hook" /\ thr[t].size = 0
            <4>1. Spoils(thr[t])
                BY <2>2, <3>1 DEF Spoils, AsksNothing
            <4> QED
                BY <1>0, <2>1, <3>1, <4>1, SpoilersSkip DEF Moved, Waits
        <3>2. CASE ~(thr[t].back = "hook" /\ thr[t].size = 0)
            <4>1. G_var_size > 0
                <5>1. G_var_size = Asked(thr[t])
                    BY <1>0, <2>2 DEF SizeIsAsked
                <5> QED
                    BY <1>a, <2>3, <3>2, <5>1 DEF Asked
            <4>2. in_alloc' = 1 /\ G_var_size' > 0
                BY <2>2, <4>1
            <4>3. \A u \in Threads \ {t} : ~Writing(u) /\ thr'[u] = thr[u]
                BY <1>0, <2>2 DEF OneWriter, Writing, FramesMove
            <4>4. ~Spoils(thr'[t])
                BY <1>a, <2>1 DEF Moved, Spoils, AsksNothing, Publishing, Polling
            <4>5. \A u \in Threads : ~Spoils(thr'[u])
                BY <1>0, <4>3, <4>4, SkipFacts
            <4> QED
                BY <1>0, <4>2, <4>5, SkipFacts
        <3> QED
            BY <3>1, <3>2
    <2>5. Owes(thr[t]) => Owes(thr'[t])
        BY <2>1, <2>2, <2>3 DEF Moved, Owes, Calling, AtSecond
    <2> QED
        BY <1>0, <2>2, <2>4, <2>5, QueueStays
<1>17. CASE CallReturns(t)
    <2>1. Returned(t)
        BY <1>0, <1>17, CallReturnsStep
    <2>2. thr[t].pc \in {"return", "hook"} /\ UNCHANGED <<queue, in_alloc, G_var_size>>
        BY <1>17 DEF CallReturns, At, tool
    <2>3. MaySkip' => MaySkip
        BY <1>0, <2>1, <2>2, SkipStays DEF Returned, Writing, Waits
    <2>4. Owes(thr'[t])
        BY <2>1 DEF Returned, Owes, Calling
    <2> QED
        BY <1>0, <2>2, <2>3, <2>4, QueueStays
<1>18. CASE Hook(t)
    <2>1. /\ thr'[t].pc = "setflag" /\ thr'[t].back = thr[t].back
          /\ thr'[t].todo = thr[t].todo /\ thr'[t].size = thr[t].size
        BY <1>0, <1>18, HookStep
    <2>2. thr[t].pc = "hook" /\ UNCHANGED <<queue, in_alloc, G_var_size>>
        BY <1>18 DEF Hook, At, tool
    <2>3. MaySkip' => MaySkip
        BY <1>0, <2>1, <2>2, SkipStays DEF Writing, Waits
    <2>4. Owes(thr[t]) => Owes(thr'[t])
        BY <2>1, <2>2 DEF Owes, Calling, AtSecond
    <2> QED
        BY <1>0, <2>2, <2>3, <2>4, QueueStays
<1>19. CASE SetFlag(t)
    <2>1. Moved(t, "show")
        BY <1>0, <1>19, SetFlagStep
    <2>2. thr[t].pc = "setflag" /\ UNCHANGED <<queue, in_alloc, G_var_size>>
        BY <1>19 DEF SetFlag, At, tool
    <2>3. MaySkip' => MaySkip
        BY <1>0, <2>1, <2>2, SkipStays DEF Moved, Writing, Waits
    <2>4. Owes(thr[t]) => Owes(thr'[t])
        BY <2>1, <2>2 DEF Moved, Owes, Calling, AtSecond
    <2> QED
        BY <1>0, <2>2, <2>3, <2>4, QueueStays
<1>20. CASE NestedMalloc(t)
    <2>1. FramesMove(t) /\ thr'[t].pc \in {"recv", "retire", "set"}
        BY <1>0, <1>20, NestedMallocStep DEF Entered
    <2>2. thr[t].pc = "show" /\ queue' = queue
        BY <1>20 DEF NestedMalloc, At
    <2>3. thr'[t].back = "nested"
        BY <1>0, <1>20, NestedMallocStep
    <2>4. ~MaySkip'
        BY <1>0, <2>1, <2>3, WritersDontSkip DEF Publishing, Writing, Spoils, AsksNothing
    <2>5. thr[t].back \in {"hook", "nested"} /\ thr[t].todo = 0 /\ thr[t].size > 0
        BY <1>0, <2>2
        DEF FrameOK, CallOK, InEntry, AtStat, InLibrary, InAnalysis, Polling, Freeing
    <2>6. ~Owes(thr[t])
        BY <2>2, <2>5 DEF Owes, Calling, AtSecond
    <2> QED
        BY <1>0, <2>2, <2>4, <2>6, QueueStays
<1>21. CASE NestedHook(t)
    <2>1. Moved(t, IF trace_flag THEN "show" ELSE "setflag")
        BY <1>0, <1>21, NestedHookStep
    <2>2. thr[t].pc = "nested" /\ UNCHANGED <<queue, in_alloc, G_var_size>>
        BY <1>21 DEF NestedHook, At, tool
    <2>3. MaySkip' => MaySkip
        BY <1>0, <2>1, <2>2, SkipStays DEF Moved, Writing, Waits
    <2>4. Owes(thr[t]) => Owes(thr'[t])
        BY <2>1, <2>2 DEF Moved, Owes, Calling, AtSecond
    <2> QED
        BY <1>0, <2>2, <2>3, <2>4, QueueStays
<1>22. CASE NestedReturns(t)
    <2>1. Moved(t, "show")
        BY <1>0, <1>22, NestedReturnsStep
    <2>2. thr[t].pc = "show" /\ UNCHANGED <<queue, in_alloc, G_var_size>>
        BY <1>22 DEF NestedReturns, At, tool
    <2>3. MaySkip' => MaySkip
        BY <1>0, <2>1, <2>2, SkipStays DEF Moved, Writing, Waits
    <2>4. Owes(thr[t]) => Owes(thr'[t])
        BY <2>1, <2>2 DEF Moved, Owes, Calling, AtSecond
    <2> QED
        BY <1>0, <2>2, <2>3, <2>4, QueueStays
<1>23. CASE FillAddr(t)
    <2>1. Moved(t, "fill")
        BY <1>0, <1>23, FillAddrStep
    <2>2. thr[t].pc = "show" /\ UNCHANGED <<queue, in_alloc, G_var_size>>
        BY <1>23 DEF FillAddr, At, tool
    <2>3. MaySkip' => MaySkip
        BY <1>0, <2>1, <2>2, SkipStays DEF Moved, Writing, Waits
    <2>4. Owes(thr[t]) => Owes(thr'[t])
        BY <2>1, <2>2 DEF Moved, Owes, Calling, AtSecond
    <2> QED
        BY <1>0, <2>2, <2>3, <2>4, QueueStays
<1>24. CASE FillSize(t)
    <2>1. Moved(t, "send")
        BY <1>0, <1>24, FillSizeStep
    <2>2. thr[t].pc = "fill" /\ UNCHANGED <<queue, in_alloc, G_var_size>>
        BY <1>24 DEF FillSize, At, tool
    <2>3. MaySkip' => MaySkip
        BY <1>0, <2>1, <2>2, SkipStays DEF Moved, Writing, Waits
    <2>4. Owes(thr[t]) => Owes(thr'[t])
        BY <2>1, <2>2 DEF Moved, Owes, Calling, AtSecond
    <2> QED
        BY <1>0, <2>2, <2>3, <2>4, QueueStays
<1>25. CASE Send(t)
    BY <1>0, <1>25, SendQueue
<1>26. CASE ClearFlag(t)
    <2>1. Returned(t)
        BY <1>0, <1>26, ClearFlagStep
    <2>2. thr[t].pc \in {"clear", "show"} /\ UNCHANGED <<queue, in_alloc, G_var_size>>
        BY <1>26 DEF ClearFlag, At, tool
    <2>3. MaySkip' => MaySkip
        BY <1>0, <2>1, <2>2, SkipStays DEF Returned, Writing, Waits
    <2>4. Owes(thr'[t])
        BY <2>1 DEF Returned, Owes, Calling
    <2> QED
        BY <1>0, <2>2, <2>3, <2>4, QueueStays
<1>27. CASE FreeHook(t)
    <2>1. Moved(t, IF trace_flag THEN "freep" ELSE "freeset")
        BY <1>0, <1>27, FreeHookStep
    <2>2. thr[t].pc = "free" /\ UNCHANGED <<queue, in_alloc, G_var_size>>
        BY <1>27 DEF FreeHook, At, tool
    <2>3. MaySkip' => MaySkip
        BY <1>0, <2>1, <2>2, SkipStays DEF Moved, Writing, Waits
    <2>4. Owes(thr[t]) => Owes(thr'[t])
        BY <2>1, <2>2 DEF Moved, Owes, Calling, AtSecond
    <2> QED
        BY <1>0, <2>2, <2>3, <2>4, QueueStays
<1>28. CASE FreeSetFlag(t)
    <2>1. Moved(t, "freeclear")
        BY <1>0, <1>28, FreeSetFlagStep
    <2>2. thr[t].pc = "freeset" /\ UNCHANGED <<queue, in_alloc, G_var_size>>
        BY <1>28 DEF FreeSetFlag, At, tool
    <2>3. MaySkip' => MaySkip
        BY <1>0, <2>1, <2>2, SkipStays DEF Moved, Writing, Waits
    <2>4. Owes(thr[t]) => Owes(thr'[t])
        BY <2>1, <2>2 DEF Moved, Owes, Calling, AtSecond
    <2> QED
        BY <1>0, <2>2, <2>3, <2>4, QueueStays
<1>29. CASE FreeClearFlag(t)
    <2>1. Moved(t, "freep")
        BY <1>0, <1>29, FreeClearFlagStep
    <2>2. thr[t].pc = "freeclear" /\ UNCHANGED <<queue, in_alloc, G_var_size>>
        BY <1>29 DEF FreeClearFlag, At, tool
    <2>3. MaySkip' => MaySkip
        BY <1>0, <2>1, <2>2, SkipStays DEF Moved, Writing, Waits
    <2>4. Owes(thr[t]) => Owes(thr'[t])
        BY <2>1, <2>2 DEF Moved, Owes, Calling, AtSecond
    <2> QED
        BY <1>0, <2>2, <2>3, <2>4, QueueStays
<1>30. CASE LibcFree(t)
    <2>1. Returned(t)
        BY <1>0, <1>30, LibcFreeStep
    <2>2. thr[t].pc \in {"freep"} /\ UNCHANGED <<queue, in_alloc, G_var_size>>
        BY <1>30 DEF LibcFree, At, tool
    <2>3. MaySkip' => MaySkip
        BY <1>0, <2>1, <2>2, SkipStays DEF Returned, Writing, Waits
    <2>4. Owes(thr'[t])
        BY <2>1 DEF Returned, Owes, Calling
    <2> QED
        BY <1>0, <2>2, <2>3, <2>4, QueueStays
<1>31. CASE GetLock(t)
    <2>1. Moved(t, IF variant.polls /\ in_alloc = 1 THEN "recv" ELSE "scan")
        BY <1>0, <1>31, GetLockStep
    <2>2. /\ thr[t].pc = "lock"
          /\ UNCHANGED <<queue, in_alloc, G_var_size>>
        BY <1>31 DEF GetLock, At, tool
    <2>3. MaySkip' => MaySkip
        <3>1. CASE thr'[t].pc = "recv"
            BY <1>0, <3>1, WritersDontSkip
            DEF Publishing, Writing, Spoils, AsksNothing, Polling
        <3>2. CASE thr'[t].pc = "scan"
            BY <1>0, <2>2, <3>2, SkipStays DEF Writing, Waits
        <3> QED
            BY <2>1, <3>1, <3>2 DEF Moved
    <2>4. Owes(thr[t]) => Owes(thr'[t])
        BY <2>1, <2>2 DEF Moved, Owes, Calling, AtSecond
    <2> QED
        BY <1>0, <2>2, <2>3, <2>4, QueueStays
<1>32. CASE NoOwner(t)
    <2>0. thr[t].back \in {"run", "clear"}
        BY <1>0, <1>32
        DEF NoOwner, At, FrameOK, InEntry, AtStat, InLibrary, InAnalysis, Polling, Freeing
    <2>1. Moved(t, thr[t].back)
        BY <1>0, <1>32, NoOwnerStep
    <2>2. thr[t].pc = "scan" /\ UNCHANGED <<queue, in_alloc, G_var_size>>
        BY <1>32 DEF NoOwner, At, tool
    <2>3. MaySkip' => MaySkip
        BY <1>0, <2>0, <2>1, <2>2, SkipStays DEF Moved, Writing, Waits
    <2>4. Owes(thr[t]) => Owes(thr'[t])
        BY <2>1, <2>2 DEF Moved, Owes, Calling, AtSecond
    <2> QED
        BY <1>0, <2>2, <2>3, <2>4, QueueStays
<1>33. CASE Scan(t)
    <2>1. Moved(t, "credit")
        BY <1>0, <1>33, ScanStep
    <2>2. thr[t].pc = "scan" /\ UNCHANGED <<queue, in_alloc, G_var_size>>
        BY <1>33 DEF Scan, At, tool
    <2>3. MaySkip' => MaySkip
        BY <1>0, <2>1, <2>2, SkipStays DEF Moved, Writing, Waits
    <2>4. Owes(thr[t]) => Owes(thr'[t])
        BY <2>1, <2>2 DEF Moved, Owes, Calling, AtSecond
    <2> QED
        BY <1>0, <2>2, <2>3, <2>4, QueueStays
<1>34. CASE Credit(t)
    <2>0. thr[t].back \in {"run", "clear"}
        BY <1>0, <1>34
        DEF Credit, At, FrameOK, InEntry, AtStat, InLibrary, InAnalysis, Polling, Freeing
    <2>1. Moved(t, thr[t].back)
        BY <1>0, <1>34, CreditStep
    <2>2. thr[t].pc = "credit" /\ UNCHANGED <<queue, in_alloc, G_var_size>>
        BY <1>34 DEF Credit, At, tool
    <2>3. MaySkip' => MaySkip
        BY <1>0, <2>0, <2>1, <2>2, SkipStays DEF Moved, Writing, Waits
    <2>4. Owes(thr[t]) => Owes(thr'[t])
        BY <2>1, <2>2 DEF Moved, Owes, Calling, AtSecond
    <2> QED
        BY <1>0, <2>2, <2>3, <2>4, QueueStays
<1> QED
    BY <1>1, <1>2, <1>3, <1>4, <1>5, <1>6, <1>7, <1>8, <1>9, <1>10, <1>11,
       <1>12, <1>13, <1>14, <1>15, <1>16, <1>17, <1>18, <1>19, <1>20,
       <1>21, <1>22, <1>23, <1>24, <1>25, <1>26, <1>27, <1>28, <1>29,
       <1>30, <1>31, <1>32, <1>33, <1>34
    DEF Inside

(* A call of the application starts with a poll, unless nothing is waiting. *)
LEMMA QueueApplication ==
    ASSUME ControlInv, ~raced', QueueOK, ~variant.fortran, NEW t \in Threads, Application(t)
    PROVE  QueueOK'
<1>1. CASE \E n \in Sizes, old \in Live \cup {0} : Malloc(t, n, old)
    <2>1. PICK n \in Sizes, old \in Live \cup {0} : Malloc(t, n, old)
        BY <1>1
    <2>2. /\ FramesMove(t) /\ thr'[t].back = "hook" /\ thr'[t].todo = 2 /\ thr'[t].size = n
          /\ IF in_alloc = 1 /\ G_var_size > 0 THEN thr'[t].pc = "recv"
             ELSE thr'[t].pc \in {"retire", "set"}
        BY <2>1, MallocStep
    <2>3. queue' = queue /\ thr[t].pc = "run"
        BY <2>1 DEF Malloc, At
    <2>4. Writing(t)' /\ ~Waits(thr'[t]) /\ Owes(thr'[t])
        BY <2>2 DEF Writing, Waits, Owes
    <2>5. MaySkip' => MaySkip
        <3>1. CASE thr'[t].pc = "recv" \/ n # 0
            BY <2>2, <2>4, <3>1, WritersDontSkip DEF Spoils, AsksNothing, Publishing, Polling
        <3>2. CASE thr'[t].pc # "recv"
            <4>1. in_alloc = 0 \/ G_var_size = 0
                BY <2>2, <3>2 DEF ControlInv, Globals
            <4>2. \A u \in Threads : ~Writing(u)
                BY <2>2, <2>3, <2>4 DEF FramesMove, Writing
            <4>3. ASSUME NEW u \in Threads, Waits(thr'[u]) PROVE Waits(thr[u])
                BY <2>2, <2>4, <4>3 DEF FramesMove
            <4> QED
                BY <2>2, <4>1, <4>2, <4>3, SkipFacts
        <3> QED
            BY <3>1, <3>2
    <2> QED
        BY <2>2, <2>3, <2>4, <2>5, QueueStays
<1>2. CASE \E p \in Live : Free(t, p)
    <2>1. PICK p \in Live : Free(t, p)
        BY <1>2
    <2>2. FramesMove(t) /\ thr'[t].pc \in {"run", "free"} /\ thr'[t].back = "run"
        BY <2>1, FreeStep
    <2>3. thr[t].pc = "run" /\ UNCHANGED <<queue, in_alloc, G_var_size>>
        BY <2>1 DEF Free, At
    <2>4. MaySkip' => MaySkip
        BY <2>2, <2>3, SkipStays DEF Writing, Waits
    <2>5. Owes(thr'[t])
        BY <2>2 DEF Owes, Calling
    <2> QED
        BY <2>2, <2>3, <2>4, <2>5, QueueStays
<1>3. ASSUME NEW a \in Nat, Access(t, a) PROVE QueueOK'
    <2>1. FramesMove(t) /\ thr'[t].pc = "lock" /\ thr'[t].back = "run"
        BY <1>3, AccessStep
    <2>2. thr[t].pc = "run" /\ UNCHANGED <<queue, in_alloc, G_var_size>>
        BY <1>3 DEF Access, At, tool
    <2>3. MaySkip' => MaySkip
        BY <2>1, <2>2, SkipStays DEF Writing, Waits
    <2>4. Owes(thr'[t])
        BY <2>1 DEF Owes, Calling
    <2> QED
        BY <2>1, <2>2, <2>3, <2>4, QueueStays
<1> QED
    BY <1>1, <1>2, <1>3, TouchedFacts DEF Application

QueueInv == RowsInv /\ (~raced /\ ~variant.fortran => QueueOK)

(* Without races the messages in the queue are at most the threads that owe *)
(* it a poll, with one to spare while a poll can be skipped                 *)
(* (MallocBefore, write_down_addr).                                         *)
THEOREM QueueInvariance == Spec => []QueueInv
<1>1. Init => QueueInv
    <2> SUFFICES ASSUME Init PROVE QueueInv
        OBVIOUS
    <2>1. Owing \subseteq Threads /\ queue = <<>> /\ Len(queue) = 0
        BY DEF Owing, Init
    <2>2. Cardinality(Owing) \in Nat
        BY <2>1, SubsetsAreFinite
    <2> QED
        BY <2>1, <2>2, RowsStart DEF QueueInv, QueueOK
<1>2. QueueInv /\ [Next]_vars => QueueInv'
    <2> SUFFICES ASSUME QueueInv, [Next]_vars PROVE QueueInv'
        OBVIOUS
    <2>1. ASSUME NEW t \in Threads, Inside(t) PROVE QueueInv'
        <3>1. FramesMove(t)
            BY <2>1, InsideMoves DEF QueueInv, RowsInv
        <3>2. variant' = variant /\ (~raced' => ~raced)
            BY <3>1 DEF FramesMove
        <3> QED
            BY <2>1, <3>2, RowsInside, QueueInside DEF QueueInv
    <2>2. ASSUME NEW t \in Threads, Application(t) PROVE QueueInv'
        <3>1. variant' = variant /\ (raced => raced')
            BY <2>2, ApplicationMoves DEF QueueInv, RowsInv
        <3>2. ~raced' /\ ~variant.fortran => QueueOK'
            BY <2>2, <3>1, QueueApplication DEF QueueInv, RowsInv
        <3> QED
            BY <2>2, <3>1, <3>2, RowsApplication DEF QueueInv
    <2>3. CASE Exit \/ UNCHANGED vars
        <3>1. UNCHANGED vars
            BY <2>3 DEF Exit
        <3>2. (~raced /\ ~variant.fortran => QueueOK)'
            BY <3>1
            DEF QueueInv, QueueOK, Owing, Unsent, AtSecond, MaySkip, AsksNothing, Filling,
                Writing, vars, tool
        <3> QED
            BY <3>1, <3>2, RowsStutter DEF QueueInv
    <2> QED
        BY <2>1, <2>2, <2>3 DEF Next
<1> QED
    BY <1>1, <1>2, PTL DEF Spec

(* There are no more such threads than threads.                             *)
LEMMA QueueFits ==
    ASSUME QueueInv
    PROVE  QueueIsBounded
<1>0. ControlInv
    BY DEF QueueInv, RowsInv
<1>1. CASE variant.fortran
    <2>1. queue = <<>> /\ Len(queue) = 0
        BY <1>0, <1>1 DEF ControlInv, RowsSuffice
    <2>2. Cardinality(Threads) \in Nat
        BY ThreadsAssumption, FS_CardinalityType
    <2> QED
        BY <2>1, <2>2 DEF QueueIsBounded
<1>2. CASE ~variant.fortran
    <2>1. ~raced => Len(queue) <= Cardinality(Owing)
        BY <1>2 DEF QueueInv, QueueOK
    <2>2. Owing \subseteq Threads
        BY DEF Owing
    <2>3. /\ Cardinality(Owing) \in Nat /\ Cardinality(Owing) <= Cardinality(Threads)
          /\ Cardinality(Threads) \in Nat /\ Len(queue) \in Nat
        BY <1>0, <2>2, SubsetsAreFinite DEF ControlInv, Globals
    <2> QED
        BY <2>1, <2>3 DEF QueueIsBounded
<1> QED
    BY <1>1, <1>2

(* As long as no two threads are inside the unlocked routines at the same   *)
(* time, the queue never holds more messages than there are threads: every  *)
(* message in it is matched by a thread that polls before it sends another, *)
(* and a poll is skipped, for in_alloc = 0 or a 0-byte request, only when   *)
(* the queue is empty or a message has been taken out of turn.              *)
THEOREM QueueStaysShort == Spec => []QueueIsBounded
BY QueueInvariance, QueueFits, PTL

-----------------------------------------------------------------------------
(* pintool_mt_sep, while only thread 0 announces blocks.                    *)

(* pintool_mt_sep analyses thread 0 alone, and polls.                       *)
LEMMA SepFacts ==
    ASSUME variant = pintool_mt_sep
    PROVE  variant.traced = {Main} /\ variant.polls /\ ~variant.fortran
BY DEF pintool_mt_sep, pintool_mt_whole

(* Blocks keep their sizes and their threads, and stay chosen.              *)
BlocksKept ==
    \A p \in DOMAIN heap :
        /\ p \in DOMAIN heap' /\ heap'[p].size = heap[p].size /\ heap'[p].by = heap[p].by
        /\ heap[p].chosen => heap'[p].chosen

NoneIsChosen ==
    \A p \in DOMAIN heap' : heap'[p].chosen => p \in DOMAIN heap /\ heap[p].chosen

(* If only thread 0 announces after a step, so it was before.               *)
LEMMA AnnouncesBefore ==
    ASSUME BlocksKept, variant' = variant, MainAnnounces'
    PROVE  MainAnnounces
BY DEF BlocksKept, MainAnnounces

(* What thread 0 is about to send is a block.                               *)
LEMMA SendingMain ==
    ASSUME ControlInv
    PROVE  thr[Main].pc \in {"fill", "send"} => thr[Main].ptr \in DOMAIN heap
<1>1. FrameOK(thr[Main]) /\ CallOK(Main)
    BY ThreadsAssumption DEF ControlInv
<1>2. thr[Main].pc \in {"fill", "send"} => thr[Main].back = "nested"
    BY <1>1 DEF FrameOK, InEntry, AtStat, InLibrary, InAnalysis, Polling, Freeing
<1> QED
    BY <1>1, <1>2 DEF CallOK

(* Steps of other threads that neither send, receive nor clear in_alloc.    *)
LEMMA OthersAreQuiet ==
    ASSUME ControlInv, MainIsServed, NEW t \in Threads, t # Main, FramesMove(t),
           UNCHANGED <<queue, received, lib_msg>>, in_alloc' \in {in_alloc, 1},
           thr'[t].pc \in {"read", "bytes", "arg", "after"} =>
               thr[t].pc \in {"read", "bytes", "arg", "after"},
           BlocksKept, NoneIsChosen
    PROVE  MainIsServed'
<1>1. thr'[Main] = thr[Main]
    BY ThreadsAssumption DEF FramesMove
<1>2. NoneClears => NoneClears'
    BY DEF NoneClears, FramesMove
<1>3. \A p \in DOMAIN heap : MessageOf(p)' = MessageOf(p)
    BY DEF BlocksKept, MessageOf
<1>4. MainPolls'
    BY <1>1, <1>2 DEF MainIsServed, MainPolls
<1>5. MainHasSaidSo'
    BY <1>1, <1>2 DEF MainIsServed, MainHasSaidSo, Unsent, Writing
<1>6. MainFills'
    <2>1. ASSUME thr'[Main].pc = "send" PROVE lib_msg' = MessageOf(thr[Main].ptr)'
        <3>1. lib_msg = MessageOf(thr[Main].ptr) /\ thr[Main].ptr \in DOMAIN heap
            BY <1>1, <2>1, SendingMain DEF MainIsServed, MainFills
        <3>2. MessageOf(thr[Main].ptr)' = MessageOf(thr[Main].ptr)
            BY <1>1, <3>1 DEF MessageOf, BlocksKept
        <3> QED
            BY <3>1, <3>2
    <2>2. thr'[Main].pc = "fill" => lib_msg'.addr = thr'[Main].ptr
        BY <1>1 DEF MainIsServed, MainFills
    <2> QED
        BY <2>1, <2>2 DEF MainFills
<1>7. BlocksAreAnnounced'
    BY <1>1, <1>3 DEF MainIsServed, BlocksAreAnnounced, NoneIsChosen
<1> QED
    BY <1>4, <1>5, <1>6, <1>7 DEF MainIsServed

(* Steps of thread 0 with no message in the queue.                          *)
LEMMA MainIsQuiet ==
    ASSUME ControlInv, MainIsServed, FramesMove(Main), queue = <<>>,
           UNCHANGED <<queue, received>>,
           thr[Main].pc \notin {"fill", "send"}, thr'[Main].pc \notin {"fill", "send"},
           BlocksKept, NoneIsChosen,
           Main \in Unsent' /\ ~Writing(Main)' =>
               in_alloc' = in_alloc /\ Main \in Unsent /\ ~Writing(Main)
    PROVE  MainIsServed'
<1>1. ~Writing(Main)' /\ NoneClears => NoneClears'
    BY DEF NoneClears, FramesMove, Writing
<1>2. \A p \in DOMAIN heap : MessageOf(p)' = MessageOf(p)
    BY DEF BlocksKept, MessageOf
<1>3. MainPolls' /\ MainFills'
    BY DEF MainPolls, MainFills
<1>4. MainHasSaidSo'
    BY <1>1 DEF MainIsServed, MainHasSaidSo
<1>5. BlocksAreAnnounced'
    BY <1>2 DEF MainIsServed, BlocksAreAnnounced, NoneIsChosen
<1> QED
    BY <1>3, <1>4, <1>5 DEF MainIsServed

(* What a step of t that takes no message and sends none does to its frame. *)
Rests(t) ==
    /\ thr[t].pc \notin {"fill", "send"} /\ thr'[t].pc \notin {"fill", "send"}
    /\ thr'[t].pc \in {"read", "bytes", "arg", "after"} =>
          thr[t].pc \in {"read", "bytes", "arg", "after"}
    /\ t \in Unsent' /\ ~Writing(t)' => t \in Unsent /\ ~Writing(t)

(* Steps that take no message, send none and leave in_alloc alone.          *)
LEMMA QuietServes ==
    ASSUME ControlInv, MainIsServed, NEW t \in Threads, FramesMove(t), Rests(t),
           UNCHANGED <<queue, received, lib_msg, in_alloc>>, BlocksKept, NoneIsChosen,
           t = Main /\ thr[t].pc \in {"recv", "lock"} => queue = <<>>
    PROVE  MainIsServed'
<1>1. CASE t # Main
    BY <1>1, OthersAreQuiet DEF Rests
<1>2. CASE t = Main
    <2>1. queue = <<>>
        BY <1>2 DEF MainIsServed, MainPolls
    <2> QED
        BY <1>2, <2>1, MainIsQuiet DEF Rests
<1> QED
    BY <1>1, <1>2

(* Whoever receives thread 0's message puts it in the table.                *)
LEMMA RecvServes ==
    ASSUME ControlInv, OneWriter, MainIsServed, NEW t \in Threads, Recv(t)
    PROVE  MainIsServed'
<1>1. /\ FramesMove(t) /\ thr[t].pc = "recv" /\ thr'[t].pc = "read"
      /\ thr'[t].back = thr[t].back
    BY RecvStep DEF Recv, Moved, At
<1>2. /\ thr[Main].back = "clear" /\ Len(queue) = 1 /\ thr[Main].pc \in {"lock", "recv"}
    BY DEF MainIsServed, MainPolls, Recv
<1>3. /\ thr'[Main].back = "clear" /\ thr'[Main].pc \notin {"fill", "send"}
      /\ thr[Main].pc \notin {"fill", "send"}
    BY <1>1, <1>2, ThreadsAssumption DEF FramesMove
<1>4. /\ queue \in Seq(Message) /\ queue # <<>> /\ received \in Seq(Message)
      /\ queue' = Tail(queue) /\ received' = Append(received, Head(queue)) /\ heap' = heap
    BY DEF Recv, ControlInv, Globals
<1>5. Tail(queue) \in Seq(Message) /\ Len(Tail(queue)) = 0 /\ Head(queue) \in Message
    BY <1>2, <1>4, HeadTailProperties
<1>6. queue' = <<>>
    BY <1>4, <1>5, EmptySeq
<1>7. /\ Len(received') = Len(received) + 1 /\ Len(received) \in Nat
      /\ \A k \in 1 .. Len(received) : received'[k] = received[k]
      /\ received'[Len(received) + 1] = Head(queue) /\ received' \in Seq(Message)
    BY <1>4, <1>5, AppendProperties
<1>8. DOMAIN received = 1 .. Len(received) /\ DOMAIN received' = 1 .. Len(received')
    BY <1>4, <1>7
<1>9. \A p : MessageOf(p)' = MessageOf(p)
    BY <1>4 DEF MessageOf
<1>10. MainPolls' /\ MainFills'
    BY <1>3, <1>6 DEF MainPolls, MainFills
<1>11. MainHasSaidSo'
    BY <1>3 DEF MainHasSaidSo, Unsent
<1>12. ASSUME NEW p \in DOMAIN heap, heap[p].chosen
       PROVE  \E k \in DOMAIN received' : received'[k] = MessageOf(p)
    <2>1. \/ \E k \in DOMAIN received : received[k] = MessageOf(p)
          \/ queue = <<MessageOf(p)>>
        BY <1>3, <1>12 DEF MainIsServed, BlocksAreAnnounced
    <2>2. CASE \E k \in DOMAIN received : received[k] = MessageOf(p)
        <3>1. PICK k \in DOMAIN received : received[k] = MessageOf(p)
            BY <2>2
        <3>2. k \in DOMAIN received' /\ received'[k] = received[k]
            BY <1>7, <1>8, <3>1
        <3> QED
            BY <3>1, <3>2
    <2>3. CASE queue = <<MessageOf(p)>>
        <3>1. Head(queue) = MessageOf(p)
            BY <2>3
        <3>2. Len(received) + 1 \in DOMAIN received'
            BY <1>7, <1>8
        <3> QED
            BY <1>7, <3>1, <3>2
    <2> QED
        BY <2>1, <2>2, <2>3
<1>13. BlocksAreAnnounced'
    BY <1>4, <1>9, <1>12 DEF BlocksAreAnnounced
<1> QED
    BY <1>10, <1>11, <1>13 DEF MainIsServed

(* A thread that clears in_alloc has received thread 0's message.           *)
LEMMA ClearingServes ==
    ASSUME ControlInv, OneWriter, MainIsServed, NEW t \in Threads, FramesMove(t),
           thr[t].pc \in {"read", "after"}, thr'[t].pc \in {"bytes", "test"},
           UNCHANGED <<queue, received, lib_msg, heap>>
    PROVE  MainIsServed'
<1>1. ~NoneClears /\ Writing(t) /\ Writing(t)'
    BY DEF NoneClears, Writing
<1>2. CASE t = Main
    <2>1. queue = <<>>
        BY <1>2 DEF MainIsServed, MainPolls
    <2>2. MainPolls' /\ MainHasSaidSo' /\ MainFills'
        BY <1>1, <1>2, <2>1 DEF MainPolls, MainHasSaidSo, MainFills
    <2>3. BlocksAreAnnounced'
        BY <1>2 DEF MainIsServed, BlocksAreAnnounced, MessageOf
    <2> QED
        BY <2>2, <2>3 DEF MainIsServed
<1>3. CASE t # Main
    <2>1. thr'[Main] = thr[Main] /\ Main \in Threads
        BY <1>3, ThreadsAssumption DEF FramesMove
    <2>2. ~Writing(Main)
        BY <1>1, <1>3, <2>1 DEF OneWriter
    <2>3. queue = <<>>
        BY <1>1, <2>2 DEF MainIsServed, MainPolls, Writing
    <2>4. Main \notin Unsent
        BY <1>1, <2>2 DEF MainIsServed, MainHasSaidSo
    <2>5. MainPolls' /\ MainHasSaidSo'
        BY <2>1, <2>3, <2>4 DEF MainPolls, MainHasSaidSo, Unsent
    <2>6. MainFills' /\ BlocksAreAnnounced'
        BY <2>1 DEF MainIsServed, MainFills, BlocksAreAnnounced, MessageOf
    <2> QED
        BY <2>5, <2>6 DEF MainIsServed
<1> QED
    BY <1>2, <1>3

(* The buffer gets the address of thread 0's block ...                      *)
LEMMA FillAddrServes ==
    ASSUME ControlInv, MainIsServed, FillAddr(Main)
    PROVE  MainIsServed'
<1> DEFINE q == thr[Main].ptr
<1>0. Moved(Main, "fill")
    BY FillAddrStep, ThreadsAssumption
<1>1. /\ FramesMove(Main) /\ thr'[Main].pc = "fill" /\ thr'[Main].ptr = q
      /\ thr'[Main].back = thr[Main].back /\ thr'[Main].size = thr[Main].size
    BY <1>0 DEF Moved
<1>2. /\ thr[Main].pc = "show" /\ lib_msg' = [lib_msg EXCEPT !.addr = q]
      /\ heap' = [heap EXCEPT ![q].chosen = TRUE]
      /\ UNCHANGED <<queue, received, in_alloc>>
    BY DEF FillAddr, At, tool
<1>3. queue = <<>>
    BY <1>2 DEF MainIsServed, MainPolls
<1>4. Main \in Unsent' => in_alloc = 1 /\ NoneClears
    BY <1>1, <1>2 DEF MainIsServed, MainHasSaidSo, Writing, Unsent
<1>5. NoneClears => NoneClears'
    BY <1>1 DEF NoneClears, FramesMove
<1>6. HeapOK /\ lib_msg \in [addr : Nat, size : Nat]
    BY DEF ControlInv, Globals
<1> HIDE DEF q
<1>7. lib_msg'.addr = q
    BY <1>2, <1>6
<1>8. MainPolls' /\ MainHasSaidSo' /\ MainFills'
    BY <1>1, <1>2, <1>3, <1>4, <1>5, <1>7 DEF MainPolls, MainHasSaidSo, MainFills
<1>9. /\ DOMAIN heap' = DOMAIN heap /\ \A p \in DOMAIN heap \ {q} : heap'[p] = heap[p]
      /\ \A p \in DOMAIN heap : heap'[p].size = heap[p].size
    BY <1>2, <1>6 DEF HeapOK, Block
<1>10. \A p \in DOMAIN heap : MessageOf(p)' = MessageOf(p)
    BY <1>9 DEF MessageOf
<1>11. BlocksAreAnnounced'
    BY <1>1, <1>2, <1>9, <1>10 DEF MainIsServed, BlocksAreAnnounced
<1> QED
    BY <1>8, <1>11 DEF MainIsServed

(* ... and its size.                                                        *)
LEMMA FillSizeServes ==
    ASSUME ControlInv, MainIsServed, FillSize(Main)
    PROVE  MainIsServed'
<1> DEFINE q == thr[Main].ptr
<1>0. Moved(Main, "send")
    BY FillSizeStep, ThreadsAssumption
<1>1. /\ FramesMove(Main) /\ thr'[Main].pc = "send" /\ thr'[Main].ptr = q
      /\ thr'[Main].back = thr[Main].back /\ thr'[Main].size = thr[Main].size
    BY <1>0 DEF Moved
<1>2. /\ thr[Main].pc = "fill" /\ lib_msg' = [lib_msg EXCEPT !.size = thr[Main].size]
      /\ UNCHANGED <<queue, received, in_alloc, heap>>
    BY DEF FillSize, At, tool
<1>3. queue = <<>>
    BY <1>2 DEF MainIsServed, MainPolls
<1>4. Main \in Unsent' => in_alloc = 1 /\ NoneClears
    BY <1>1, <1>2 DEF MainIsServed, MainHasSaidSo, Writing, Unsent
<1>5. NoneClears => NoneClears'
    BY <1>1 DEF NoneClears, FramesMove
<1>6. FrameOK(thr[Main]) /\ CallOK(Main) /\ lib_msg \in [addr : Nat, size : Nat]
    BY ThreadsAssumption DEF ControlInv, Globals
<1>7. thr[Main].back = "nested"
    BY <1>2, <1>6 DEF FrameOK, InEntry, AtStat, InLibrary, InAnalysis, Polling, Freeing
<1>8. thr[Main].size = heap[q].size
    BY <1>6, <1>7 DEF CallOK
<1>9. lib_msg.addr = q
    BY <1>2 DEF MainIsServed, MainFills
<1> HIDE DEF q
<1>10. lib_msg' = MessageOf(q)
    BY <1>2, <1>6, <1>8, <1>9 DEF MessageOf
<1>11. \A p : MessageOf(p)' = MessageOf(p)
    BY <1>2 DEF MessageOf
<1>12. MessageOf(thr[Main].ptr)' = MessageOf(q)
    BY <1>1, <1>2 DEF MessageOf
<1>13. MainPolls' /\ MainHasSaidSo' /\ MainFills'
    BY <1>1, <1>2, <1>3, <1>4, <1>5, <1>10, <1>12 DEF MainPolls, MainHasSaidSo, MainFills
<1>14. BlocksAreAnnounced'
    BY <1>1, <1>2, <1>11 DEF MainIsServed, BlocksAreAnnounced, q
<1> QED
    BY <1>13, <1>14 DEF MainIsServed

(* Once sent, it is in the queue while thread 0 is on its way to the next   *)
(* poll.                                                                    *)
LEMMA SendServes ==
    ASSUME ControlInv, variant = pintool_mt_sep, MainIsServed, Send(Main)
    PROVE  MainIsServed'
<1> DEFINE q == thr[Main].ptr
<1>0. /\ FramesMove(Main) /\ thr'[Main].back = "clear"
      /\ thr'[Main].pc = IF Main \in variant.traced THEN "lock" ELSE "clear"
    BY SendStep, ThreadsAssumption
<1>1. /\ FramesMove(Main) /\ thr[Main].pc = "send" /\ thr'[Main].pc = "lock"
      /\ thr'[Main].back = "clear"
    BY <1>0, SepFacts DEF Send, At
<1>2. FrameOK(thr[Main]) /\ CallOK(Main)
    BY ThreadsAssumption DEF ControlInv
<1>3. Main \in Unsent
    <2>1. thr[Main].back = "nested"
        BY <1>1, <1>2 DEF FrameOK, InEntry, AtStat, InLibrary, InAnalysis, Polling, Freeing
    <2> QED
        BY <1>2, <2>1, ThreadsAssumption DEF Unsent, CallOK
<1>4. queue' = Append(queue, lib_msg) /\ UNCHANGED <<received, in_alloc, heap>>
    BY DEF Send, tool
<1>5. queue = <<>> /\ lib_msg = MessageOf(q)
    BY <1>1 DEF MainIsServed, MainPolls, MainFills
<1>6. in_alloc = 1 /\ NoneClears
    BY <1>1, <1>3 DEF MainIsServed, MainHasSaidSo, Writing
<1>7. NoneClears'
    BY <1>1, <1>6 DEF NoneClears, FramesMove
<1>8. queue' = <<MessageOf(q)>> /\ Len(queue') = 1
    <2> DEFINE m == MessageOf(q)
    <2>1. queue' = Append(<<>>, m)
        BY <1>4, <1>5
    <2> HIDE DEF m
    <2>2. Append(<<>>, m) = <<m>> /\ Len(<<m>>) = 1
        OBVIOUS
    <2> QED
        BY <2>1, <2>2 DEF m
<1> HIDE DEF q
<1>9. MainPolls' /\ MainHasSaidSo' /\ MainFills'
    BY <1>1, <1>4, <1>6, <1>7, <1>8 DEF MainPolls, MainHasSaidSo, MainFills
<1>10. \A p \in DOMAIN heap : MessageOf(p)' = MessageOf(p)
    BY <1>4 DEF MessageOf
<1>11. BlocksAreAnnounced'
    BY <1>4, <1>5, <1>8, <1>10 DEF MainIsServed, BlocksAreAnnounced, q
<1> QED
    BY <1>9, <1>11 DEF MainIsServed

(* The access that follows msgsnd polls: in_alloc is set.                   *)
LEMMA GetLockServes ==
    ASSUME ControlInv, variant = pintool_mt_sep, MainIsServed, GetLock(Main)
    PROVE  MainIsServed'
<1>0. Moved(Main, IF variant.polls /\ in_alloc = 1 THEN "recv" ELSE "scan")
    BY GetLockStep, ThreadsAssumption
<1>1. /\ FramesMove(Main) /\ thr[Main].pc = "lock" /\ thr'[Main].back = thr[Main].back
      /\ thr'[Main].pc = IF in_alloc = 1 THEN "recv" ELSE "scan"
    BY <1>0, SepFacts DEF GetLock, Moved, At
<1>2. UNCHANGED <<queue, received, lib_msg, heap, in_alloc>>
    BY DEF GetLock, tool, library
<1>3. FrameOK(thr[Main])
    BY ThreadsAssumption DEF ControlInv
<1>4. thr'[Main].back \in {"run", "clear"}
    BY <1>1, <1>3 DEF FrameOK, InEntry, AtStat, InLibrary, InAnalysis, Polling, Freeing
<1>5. MainHasSaidSo' /\ MainFills'
    BY <1>1, <1>4 DEF MainHasSaidSo, MainFills, Unsent
<1>6. MainPolls'
    BY <1>1, <1>2 DEF MainIsServed, MainPolls
<1>7. BlocksAreAnnounced'
    BY <1>1, <1>2 DEF MainIsServed, BlocksAreAnnounced, MessageOf
<1> QED
    BY <1>5, <1>6, <1>7 DEF MainIsServed

(* in_alloc says so while thread 0 has a block to announce.                 *)
LEMMA StatServes ==
    ASSUME ControlInv, OneWriter, SizeIsAsked, MainIsServed, ChangeAllocStat(Main)
    PROVE  MainIsServed'
<1>0. Moved(Main, IF thr[Main].todo = 0 THEN thr[Main].back ELSE "before")
    BY ChangeAllocStatStep, ThreadsAssumption
<1>1. /\ thr[Main].pc = "stat" /\ UNCHANGED <<queue, received, lib_msg, heap>>
      /\ in_alloc' = IF G_var_size > 0 THEN 1 ELSE in_alloc
    BY DEF ChangeAllocStat, library, At
<1>2. /\ FramesMove(Main) /\ thr'[Main].back = thr[Main].back
      /\ thr'[Main].size = thr[Main].size
      /\ thr'[Main].pc \in {"hook", "return", "nested", "before"}
    <2>1. FrameOK(thr[Main]) /\ Main \in Threads
        BY ThreadsAssumption DEF ControlInv
    <2>2. thr[Main].back \in {"hook", "return", "nested"}
        BY <1>1, <2>1 DEF FrameOK, InEntry, AtStat, InLibrary, InAnalysis, Polling, Freeing
    <2> QED
        BY <1>0, <2>2 DEF Moved
<1>3. Main \in Unsent' => in_alloc' = 1
    <2> SUFFICES ASSUME Main \in Unsent' PROVE G_var_size > 0
        BY <1>1
    <2>1. thr[Main].size > 0
        BY <1>2 DEF Unsent
    <2>2. G_var_size = Asked(thr[Main])
        BY <1>1, ThreadsAssumption DEF SizeIsAsked
    <2> QED
        BY <2>1, <2>2 DEF Asked
<1>4. NoneClears'
    <2>1. \A u \in Threads \ {Main} : thr[u].pc \notin {"read", "bytes", "arg", "after"}
        BY <1>1, ThreadsAssumption DEF OneWriter, Writing
    <2> QED
        BY <1>2, <2>1 DEF NoneClears, FramesMove
<1>5. queue = <<>>
    BY <1>1 DEF MainIsServed, MainPolls
<1>6. MainPolls' /\ MainHasSaidSo' /\ MainFills'
    BY <1>1, <1>2, <1>3, <1>4, <1>5 DEF MainPolls, MainHasSaidSo, MainFills
<1>7. BlocksAreAnnounced'
    BY <1>1, <1>2 DEF MainIsServed, BlocksAreAnnounced, MessageOf
<1> QED
    BY <1>6, <1>7 DEF MainIsServed

(* A step that leaves the heap alone chooses no block.                      *)
LEMMA BlocksKeptWhenSame ==
    ASSUME heap' = heap
    PROVE  BlocksKept /\ NoneIsChosen
BY DEF BlocksKept, NoneIsChosen

(* Nor does one that hands a block over to the application.                 *)
LEMMA BlocksKeptOnReturn ==
    ASSUME ControlInv, NEW p, NEW s, heap' = [heap EXCEPT ![p].state = s]
    PROVE  BlocksKept /\ NoneIsChosen
<1>1. HeapOK
    BY DEF ControlInv
<1>2. DOMAIN heap' = DOMAIN heap
    OBVIOUS
<1>3. \A q \in DOMAIN heap : /\ heap'[q].size = heap[q].size /\ heap'[q].by = heap[q].by
                             /\ heap'[q].chosen = heap[q].chosen
    BY <1>1 DEF HeapOK, Block
<1> QED
    BY <1>2, <1>3 DEF BlocksKept, NoneIsChosen

(* Every step inside keeps thread 0 served.                                 *)
LEMMA MainInside ==
    ASSUME RowsInv, ~raced, ~raced', MainAnnounces, MainAnnounces', MainIsServed,
           NEW t \in Threads, Inside(t)
    PROVE  MainIsServed'
<1>0. /\ ControlInv /\ FramesMove(t) /\ FrameOK(thr[t]) /\ OneWriter /\ SizeIsAsked
      /\ variant = pintool_mt_sep /\ ~variant.fortran /\ thr[t] \in Frame
    BY InsideMoves, SepFacts DEF RowsInv, ControlInv, Globals, MainAnnounces
<1>1. CASE RecvNothing(t)
    <2>1. Moved(t, AfterPoll(t))
        BY <1>0, <1>1, RecvNothingStep
    <2>2. /\ thr[t].pc = "recv"
          /\ UNCHANGED <<queue, received, lib_msg, in_alloc, heap>>
        BY <1>1 DEF RecvNothing, At, tool, library
    <2>3. BlocksKept /\ NoneIsChosen
        BY <2>2, BlocksKeptWhenSame
    <2>4. thr[t].todo = 0 => thr[t].back \in {"run", "clear"}
        BY <1>0, <2>2 DEF FrameOK, InEntry, AtStat, InLibrary, InAnalysis, Polling, Freeing
    <2>5. Rests(t)
        BY <1>0, <2>1, <2>2, <2>4, SMT DEF Moved, Rests, Unsent, Writing, AfterPoll, Entered
    <2>6. queue = <<>>
        BY <1>0, <1>1 DEF RecvNothing
    <2> QED
        BY <1>0, <2>2, <2>3, <2>5, <2>6, QuietServes
<1>2. CASE Recv(t)
    BY <1>0, <1>2, RecvServes
<1>3. CASE ReadMessage(t)
    <2>1. Moved(t, "bytes")
        BY <1>0, <1>3, ReadMessageStep
    <2>2. thr[t].pc = "read" /\ UNCHANGED <<queue, received, lib_msg, heap>>
        BY <1>3 DEF ReadMessage, At, library
    <2> QED
        BY <1>0, <2>1, <2>2, ClearingServes DEF Moved
<1>4. CASE ReadSize(t)
    <2>1. Moved(t, "arg")
        BY <1>0, <1>4, ReadSizeStep
    <2>2. /\ thr[t].pc = "bytes"
          /\ UNCHANGED <<queue, received, lib_msg, in_alloc, heap>>
        BY <1>4 DEF ReadSize, At, tool, library
    <2>3. BlocksKept /\ NoneIsChosen
        BY <2>2, BlocksKeptWhenSame
    <2>5. Rests(t)
        BY <1>0, <2>1, <2>2, SMT DEF Moved, Rests, Unsent, Writing
    <2> QED
        BY <1>0, <2>2, <2>3, <2>5, QuietServes
<1>5. CASE ReadAddr(t)
    <2>1. Moved(t, "after")
        BY <1>0, <1>5, ReadAddrStep
    <2>2. /\ thr[t].pc = "arg"
          /\ UNCHANGED <<queue, received, lib_msg, in_alloc, heap>>
        BY <1>5 DEF ReadAddr, At, tool, library
    <2>3. BlocksKept /\ NoneIsChosen
        BY <2>2, BlocksKeptWhenSame
    <2>5. Rests(t)
        BY <1>0, <2>1, <2>2, SMT DEF Moved, Rests, Unsent, Writing
    <2> QED
        BY <1>0, <2>2, <2>3, <2>5, QuietServes
<1>6. CASE AllocAfter(t)
    <2>1. Moved(t, "test")
        BY <1>0, <1>6, AllocAfterStep
    <2>2. thr[t].pc = "after" /\ UNCHANGED <<queue, received, lib_msg, heap>>
        BY <1>6 DEF AllocAfter, At, library
    <2> QED
        BY <1>0, <2>1, <2>2, ClearingServes DEF Moved
<1>7. CASE TestSize(t)
    <2>1. Moved(t, IF G_var_size > 0 THEN "size" ELSE AfterPoll(t))
        BY <1>0, <1>7, TestSizeStep
    <2>2. /\ thr[t].pc = "test"
          /\ UNCHANGED <<queue, received, lib_msg, in_alloc, heap>>
        BY <1>7 DEF TestSize, At, tool, library
    <2>3. BlocksKept /\ NoneIsChosen
        BY <2>2, BlocksKeptWhenSame
    <2>4. thr[t].todo = 0 => thr[t].back \in {"run", "clear"}
        BY <1>0, <2>2 DEF FrameOK, InEntry, AtStat, InLibrary, InAnalysis, Polling, Freeing
    <2>5. Rests(t)
        BY <1>0, <2>1, <2>2, <2>4, SMT DEF Moved, Rests, Unsent, Writing, AfterPoll, Entered
    <2> QED
        BY <1>0, <2>2, <2>3, <2>5, QuietServes
<1>8. CASE WriteSize(t)
    <2>1. Moved(t, "addr")
        BY <1>0, <1>8, WriteSizeStep
    <2>2. /\ thr[t].pc = "size"
          /\ UNCHANGED <<queue, received, lib_msg, in_alloc, heap>>
        BY <1>8 DEF WriteSize, At, tool, library
    <2>3. BlocksKept /\ NoneIsChosen
        BY <2>2, BlocksKeptWhenSame
    <2>5. Rests(t)
        BY <1>0, <2>1, <2>2, SMT DEF Moved, Rests, Unsent, Writing
    <2> QED
        BY <1>0, <2>2, <2>3, <2>5, QuietServes
<1>9. CASE WriteAddr(t)
    <2>1. Moved(t, "init")
        BY <1>0, <1>9, WriteAddrStep
    <2>2. /\ thr[t].pc = "addr"
          /\ UNCHANGED <<queue, received, lib_msg, in_alloc, heap>>
        BY <1>9 DEF WriteAddr, At, tool, library
    <2>3. BlocksKept /\ NoneIsChosen
        BY <2>2, BlocksKeptWhenSame
    <2>5. Rests(t)
        BY <1>0, <2>1, <2>2, SMT DEF Moved, Rests, Unsent, Writing
    <2> QED
        BY <1>0, <2>2, <2>3, <2>5, QuietServes
<1>10. CASE InitVariable(t)
    <2>1. Moved(t, "load")
        BY <1>0, <1>10, InitVariableStep
    <2>2. /\ thr[t].pc = "init"
          /\ UNCHANGED <<queue, received, lib_msg, in_alloc, heap>>
        BY <1>10 DEF InitVariable, At, tool, library
    <2>3. BlocksKept /\ NoneIsChosen
        BY <2>2, BlocksKeptWhenSame
    <2>5. Rests(t)
        BY <1>0, <2>1, <2>2, SMT DEF Moved, Rests, Unsent, Writing
    <2> QED
        BY <1>0, <2>2, <2>3, <2>5, QuietServes
<1>11. CASE LoadCount(t)
    <2>1. Moved(t, "store")
        BY <1>0, <1>11, LoadCountStep
    <2>2. /\ thr[t].pc = "load"
          /\ UNCHANGED <<queue, received, lib_msg, in_alloc, heap>>
        BY <1>11 DEF LoadCount, At, tool, library
    <2>3. BlocksKept /\ NoneIsChosen
        BY <2>2, BlocksKeptWhenSame
    <2>5. Rests(t)
        BY <1>0, <2>1, <2>2, SMT DEF Moved, Rests, Unsent, Writing
    <2> QED
        BY <1>0, <2>2, <2>3, <2>5, QuietServes
<1>12. CASE StoreCount(t)
    <2>1. Moved(t, AfterPoll(t))
        BY <1>0, <1>12, StoreCountStep
    <2>2. /\ thr[t].pc = "store"
          /\ UNCHANGED <<queue, received, lib_msg, in_alloc, heap>>
        BY <1>12 DEF StoreCount, At, tool, library
    <2>3. BlocksKept /\ NoneIsChosen
        BY <2>2, BlocksKeptWhenSame
    <2>4. thr[t].todo = 0 => thr[t].back \in {"run", "clear"}
        BY <1>0, <2>2 DEF FrameOK, InEntry, AtStat, InLibrary, InAnalysis, Polling, Freeing
    <2>5. Rests(t)
        BY <1>0, <2>1, <2>2, <2>4, SMT DEF Moved, Rests, Unsent, Writing, AfterPoll, Entered
    <2> QED
        BY <1>0, <2>2, <2>3, <2>5, QuietServes
<1>13. CASE Before(t)
    <2>1. Moved(t, IF in_alloc = 1 /\ G_var_size > 0 THEN "recv" ELSE Entered(thr[t]))
        BY <1>0, <1>13, BeforeStep
    <2>2. /\ thr[t].pc = "before"
          /\ UNCHANGED <<queue, received, lib_msg, in_alloc, heap>>
        BY <1>13 DEF Before, At, tool, library
    <2>3. BlocksKept /\ NoneIsChosen
        BY <2>2, BlocksKeptWhenSame
    <2>5. Rests(t)
        BY <1>0, <2>1, <2>2, SMT DEF Moved, Rests, Unsent, Writing, Entered
    <2> QED
        BY <1>0, <2>2, <2>3, <2>5, QuietServes
<1>14. CASE Retire(t)
    <2>1. Moved(t, "set")
        BY <1>0, <1>14, RetireStep
    <2>2. /\ thr[t].pc = "retire"
          /\ UNCHANGED <<queue, received, lib_msg, in_alloc, heap>>
        BY <1>14 DEF Retire, At, tool, library
    <2>3. BlocksKept /\ NoneIsChosen
        BY <2>2, BlocksKeptWhenSame
    <2>5. Rests(t)
        BY <1>0, <2>1, <2>2, SMT DEF Moved, Rests, Unsent, Writing
    <2> QED
        BY <1>0, <2>2, <2>3, <2>5, QuietServes
<1>15. CASE SetSize(t)
    <2>1. FramesMove(t) /\ thr'[t].pc = "stat"
        BY <1>0, <1>15, SetSizeStep
    <2>2. /\ thr[t].pc = "set"
          /\ UNCHANGED <<queue, received, lib_msg, in_alloc, heap>>
        BY <1>15 DEF SetSize, At, tool, library
    <2>3. BlocksKept /\ NoneIsChosen
        BY <2>2, BlocksKeptWhenSame
    <2>5. Rests(t)
        BY <1>0, <2>1, <2>2, SMT DEF Moved, Rests, Unsent, Writing
    <2> QED
        BY <1>0, <2>2, <2>3, <2>5, QuietServes
<1>16. CASE ChangeAllocStat(t)
    <2>1. CASE t = Main
        BY <1>0, <1>16, <2>1, StatServes
    <2>2. CASE t # Main
        <3>1. Moved(t, IF thr[t].todo = 0 THEN thr[t].back ELSE "before")
            BY <1>0, <1>16, ChangeAllocStatStep
        <3>2. UNCHANGED <<queue, received, lib_msg, heap>> /\ in_alloc' \in {in_alloc, 1}
            BY <1>16 DEF ChangeAllocStat, library
        <3>3. thr'[t].pc \notin {"read", "bytes", "arg", "after"}
            BY <1>0, <3>1 DEF Moved, Frame
        <3> QED
            BY <1>0, <2>2, <3>2, <3>3, BlocksKeptWhenSame, OthersAreQuiet
    <2> QED
        BY <2>1, <2>2
<1>17. CASE CallReturns(t)
    <2>1. Returned(t)
        BY <1>0, <1>17, CallReturnsStep
    <2>2. thr[t].pc \in {"return", "hook"} /\ UNCHANGED <<queue, received, lib_msg, in_alloc>>
        BY <1>17 DEF CallReturns, At, tool, library
    <2>3. BlocksKept /\ NoneIsChosen
        BY <1>0, <1>17, BlocksKeptOnReturn DEF CallReturns, Return
    <2>5. Rests(t)
        BY <1>0, <2>1, <2>2, SMT DEF Returned, Rests, Unsent, Writing
    <2> QED
        BY <1>0, <2>2, <2>3, <2>5, QuietServes
<1>18. CASE Hook(t)
    <2>1. /\ FramesMove(t) /\ thr'[t].pc = "setflag" /\ thr'[t].back = thr[t].back
          /\ thr'[t].size = thr[t].size
        BY <1>0, <1>18, HookStep
    <2>2. /\ thr[t].pc = "hook"
          /\ UNCHANGED <<queue, received, lib_msg, in_alloc, heap>>
        BY <1>18 DEF Hook, At, tool, library
    <2>3. BlocksKept /\ NoneIsChosen
        BY <2>2, BlocksKeptWhenSame
    <2>5. Rests(t)
        BY <1>0, <2>1, <2>2, SMT DEF Moved, Rests, Unsent, Writing
    <2> QED
        BY <1>0, <2>2, <2>3, <2>5, QuietServes
<1>19. CASE SetFlag(t)
    <2>1. Moved(t, "show")
        BY <1>0, <1>19, SetFlagStep
    <2>2. /\ thr[t].pc = "setflag"
          /\ UNCHANGED <<queue, received, lib_msg, in_alloc, heap>>
        BY <1>19 DEF SetFlag, At, tool, library
    <2>3. BlocksKept /\ NoneIsChosen
        BY <2>2, BlocksKeptWhenSame
    <2>5. Rests(t)
        BY <1>0, <2>1, <2>2, SMT DEF Moved, Rests, Unsent, Writing
    <2> QED
        BY <1>0, <2>2, <2>3, <2>5, QuietServes
<1>20. CASE NestedMalloc(t)
    <2>1. FramesMove(t) /\ thr'[t].pc \in {"recv", "retire", "set"}
        BY <1>0, <1>20, NestedMallocStep DEF Entered
    <2>2. /\ thr[t].pc = "show"
          /\ UNCHANGED <<queue, received, lib_msg, in_alloc, heap>>
        BY <1>20 DEF NestedMalloc, At, tool, library
    <2>3. BlocksKept /\ NoneIsChosen
        BY <2>2, BlocksKeptWhenSame
    <2>5. Rests(t)
        BY <1>0, <2>1, <2>2, SMT DEF Moved, Rests, Unsent, Writing
    <2> QED
        BY <1>0, <2>2, <2>3, <2>5, QuietServes
<1>21. CASE NestedHook(t)
    <2>1. Moved(t, IF trace_flag THEN "show" ELSE "setflag")
        BY <1>0, <1>21, NestedHookStep
    <2>2. /\ thr[t].pc = "nested"
          /\ UNCHANGED <<queue, received, lib_msg, in_alloc, heap>>
        BY <1>21 DEF NestedHook, At, tool, library
    <2>3. BlocksKept /\ NoneIsChosen
        BY <2>2, BlocksKeptWhenSame
    <2>5. Rests(t)
        BY <1>0, <2>1, <2>2, SMT DEF Moved, Rests, Unsent, Writing
    <2> QED
        BY <1>0, <2>2, <2>3, <2>5, QuietServes
<1>22. CASE NestedReturns(t)
    <2>1. Moved(t, "show")
        BY <1>0, <1>22, NestedReturnsStep
    <2>2. /\ thr[t].pc = "show"
          /\ UNCHANGED <<queue, received, lib_msg, in_alloc, heap>>
        BY <1>22 DEF NestedReturns, At, tool, library
    <2>3. BlocksKept /\ NoneIsChosen
        BY <2>2, BlocksKeptWhenSame
    <2>5. Rests(t)
        BY <1>0, <2>1, <2>2, SMT DEF Moved, Rests, Unsent, Writing
    <2> QED
        BY <1>0, <2>2, <2>3, <2>5, QuietServes
<1>23. CASE FillAddr(t)
    <2>1. CASE t = Main
        BY <1>0, <1>23, <2>1, FillAddrServes
    <2>2. CASE t # Main
        <3>1. thr[t].pc = "show" /\ heap' = [heap EXCEPT ![thr[t].ptr].chosen = TRUE]
            BY <1>23 DEF FillAddr, At
        <3>2. CallOK(t) /\ HeapOK
            BY <1>0 DEF ControlInv
        <3>3. thr[t].back # "run"
            BY <1>0, <3>1 DEF FrameOK, InEntry, AtStat, InLibrary, InAnalysis, Polling,
               Freeing
        <3>4. thr[t].ptr \in DOMAIN heap /\ heap[thr[t].ptr].by = t
            BY <3>2, <3>3 DEF CallOK
        <3>5. /\ thr[t].ptr \in DOMAIN heap'
              /\ heap'[thr[t].ptr].chosen = TRUE /\ heap'[thr[t].ptr].by = t
            BY <3>1, <3>2, <3>4 DEF HeapOK, Block
        <3> QED
            BY <2>2, <3>5 DEF MainAnnounces
    <2> QED
        BY <2>1, <2>2
<1>24. CASE FillSize(t)
    <2>1. CASE t = Main
        BY <1>0, <1>24, <2>1, FillSizeServes
    <2>2. CASE t # Main
        <3>1. thr[t].pc = "fill"
            BY <1>24 DEF FillSize, At
        <3>2. CallOK(t)
            BY <1>0 DEF ControlInv
        <3>3. thr[t].back # "run"
            BY <1>0, <3>1 DEF FrameOK, InEntry, AtStat, InLibrary, InAnalysis, Polling,
               Freeing
        <3>4. /\ thr[t].ptr \in DOMAIN heap /\ heap[thr[t].ptr].by = t
              /\ heap[thr[t].ptr].chosen
            BY <3>1, <3>2, <3>3 DEF CallOK
        <3> QED
            BY <2>2, <3>4 DEF MainAnnounces
    <2> QED
        BY <2>1, <2>2
<1>25. CASE Send(t)
    <2>1. CASE t = Main
        BY <1>0, <1>25, <2>1, SendServes
    <2>2. CASE t # Main
        <3>1. thr[t].pc = "send"
            BY <1>25 DEF Send, At
        <3>2. CallOK(t)
            BY <1>0 DEF ControlInv
        <3>3. thr[t].back # "run"
            BY <1>0, <3>1 DEF FrameOK, InEntry, AtStat, InLibrary, InAnalysis, Polling,
               Freeing
        <3>4. /\ thr[t].ptr \in DOMAIN heap /\ heap[thr[t].ptr].by = t
              /\ heap[thr[t].ptr].chosen
            BY <3>1, <3>2, <3>3 DEF CallOK
        <3> QED
            BY <2>2, <3>4 DEF MainAnnounces
    <2> QED
        BY <2>1, <2>2
<1>26. CASE ClearFlag(t)
    <2>1. Returned(t)
        BY <1>0, <1>26, ClearFlagStep
    <2>2. thr[t].pc \in {"clear", "show"} /\ UNCHANGED <<queue, received, lib_msg, in_alloc>>
        BY <1>26 DEF ClearFlag, At, tool, library
    <2>3. BlocksKept /\ NoneIsChosen
        BY <1>0, <1>26, BlocksKeptOnReturn DEF ClearFlag, Return
    <2>5. Rests(t)
        BY <1>0, <2>1, <2>2, SMT DEF Returned, Rests, Unsent, Writing
    <2> QED
        BY <1>0, <2>2, <2>3, <2>5, QuietServes
<1>27. CASE FreeHook(t)
    <2>1. Moved(t, IF trace_flag THEN "freep" ELSE "freeset")
        BY <1>0, <1>27, FreeHookStep
    <2>2. /\ thr[t].pc = "free"
          /\ UNCHANGED <<queue, received, lib_msg, in_alloc, heap>>
        BY <1>27 DEF FreeHook, At, tool, library
    <2>3. BlocksKept /\ NoneIsChosen
        BY <2>2, BlocksKeptWhenSame
    <2>5. Rests(t)
        BY <1>0, <2>1, <2>2, SMT DEF Moved, Rests, Unsent, Writing
    <2> QED
        BY <1>0, <2>2, <2>3, <2>5, QuietServes
<1>28. CASE FreeSetFlag(t)
    <2>1. Moved(t, "freeclear")
        BY <1>0, <1>28, FreeSetFlagStep
    <2>2. /\ thr[t].pc = "freeset"
          /\ UNCHANGED <<queue, received, lib_msg, in_alloc, heap>>
        BY <1>28 DEF FreeSetFlag, At, tool, library
    <2>3. BlocksKept /\ NoneIsChosen
        BY <2>2, BlocksKeptWhenSame
    <2>5. Rests(t)
        BY <1>0, <2>1, <2>2, SMT DEF Moved, Rests, Unsent, Writing
    <2> QED
        BY <1>0, <2>2, <2>3, <2>5, QuietServes
<1>29. CASE FreeClearFlag(t)
    <2>1. Moved(t, "freep")
        BY <1>0, <1>29, FreeClearFlagStep
    <2>2. /\ thr[t].pc = "freeclear"
          /\ UNCHANGED <<queue, received, lib_msg, in_alloc, heap>>
        BY <1>29 DEF FreeClearFlag, At, tool, library
    <2>3. BlocksKept /\ NoneIsChosen
        BY <2>2, BlocksKeptWhenSame
    <2>5. Rests(t)
        BY <1>0, <2>1, <2>2, SMT DEF Moved, Rests, Unsent, Writing
    <2> QED
        BY <1>0, <2>2, <2>3, <2>5, QuietServes
<1>30. CASE LibcFree(t)
    <2>1. Returned(t)
        BY <1>0, <1>30, LibcFreeStep
    <2>2. /\ thr[t].pc = "freep"
          /\ UNCHANGED <<queue, received, lib_msg, in_alloc, heap>>
        BY <1>30 DEF LibcFree, At, tool, library
    <2>3. BlocksKept /\ NoneIsChosen
        BY <2>2, BlocksKeptWhenSame
    <2>5. Rests(t)
        BY <1>0, <2>1, <2>2, SMT DEF Returned, Rests, Unsent, Writing
    <2> QED
        BY <1>0, <2>2, <2>3, <2>5, QuietServes
<1>31. CASE GetLock(t)
    <2>1. CASE t = Main
        BY <1>0, <1>31, <2>1, GetLockServes
    <2>2. CASE t # Main
        <3>1. Moved(t, IF variant.polls /\ in_alloc = 1 THEN "recv" ELSE "scan")
            BY <1>0, <1>31, GetLockStep
        <3>2. UNCHANGED <<queue, received, lib_msg, heap, in_alloc>>
            BY <1>31 DEF GetLock, tool, library
        <3>3. thr'[t].pc \notin {"read", "bytes", "arg", "after"}
            BY <3>1 DEF Moved
        <3> QED
            BY <1>0, <2>2, <3>2, <3>3, BlocksKeptWhenSame, OthersAreQuiet
    <2> QED
        BY <2>1, <2>2
<1>32. CASE NoOwner(t)
    <2>1. Moved(t, thr[t].back)
        BY <1>0, <1>32, NoOwnerStep
    <2>2. /\ thr[t].pc = "scan"
          /\ UNCHANGED <<queue, received, lib_msg, in_alloc, heap>>
        BY <1>32 DEF NoOwner, At, tool, library
    <2>3. BlocksKept /\ NoneIsChosen
        BY <2>2, BlocksKeptWhenSame
    <2>4. thr[t].back \in {"run", "clear"}
        BY <1>0, <2>2 DEF FrameOK, InEntry, AtStat, InLibrary, InAnalysis, Polling, Freeing
    <2>5. Rests(t)
        BY <1>0, <2>1, <2>2, <2>4, SMT DEF Moved, Rests, Unsent, Writing
    <2> QED
        BY <1>0, <2>2, <2>3, <2>5, QuietServes
<1>33. CASE Scan(t)
    <2>1. Moved(t, "credit")
        BY <1>0, <1>33, ScanStep
    <2>2. /\ thr[t].pc = "scan"
          /\ UNCHANGED <<queue, received, lib_msg, in_alloc, heap>>
        BY <1>33 DEF Scan, At, tool, library
    <2>3. BlocksKept /\ NoneIsChosen
        BY <2>2, BlocksKeptWhenSame
    <2>5. Rests(t)
        BY <1>0, <2>1, <2>2, SMT DEF Moved, Rests, Unsent, Writing
    <2> QED
        BY <1>0, <2>2, <2>3, <2>5, QuietServes
<1>34. CASE Credit(t)
    <2>1. Moved(t, thr[t].back)
        BY <1>0, <1>34, CreditStep
    <2>2. /\ thr[t].pc = "credit"
          /\ UNCHANGED <<queue, received, lib_msg, in_alloc, heap>>
        BY <1>34 DEF Credit, At, tool, library
    <2>3. BlocksKept /\ NoneIsChosen
        BY <2>2, BlocksKeptWhenSame
    <2>4. thr[t].back \in {"run", "clear"}
        BY <1>0, <2>2 DEF FrameOK, InEntry, AtStat, InLibrary, InAnalysis, Polling, Freeing
    <2>5. Rests(t)
        BY <1>0, <2>1, <2>2, <2>4, SMT DEF Moved, Rests, Unsent, Writing
    <2> QED
        BY <1>0, <2>2, <2>3, <2>5, QuietServes
<1> QED
    BY <1>1, <1>2, <1>3, <1>4, <1>5, <1>6, <1>7, <1>8, <1>9, <1>10, <1>11, <1>12,
       <1>13, <1>14, <1>15, <1>16, <1>17, <1>18, <1>19, <1>20, <1>21, <1>22,
       <1>23, <1>24, <1>25, <1>26, <1>27, <1>28, <1>29, <1>30, <1>31, <1>32,
       <1>33, <1>34
    DEF Inside

(* Nor does a call that adds a block.                                       *)
LEMMA BlocksKeptOnMalloc ==
    ASSUME ControlInv, NEW t \in Threads, NEW n \in Sizes, NEW old \in Live \cup {0},
           Malloc(t, n, old)
    PROVE  BlocksKept /\ NoneIsChosen
<1>1. BlockAdded(t, n, old) /\ HeapOK
    BY MallocHeap DEF ControlInv
<1>2. \A p \in DOMAIN heap : p # old => heap'[p] = heap[p]
    BY <1>1 DEF BlockAdded
<1>3. /\ DOMAIN heap' = DOMAIN heap \cup {Fresh} /\ heap'[Fresh].chosen = FALSE
      /\ old # 0 => old \in DOMAIN heap /\ heap'[old] = [heap[old] EXCEPT !.state = "freed"]
    BY <1>1 DEF BlockAdded
<1>4. old \in DOMAIN heap =>
        /\ heap'[old].size = heap[old].size /\ heap'[old].by = heap[old].by
        /\ heap'[old].chosen = heap[old].chosen
    <2>1. ASSUME old \in DOMAIN heap PROVE old # 0 /\ heap[old] \in Block
        BY <1>1, <2>1 DEF HeapOK
    <2> QED
        BY <1>3, <2>1 DEF Block
<1>5. BlocksKept
    BY <1>2, <1>3, <1>4 DEF BlocksKept
<1>6. ASSUME NEW p \in DOMAIN heap', heap'[p].chosen
      PROVE  p \in DOMAIN heap /\ heap[p].chosen
    <2>1. p \in DOMAIN heap
        BY <1>3, <1>6
    <2> QED
        BY <1>2, <1>4, <1>6, <2>1
<1> QED
    BY <1>5, <1>6 DEF NoneIsChosen

(* Every step of the application keeps thread 0 served.                     *)
LEMMA MainApplication ==
    ASSUME RowsInv, ~raced, MainAnnounces, MainIsServed, NEW t \in Threads, Application(t)
    PROVE  MainIsServed'
<1>0. ControlInv /\ variant = pintool_mt_sep /\ ~variant.fortran /\ FrameOK(thr[t])
    BY SepFacts DEF RowsInv, MainAnnounces, ControlInv
<1>1. ASSUME FramesMove(t), UNCHANGED <<queue, received, lib_msg, in_alloc>>,
             thr[t].pc = "run", thr'[t].pc \in {"recv", "retire", "set", "lock", "free"},
             thr'[t].pc \in {"lock", "free"} => thr'[t].back = "run",
             BlocksKept, NoneIsChosen
      PROVE  MainIsServed'
    <2>1. Rests(t)
        BY <1>1 DEF Rests, Unsent, Writing
    <2> QED
        BY <1>0, <1>1, <2>1, QuietServes
<1>2. CASE \E n \in Sizes, old \in Live \cup {0} : Malloc(t, n, old)
    <2>1. PICK n \in Sizes, old \in Live \cup {0} : Malloc(t, n, old)
        BY <1>2
    <2>2. FramesMove(t) /\ thr'[t].pc \in {"recv", "retire", "set"}
        BY <1>0, <2>1, MallocStep
    <2>3. thr[t].pc = "run" /\ UNCHANGED <<queue, received, lib_msg, in_alloc>>
        BY <2>1 DEF Malloc, At, tool, library
    <2>4. BlocksKept /\ NoneIsChosen
        BY <1>0, <2>1, BlocksKeptOnMalloc
    <2> QED
        BY <1>1, <2>2, <2>3, <2>4
<1>3. CASE \E p \in Live : Free(t, p)
    <2>1. PICK p \in Live : Free(t, p)
        BY <1>3
    <2>2. FramesMove(t) /\ thr'[t].pc = "free" /\ thr'[t].back = "run"
        BY <1>0, <2>1, FreeStep
    <2>3. /\ thr[t].pc = "run" /\ UNCHANGED <<queue, received, lib_msg, in_alloc>>
          /\ heap' = [heap EXCEPT ![p].state = "freed"]
        BY <2>1 DEF Free, At, library
    <2>4. BlocksKept /\ NoneIsChosen
        BY <1>0, <2>3, BlocksKeptOnReturn
    <2> QED
        BY <1>1, <2>2, <2>3, <2>4
<1>4. ASSUME NEW a \in Nat, Access(t, a) PROVE MainIsServed'
    <2>1. FramesMove(t) /\ thr'[t].pc = "lock" /\ thr'[t].back = "run"
        BY <1>0, <1>4, AccessStep
    <2>2. thr[t].pc = "run" /\ UNCHANGED <<queue, received, lib_msg, in_alloc, heap>>
        BY <1>4 DEF Access, At, tool, library
    <2> QED
        BY <1>1, <2>1, <2>2, BlocksKeptWhenSame
<1> QED
    BY <1>0, <1>2, <1>3, <1>4, TouchedFacts DEF Application

MainInv == RowsInv /\ (~raced /\ MainAnnounces => MainIsServed)

(* Steps inside keep the blocks that were chosen.                           *)
LEMMA InsideKeepsBlocks ==
    ASSUME ControlInv, NEW t \in Threads, Inside(t)
    PROVE  BlocksKept
<1>0. FrameOK(thr[t]) /\ HeapOK
    BY DEF ControlInv
<1>1. CASE CallReturns(t) \/ ClearFlag(t)
    BY <1>1, BlocksKeptOnReturn DEF CallReturns, ClearFlag, Return
<1>2. CASE FillAddr(t)
    <2>1. heap' = [heap EXCEPT ![thr[t].ptr].chosen = TRUE]
        BY <1>2 DEF FillAddr
    <2> QED
        BY <1>0, <2>1 DEF BlocksKept, HeapOK, Block
<1>3. CASE ~(CallReturns(t) \/ ClearFlag(t) \/ FillAddr(t))
    <2>1. heap' = heap
        BY <1>3
        DEF Inside, RecvNothing, Recv, ReadMessage, ReadSize, ReadAddr, AllocAfter, TestSize,
            WriteSize, WriteAddr, InitVariable, LoadCount, StoreCount, Before, Retire,
            SetSize, ChangeAllocStat, Hook, SetFlag, NestedMalloc, NestedHook, NestedReturns,
            FillSize, Send, FreeHook, FreeSetFlag, FreeClearFlag, LibcFree, GetLock, NoOwner,
            Scan, Credit
    <2> QED
        BY <2>1, BlocksKeptWhenSame
<1> QED
    BY <1>1, <1>2, <1>3

(* So do those of the application.                                          *)
LEMMA ApplicationKeepsBlocks ==
    ASSUME ControlInv, NEW t \in Threads, Application(t)
    PROVE  BlocksKept
<1>1. \A n \in Sizes, old \in Live \cup {0} : Malloc(t, n, old) => BlocksKept
    BY BlocksKeptOnMalloc
<1>2. ASSUME NEW p \in Live, Free(t, p)
      PROVE  BlocksKept
    BY <1>2, BlocksKeptOnReturn DEF Free
<1>3. ASSUME NEW a \in Nat, Access(t, a)
      PROVE  BlocksKept
    BY <1>3, BlocksKeptWhenSame DEF Access
<1> QED
    BY <1>1, <1>2, <1>3, TouchedFacts DEF Application

(* Under pintool_mt_sep, while only thread 0 announces and nobody races, a  *)
(* block of thread 0 that is chosen is on its way: in the buffer, in the    *)
(* queue, being filled or in the table (RecordMemReadMTsep).                *)
THEOREM MainInvariance == Spec => []MainInv
<1>1. Init => MainInv
    <2> SUFFICES ASSUME Init PROVE MainInv
        OBVIOUS
    <2>1. queue = <<>> /\ DOMAIN heap = {} /\ Main \in Threads
        BY ThreadsAssumption DEF Init
    <2>2. thr[Main].pc = "run" /\ thr[Main].back = "run"
        BY <2>1, IdleFields DEF Init
    <2>3. MainIsServed
        BY <2>1, <2>2
        DEF MainIsServed, MainPolls, MainHasSaidSo, MainFills, BlocksAreAnnounced,
                          Unsent
    <2> QED
        BY <2>3, RowsStart DEF MainInv
<1>2. MainInv /\ [Next]_vars => MainInv'
    <2> SUFFICES ASSUME MainInv, [Next]_vars PROVE MainInv'
        OBVIOUS
    <2>1. ASSUME NEW t \in Threads, Inside(t) PROVE MainInv'
        <3>1. FramesMove(t) /\ BlocksKept
            BY <2>1, InsideMoves, InsideKeepsBlocks DEF MainInv, RowsInv
        <3>2. variant' = variant /\ (~raced' => ~raced)
            BY <3>1 DEF FramesMove
        <3>3. MainAnnounces' => MainAnnounces
            BY <3>1, <3>2, AnnouncesBefore
        <3> QED
            BY <2>1, <3>2, <3>3, RowsInside, MainInside DEF MainInv
    <2>2. ASSUME NEW t \in Threads, Application(t) PROVE MainInv'
        <3>1. UNCHANGED variant /\ (raced => raced')
            BY <2>2, ApplicationMoves DEF MainInv, RowsInv
        <3>2. MainAnnounces' => MainAnnounces
            BY <2>2, <3>1, ApplicationKeepsBlocks, AnnouncesBefore DEF MainInv, RowsInv
        <3>3. ~raced' /\ MainAnnounces' => MainIsServed'
            BY <2>2, <3>1, <3>2, MainApplication DEF MainInv
        <3> QED
            BY <2>2, <3>3, RowsApplication DEF MainInv
    <2>3. CASE Exit \/ UNCHANGED vars
        <3>1. UNCHANGED vars
            BY <2>3 DEF Exit
        <3>2. (~raced /\ MainAnnounces => MainIsServed)'
            BY <3>1
            DEF MainInv, MainAnnounces, MainIsServed, MainPolls, MainHasSaidSo,
                MainFills,
                BlocksAreAnnounced, MessageOf, NoneClears, Unsent, Writing, vars, tool, library
        <3> QED
            BY <3>1, <3>2, RowsStutter DEF MainInv
    <2> QED
        BY <2>1, <2>2, <2>3 DEF Next
<1> QED
    BY <1>1, <1>2, PTL DEF Spec

(* When thread 0 runs its own code, its live announced blocks have been     *)
(* received: each has its row or is the message that another thread has     *)
(* still to publish.                                                        *)
LEMMA MainIsRegistered ==
    ASSUME MainInv
    PROVE  SepRegistersMain
<1> SUFFICES ASSUME variant = pintool_mt_sep, ~raced,
                    \A p \in DOMAIN heap : heap[p].chosen => heap[p].by = Main,
                    thr[Main].pc = "run",
                    NEW p \in Live, heap[p].chosen
             PROVE  \/ \E i \in 1 .. count :
                          table[i].addr = p /\ table[i].size = heap[p].size
                    \/ /\ Filling \notin {{}, {Main}}
                       /\ received[count + 1] = [addr |-> p, size |-> heap[p].size]
    BY DEF SepRegistersMain, At
<1>1. MainIsServed /\ RowsOK /\ ControlInv /\ OneWriter
    BY DEF MainInv, MainAnnounces, RowsInv
<1>2. ~variant.fortran
    BY SepFacts
<1>3. queue = <<>>
    BY <1>1 DEF MainIsServed, MainPolls
<1>4. p \in DOMAIN heap /\ heap[p].state = "live"
    BY DEF Live
<1>5. PICK k \in DOMAIN received : received[k] = MessageOf(p)
    BY <1>1, <1>3, <1>4 DEF MainIsServed, BlocksAreAnnounced
<1>6. /\ received \in Seq(Message) /\ Len(received) = count + Cardinality(Filling)
      /\ count \in Nat /\ Cardinality(Filling) \in Nat
      /\ Cardinality(Filling) = 0 <=> Filling = {}
    <2>1. Filling \subseteq Threads
        BY DEF Filling
    <2> QED
        BY <1>1, <2>1, SubsetsAreFinite DEF ControlInv, Globals, RowsOK
<1>7. CASE k \in 1 .. count
    <2>1. RowOK(table[k], received[k])
        BY <1>1, <1>7 DEF RowsOK
    <2>2. received[k].addr = p /\ received[k].size = heap[p].size
        BY <1>5 DEF MessageOf
    <2>3. table[k].size = heap[p].size /\ table[k].addr = p
        BY <1>2, <1>4, <2>1, <2>2 DEF RowOK, Placed
    <2> QED
        BY <1>7, <2>3
<1>8. CASE k \notin 1 .. count
    <2>1. Cardinality(Filling) <= 1
        <3>1. CASE Filling = {}
            BY <1>6, <3>1
        <3>2. ASSUME NEW u \in Filling PROVE Cardinality(Filling) = 1
            <4>1. u \in Threads /\ Writing(u)
                BY DEF Filling, Writing
            <4> QED
                BY <1>1, <4>1, OneIsFilling
        <3> QED
            BY <3>1, <3>2
    <2>2. k = count + 1 /\ Filling # {}
        <3> DEFINE n == Len(received)
        <3>1. k \in 1 .. n
            BY <1>5, <1>6
        <3> QED
            BY <1>6, <1>8, <2>1, <3>1
    <2>3. Main \notin Filling
        BY DEF Filling
    <2>4. received[count + 1] = [addr |-> p, size |-> heap[p].size]
        BY <1>5, <2>2 DEF MessageOf
    <2> QED
        BY <2>2, <2>3, <2>4
<1> QED
    BY <1>7, <1>8

(* pintool_mt_sep, while only thread 0 announces blocks and nobody races:   *)
(* whenever it runs its own code, each of its live announced blocks is in   *)
(* the table, or is the message another thread is turning into the next     *)
(* row, although the other threads' allocations reset in_alloc and read     *)
(* the queue.                                                               *)
THEOREM MainIsAlwaysRegistered == Spec => []SepRegistersMain
BY MainInvariance, MainIsRegistered, PTL

-----------------------------------------------------------------------------
(* Two threads that race.                                                   *)

(* What in_alloc is worth to a thread.                                      *)
LEMMA ShareFacts ==
    ASSUME ~variant.fortran, NEW r \in Frame, FrameOK(r)
    PROVE  /\ Share(0, r) \in Int /\ Share(1, r) \in Int
           /\ -1 <= Share(0, r) /\ Share(1, r) <= 4
           /\ Share(0, r) <= Share(1, r) /\ Share(1, r) <= Share(0, r) + 1
<1>1. /\ r.todo \in Nat /\ r.todo <= 2
      /\ r.pc = "stat" => r.todo <= 1
      /\ r.todo > 0 => r.back \in {"hook", "nested"}
      /\ r.todo = 0 /\ r.pc \in Polling => r.back \in {"run", "clear"}
    BY DEF Frame, FrameOK, InEntry, AtStat, InLibrary, InAnalysis, Polling, Freeing
<1> QED
    BY <1>1 DEF Share, Place, Routines, Heeds, Clears, Polling

(* The same of every thread, before and after a step.                       *)
LEMMA SharesOf ==
    ASSUME ControlInv, ~variant.fortran, NEW t \in Threads, NEW alloc \in {0, 1}
    PROVE  /\ Share(alloc, thr[t]) \in Int
           /\ -1 <= Share(alloc, thr[t]) /\ Share(alloc, thr[t]) <= 4
           /\ Share(0, thr[t]) <= Share(alloc, thr[t])
           /\ Share(alloc, thr[t]) <= Share(1, thr[t])
           /\ Share(1, thr[t]) <= Share(0, thr[t]) + 1
<1>1. thr[t] \in Frame /\ FrameOK(thr[t])
    BY DEF ControlInv, Globals
<1> QED
    BY <1>1, ShareFacts

(* A step of one thread is seen by the pair.                                *)
Pair(t, u) == Threads = {t, u} /\ t # u

LEMMA TurnsMove ==
    ASSUME ~variant.fortran, NEW t \in Threads, FramesMove(t), ControlInv',
           NoZeroRequests' => \A u \in Threads : Pair(t, u) =>
              3 * Len(queue') <= Share(in_alloc', thr'[t]) + Share(in_alloc', thr[u])
    PROVE  TwoTakeTurns'
<1> SUFFICES ASSUME NoZeroRequests', NEW a \in Threads, NEW b \in Threads, a # b,
                    Threads = {a, b}
             PROVE  3 * Len(queue') <= Share(in_alloc', thr'[a]) + Share(in_alloc', thr'[b])
    BY DEF TwoTakeTurns
<1>1. \A u \in Threads : u # t => thr'[u] = thr[u]
    BY DEF FramesMove
<1>2. \A u \in Threads : Share(in_alloc', thr'[u]) \in Int
    <2> SUFFICES ASSUME NEW u \in Threads PROVE Share(in_alloc', thr'[u]) \in Int
        OBVIOUS
    <2>1. /\ thr'[u] \in Frame /\ FrameOK(thr[u])' /\ in_alloc' \in {0, 1}
        BY DEF ControlInv, Globals
    <2>2. FrameOK(thr'[u])
        BY <2>1 DEF FramesMove, FrameOK, InEntry, AtStat, InLibrary, InAnalysis
    <2> QED
        BY <2>1, <2>2, ShareFacts
<1>3. CASE t = a
    BY <1>1, <1>3 DEF Pair
<1>4. CASE t = b
    BY <1>1, <1>2, <1>4 DEF Pair
<1> QED
    BY <1>3, <1>4

(* What the pair has before a step, if the step leaves the blocks.          *)
LEMMA TurnsTaken ==
    ASSUME ControlInv, TwoTakeTurns, BlocksKept, NEW t \in Threads, NEW u \in Threads,
           Pair(t, u), NoZeroRequests'
    PROVE  /\ in_alloc \in {0, 1} /\ Len(queue) \in Nat /\ NoZeroRequests
           /\ in_alloc = 1 => G_var_size > 0
           /\ 3 * Len(queue) <= Share(in_alloc, thr[t]) + Share(in_alloc, thr[u])
<1>1. in_alloc \in {0, 1} /\ queue \in Seq(Message) /\ SizesArePositive
    BY DEF ControlInv, Globals
<1>2. NoZeroRequests
    BY DEF NoZeroRequests, BlocksKept
<1> QED
    BY <1>1, <1>2 DEF TwoTakeTurns, Pair, SizesArePositive

(* A step that leaves the queue alone: its thread makes up for what the     *)
(* other loses.                                                             *)
LEMMA TurnsKept ==
    ASSUME ControlInv, ControlInv', TwoTakeTurns, BlocksKept, ~variant.fortran,
           NEW t \in Threads, FramesMove(t), queue' = queue,
           NoZeroRequests =>
               /\ Share(in_alloc, thr[t]) <= Share(in_alloc', thr'[t])
               /\ in_alloc' = in_alloc \/ in_alloc' = 1
                  \/ Share(in_alloc, thr[t]) + 1 <= Share(in_alloc', thr'[t])
    PROVE  TwoTakeTurns'
<1>1. ASSUME NoZeroRequests', NEW u \in Threads, Pair(t, u)
      PROVE  3 * Len(queue') <= Share(in_alloc', thr'[t]) + Share(in_alloc', thr[u])
    <2>1. /\ in_alloc \in {0, 1} /\ Len(queue) \in Nat /\ NoZeroRequests
          /\ 3 * Len(queue) <= Share(in_alloc, thr[t]) + Share(in_alloc, thr[u])
        BY <1>1, TurnsTaken
    <2>2. in_alloc' \in {0, 1}
        BY DEF ControlInv, Globals
    <2>3. /\ Share(in_alloc, thr[t]) \in Int
          /\ Share(in_alloc, thr[u]) \in Int /\ Share(in_alloc', thr[u]) \in Int
          /\ Share(0, thr[u]) \in Int /\ Share(1, thr[u]) \in Int
          /\ Share(0, thr[u]) <= Share(1, thr[u]) /\ Share(1, thr[u]) <= Share(0, thr[u]) + 1
        BY <2>1, <2>2, SharesOf
    <2>4. Share(in_alloc', thr'[t]) \in Int
        <3>1. /\ thr'[t] \in Frame /\ FrameOK(thr[t])'
            BY DEF FramesMove
        <3>2. FrameOK(thr'[t])
            BY <3>1 DEF FramesMove, FrameOK, InEntry, AtStat, InLibrary, InAnalysis
        <3> QED
            BY <2>2, <3>1, <3>2, ShareFacts
    <2>5. \/ Share(in_alloc, thr[u]) <= Share(in_alloc', thr[u])
          \/ /\ in_alloc = 1 /\ in_alloc' = 0
             /\ Share(in_alloc, thr[u]) <= Share(in_alloc', thr[u]) + 1
        <3>1. CASE in_alloc = in_alloc'
            BY <2>3, <3>1
        <3>2. CASE in_alloc = 0 /\ in_alloc' = 1
            BY <2>3, <3>2
        <3>3. CASE in_alloc = 1 /\ in_alloc' = 0
            BY <2>3, <3>3
        <3> QED
            BY <2>1, <2>2, <3>1, <3>2, <3>3
    <2>6. /\ Share(in_alloc, thr[t]) <= Share(in_alloc', thr'[t])
          /\ in_alloc' = in_alloc \/ in_alloc' = 1
             \/ Share(in_alloc, thr[t]) + 1 <= Share(in_alloc', thr'[t])
        BY <2>1
    <2> DEFINE a == Share(in_alloc, thr[t])
               b == Share(in_alloc, thr[u])
               c == Share(in_alloc', thr'[t])
               d == Share(in_alloc', thr[u])
    <2>7. /\ a \in Int /\ b \in Int /\ c \in Int /\ d \in Int /\ a <= c
          /\ 3 * Len(queue') <= a + b /\ Len(queue') \in Nat
          /\ b <= d \/ (b <= d + 1 /\ a + 1 <= c)
        BY <2>1, <2>3, <2>4, <2>5, <2>6
    <2> HIDE DEF a, b, c, d
    <2>8. 3 * Len(queue') <= c + d
        BY <2>7
    <2> QED
        BY <2>8 DEF c, d
<1> QED
    BY <1>1, TurnsMove

(* A poll that finds nothing.                                               *)
LEMMA RecvNothingTurns ==
    ASSUME ControlInv, ControlInv', TwoTakeTurns, BlocksKept, ~variant.fortran,
           NEW t \in Threads, RecvNothing(t)
    PROVE  TwoTakeTurns'
<1>1. Moved(t, AfterPoll(t))
    BY RecvNothingStep
<1>2. thr[t].pc = "recv" /\ in_alloc' = in_alloc /\ queue' = <<>>
    BY DEF RecvNothing, At, tool
<1>3. thr[t].todo \in Nat /\ (thr[t].todo = 0 => thr[t].back \in {"run", "clear"})
      /\ in_alloc \in {0, 1}
    BY <1>2 DEF ControlInv, Globals, Frame, FrameOK, InEntry, AtStat, InLibrary, InAnalysis,
                Polling, Freeing
<1>4. Share(in_alloc', thr'[t]) >= 1 /\ Share(in_alloc', thr'[t]) \in Int
    BY <1>1, <1>2, <1>3, SMT
    DEF Moved, AfterPoll, Entered, Share, Place, Routines, Heeds, Clears, Polling
<1>5. ASSUME NEW u \in Threads
      PROVE  3 * Len(queue') <= Share(in_alloc', thr'[t]) + Share(in_alloc', thr[u])
    <2>1. Share(in_alloc, thr[u]) \in Int /\ -1 <= Share(in_alloc, thr[u])
        BY <1>3, SharesOf
    <2>2. Len(queue') = 0
        BY <1>2
    <2> QED
        BY <1>2, <1>4, <2>1, <2>2
<1> QED
    BY <1>1, <1>5, TurnsMove DEF Moved

(* A poll that takes a message: its thread pays for it.                     *)
LEMMA RecvTurns ==
    ASSUME ControlInv, ControlInv', TwoTakeTurns, BlocksKept, ~variant.fortran,
           NEW t \in Threads, Recv(t)
    PROVE  TwoTakeTurns'
<1>1. Moved(t, "read")
    BY RecvStep
<1>2. thr[t].pc = "recv" /\ in_alloc' = in_alloc /\ queue' = Tail(queue) /\ queue # <<>>
    BY DEF Recv, At
<1>3. thr[t].todo \in Nat /\ in_alloc \in {0, 1} /\ queue \in Seq(Message)
    BY DEF ControlInv, Globals, Frame
<1>4. Share(in_alloc, thr[t]) <= Share(in_alloc', thr'[t]) + 3
      /\ Share(in_alloc', thr'[t]) \in Int
    BY <1>1, <1>2, <1>3, SMT DEF Moved, Share, Place, Routines, Heeds, Clears, Polling
<1>5. Len(queue') = Len(queue) - 1 /\ Len(queue) \in Nat
    BY <1>2, <1>3, HeadTailProperties
<1>6. ASSUME NoZeroRequests', NEW u \in Threads, Pair(t, u)
      PROVE  3 * Len(queue') <= Share(in_alloc', thr'[t]) + Share(in_alloc', thr[u])
    <2>1. 3 * Len(queue) <= Share(in_alloc, thr[t]) + Share(in_alloc, thr[u])
        BY <1>6, TurnsTaken
    <2>2. Share(in_alloc, thr[t]) \in Int /\ Share(in_alloc, thr[u]) \in Int
        BY <1>3, SharesOf
    <2> DEFINE a == Share(in_alloc, thr[t])
               b == Share(in_alloc, thr[u])
               c == Share(in_alloc', thr'[t])
    <2>3. /\ a \in Int /\ b \in Int /\ c \in Int /\ a <= c + 3
          /\ 3 * Len(queue) <= a + b
        BY <1>4, <2>1, <2>2
    <2>4. Share(in_alloc', thr[u]) = b
        BY <1>2
    <2> HIDE DEF a, b, c
    <2>5. 3 * Len(queue') <= c + b
        BY <1>4, <1>5, <2>3
    <2> QED
        BY <2>4, <2>5 DEF c
<1> QED
    BY <1>1, <1>6, TurnsMove DEF Moved

(* msgsnd: the thread is then outside, with three thirds more.              *)
LEMMA SendTurns ==
    ASSUME ControlInv, ControlInv', TwoTakeTurns, BlocksKept, ~variant.fortran,
           NEW t \in Threads, Send(t)
    PROVE  TwoTakeTurns'
<1>1. /\ FramesMove(t) /\ thr'[t].pc \in {"lock", "clear"}
      /\ thr'[t].back = "clear" /\ thr'[t].todo = thr[t].todo
    BY SendStep
<1>2. thr[t].pc = "send" /\ in_alloc' = in_alloc /\ queue' = Append(queue, lib_msg)
    BY DEF Send, At, tool
<1>3. /\ thr[t].todo \in Nat /\ in_alloc \in {0, 1} /\ queue \in Seq(Message)
      /\ FrameOK(thr[t])
    BY DEF ControlInv, Globals, Frame
<1>4. thr[t].back = "nested"
    BY <1>2, <1>3 DEF FrameOK, InEntry, AtStat, InLibrary, InAnalysis, Polling, Freeing
<1>5. Share(in_alloc, thr[t]) + 3 <= Share(in_alloc', thr'[t])
      /\ Share(in_alloc', thr'[t]) \in Int
    BY <1>1, <1>2, <1>3, <1>4, SMT DEF Share, Place, Routines, Heeds, Clears, Polling
<1>6. Len(queue') = Len(queue) + 1 /\ Len(queue) \in Nat
    <2>1. lib_msg \in Message
        BY <1>2 DEF ControlInv, Globals, SizesArePositive, Message
    <2> QED
        BY <1>2, <1>3, <2>1, AppendProperties
<1>7. ASSUME NoZeroRequests', NEW u \in Threads, Pair(t, u)
      PROVE  3 * Len(queue') <= Share(in_alloc', thr'[t]) + Share(in_alloc', thr[u])
    <2>1. 3 * Len(queue) <= Share(in_alloc, thr[t]) + Share(in_alloc, thr[u])
        BY <1>7, TurnsTaken
    <2>2. Share(in_alloc, thr[t]) \in Int /\ Share(in_alloc, thr[u]) \in Int
        BY <1>3, SharesOf
    <2> DEFINE a == Share(in_alloc, thr[t])
               b == Share(in_alloc, thr[u])
               c == Share(in_alloc', thr'[t])
    <2>3. /\ a \in Int /\ b \in Int /\ c \in Int /\ a + 3 <= c
          /\ 3 * Len(queue) <= a + b
        BY <1>5, <2>1, <2>2
    <2>4. Share(in_alloc', thr[u]) = b
        BY <1>2
    <2> HIDE DEF a, b, c
    <2>5. 3 * Len(queue') <= c + b
        BY <1>5, <1>6, <2>3
    <2> QED
        BY <2>4, <2>5 DEF c
<1> QED
    BY <1>1, <1>7, TurnsMove

(* Every step inside leaves the pair its bound.                             *)
LEMMA TurnsInside ==
    ASSUME ControlInv, TwoTakeTurns, ~variant.fortran, NEW t \in Threads, Inside(t)
    PROVE  TwoTakeTurns'
<1>0. /\ ControlInv /\ ControlInv' /\ FramesMove(t) /\ FrameOK(thr[t]) /\ thr[t] \in Frame
      /\ BlocksKept /\ in_alloc \in {0, 1} /\ G_var_size \in Nat /\ thr[t].todo \in Nat
    BY InsideControl, InsideMoves, InsideKeepsBlocks DEF ControlInv, Globals, Frame
<1>z. NoZeroRequests =>
        /\ in_alloc = 1 => G_var_size > 0
        /\ thr[t].pc = "stat" => G_var_size > 0
    BY DEF ControlInv, SizesArePositive
<1>1. CASE RecvNothing(t)
    BY <1>0, <1>1, RecvNothingTurns
<1>2. CASE Recv(t)
    BY <1>0, <1>2, RecvTurns
<1>3. CASE ReadMessage(t)
    <2>1. Moved(t, "bytes")
        BY <1>0, <1>3, ReadMessageStep
    <2>2. thr[t].pc = "read" /\ queue' = queue /\ in_alloc' = 0
        BY <1>3 DEF ReadMessage, At
    <2>4. NoZeroRequests =>
            /\ Share(in_alloc, thr[t]) <= Share(in_alloc', thr'[t])
            /\ in_alloc' = in_alloc \/ in_alloc' = 1
               \/ Share(in_alloc, thr[t]) + 1 <= Share(in_alloc', thr'[t])
        BY <1>0, <1>z, <2>1, <2>2, SMT
        DEF Moved, Share, Place, Routines, Heeds, Clears, Polling
    <2> QED
        BY <1>0, <2>2, <2>4, TurnsKept
<1>4. CASE ReadSize(t)
    <2>1. Moved(t, "arg")
        BY <1>0, <1>4, ReadSizeStep
    <2>2. thr[t].pc = "bytes" /\ queue' = queue /\ in_alloc' = in_alloc
        BY <1>4 DEF ReadSize, At, tool
    <2>4. NoZeroRequests =>
            /\ Share(in_alloc, thr[t]) <= Share(in_alloc', thr'[t])
            /\ in_alloc' = in_alloc \/ in_alloc' = 1
               \/ Share(in_alloc, thr[t]) + 1 <= Share(in_alloc', thr'[t])
        BY <1>0, <1>z, <2>1, <2>2, SMT
        DEF Moved, Share, Place, Routines, Heeds, Clears, Polling
    <2> QED
        BY <1>0, <2>2, <2>4, TurnsKept
<1>5. CASE ReadAddr(t)
    <2>1. Moved(t, "after")
        BY <1>0, <1>5, ReadAddrStep
    <2>2. thr[t].pc = "arg" /\ queue' = queue /\ in_alloc' = in_alloc
        BY <1>5 DEF ReadAddr, At, tool
    <2>4. NoZeroRequests =>
            /\ Share(in_alloc, thr[t]) <= Share(in_alloc', thr'[t])
            /\ in_alloc' = in_alloc \/ in_alloc' = 1
               \/ Share(in_alloc, thr[t]) + 1 <= Share(in_alloc', thr'[t])
        BY <1>0, <1>z, <2>1, <2>2, SMT
        DEF Moved, Share, Place, Routines, Heeds, Clears, Polling
    <2> QED
        BY <1>0, <2>2, <2>4, TurnsKept
<1>6. CASE AllocAfter(t)
    <2>1. Moved(t, "test")
        BY <1>0, <1>6, AllocAfterStep
    <2>2. thr[t].pc = "after" /\ queue' = queue /\ in_alloc' = 0
        BY <1>6 DEF AllocAfter, At
    <2>4. NoZeroRequests =>
            /\ Share(in_alloc, thr[t]) <= Share(in_alloc', thr'[t])
            /\ in_alloc' = in_alloc \/ in_alloc' = 1
               \/ Share(in_alloc, thr[t]) + 1 <= Share(in_alloc', thr'[t])
        BY <1>0, <1>z, <2>1, <2>2, SMT
        DEF Moved, Share, Place, Routines, Heeds, Clears, Polling
    <2> QED
        BY <1>0, <2>2, <2>4, TurnsKept
<1>7. CASE TestSize(t)
    <2>1. Moved(t, IF G_var_size > 0 THEN "size" ELSE AfterPoll(t))
        BY <1>0, <1>7, TestSizeStep
    <2>2. thr[t].pc = "test" /\ queue' = queue /\ in_alloc' = in_alloc
        BY <1>7 DEF TestSize, At, tool
    <2>4. NoZeroRequests =>
            /\ Share(in_alloc, thr[t]) <= Share(in_alloc', thr'[t])
            /\ in_alloc' = in_alloc \/ in_alloc' = 1
               \/ Share(in_alloc, thr[t]) + 1 <= Share(in_alloc', thr'[t])
        BY <1>0, <1>z, <2>1, <2>2, SMT
        DEF Moved, AfterPoll, Entered, Share, Place, Routines, Heeds, Clears, Polling
    <2> QED
        BY <1>0, <2>2, <2>4, TurnsKept
<1>8. CASE WriteSize(t)
    <2>1. Moved(t, "addr")
        BY <1>0, <1>8, WriteSizeStep
    <2>2. thr[t].pc = "size" /\ queue' = queue /\ in_alloc' = in_alloc
        BY <1>8 DEF WriteSize, At, tool
    <2>4. NoZeroRequests =>
            /\ Share(in_alloc, thr[t]) <= Share(in_alloc', thr'[t])
            /\ in_alloc' = in_alloc \/ in_alloc' = 1
               \/ Share(in_alloc, thr[t]) + 1 <= Share(in_alloc', thr'[t])
        BY <1>0, <1>z, <2>1, <2>2, SMT
        DEF Moved, Share, Place, Routines, Heeds, Clears, Polling
    <2> QED
        BY <1>0, <2>2, <2>4, TurnsKept
<1>9. CASE WriteAddr(t)
    <2>1. Moved(t, "init")
        BY <1>0, <1>9, WriteAddrStep
    <2>2. thr[t].pc = "addr" /\ queue' = queue /\ in_alloc' = in_alloc
        BY <1>9 DEF WriteAddr, At, tool
    <2>4. NoZeroRequests =>
            /\ Share(in_alloc, thr[t]) <= Share(in_alloc', thr'[t])
            /\ in_alloc' = in_alloc \/ in_alloc' = 1
               \/ Share(in_alloc, thr[t]) + 1 <= Share(in_alloc', thr'[t])
        BY <1>0, <1>z, <2>1, <2>2, SMT
        DEF Moved, Share, Place, Routines, Heeds, Clears, Polling
    <2> QED
        BY <1>0, <2>2, <2>4, TurnsKept
<1>10. CASE InitVariable(t)
    <2>1. Moved(t, "load")
        BY <1>0, <1>10, InitVariableStep
    <2>2. thr[t].pc = "init" /\ queue' = queue /\ in_alloc' = in_alloc
        BY <1>10 DEF InitVariable, At, tool
    <2>4. NoZeroRequests =>
            /\ Share(in_alloc, thr[t]) <= Share(in_alloc', thr'[t])
            /\ in_alloc' = in_alloc \/ in_alloc' = 1
               \/ Share(in_alloc, thr[t]) + 1 <= Share(in_alloc', thr'[t])
        BY <1>0, <1>z, <2>1, <2>2, SMT
        DEF Moved, Share, Place, Routines, Heeds, Clears, Polling
    <2> QED
        BY <1>0, <2>2, <2>4, TurnsKept
<1>11. CASE LoadCount(t)
    <2>1. Moved(t, "store")
        BY <1>0, <1>11, LoadCountStep
    <2>2. thr[t].pc = "load" /\ queue' = queue /\ in_alloc' = in_alloc
        BY <1>11 DEF LoadCount, At, tool
    <2>4. NoZeroRequests =>
            /\ Share(in_alloc, thr[t]) <= Share(in_alloc', thr'[t])
            /\ in_alloc' = in_alloc \/ in_alloc' = 1
               \/ Share(in_alloc, thr[t]) + 1 <= Share(in_alloc', thr'[t])
        BY <1>0, <1>z, <2>1, <2>2, SMT
        DEF Moved, Share, Place, Routines, Heeds, Clears, Polling
    <2> QED
        BY <1>0, <2>2, <2>4, TurnsKept
<1>12. CASE StoreCount(t)
    <2>1. Moved(t, AfterPoll(t))
        BY <1>0, <1>12, StoreCountStep
    <2>2. thr[t].pc = "store" /\ queue' = queue /\ in_alloc' = in_alloc
        BY <1>12 DEF StoreCount, At, tool
    <2>4. NoZeroRequests =>
            /\ Share(in_alloc, thr[t]) <= Share(in_alloc', thr'[t])
            /\ in_alloc' = in_alloc \/ in_alloc' = 1
               \/ Share(in_alloc, thr[t]) + 1 <= Share(in_alloc', thr'[t])
        BY <1>0, <1>z, <2>1, <2>2, SMT
        DEF Moved, AfterPoll, Entered, Share, Place, Routines, Heeds, Clears, Polling
    <2> QED
        BY <1>0, <2>2, <2>4, TurnsKept
<1>13. CASE Before(t)
    <2>1. Moved(t, IF in_alloc = 1 /\ G_var_size > 0 THEN "recv" ELSE Entered(thr[t]))
        BY <1>0, <1>13, BeforeStep
    <2>2. thr[t].pc = "before" /\ queue' = queue /\ in_alloc' = in_alloc
        BY <1>13 DEF Before, At, tool
    <2>4. NoZeroRequests =>
            /\ Share(in_alloc, thr[t]) <= Share(in_alloc', thr'[t])
            /\ in_alloc' = in_alloc \/ in_alloc' = 1
               \/ Share(in_alloc, thr[t]) + 1 <= Share(in_alloc', thr'[t])
        BY <1>0, <1>z, <2>1, <2>2, SMT
        DEF Moved, Entered, Share, Place, Routines, Heeds, Clears, Polling
    <2> QED
        BY <1>0, <2>2, <2>4, TurnsKept
<1>14. CASE Retire(t)
    <2>1. Moved(t, "set")
        BY <1>0, <1>14, RetireStep
    <2>2. thr[t].pc = "retire" /\ queue' = queue /\ in_alloc' = in_alloc
        BY <1>14 DEF Retire, At, tool
    <2>4. NoZeroRequests =>
            /\ Share(in_alloc, thr[t]) <= Share(in_alloc', thr'[t])
            /\ in_alloc' = in_alloc \/ in_alloc' = 1
               \/ Share(in_alloc, thr[t]) + 1 <= Share(in_alloc', thr'[t])
        BY <1>0, <1>z, <2>1, <2>2, SMT
        DEF Moved, Share, Place, Routines, Heeds, Clears, Polling
    <2> QED
        BY <1>0, <2>2, <2>4, TurnsKept
<1>15. CASE SetSize(t)
    <2>1. /\ FramesMove(t) /\ thr'[t].pc = "stat" /\ thr'[t].back = thr[t].back
          /\ thr'[t].todo = thr[t].todo - 1
        BY <1>0, <1>15, SetSizeStep
    <2>2. thr[t].pc = "set" /\ queue' = queue /\ in_alloc' = in_alloc
        BY <1>15 DEF SetSize, At, tool
    <2>4. NoZeroRequests =>
            /\ Share(in_alloc, thr[t]) <= Share(in_alloc', thr'[t])
            /\ in_alloc' = in_alloc \/ in_alloc' = 1
               \/ Share(in_alloc, thr[t]) + 1 <= Share(in_alloc', thr'[t])
        BY <1>0, <1>z, <2>1, <2>2, SMT
        DEF Share, Place, Routines, Heeds, Clears, Polling
    <2> QED
        BY <1>0, <2>2, <2>4, TurnsKept
<1>16. CASE ChangeAllocStat(t)
    <2>1. Moved(t, IF thr[t].todo = 0 THEN thr[t].back ELSE "before")
        BY <1>0, <1>16, ChangeAllocStatStep
    <2>2. /\ thr[t].pc = "stat" /\ queue' = queue
          /\ in_alloc' = IF G_var_size > 0 THEN 1 ELSE in_alloc
        BY <1>16 DEF ChangeAllocStat, At
    <2>3. thr[t].back \in {"hook", "return", "nested"}
        BY <1>0, <2>2 DEF FrameOK, InEntry, AtStat, InLibrary, InAnalysis, Polling, Freeing
    <2>4. NoZeroRequests =>
            /\ Share(in_alloc, thr[t]) <= Share(in_alloc', thr'[t])
            /\ in_alloc' = in_alloc \/ in_alloc' = 1
               \/ Share(in_alloc, thr[t]) + 1 <= Share(in_alloc', thr'[t])
        BY <1>0, <1>z, <2>1, <2>2, <2>3, SMT
        DEF Moved, Share, Place, Routines, Heeds, Clears, Polling
    <2> QED
        BY <1>0, <2>2, <2>4, TurnsKept
<1>17. CASE CallReturns(t)
    <2>1. Returned(t)
        BY <1>0, <1>17, CallReturnsStep
    <2>2. thr[t].pc \in {"return", "hook"} /\ queue' = queue /\ in_alloc' = in_alloc
        BY <1>17 DEF CallReturns, At, tool
    <2>3. thr[t].todo = 0
        BY <1>0, <2>2 DEF FrameOK, InEntry, AtStat, InLibrary, InAnalysis, Polling, Freeing
    <2>4. NoZeroRequests =>
            /\ Share(in_alloc, thr[t]) <= Share(in_alloc', thr'[t])
            /\ in_alloc' = in_alloc \/ in_alloc' = 1
               \/ Share(in_alloc, thr[t]) + 1 <= Share(in_alloc', thr'[t])
        BY <1>0, <1>z, <2>1, <2>2, <2>3, SMT
        DEF Returned, Share, Place, Routines, Heeds, Clears, Polling
    <2> QED
        BY <1>0, <2>2, <2>4, TurnsKept
<1>18. CASE Hook(t)
    <2>1. /\ FramesMove(t) /\ thr'[t].pc = "setflag" /\ thr'[t].back = thr[t].back
          /\ thr'[t].todo = thr[t].todo
        BY <1>0, <1>18, HookStep
    <2>2. thr[t].pc = "hook" /\ queue' = queue /\ in_alloc' = in_alloc
        BY <1>18 DEF Hook, At, tool
    <2>4. NoZeroRequests =>
            /\ Share(in_alloc, thr[t]) <= Share(in_alloc', thr'[t])
            /\ in_alloc' = in_alloc \/ in_alloc' = 1
               \/ Share(in_alloc, thr[t]) + 1 <= Share(in_alloc', thr'[t])
        BY <1>0, <1>z, <2>1, <2>2, SMT
        DEF Share, Place, Routines, Heeds, Clears, Polling
    <2> QED
        BY <1>0, <2>2, <2>4, TurnsKept
<1>19. CASE SetFlag(t)
    <2>1. Moved(t, "show")
        BY <1>0, <1>19, SetFlagStep
    <2>2. thr[t].pc = "setflag" /\ queue' = queue /\ in_alloc' = in_alloc
        BY <1>19 DEF SetFlag, At, tool
    <2>4. NoZeroRequests =>
            /\ Share(in_alloc, thr[t]) <= Share(in_alloc', thr'[t])
            /\ in_alloc' = in_alloc \/ in_alloc' = 1
               \/ Share(in_alloc, thr[t]) + 1 <= Share(in_alloc', thr'[t])
        BY <1>0, <1>z, <2>1, <2>2, SMT
        DEF Moved, Share, Place, Routines, Heeds, Clears, Polling
    <2> QED
        BY <1>0, <2>2, <2>4, TurnsKept
<1>20. CASE NestedMalloc(t)
    <2>1. /\ FramesMove(t) /\ thr'[t].back = "nested" /\ thr'[t].todo = 2
          /\ thr'[t].pc = IF in_alloc = 1 /\ G_var_size > 0 THEN "recv" ELSE Entered(thr[t])
        BY <1>0, <1>20, NestedMallocStep
    <2>2. thr[t].pc = "show" /\ queue' = queue /\ in_alloc' = in_alloc
        BY <1>20 DEF NestedMalloc, At, tool
    <2>3. thr[t].todo = 0 /\ thr[t].back \in {"hook", "nested"}
        BY <1>0, <2>2 DEF FrameOK, InEntry, AtStat, InLibrary, InAnalysis, Polling, Freeing
    <2>4. NoZeroRequests =>
            /\ Share(in_alloc, thr[t]) <= Share(in_alloc', thr'[t])
            /\ in_alloc' = in_alloc \/ in_alloc' = 1
               \/ Share(in_alloc, thr[t]) + 1 <= Share(in_alloc', thr'[t])
        BY <1>0, <1>z, <2>1, <2>2, <2>3, SMT
        DEF Entered, Share, Place, Routines, Heeds, Clears, Polling
    <2> QED
        BY <1>0, <2>2, <2>4, TurnsKept
<1>21. CASE NestedHook(t)
    <2>1. Moved(t, IF trace_flag THEN "show" ELSE "setflag")
        BY <1>0, <1>21, NestedHookStep
    <2>2. thr[t].pc = "nested" /\ queue' = queue /\ in_alloc' = in_alloc
        BY <1>21 DEF NestedHook, At, tool
    <2>4. NoZeroRequests =>
            /\ Share(in_alloc, thr[t]) <= Share(in_alloc', thr'[t])
            /\ in_alloc' = in_alloc \/ in_alloc' = 1
               \/ Share(in_alloc, thr[t]) + 1 <= Share(in_alloc', thr'[t])
        BY <1>0, <1>z, <2>1, <2>2, SMT
        DEF Moved, Share, Place, Routines, Heeds, Clears, Polling
    <2> QED
        BY <1>0, <2>2, <2>4, TurnsKept
<1>22. CASE NestedReturns(t)
    <2>1. Moved(t, "show")
        BY <1>0, <1>22, NestedReturnsStep
    <2>2. thr[t].pc = "show" /\ queue' = queue /\ in_alloc' = in_alloc
        BY <1>22 DEF NestedReturns, At, tool
    <2>4. NoZeroRequests =>
            /\ Share(in_alloc, thr[t]) <= Share(in_alloc', thr'[t])
            /\ in_alloc' = in_alloc \/ in_alloc' = 1
               \/ Share(in_alloc, thr[t]) + 1 <= Share(in_alloc', thr'[t])
        BY <1>0, <1>z, <2>1, <2>2, SMT
        DEF Moved, Share, Place, Routines, Heeds, Clears, Polling
    <2> QED
        BY <1>0, <2>2, <2>4, TurnsKept
<1>23. CASE FillAddr(t)
    <2>1. Moved(t, "fill")
        BY <1>0, <1>23, FillAddrStep
    <2>2. thr[t].pc = "show" /\ queue' = queue /\ in_alloc' = in_alloc
        BY <1>23 DEF FillAddr, At, tool
    <2>4. NoZeroRequests =>
            /\ Share(in_alloc, thr[t]) <= Share(in_alloc', thr'[t])
            /\ in_alloc' = in_alloc \/ in_alloc' = 1
               \/ Share(in_alloc, thr[t]) + 1 <= Share(in_alloc', thr'[t])
        BY <1>0, <1>z, <2>1, <2>2, SMT
        DEF Moved, Share, Place, Routines, Heeds, Clears, Polling
    <2> QED
        BY <1>0, <2>2, <2>4, TurnsKept
<1>24. CASE FillSize(t)
    <2>1. Moved(t, "send")
        BY <1>0, <1>24, FillSizeStep
    <2>2. thr[t].pc = "fill" /\ queue' = queue /\ in_alloc' = in_alloc
        BY <1>24 DEF FillSize, At, tool
    <2>4. NoZeroRequests =>
            /\ Share(in_alloc, thr[t]) <= Share(in_alloc', thr'[t])
            /\ in_alloc' = in_alloc \/ in_alloc' = 1
               \/ Share(in_alloc, thr[t]) + 1 <= Share(in_alloc', thr'[t])
        BY <1>0, <1>z, <2>1, <2>2, SMT
        DEF Moved, Share, Place, Routines, Heeds, Clears, Polling
    <2> QED
        BY <1>0, <2>2, <2>4, TurnsKept
<1>25. CASE Send(t)
    BY <1>0, <1>25, SendTurns
<1>26. CASE ClearFlag(t)
    <2>1. Returned(t)
        BY <1>0, <1>26, ClearFlagStep
    <2>2. thr[t].pc \in {"clear", "show"} /\ queue' = queue /\ in_alloc' = in_alloc
        BY <1>26 DEF ClearFlag, At, tool
    <2>3. thr[t].todo = 0
        BY <1>0, <2>2 DEF FrameOK, InEntry, AtStat, InLibrary, InAnalysis, Polling, Freeing
    <2>4. NoZeroRequests =>
            /\ Share(in_alloc, thr[t]) <= Share(in_alloc', thr'[t])
            /\ in_alloc' = in_alloc \/ in_alloc' = 1
               \/ Share(in_alloc, thr[t]) + 1 <= Share(in_alloc', thr'[t])
        BY <1>0, <1>z, <2>1, <2>2, <2>3, SMT
        DEF Returned, Share, Place, Routines, Heeds, Clears, Polling
    <2> QED
        BY <1>0, <2>2, <2>4, TurnsKept
<1>27. CASE FreeHook(t)
    <2>1. Moved(t, IF trace_flag THEN "freep" ELSE "freeset")
        BY <1>0, <1>27, FreeHookStep
    <2>2. thr[t].pc = "free" /\ queue' = queue /\ in_alloc' = in_alloc
        BY <1>27 DEF FreeHook, At, tool
    <2>4. NoZeroRequests =>
            /\ Share(in_alloc, thr[t]) <= Share(in_alloc', thr'[t])
            /\ in_alloc' = in_alloc \/ in_alloc' = 1
               \/ Share(in_alloc, thr[t]) + 1 <= Share(in_alloc', thr'[t])
        BY <1>0, <1>z, <2>1, <2>2, SMT
        DEF Moved, Share, Place, Routines, Heeds, Clears, Polling
    <2> QED
        BY <1>0, <2>2, <2>4, TurnsKept
<1>28. CASE FreeSetFlag(t)
    <2>1. Moved(t, "freeclear")
        BY <1>0, <1>28, FreeSetFlagStep
    <2>2. thr[t].pc = "freeset" /\ queue' = queue /\ in_alloc' = in_alloc
        BY <1>28 DEF FreeSetFlag, At, tool
    <2>4. NoZeroRequests =>
            /\ Share(in_alloc, thr[t]) <= Share(in_alloc', thr'[t])
            /\ in_alloc' = in_alloc \/ in_alloc' = 1
               \/ Share(in_alloc, thr[t]) + 1 <= Share(in_alloc', thr'[t])
        BY <1>0, <1>z, <2>1, <2>2, SMT
        DEF Moved, Share, Place, Routines, Heeds, Clears, Polling
    <2> QED
        BY <1>0, <2>2, <2>4, TurnsKept
<1>29. CASE FreeClearFlag(t)
    <2>1. Moved(t, "freep")
        BY <1>0, <1>29, FreeClearFlagStep
    <2>2. thr[t].pc = "freeclear" /\ queue' = queue /\ in_alloc' = in_alloc
        BY <1>29 DEF FreeClearFlag, At, tool
    <2>4. NoZeroRequests =>
            /\ Share(in_alloc, thr[t]) <= Share(in_alloc', thr'[t])
            /\ in_alloc' = in_alloc \/ in_alloc' = 1
               \/ Share(in_alloc, thr[t]) + 1 <= Share(in_alloc', thr'[t])
        BY <1>0, <1>z, <2>1, <2>2, SMT
        DEF Moved, Share, Place, Routines, Heeds, Clears, Polling
    <2> QED
        BY <1>0, <2>2, <2>4, TurnsKept
<1>30. CASE LibcFree(t)
    <2>1. Returned(t)
        BY <1>0, <1>30, LibcFreeStep
    <2>2. thr[t].pc = "freep" /\ queue' = queue /\ in_alloc' = in_alloc
        BY <1>30 DEF LibcFree, At, tool
    <2>3. thr[t].todo = 0
        BY <1>0, <2>2 DEF FrameOK, InEntry, AtStat, InLibrary, InAnalysis, Polling, Freeing
    <2>4. NoZeroRequests =>
            /\ Share(in_alloc, thr[t]) <= Share(in_alloc', thr'[t])
            /\ in_alloc' = in_alloc \/ in_alloc' = 1
               \/ Share(in_alloc, thr[t]) + 1 <= Share(in_alloc', thr'[t])
        BY <1>0, <1>z, <2>1, <2>2, <2>3, SMT
        DEF Returned, Share, Place, Routines, Heeds, Clears, Polling
    <2> QED
        BY <1>0, <2>2, <2>4, TurnsKept
<1>31. CASE GetLock(t)
    <2>1. Moved(t, IF variant.polls /\ in_alloc = 1 THEN "recv" ELSE "scan")
        BY <1>0, <1>31, GetLockStep
    <2>2. thr[t].pc = "lock" /\ queue' = queue /\ in_alloc' = in_alloc
        BY <1>31 DEF GetLock, At, tool
    <2>4. NoZeroRequests =>
            /\ Share(in_alloc, thr[t]) <= Share(in_alloc', thr'[t])
            /\ in_alloc' = in_alloc \/ in_alloc' = 1
               \/ Share(in_alloc, thr[t]) + 1 <= Share(in_alloc', thr'[t])
        BY <1>0, <1>z, <2>1, <2>2, SMT
        DEF Moved, Share, Place, Routines, Heeds, Clears, Polling
    <2> QED
        BY <1>0, <2>2, <2>4, TurnsKept
<1>32. CASE NoOwner(t)
    <2>1. Moved(t, thr[t].back)
        BY <1>0, <1>32, NoOwnerStep
    <2>2. thr[t].pc = "scan" /\ queue' = queue /\ in_alloc' = in_alloc
        BY <1>32 DEF NoOwner, At, tool
    <2>3. thr[t].todo = 0 /\ thr[t].back \in {"run", "clear"}
        BY <1>0, <2>2 DEF FrameOK, InEntry, AtStat, InLibrary, InAnalysis, Polling, Freeing
    <2>4. NoZeroRequests =>
            /\ Share(in_alloc, thr[t]) <= Share(in_alloc', thr'[t])
            /\ in_alloc' = in_alloc \/ in_alloc' = 1
               \/ Share(in_alloc, thr[t]) + 1 <= Share(in_alloc', thr'[t])
        BY <1>0, <1>z, <2>1, <2>2, <2>3, SMT
        DEF Moved, Share, Place, Routines, Heeds, Clears, Polling
    <2> QED
        BY <1>0, <2>2, <2>4, TurnsKept
<1>33. CASE Scan(t)
    <2>1. Moved(t, "credit")
        BY <1>0, <1>33, ScanStep
    <2>2. thr[t].pc = "scan" /\ queue' = queue /\ in_alloc' = in_alloc
        BY <1>33 DEF Scan, At, tool
    <2>4. NoZeroRequests =>
            /\ Share(in_alloc, thr[t]) <= Share(in_alloc', thr'[t])
            /\ in_alloc' = in_alloc \/ in_alloc' = 1
               \/ Share(in_alloc, thr[t]) + 1 <= Share(in_alloc', thr'[t])
        BY <1>0, <1>z, <2>1, <2>2, SMT
        DEF Moved, Share, Place, Routines, Heeds, Clears, Polling
    <2> QED
        BY <1>0, <2>2, <2>4, TurnsKept
<1>34. CASE Credit(t)
    <2>1. Moved(t, thr[t].back)
        BY <1>0, <1>34, CreditStep
    <2>2. thr[t].pc = "credit" /\ queue' = queue /\ in_alloc' = in_alloc
        BY <1>34 DEF Credit, At, tool
    <2>3. thr[t].todo = 0 /\ thr[t].back \in {"run", "clear"}
        BY <1>0, <2>2 DEF FrameOK, InEntry, AtStat, InLibrary, InAnalysis, Polling, Freeing
    <2>4. NoZeroRequests =>
            /\ Share(in_alloc, thr[t]) <= Share(in_alloc', thr'[t])
            /\ in_alloc' = in_alloc \/ in_alloc' = 1
               \/ Share(in_alloc, thr[t]) + 1 <= Share(in_alloc', thr'[t])
        BY <1>0, <1>z, <2>1, <2>2, <2>3, SMT
        DEF Moved, Share, Place, Routines, Heeds, Clears, Polling
    <2> QED
        BY <1>0, <2>2, <2>4, TurnsKept
<1> QED
    BY <1>1, <1>2, <1>3, <1>4, <1>5, <1>6, <1>7, <1>8, <1>9, <1>10, <1>11, <1>12,
       <1>13, <1>14, <1>15, <1>16, <1>17, <1>18, <1>19, <1>20, <1>21, <1>22,
       <1>23, <1>24, <1>25, <1>26, <1>27, <1>28, <1>29, <1>30, <1>31, <1>32,
       <1>33, <1>34
    DEF Inside

(* And every step of the application.                                       *)
LEMMA TurnsApplication ==
    ASSUME ControlInv, TwoTakeTurns, ~variant.fortran, NEW t \in Threads, Application(t)
    PROVE  TwoTakeTurns'
<1>0. /\ ControlInv' /\ BlocksKept /\ FrameOK(thr[t]) /\ in_alloc \in {0, 1}
    BY ApplicationControl, ApplicationKeepsBlocks DEF ControlInv, Globals
<1>1. ASSUME FramesMove(t), queue' = queue, in_alloc' = in_alloc, thr[t].pc = "run",
             NoZeroRequests =>
                 \/ /\ thr'[t].back = "run" /\ thr'[t].todo = 0
                    /\ thr'[t].pc \in {"lock", "free"}
                 \/ /\ thr'[t].back = "hook" /\ thr'[t].todo = 2
                    /\ thr'[t].pc = "recv" \/ (in_alloc = 0 /\ thr'[t].pc \in {"retire", "set"})
      PROVE  TwoTakeTurns'
    <2>1. thr[t].back = "run" /\ thr[t].todo = 0
        BY <1>0, <1>1 DEF FrameOK, InEntry, AtStat, InLibrary, InAnalysis, Polling, Freeing
    <2>2. NoZeroRequests => Share(in_alloc, thr[t]) <= Share(in_alloc', thr'[t])
        BY <1>0, <1>1, <2>1, SMT DEF Share, Place, Routines, Heeds, Clears, Polling
    <2> QED
        BY <1>0, <1>1, <2>2, TurnsKept
<1>2. CASE \E n \in Sizes, old \in Live \cup {0} : Malloc(t, n, old)
    <2>1. PICK n \in Sizes, old \in Live \cup {0} : Malloc(t, n, old)
        BY <1>2
    <2>2. /\ FramesMove(t) /\ thr'[t].back = "hook" /\ thr'[t].todo = 2
          /\ thr'[t].pc = IF in_alloc = 1 /\ G_var_size > 0 THEN "recv"
                          ELSE IF old # 0 THEN "retire" ELSE "set"
        BY <2>1, MallocStep
    <2>3. thr[t].pc = "run" /\ queue' = queue /\ in_alloc' = in_alloc
        BY <2>1 DEF Malloc, At, tool
    <2>4. NoZeroRequests /\ in_alloc = 1 => G_var_size > 0
        BY DEF ControlInv, SizesArePositive
    <2> QED
        BY <1>0, <1>1, <2>2, <2>3, <2>4
<1>3. CASE \E p \in Live : Free(t, p)
    <2>1. PICK p \in Live : Free(t, p)
        BY <1>3
    <2>2. FramesMove(t) /\ thr'[t].pc = "free" /\ thr'[t].back = "run" /\ thr'[t].todo = 0
        BY <2>1, FreeStep
    <2>3. thr[t].pc = "run" /\ queue' = queue /\ in_alloc' = in_alloc
        BY <2>1 DEF Free, At
    <2> QED
        BY <1>1, <2>2, <2>3
<1>4. ASSUME NEW a \in Nat, Access(t, a) PROVE TwoTakeTurns'
    <2>1. FramesMove(t) /\ thr'[t].pc = "lock" /\ thr'[t].back = "run" /\ thr'[t].todo = 0
        BY <1>4, AccessStep
    <2>2. thr[t].pc = "run" /\ queue' = queue /\ in_alloc' = in_alloc
        BY <1>4 DEF Access, At, tool
    <2> QED
        BY <1>1, <2>1, <2>2
<1> QED
    BY <1>2, <1>3, <1>4, TouchedFacts DEF Application

TurnsInv == ControlInv /\ (~variant.fortran => TwoTakeTurns)

(* Two threads that race share the queue between them                       *)
(* (MallocBefore, write_down_addr).                                         *)
THEOREM TurnsInvariance == Spec => []TurnsInv
<1>1. Init => TurnsInv
    <2> SUFFICES ASSUME Init PROVE TurnsInv
        OBVIOUS
    <2>1. ControlInv
        BY ControlStarts
    <2>2. ASSUME NEW t \in Threads PROVE Share(in_alloc, thr[t]) = 3
        <3>1. thr[t] = Idle /\ in_alloc = 0
            BY DEF Init
        <3> QED
            BY <3>1, IdleFields DEF Share, Place, Routines, Heeds, Clears, Polling
    <2>3. queue = <<>> /\ Len(queue) = 0
        BY DEF Init
    <2>4. TwoTakeTurns
        BY <2>2, <2>3 DEF TwoTakeTurns
    <2> QED
        BY <2>1, <2>4 DEF TurnsInv
<1>2. TurnsInv /\ [Next]_vars => TurnsInv'
    <2> SUFFICES ASSUME TurnsInv, [Next]_vars PROVE TurnsInv'
        OBVIOUS
    <2>1. ASSUME NEW t \in Threads, Inside(t) PROVE TurnsInv'
        <3>1. variant' = variant
            BY <2>1, InsideMoves DEF TurnsInv, FramesMove
        <3> QED
            BY <2>1, <3>1, InsideControl, TurnsInside DEF TurnsInv
    <2>2. ASSUME NEW t \in Threads, Application(t) PROVE TurnsInv'
        <3>1. variant' = variant
            BY <2>2, ApplicationMoves DEF TurnsInv
        <3> QED
            BY <2>2, <3>1, ApplicationControl, TurnsApplication DEF TurnsInv
    <2>3. CASE Exit \/ UNCHANGED vars
        <3>1. UNCHANGED vars
            BY <2>3 DEF Exit
        <3>2. ControlInv'
            BY <3>1, ControlStutters DEF TurnsInv
        <3>3. (~variant.fortran => TwoTakeTurns)'
            BY <3>1
            DEF TurnsInv, TwoTakeTurns, NoZeroRequests, Share, Place, Routines, Heeds, Clears,
                vars, tool
        <3> QED
            BY <3>2, <3>3 DEF TurnsInv
    <2> QED
        BY <2>1, <2>2, <2>3 DEF Next
<1> QED
    BY <1>1, <1>2, PTL DEF Spec

(* One thread alone does not race.                                          *)
RacesTakeTwo == raced => \E t, u \in Threads : t # u

Raises(t) == raced' => raced \/ \E u \in Threads : u # t

(* A step sets raced only when there is another thread.                     *)
LEMMA GotoRaises ==
    ASSUME NEW t, NEW r, Goto(t, r)
    PROVE  Raises(t)
BY DEF Goto, Raises

(* Nor does any step raise the flag without another thread.                 *)
LEMMA StepRaises ==
    ASSUME NEW t \in Threads, Inside(t) \/ Application(t)
    PROVE  Raises(t)
<1>1. CASE RecvNothing(t)
    BY <1>1, GotoRaises DEF RecvNothing
<1>2. CASE Recv(t)
    BY <1>2, GotoRaises DEF Recv
<1>3. CASE ReadMessage(t)
    BY <1>3, GotoRaises DEF ReadMessage
<1>4. CASE ReadSize(t)
    BY <1>4, GotoRaises DEF ReadSize
<1>5. CASE ReadAddr(t)
    BY <1>5, GotoRaises DEF ReadAddr
<1>6. CASE AllocAfter(t)
    BY <1>6, GotoRaises DEF AllocAfter
<1>7. CASE TestSize(t)
    BY <1>7, GotoRaises DEF TestSize
<1>8. CASE WriteSize(t)
    BY <1>8, GotoRaises DEF WriteSize
<1>9. CASE WriteAddr(t)
    BY <1>9, GotoRaises DEF WriteAddr
<1>10. CASE InitVariable(t)
    BY <1>10, GotoRaises DEF InitVariable
<1>11. CASE LoadCount(t)
    BY <1>11, GotoRaises DEF LoadCount
<1>12. CASE StoreCount(t)
    BY <1>12, GotoRaises DEF StoreCount
<1>13. CASE Before(t)
    BY <1>13, GotoRaises DEF Before, EnterBefore
<1>14. CASE Retire(t)
    BY <1>14, GotoRaises DEF Retire
<1>15. CASE SetSize(t)
    BY <1>15, GotoRaises DEF SetSize
<1>16. CASE ChangeAllocStat(t)
    BY <1>16, GotoRaises DEF ChangeAllocStat
<1>17. CASE CallReturns(t)
    BY <1>17, GotoRaises DEF CallReturns, Return
<1>18. CASE Hook(t)
    BY <1>18, GotoRaises DEF Hook
<1>19. CASE SetFlag(t)
    BY <1>19, GotoRaises DEF SetFlag
<1>20. CASE NestedMalloc(t)
    BY <1>20, GotoRaises DEF NestedMalloc, EnterBefore
<1>21. CASE NestedHook(t)
    BY <1>21, GotoRaises DEF NestedHook
<1>22. CASE NestedReturns(t)
    BY <1>22, GotoRaises DEF NestedReturns
<1>23. CASE FillAddr(t)
    BY <1>23, GotoRaises DEF FillAddr
<1>24. CASE FillSize(t)
    BY <1>24, GotoRaises DEF FillSize
<1>25. CASE Send(t)
    BY <1>25, GotoRaises DEF Send
<1>26. CASE ClearFlag(t)
    BY <1>26, GotoRaises DEF ClearFlag, Return
<1>27. CASE FreeHook(t)
    BY <1>27, GotoRaises DEF FreeHook
<1>28. CASE FreeSetFlag(t)
    BY <1>28, GotoRaises DEF FreeSetFlag
<1>29. CASE FreeClearFlag(t)
    BY <1>29, GotoRaises DEF FreeClearFlag
<1>30. CASE LibcFree(t)
    BY <1>30, GotoRaises DEF LibcFree
<1>31. CASE GetLock(t)
    BY <1>31, GotoRaises DEF GetLock
<1>32. CASE NoOwner(t)
    BY <1>32, GotoRaises DEF NoOwner
<1>33. CASE Scan(t)
    BY <1>33, GotoRaises DEF Scan
<1>34. CASE Credit(t)
    BY <1>34, GotoRaises DEF Credit
<1>35. ASSUME NEW x, NEW old, Malloc(t, x, old) PROVE Raises(t)
    BY <1>35, GotoRaises DEF Malloc, EnterBefore
<1>36. ASSUME NEW p, Free(t, p) PROVE Raises(t)
    BY <1>36, GotoRaises DEF Free
<1>37. ASSUME NEW a, Access(t, a) PROVE Raises(t)
    BY <1>37, GotoRaises DEF Access
<1> QED
    BY <1>1, <1>2, <1>3, <1>4, <1>5, <1>6, <1>7, <1>8, <1>9, <1>10, <1>11, <1>12,
       <1>13, <1>14, <1>15, <1>16, <1>17, <1>18, <1>19, <1>20, <1>21, <1>22,
       <1>23, <1>24, <1>25, <1>26, <1>27, <1>28, <1>29, <1>30, <1>31, <1>32,
       <1>33, <1>34, <1>35, <1>36, <1>37
    DEF Inside, Application

(* raced takes two threads.                                                 *)
THEOREM RacesInvariance == Spec => []RacesTakeTwo
<1>1. Init => RacesTakeTwo
    BY DEF Init, RacesTakeTwo
<1>2. RacesTakeTwo /\ [Next]_vars => RacesTakeTwo'
    <2> SUFFICES ASSUME RacesTakeTwo, [Next]_vars PROVE RacesTakeTwo'
        OBVIOUS
    <2>1. ASSUME NEW t \in Threads, Inside(t) \/ Application(t) PROVE RacesTakeTwo'
        BY <2>1, StepRaises DEF Raises, RacesTakeTwo
    <2>2. CASE Exit \/ UNCHANGED vars
        BY <2>2 DEF Exit, RacesTakeTwo, vars
    <2> QED
        BY <2>1, <2>2 DEF Next
<1> QED
    BY <1>1, <1>2, PTL DEF Spec

(* Two shares are less than nine thirds.                                    *)
LEMMA SharesBound ==
    ASSUME TurnsInv, QueueIsBounded, RacesTakeTwo
    PROVE  TwoThreadsNeverWait
<1> SUFFICES ASSUME Cardinality(Threads) <= 2, NoZeroRequests
             PROVE  Len(queue) <= Cardinality(Threads)
    BY DEF TwoThreadsNeverWait
<1>0. ControlInv /\ Len(queue) \in Nat /\ Cardinality(Threads) \in Nat
    BY ThreadsAssumption, FS_CardinalityType DEF TurnsInv, ControlInv, Globals
<1>1. CASE variant.fortran
    <2>1. queue = <<>> /\ Len(queue) = 0
        BY <1>0, <1>1 DEF ControlInv, RowsSuffice
    <2> QED
        BY <1>0, <2>1
<1>2. CASE ~variant.fortran /\ \E t, u \in Threads : t # u
    <2>1. PICK t \in Threads, u \in Threads : t # u
        BY <1>2
    <2>2. {t, u} \subseteq Threads /\ Cardinality({t, u}) = 2
        <3>1. IsFiniteSet({u}) /\ Cardinality({u}) = 1 /\ t \notin {u}
            BY <2>1, FS_Singleton
        <3>2. Cardinality({u} \cup {t}) = Cardinality({u}) + 1
            BY <3>1, FS_AddElement
        <3>3. {u} \cup {t} = {t, u}
            OBVIOUS
        <3> QED
            BY <2>1, <3>1, <3>2, <3>3
    <2>3. Threads = {t, u} /\ Cardinality(Threads) = 2
        BY <1>0, <2>2, ThreadsAssumption, FS_Subset
    <2>4. 3 * Len(queue) <= Share(in_alloc, thr[t]) + Share(in_alloc, thr[u])
        BY <1>2, <2>1, <2>3 DEF TurnsInv, TwoTakeTurns
    <2>5. in_alloc \in {0, 1}
        BY <1>0 DEF ControlInv, Globals
    <2>6. /\ Share(in_alloc, thr[t]) \in Int /\ Share(in_alloc, thr[t]) <= 4
          /\ Share(in_alloc, thr[u]) \in Int /\ Share(in_alloc, thr[u]) <= 4
        BY <1>0, <1>2, <2>5, SharesOf
    <2> QED
        BY <1>0, <2>3, <2>4, <2>6
<1>3. CASE ~\E t, u \in Threads : t # u
    BY <1>3 DEF RacesTakeTwo, QueueIsBounded
<1> QED
    BY <1>1, <1>2, <1>3

(* Until the first request of 0 bytes, one thread or two never wait in      *)
(* msgsnd for a queue with room for a message each, however they race for   *)
(* in_alloc, the message buffers and the trace flag: a poll is skipped only *)
(* when the other thread has taken a message.                               *)
THEOREM TwoShareTheQueue == Spec => []TwoThreadsNeverWait
BY TurnsInvariance, QueueStaysShort, RacesInvariance, SharesBound, PTL

-----------------------------------------------------------------------------
(* All of the invariant that TLC checks on a small instance.                *)
THEOREM MTInvariance == Spec => []MTIInv
<1>1. RowsInv /\ CreditsInv /\ QueueInv /\ TurnsInv /\ MainInv => MTIInv
    BY DEF RowsInv, CreditsInv, QueueInv, TurnsInv, MainInv, MTIInv
<1> QED
    BY <1>1, RowsInvariance, CreditsInvariance, QueueInvariance, TurnsInvariance,
       MainInvariance, PTL
=============================================================================
