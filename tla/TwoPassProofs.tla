--------------------------- MODULE TwoPassProofs ---------------------------
(***************************************************************************)
(* Proofs about the fast pass and the two passes together.                 *)
(***************************************************************************)
EXTENDS TwoPass, SequenceTheorems, SumLemmas

-----------------------------------------------------------------------------
(* The fast pass.  trace_flag says that some thread is inside the library,  *)
(* and no lock guards it.  The flag may be off while threads are inside     *)
(* (another one has cleared it), but it is never on without a thread whose  *)
(* innermost frame will clear it: a frame is only put above such a frame    *)
(* when the flag is off.                                                    *)

Places == {"enter", "free", "symbols", "look", "trace", "freeline", "leave"}

Frames == [place : Places, var : Vars \cup {LibcVar, OwnVar}, size : Nat]

(* The places between SetFlag and ClearFlag.                                *)
Held == {"symbols", "look", "trace", "freeline", "leave"}

FramesOK == frames \in [Threads -> Seq(Frames)]

(* The flag is on only if the innermost frame of some thread holds it.      *)
FlagHasOwner ==
    trace_flag => \E t \in Threads : frames[t] # <<>> /\ Head(frames[t]).place \in Held

FlagInv == trace_flag \in BOOLEAN /\ FramesOK /\ FlagHasOwner

-----------------------------------------------------------------------------
(* Goto moves the innermost frame and nothing else.                         *)
LEMMA GotoMoves ==
    ASSUME FramesOK, NEW t \in Threads, frames[t] # <<>>,
           NEW place \in Places, Goto(t, place)
    PROVE  /\ FramesOK'
           /\ frames'[t] # <<>> /\ Head(frames'[t]).place = place
           /\ \A u \in Threads \ {t} : frames'[u] = frames[u]
<1> DEFINE f == frames[t]
<1>1. f \in Seq(Frames) /\ f # <<>> /\ 1 \in DOMAIN f /\ f[1] \in Frames
    BY DEF FramesOK
<1>2. frames' = [frames EXCEPT ![t] = [f EXCEPT ![1] = [f[1] EXCEPT !.place = place]]]
    BY DEF Goto
<1>3. [f[1] EXCEPT !.place = place] \in Frames
    BY <1>1 DEF Frames
<1>4. [f EXCEPT ![1] = [f[1] EXCEPT !.place = place]] \in Seq(Frames)
    BY <1>1, <1>3
<1>5. FramesOK'
    BY <1>2, <1>4 DEF FramesOK
<1>6. frames'[t] = [f EXCEPT ![1] = [f[1] EXCEPT !.place = place]]
    BY <1>2 DEF FramesOK
<1>7. frames'[t] # <<>> /\ Head(frames'[t]).place = place
    BY <1>1, <1>3, <1>4, <1>6 DEF Frames
<1>8. \A u \in Threads \ {t} : frames'[u] = frames[u]
    BY <1>2 DEF FramesOK
<1> QED
    BY <1>5, <1>7, <1>8

(* Push puts a frame above those of a thread.                               *)
LEMMA PushAdds ==
    ASSUME FramesOK, NEW t \in Threads, NEW f \in Frames, Push(t, f)
    PROVE  /\ FramesOK'
           /\ \A u \in Threads \ {t} : frames'[u] = frames[u]
<1>1. <<f>> \o frames[t] \in Seq(Frames)
    BY DEF FramesOK
<1> QED
    BY <1>1 DEF Push, FramesOK

-----------------------------------------------------------------------------
(* A frame of a call that the application makes: only a thread that is not  *)
(* inside the library gets one, so the owner of the flag keeps its own.     *)
LEMMA CallKeepsInv ==
    ASSUME FlagInv, NEW t \in Threads, Call(t)
    PROVE  FlagInv'
<1> USE DEF FlagInv
<1>1. frames[t] = <<>> /\ trace_flag' = trace_flag
    BY DEF Call, Alloc, Free
<1>2. \/ \E f \in Frames : Push(t, f)
      \/ frames' = frames
    <2>1. \A v \in Vars \cup {LibcVar}, n \in Sizes : Frame("enter", v, n) \in Frames
        BY SizesAssumption DEF Frame, Frames, Places
    <2>2. Frame("free", OwnVar, 0) \in Frames
        BY DEF Frame, Frames, Places
    <2>3. CASE Free(t)
        BY <2>2, <2>3 DEF Free
    <2>4. CASE \E v \in Vars \cup {LibcVar}, n \in Sizes : Alloc(t, v, n)
        BY <2>1, <2>4 DEF Alloc
    <2> QED
        BY <2>3, <2>4 DEF Call
<1>3. FramesOK' /\ \A u \in Threads \ {t} : frames'[u] = frames[u]
    BY <1>2, PushAdds DEF FramesOK
<1>4. FlagHasOwner'
    BY <1>1, <1>3 DEF FlagHasOwner
<1> QED
    BY <1>1, <1>3, <1>4

(* The steps of a thread that stays in the section keep the flag's owner.   *)
LEMMA StayKeepsInv ==
    ASSUME FlagInv, NEW t \in Threads, frames[t] # <<>>,
           NEW place \in Held, Goto(t, place), trace_flag' \in BOOLEAN
    PROVE  FlagInv'
<1>1. place \in Places
    BY DEF Held, Places
<1>2. /\ FramesOK'
      /\ frames'[t] # <<>> /\ Head(frames'[t]).place = place
    BY <1>1, GotoMoves DEF FlagInv
<1> QED
    BY <1>2 DEF FlagInv, FlagHasOwner

(* An allocation of the library itself gets a frame of its own that will    *)
(* clear the flag, unless the flag is set and it is not traced.             *)
LEMMA NestedKeepsInv ==
    ASSUME FlagInv, NEW t \in Threads, NestedMalloc(t)
    PROVE  FlagInv'
<1>1. frames[t] # <<>> /\ trace_flag' = trace_flag
    BY DEF NestedMalloc, At
<1>2. CASE trace_flag
    <2>1. Goto(t, "look")
        BY <1>2 DEF NestedMalloc
    <2> QED
        BY <1>1, <2>1, StayKeepsInv DEF Held, FlagInv
<1>3. CASE ~trace_flag
    <2> DEFINE f  == frames[t]
               g  == [Head(f) EXCEPT !.place = "look"]
               fs == <<Frame("enter", OwnVar, OwnSize), g>> \o Tail(f)
    <2>1. f \in Seq(Frames) /\ f # <<>> /\ Head(f) \in Frames /\ Tail(f) \in Seq(Frames)
        BY <1>1 DEF FlagInv, FramesOK
    <2>2. frames' = [frames EXCEPT ![t] = fs]
        BY <1>3 DEF NestedMalloc
    <2>3. Frame("enter", OwnVar, OwnSize) \in Frames /\ g \in Frames
        BY <2>1 DEF Frame, Frames, Places, OwnSize
    <2>4. fs \in Seq(Frames)
        BY <2>1, <2>3
    <2>5. FramesOK'
        BY <2>2, <2>4 DEF FlagInv, FramesOK
    <2> QED
        BY <1>1, <1>3, <2>5 DEF FlagInv, FlagHasOwner
<1> QED
    BY <1>2, <1>3

(* Clearing the flag leaves nothing to be owned.                            *)
LEMMA ClearKeepsInv ==
    ASSUME FlagInv, NEW t \in Threads, ClearFlag(t)
    PROVE  FlagInv'
<1>1. trace_flag' = FALSE /\ frames[t] \in Seq(Frames) /\ frames[t] # <<>>
    BY DEF ClearFlag, At, FlagInv, FramesOK
<1>2. Tail(frames[t]) \in Seq(Frames)
    BY <1>1
<1>3. FramesOK'
    BY <1>2 DEF ClearFlag, Pop, FlagInv, FramesOK
<1> QED
    BY <1>1, <1>3 DEF FlagInv, FlagHasOwner

(* Every step inside the library keeps the flag's owner.                    *)
LEMMA InsideKeepsInv ==
    ASSUME FlagInv, NEW t \in Threads, Inside(t)
    PROVE  FlagInv'
<1>1. CASE \E place \in Held : Goto(t, place) /\ frames[t] # <<>> /\ trace_flag' \in BOOLEAN
    BY <1>1, StayKeepsInv
<1>2. CASE SetFlag(t)
    BY <1>1, <1>2 DEF SetFlag, At, Held
<1>3. CASE NestedMalloc(t)
    BY <1>3, NestedKeepsInv
<1>4. CASE IgnoreLibc(t) \/ LogHash(t) \/ LogTrace(t) \/ LogFree(t)
    BY <1>1, <1>4 DEF IgnoreLibc, LogHash, LogTrace, LogFree, At, Held, FlagInv
<1>5. CASE ClearFlag(t)
    BY <1>5, ClearKeepsInv
<1> QED
    BY <1>2, <1>3, <1>4, <1>5 DEF Inside

(* The flag is clear at the start.                                          *)
LEMMA FlagInvInit ==
    Init => FlagInv
<1> SUFFICES ASSUME Init PROVE FlagInv
    OBVIOUS
<1>1. <<>> \in Seq(Frames)
    OBVIOUS
<1>2. frames = [t \in Threads |-> <<>>] /\ trace_flag = FALSE
    BY DEF Init
<1>3. FramesOK
    BY <1>1, <1>2 DEF FramesOK
<1> QED
    BY <1>2, <1>3 DEF FlagInv, FlagHasOwner

(* The constructor clears the flag too.                                     *)
LEMMA ConstructorKeepsInv ==
    ASSUME FlagInv, Constructor
    PROVE  FlagInv'
<1>1. trace_flag' = FALSE /\ frames' = frames
    BY DEF Constructor
<1> QED
    BY <1>1 DEF FlagInv, FramesOK, FlagHasOwner

(* Every step keeps the flag's owner.                                       *)
LEMMA FlagInvNext ==
    FlagInv /\ [Next]_vars => FlagInv'
<1> SUFFICES ASSUME FlagInv, [Next]_vars
             PROVE  FlagInv'
    OBVIOUS
<1>1. CASE Next
    BY <1>1, CallKeepsInv, InsideKeepsInv, ConstructorKeepsInv DEF Next
<1>2. CASE UNCHANGED vars
    BY <1>2 DEF vars, FlagInv, FramesOK, FlagHasOwner
<1> QED
    BY <1>1, <1>2

(* With nobody inside, nobody owns the flag, so it is clear.                *)
LEMMA FlagInvRest ==
    FlagInv => FlagOpenAtRest
BY DEF FlagInv, FlagHasOwner, FlagOpenAtRest, AtRest

(* Tracing is never left switched off: when no thread is inside the         *)
(* library, trace_flag is clear, whichever threads raced for it and however *)
(* deep their calls were nested.                                            *)
THEOREM TracingComesBack ==
    Spec => []FlagOpenAtRest
BY FlagInvInit, FlagInvNext, FlagInvRest, PTL DEF Spec

(* A step of the two passes is a step of the fast pass or leaves it alone.  *)
LEMMA TwoPassIsFast ==
    /\ InitTwoPass => Init
    /\ [NextTwoPass]_two_pass_vars => [Next]_vars
BY DEF InitTwoPass, NextTwoPass, two_pass_vars, FastStep, StartSlowPass,
       LookIntoHashValue, LookIntoHashValueBeyond, NotChosen

(* The same for the two passes together.                                    *)
THEOREM TracingComesBackInBoth ==
    SpecTwoPass => []FlagOpenAtRest
BY TwoPassIsFast, FlagInvInit, FlagInvNext, FlagInvRest, PTL DEF SpecTwoPass

-----------------------------------------------------------------------------
(* What the script computes.  FoldLeft is a recursive function over the     *)
(* sets of positions of a sequence, chosen among those that satisfy its     *)
(* equation: one exists, and at the positions 1 .. k it holds what has been *)
(* made of the first k elements.                                            *)

Empty == [hashObj |-> <<>>, out |-> <<>>, orphans |-> 0]

(* One turn of the first loop of the script, or of the second.              *)
Turn(by, all, acc, x) ==
    IF by = "read" THEN ReadLine(acc, x) ELSE WriteHero(all, acc, x)

FoldOf(it, by, all, base, q, s) ==
    IF s = {} THEN base ELSE Turn(by, all, it[s \ {Max(s)}], q[Max(s)])

IsFold(it, by, all, base, q) ==
    it = [s \in SUBSET DOMAIN q |-> FoldOf(it, by, all, base, q, s)]

(* At the first k + 1 positions it takes one turn more than at the first k. *)
TakesTurns(it, by, all, base, q, n) ==
    /\ it[1 .. 0] = base
    /\ \A k \in 0 .. n - 1 : it[1 .. k + 1] = Turn(by, all, it[1 .. k], q[k + 1])

(* The same as IsFold on the sets of at most n positions.                   *)
IsFoldUpTo(it, n, by, all, base, q) ==
    it = [s \in Few(DOMAIN q, n) |-> FoldOf(it, by, all, base, q, s)]

(* A nonempty set of positions has a last one.                              *)
LEMMA MaxIsLast ==
    ASSUME NEW n \in Nat, NEW S, S \subseteq 1 .. n, S # {}
    PROVE  Max(S) \in S /\ \A j \in S : j <= Max(S)
<1> DEFINE Bounds == {b \in Nat : \A j \in S : j <= b}
<1>1. n \in Bounds /\ Bounds \subseteq Nat
    OBVIOUS
<1>2. PICK b \in Bounds : \A c \in Bounds : b <= c
    <2> HIDE DEF Bounds
    <2> QED
        BY <1>1, LeastNatural
<1>3. b \in S
    <2> SUFFICES ASSUME b \notin S PROVE FALSE
        OBVIOUS
    <2>1. PICK j \in S : TRUE
        OBVIOUS
    <2>2. j \in Nat /\ j >= 1 /\ j <= b /\ j # b /\ b \in Nat
        BY <1>2
    <2>3. b - 1 \in Nat /\ ~(b <= b - 1)
        BY <2>2
    <2>4. \A i \in S : i <= b - 1
        BY <1>2
    <2>5. b - 1 \in Bounds
        BY <2>3, <2>4
    <2> QED
        BY <1>2, <2>3, <2>5
<1>4. \E x \in S : \A y \in S : x >= y
    BY <1>2, <1>3
<1>5. Max(S) \in S /\ \A y \in S : Max(S) >= y
    BY <1>4 DEF Max
<1> QED
    BY <1>5

(* A fold exists on the sets of at most n positions.                        *)
LEMMA FoldUpTo ==
    ASSUME NEW by, NEW all, NEW base, NEW q, NEW len \in Nat, DOMAIN q = 1 .. len,
           NEW n \in Nat
    PROVE  \E it : IsFoldUpTo(it, n, by, all, base, q)
<1> USE DEF IsFoldUpTo
<1> DEFINE S == DOMAIN q
           Has(k) == \E it : it = [s \in Few(S, k) |-> FoldOf(it, by, all, base, q, s)]
           Missing == {k \in Nat : ~Has(k)}
<1>1. SUFFICES ASSUME Missing # {} PROVE FALSE
    OBVIOUS
<1>2. PICK k \in Missing : \A j \in Missing : k <= j
    <2>1. Missing \subseteq Nat
        OBVIOUS
    <2> HIDE DEF Missing
    <2> QED
        BY <1>1, <2>1, LeastNatural
<1>3. IsFiniteSet(S)
    BY FS_Interval
<1>4. \A t \in SUBSET S : /\ Cardinality(t) \in Nat
                          /\ Cardinality(t) = 0 => t = {}
    BY <1>3, FS_Subset, FS_CardinalityType, FS_EmptySet
<1>5. CASE k = 0
    <2> DEFINE g == [s \in Few(S, 0) |-> base]
    <2>1. \A s \in Few(S, 0) : s = {}
        BY <1>4 DEF Few
    <2>2. g = [s \in Few(S, 0) |-> FoldOf(g, by, all, base, q, s)]
        BY <2>1 DEF FoldOf
    <2>3. Has(0)
        <3> HIDE DEF g
        <3> QED
            BY <2>2
    <2> QED
        BY <1>2, <1>5, <2>3
<1>6. CASE k # 0
    <2>1. k - 1 \in Nat /\ Has(k - 1)
        <3>1. k \in Nat
            BY <1>2
        <3>2. k - 1 \in Nat /\ ~(k <= k - 1)
            BY <1>6, <3>1
        <3>3. k - 1 \notin Missing
            <4> HIDE DEF Missing
            <4> QED
                BY <1>2, <3>2
        <3> QED
            BY <3>2, <3>3
    <2>2. PICK g : g = [s \in Few(S, k - 1) |-> FoldOf(g, by, all, base, q, s)]
        BY <2>1
    <2> DEFINE h == [s \in Few(S, k) |-> FoldOf(g, by, all, base, q, s)]
    <2>3. ASSUME NEW s \in Few(S, k)
          PROVE  FoldOf(g, by, all, base, q, s) = FoldOf(h, by, all, base, q, s)
        <3>1. CASE s = {}
            BY <3>1 DEF FoldOf
        <3>2. CASE s # {}
            <4> DEFINE r == s \ {Max(s)}
            <4>1. s \subseteq 1 .. len
                BY DEF Few
            <4>2. Max(s) \in s
                BY <3>2, <4>1, MaxIsLast
            <4>3. IsFiniteSet(s)
                BY <1>3, <4>1, FS_Subset
            <4>4. Cardinality(r) = Cardinality(s) - 1
                BY <4>2, <4>3, FS_RemoveElement
            <4>5. r \in Few(S, k - 1) /\ r \in Few(S, k)
                BY <4>4, <2>3, <1>4, <1>2 DEF Few
            <4>6. g[r] = FoldOf(g, by, all, base, q, r)
                <5> HIDE DEF r
                <5> QED
                    BY <2>2, <4>5
            <4>7. h[r] = FoldOf(g, by, all, base, q, r)
                BY <4>5
            <4>8. g[s \ {Max(s)}] = h[s \ {Max(s)}]
                BY <4>6, <4>7
            <4> HIDE DEF h, r
            <4> QED
                BY <4>8, <3>2 DEF FoldOf
        <3> QED
            BY <3>1, <3>2
    <2>4. h = [s \in Few(S, k) |-> FoldOf(h, by, all, base, q, s)]
        BY <2>3
    <2>5. Has(k)
        <3> HIDE DEF h
        <3> QED
            BY <2>4
    <2> QED
        BY <2>5, <1>2
<1> QED
    BY <1>5, <1>6

LEMMA FoldExists ==
    ASSUME NEW by, NEW all, NEW base, NEW q, NEW len \in Nat, DOMAIN q = 1 .. len
    PROVE  \E it : IsFold(it, by, all, base, q)
<1>1. IsFiniteSet(DOMAIN q)
    <2>1. 1 \in Int /\ len \in Int
        OBVIOUS
    <2>2. IsFiniteSet(1 .. len)
        BY <2>1, FS_Interval, Zenon
    <2> QED
        BY <2>2
<1>2. Cardinality(DOMAIN q) \in Nat
    BY <1>1, FS_CardinalityType, Zenon
<1>5. Few(DOMAIN q, Cardinality(DOMAIN q)) = SUBSET DOMAIN q
    <2>1. \A t \in SUBSET DOMAIN q : Cardinality(t) <= Cardinality(DOMAIN q)
        BY <1>1, FS_Subset, Zenon
    <2> QED
        BY <2>1 DEF Few
<1>3. PICK n \in Nat : n = Cardinality(DOMAIN q)
    BY <1>2
<1>4. PICK it : IsFoldUpTo(it, n, by, all, base, q)
    BY FoldUpTo, Zenon
<1> QED
    BY <1>3, <1>4, <1>5 DEF IsFold, IsFoldUpTo

(* The first positions, and one more.                                       *)
LEMMA FoldNext ==
    ASSUME NEW by, NEW all, NEW base, NEW q, NEW len \in Nat, DOMAIN q = 1 .. len,
           NEW it, IsFold(it, by, all, base, q)
    PROVE  TakesTurns(it, by, all, base, q, len)
<1>1. \A s \in SUBSET (1 .. len) : it[s] = FoldOf(it, by, all, base, q, s)
    BY DEF IsFold
<1>2. it[1 .. 0] = base
    <2>1. 1 .. 0 = {} /\ {} \in SUBSET (1 .. len)
        OBVIOUS
    <2> QED
        BY <1>1, <2>1 DEF FoldOf
<1>3. ASSUME NEW k \in 0 .. len - 1
      PROVE  it[1 .. k + 1] = Turn(by, all, it[1 .. k], q[k + 1])
    <2> DEFINE s == 1 .. k + 1
    <2>1. s \subseteq 1 .. len /\ k + 1 \in s /\ \A j \in s : j <= k + 1
        OBVIOUS
    <2>2. \A j \in s : j \in Int
        OBVIOUS
    <2>3. s \ {k + 1} = 1 .. k
        OBVIOUS
    <2> HIDE DEF s
    <2>4. s # {}
        BY <2>1, Zenon
    <2>7. Max(s) \in s /\ \A j \in s : j <= Max(s)
        BY <2>1, <2>4, MaxIsLast, Zenon
    <2>8. PICK m : m = Max(s)
        OBVIOUS
    <2>9. m \in s /\ k + 1 <= m /\ m <= k + 1 /\ m \in Int /\ k + 1 \in Int
        BY <2>1, <2>2, <2>7, <2>8, Zenon
    <2>5. Max(s) = k + 1
        BY <2>8, <2>9
    <2>6. it[s] = Turn(by, all, it[s \ {k + 1}], q[k + 1])
        BY <1>1, <2>1, <2>4, <2>5, Zenon DEF FoldOf
    <2> QED
        BY <2>3, <2>6, Zenon DEF s
<1> QED
    BY <1>2, <1>3 DEF TakesTurns

(* Sequence r is q, of len elements, and one element more.                  *)
OneMore(r, q, len) ==
    /\ DOMAIN q = 1 .. len /\ DOMAIN r = 1 .. len + 1
    /\ \A i \in 1 .. len : r[i] = q[i]

(* The fold of a longer sequence goes on from that of a shorter one.        *)
LEMMA FoldPrefix ==
    ASSUME NEW by, NEW all, NEW base,
           NEW q, NEW len \in Nat, NEW r, OneMore(r, q, len),
           NEW g, IsFold(g, by, all, base, q), NEW h, IsFold(h, by, all, base, r)
    PROVE  h[1 .. len + 1] = Turn(by, all, g[1 .. len], r[len + 1])
<1> USE DEF OneMore
<1>1. /\ g[1 .. 0] = base
      /\ \A k \in 0 .. len - 1 : g[1 .. k + 1] = Turn(by, all, g[1 .. k], q[k + 1])
    <2>1. TakesTurns(g, by, all, base, q, len)
        BY FoldNext, Zenon DEF OneMore
    <2> QED
        BY <2>1 DEF TakesTurns
<1>2. /\ h[1 .. 0] = base
      /\ \A k \in 0 .. len : h[1 .. k + 1] = Turn(by, all, h[1 .. k], r[k + 1])
    <2>1. len + 1 \in Nat /\ (len + 1) - 1 = len
        OBVIOUS
    <2>2. TakesTurns(h, by, all, base, r, len + 1)
        BY <2>1, FoldNext, Zenon DEF OneMore
    <2> QED
        BY <2>1, <2>2 DEF TakesTurns
<1> DEFINE Bad == {k \in 0 .. len : g[1 .. k] # h[1 .. k]}
<1>3. ASSUME Bad # {} PROVE FALSE
    <2>1. PICK k \in Bad : \A j \in Bad : k <= j
        <3>1. Bad \subseteq Nat
            OBVIOUS
        <3> HIDE DEF Bad
        <3> QED
            BY <1>3, <3>1, LeastNatural
    <2>2. k # 0
        BY <1>1, <1>2, <2>1
    <2>3. PICK j \in 0 .. len - 1 : k = j + 1
        <3>1. k - 1 \in 0 .. len - 1 /\ k = (k - 1) + 1
            BY <2>1, <2>2
        <3> QED
            BY <3>1
    <2>4. j \notin Bad /\ j \in 0 .. len /\ j + 1 \in 1 .. len
        BY <2>1, <2>3
    <2>5. g[1 .. j] = h[1 .. j]
        BY <2>4
    <2>6. g[1 .. j + 1] = h[1 .. j + 1]
        BY <1>1, <1>2, <2>3, <2>4, <2>5
    <2> QED
        BY <2>1, <2>3, <2>6
<1>4. len \in 0 .. len
    OBVIOUS
<1>5. g[1 .. len] = h[1 .. len]
    BY <1>3, <1>4
<1> QED
    BY <1>2, <1>4, <1>5

(* The two loops of the script are such folds.                              *)
LEMMA ReadLogIsFold ==
    ASSUME NEW lines, NEW len \in Nat, DOMAIN lines = 1 .. len
    PROVE  \E it : /\ IsFold(it, "read", {}, Empty, lines)
                   /\ ReadLog(lines) = it[1 .. len]
<1> DEFINE Made(x) == x = [s \in SUBSET DOMAIN lines |->
                              IF s = {} THEN Empty
                              ELSE ReadLine(x[s \ {Max(s)}], lines[Max(s)])]
           it == CHOOSE x : Made(x)
<1>1. ReadLog(lines) = it[DOMAIN lines]
    BY DEF ReadLog, FoldLeft, MapThenFoldSet, Empty
<1>2. ASSUME NEW x PROVE Made(x) <=> IsFold(x, "read", {}, Empty, lines)
    <2>1. \A s : FoldOf(x, "read", {}, Empty, lines, s) =
                 IF s = {} THEN Empty ELSE ReadLine(x[s \ {Max(s)}], lines[Max(s)])
        BY DEF FoldOf, Turn
    <2> QED
        BY <2>1 DEF IsFold
<1>3. PICK x : IsFold(x, "read", {}, Empty, lines)
    BY FoldExists, Zenon
<1>4. Made(it)
    <2>1. Made(x)
        BY <1>2, <1>3
    <2> HIDE DEF Made
    <2> QED
        BY <2>1, Zenon
<1>5. IsFold(it, "read", {}, Empty, lines)
    <2> HIDE DEF Made, it
    <2> QED
        BY <1>2, <1>4
<1> HIDE DEF it
<1> QED
    BY <1>1, <1>5

LEMMA HashValuesIsFold ==
    ASSUME NEW lines, NEW q, q = ReadLog(lines).out,
           NEW len \in Nat, DOMAIN q = 1 .. len
    PROVE  \E it : /\ IsFold(it, "write", q, <<>>, q)
                   /\ HashValues(lines) = it[1 .. len]
<1> DEFINE Made(x) == x = [s \in SUBSET DOMAIN q |->
                              IF s = {} THEN <<>>
                              ELSE WriteHero(q, x[s \ {Max(s)}], q[Max(s)])]
           it == CHOOSE x : Made(x)
<1>1. HashValues(lines) = it[DOMAIN q]
    BY DEF HashValues, FoldLeft, MapThenFoldSet
<1>2. ASSUME NEW x PROVE Made(x) <=> IsFold(x, "write", q, <<>>, q)
    <2>1. \A s : FoldOf(x, "write", q, <<>>, q, s) =
                 IF s = {} THEN <<>> ELSE WriteHero(q, x[s \ {Max(s)}], q[Max(s)])
        BY DEF FoldOf, Turn
    <2> QED
        BY <2>1 DEF IsFold
<1>3. PICK x : IsFold(x, "write", q, <<>>, q)
    BY FoldExists, Zenon
<1>4. Made(it)
    <2>1. Made(x)
        BY <1>2, <1>3
    <2> HIDE DEF Made
    <2> QED
        BY <2>1, Zenon
<1>5. IsFold(it, "write", q, <<>>, q)
    <2> HIDE DEF Made, it
    <2> QED
        BY <1>2, <1>4
<1> HIDE DEF it
<1> QED
    BY <1>1, <1>5

(* The script has read nothing of an empty log, and one line more of a log  *)
(* that has one line more.                                                  *)
LEMMA ReadLogEmpty == ReadLog(<<>>) = Empty
<1>1. 0 \in Nat /\ DOMAIN <<>> = 1 .. 0
    OBVIOUS
<1>2. PICK it : /\ IsFold(it, "read", {}, Empty, <<>>)
                /\ ReadLog(<<>>) = it[1 .. 0]
    BY <1>1, ReadLogIsFold, Zenon
<1>3. TakesTurns(it, "read", {}, Empty, <<>>, 0)
    BY <1>1, <1>2, FoldNext, Zenon
<1> QED
    BY <1>2, <1>3, Zenon DEF TakesTurns

LEMMA ReadLogAppend ==
    ASSUME NEW T, NEW q \in Seq(T), NEW x \in T
    PROVE  ReadLog(Append(q, x)) = ReadLine(ReadLog(q), x)
<1>1. PICK len \in Nat : /\ DOMAIN q = 1 .. len
                         /\ DOMAIN Append(q, x) = 1 .. len + 1
                         /\ \A i \in 1 .. len : Append(q, x)[i] = q[i]
                         /\ Append(q, x)[len + 1] = x
    OBVIOUS
<1>2. len + 1 \in Nat
    OBVIOUS
<1>3. PICK g : IsFold(g, "read", {}, Empty, q) /\ ReadLog(q) = g[1 .. len]
    BY <1>1, ReadLogIsFold, Zenon
<1>4. PICK r : r = Append(q, x)
    OBVIOUS
<1>5. PICK h : IsFold(h, "read", {}, Empty, r) /\ ReadLog(r) = h[1 .. len + 1]
    BY <1>1, <1>2, <1>4, ReadLogIsFold, Zenon
<1>6. h[1 .. len + 1] = Turn("read", {}, g[1 .. len], r[len + 1])
    <2>1. OneMore(r, q, len)
        BY <1>1, <1>4, Zenon DEF OneMore
    <2>2. IsFold(g, "read", {}, Empty, q) /\ IsFold(h, "read", {}, Empty, r)
        BY <1>3, <1>5, Zenon
    <2> QED
        BY <2>1, <2>2, FoldPrefix
<1> QED
    BY <1>1, <1>3, <1>4, <1>5, <1>6, Zenon DEF Turn

-----------------------------------------------------------------------------
(* What a line does to the script.                                          *)
V == Vars \cup {LibcVar, OwnVar}

Pairs == [var : V, size : Nat]

Logs == [hashObj : Seq(V), out : Seq(Pairs), orphans : Nat]

LogLines ==
    [tag : {"Hash"}, var : V] \cup [tag : {"Trace"}, size : Nat] \cup [tag : {"Free"}]

(* A [Hash] line joins the queue.                                           *)
LEMMA ReadHash ==
    ASSUME NEW s \in Logs, NEW v \in V, NEW r,
           r = ReadLine(s, [tag |-> "Hash", var |-> v])
    PROVE  /\ r \in Logs
           /\ r.hashObj = Append(s.hashObj, v)
           /\ r.out = s.out /\ r.orphans = s.orphans
<1>1. r = [s EXCEPT !.hashObj = Append(@, v)]
    BY DEF ReadLine
<1>2. s.hashObj \in Seq(V) /\ Append(s.hashObj, v) \in Seq(V)
    BY DEF Logs
<1> QED
    BY <1>1, <1>2 DEF Logs

(* A [Trace] line takes the first of a queue that is not empty.             *)
LEMMA ReadTrace ==
    ASSUME NEW s \in Logs, s.hashObj # <<>>, NEW n \in Nat, NEW r,
           r = ReadLine(s, [tag |-> "Trace", size |-> n])
    PROVE  /\ r \in Logs
           /\ r.hashObj = Tail(s.hashObj)
           /\ r.out = Append(s.out, [var |-> Head(s.hashObj), size |-> n])
           /\ r.orphans = s.orphans
<1> DEFINE p == [var |-> Head(s.hashObj), size |-> n]
<1>1. r = [s EXCEPT !.hashObj = Tail(@), !.out = Append(@, p)]
    BY DEF ReadLine
<1>2. s.hashObj \in Seq(V) /\ s.out \in Seq(Pairs)
    BY DEF Logs
<1>3. Head(s.hashObj) \in V /\ Tail(s.hashObj) \in Seq(V)
    BY <1>2
<1>4. p \in Pairs
    BY <1>3 DEF Pairs
<1> HIDE DEF p
<1>5. Append(s.out, p) \in Seq(Pairs)
    BY <1>2, <1>4
<1>6. /\ r.hashObj = Tail(s.hashObj) /\ r.out = Append(s.out, p)
      /\ r.orphans = s.orphans /\ r \in Logs
    BY <1>1, <1>3, <1>5 DEF Logs
<1> QED
    BY <1>6 DEF p

(* A [Trace] line that finds the queue empty is counted.                    *)
LEMMA ReadOrphan ==
    ASSUME NEW s \in Logs, s.hashObj = <<>>, NEW n \in Nat, NEW r,
           r = ReadLine(s, [tag |-> "Trace", size |-> n])
    PROVE  /\ r \in Logs
           /\ r.hashObj = <<>> /\ r.out = s.out
           /\ r.orphans = s.orphans + 1
<1>1. r = [s EXCEPT !.orphans = @ + 1]
    BY DEF ReadLine
<1> QED
    BY <1>1 DEF Logs

(* A line of a free means nothing to it.                                    *)
LEMMA ReadFree ==
    ASSUME NEW s
    PROVE  ReadLine(s, [tag |-> "Free"]) = s
BY DEF ReadLine

(* What the script has read when the log is at its end.                     *)
Log == ReadLog(trace_file)

(* A line that is written is read, unless it is covered at exit.            *)
LEMMA WriteIsRead ==
    ASSUME trace_file \in Seq(LogLines), overwritten \in BOOLEAN,
           NEW x \in LogLines, Write(x)
    PROVE  /\ trace_file' \in Seq(LogLines) /\ overwritten' \in BOOLEAN
           /\ ~overwritten => Log' = ReadLine(Log, x) /\ ~overwritten'
           /\ overwritten => Log' = Log
<1>1. CASE overwritten
    BY <1>1 DEF Write, Log
<1>2. CASE ~overwritten
    <2>1. trace_file' = Append(trace_file, x) /\ overwritten' = FALSE
        BY <1>2 DEF Write
    <2>2. ReadLog(Append(trace_file, x)) = ReadLine(ReadLog(trace_file), x)
        <3>1. \A q \in Seq(LogLines) : ReadLog(Append(q, x)) = ReadLine(ReadLog(q), x)
            BY ReadLogAppend, Zenon
        <3> QED
            BY <3>1, Zenon
    <2>3. Append(trace_file, x) \in Seq(LogLines)
        OBVIOUS
    <2>4. Log' = ReadLine(Log, x)
        BY <2>1, <2>2 DEF Log
    <2> QED
        BY <1>2, <2>1, <2>3, <2>4
<1> QED
    BY <1>1, <1>2

-----------------------------------------------------------------------------
(* Only the innermost frame of a thread moves: those below it are all where *)
(* they will go on when the call above returns.                             *)
BelowLook ==
    \A t \in Threads : \A i \in 2 .. Len(frames[t]) : frames[t][i].place = "look"

(* The threads between their [Hash] line and their [Trace] line.            *)
Tracing == {t \in Threads : At(t, "trace")}

(* Each of them has an element in the queue that the script builds, but for *)
(* those whose [Hash] line is covered: they become orphans, and the lines   *)
(* that are covered are the first ones after the constructor.               *)
QueueFits ==
    /\ Len(Log.hashObj) <= Cardinality(Tracing)
    /\ Cardinality(Tracing) + Log.orphans <= Cardinality(Threads) + Len(Log.hashObj)
    /\ first_lines = 0 => Len(Log.hashObj) = Cardinality(Tracing) /\ Log.orphans = 0
    /\ overwritten => Log.hashObj = <<>> /\ Log.orphans = 0 /\ first_lines # 0
    /\ ~constructed => first_lines = 0

OrphanInv ==
    /\ FlagInv /\ BelowLook
    /\ trace_file \in Seq(LogLines) /\ Log \in Logs
    /\ overwritten \in BOOLEAN /\ first_lines \in Nat
    /\ QueueFits

(* The numbers are numbers.                                                 *)
LEMMA TracingCounts ==
    ASSUME OrphanInv
    PROVE  /\ IsFiniteSet(Tracing) /\ Cardinality(Tracing) \in Nat
           /\ Cardinality(Threads) \in Nat /\ Cardinality(Tracing) <= Cardinality(Threads)
           /\ Len(Log.hashObj) \in Nat /\ Log.orphans \in Nat /\ Log.hashObj \in Seq(V)
<1>1. Tracing \subseteq Threads /\ IsFiniteSet(Threads)
    BY ThreadsAssumption DEF Tracing
<1>2. /\ IsFiniteSet(Tracing) /\ Cardinality(Tracing) \in Nat
      /\ Cardinality(Threads) \in Nat /\ Cardinality(Tracing) <= Cardinality(Threads)
    BY <1>1, FS_Subset, FS_CardinalityType
<1>3. Log.hashObj \in Seq(V) /\ Log.orphans \in Nat
    BY DEF OrphanInv, Logs
<1>4. Len(Log.hashObj) \in Nat
    BY <1>3
<1> QED
    BY <1>2, <1>3, <1>4

(* A step of one thread leaves the others where they are.                   *)
Alone(t) == \A u \in Threads \ {t} : frames'[u] = frames[u]

LEMMA BelowLookKept ==
    ASSUME FramesOK, BelowLook, FramesOK', NEW t \in Threads, Alone(t),
           \A i \in 2 .. Len(frames'[t]) : frames'[t][i].place = "look"
    PROVE  BelowLook'
BY DEF BelowLook, Alone

LEMMA OneGoto ==
    ASSUME FramesOK, BelowLook, NEW t \in Threads, frames[t] # <<>>,
           NEW place \in Places, Goto(t, place)
    PROVE  /\ Alone(t) /\ BelowLook'
           /\ frames'[t] = <<[Head(frames[t]) EXCEPT !.place = place]>> \o Tail(frames[t])
           /\ (At(t, "trace"))' <=> place = "trace"
<1>1. FramesOK' /\ frames'[t] # <<>> /\ Head(frames'[t]).place = place /\ Alone(t)
    BY GotoMoves DEF Alone
<1> DEFINE f == frames[t]
           g == [f EXCEPT ![1] = [f[1] EXCEPT !.place = place]]
<1>2. frames'[t] = g
    BY DEF Goto, FramesOK
<1>3. f \in Seq(Frames) /\ f # <<>> /\ Len(f) \in Nat /\ f[1] \in Frames
    BY DEF FramesOK
<1>4. Len(g) = Len(f) /\ \A i \in 2 .. Len(f) : g[i] = f[i]
    BY <1>3
<1>5. BelowLook'
    <2>1. \A i \in 2 .. Len(frames'[t]) : frames'[t][i].place = "look"
        BY <1>2, <1>4 DEF BelowLook
    <2> QED
        BY <1>1, <2>1, BelowLookKept
<1>6. g = <<[Head(f) EXCEPT !.place = place]>> \o Tail(f)
    BY <1>3
<1> QED
    BY <1>1, <1>2, <1>5, <1>6 DEF At

(* A call of the application.                                               *)
LEMMA CallFrames ==
    ASSUME FlagInv, BelowLook, NEW t \in Threads, Call(t)
    PROVE  /\ Alone(t) /\ BelowLook' /\ FlagInv'
           /\ ~At(t, "trace") /\ ~(At(t, "trace"))'
           /\ UNCHANGED <<trace_file, overwritten, start_vars>>
<1>1. /\ FlagInv' /\ frames[t] = <<>>
      /\ UNCHANGED <<trace_file, overwritten, start_vars>>
    BY CallKeepsInv DEF Call, Alloc, Free
<1>2. \/ \E f \in {Frame("free", OwnVar, 0)}
                  \cup {Frame("enter", v, n) : v \in Vars \cup {LibcVar}, n \in Sizes} :
            Push(t, f)
      \/ frames' = frames
    <2>1. CASE Free(t)
        BY <2>1 DEF Free
    <2>2. ASSUME NEW v \in Vars \cup {LibcVar}, NEW n \in Sizes, Alloc(t, v, n)
          PROVE  Push(t, Frame("enter", v, n)) \/ frames' = frames
        BY <2>2 DEF Alloc
    <2> QED
        BY <2>1, <2>2 DEF Call
<1>3. CASE frames' = frames
    BY <1>1, <1>3 DEF Alone, BelowLook, At
<1>4. ASSUME NEW f, Push(t, f), f.place # "trace"
      PROVE  Alone(t) /\ BelowLook' /\ ~(At(t, "trace"))'
    <2>1. frames'[t] = <<f>> /\ Alone(t)
        BY <1>1, <1>4 DEF Push, Alone, FlagInv, FramesOK
    <2>2. \A i \in 2 .. Len(frames'[t]) : frames'[t][i].place = "look"
        BY <2>1
    <2>3. BelowLook'
        BY <1>1, <2>1, <2>2, BelowLookKept DEF FlagInv
    <2> QED
        BY <1>4, <2>1, <2>3 DEF At
<1>5. Frame("free", OwnVar, 0).place # "trace"
    BY DEF Frame
<1>6. \A v \in Vars \cup {LibcVar}, n \in Sizes : Frame("enter", v, n).place # "trace"
    BY DEF Frame
<1> QED
    BY <1>1, <1>2, <1>3, <1>4, <1>5, <1>6 DEF At

(* An allocation of the library itself.                                     *)
LEMMA NestedFrames ==
    ASSUME FlagInv, BelowLook, NEW t \in Threads, NestedMalloc(t)
    PROVE  Alone(t) /\ BelowLook' /\ ~(At(t, "trace"))'
<1>1. FramesOK /\ FramesOK' /\ frames[t] # <<>>
    BY NestedKeepsInv DEF FlagInv, NestedMalloc, At
<1>2. CASE Goto(t, "look")
    BY <1>1, <1>2, OneGoto DEF Places
<1>3. CASE ~Goto(t, "look")
    <2> DEFINE f == frames[t]
               e == Frame("enter", OwnVar, OwnSize)
               g == [Head(f) EXCEPT !.place = "look"]
               fs == <<e, g>> \o Tail(f)
    <2>1. f \in Seq(Frames) /\ f # <<>> /\ Head(f) \in Frames /\ Len(f) \in Nat
        BY <1>1 DEF FramesOK
    <2>2. frames' = [frames EXCEPT ![t] = fs]
        BY <1>3 DEF NestedMalloc
    <2>3. frames'[t] = fs /\ Alone(t)
        BY <2>2 DEF Alone, FlagInv, FramesOK
    <2>4. e.place = "enter" /\ g.place = "look"
        BY <2>1 DEF Frame, Frames
    <2> HIDE DEF e, g
    <2>5. /\ Len(fs) = Len(f) + 1 /\ fs[1] = e /\ fs[2] = g /\ fs # <<>> /\ Head(fs) = e
          /\ \A i \in 3 .. Len(fs) : fs[i] = f[i - 1] /\ i - 1 \in 2 .. Len(f)
        BY <2>1
    <2> HIDE DEF fs
    <2>6. \A i \in 2 .. Len(fs) : fs[i].place = "look"
        <3>1. \A i \in 2 .. Len(f) : f[i].place = "look"
            BY DEF BelowLook
        <3>2. \A i \in 2 .. Len(fs) : i = 2 \/ i \in 3 .. Len(fs)
            BY <2>1, <2>5
        <3> QED
            BY <2>4, <2>5, <3>1, <3>2
    <2>7. BelowLook'
        BY <1>1, <2>3, <2>6, BelowLookKept
    <2> QED
        BY <2>3, <2>4, <2>5, <2>7 DEF At
<1> QED
    BY <1>2, <1>3

(* The end of a call.                                                       *)
LEMMA ClearFrames ==
    ASSUME FlagInv, BelowLook, NEW t \in Threads, ClearFlag(t)
    PROVE  /\ Alone(t) /\ BelowLook' /\ ~(At(t, "trace"))'
           /\ frames'[t] = Tail(frames[t])
<1> DEFINE f == frames[t]
<1>1. FramesOK' /\ f \in Seq(Frames) /\ f # <<>> /\ Len(f) \in Nat
    <2>1. FramesOK'
        BY ClearKeepsInv DEF FlagInv
    <2> QED
        BY <2>1 DEF FlagInv, FramesOK, ClearFlag, At
<1>2. frames'[t] = Tail(f) /\ Alone(t)
    BY DEF ClearFlag, Pop, Alone, FlagInv, FramesOK
<1> HIDE DEF f
<1>3. \A i \in 1 .. Len(Tail(f)) : Tail(f)[i] = f[i + 1] /\ i + 1 \in 2 .. Len(f)
    BY <1>1
<1>4. \A i \in 2 .. Len(f) : f[i].place = "look"
    BY DEF BelowLook, f
<1>5. \A i \in 1 .. Len(Tail(f)) : Tail(f)[i].place = "look"
    BY <1>3, <1>4
<1>6. BelowLook'
    <2>1. \A i \in 2 .. Len(Tail(f)) : i \in 1 .. Len(Tail(f))
        BY <1>1
    <2> QED
        BY <1>1, <1>2, <1>5, <2>1, BelowLookKept DEF FlagInv
<1>7. Tail(f) # <<>> => Head(Tail(f)).place = "look"
    <2>1. Tail(f) # <<>> => 1 \in 1 .. Len(Tail(f)) /\ Head(Tail(f)) = Tail(f)[1]
        BY <1>1
    <2> QED
        BY <1>5, <2>1
<1> QED
    BY <1>2, <1>6, <1>7 DEF At, f

(* Every step of a thread inside the library.                               *)
LEMMA InsideFrames ==
    ASSUME FlagInv, BelowLook, NEW t \in Threads, Inside(t)
    PROVE  /\ Alone(t) /\ BelowLook' /\ FlagInv'
           /\ (At(t, "trace"))' <=> LogHash(t)
           /\ At(t, "trace") <=> LogTrace(t)
<1>1. FlagInv' /\ FramesOK
    BY InsideKeepsInv DEF FlagInv
<1>2. CASE SetFlag(t)
    <2>1. \/ At(t, "enter") /\ Goto(t, "symbols")
          \/ At(t, "free") /\ Goto(t, "freeline")
        BY <1>2 DEF SetFlag
    <2>2. frames[t] # <<>> /\ ~At(t, "trace") /\ ~At(t, "look")
        BY <2>1 DEF At
    <2>3. Alone(t) /\ BelowLook' /\ ~(At(t, "trace"))'
        BY <1>1, <2>1, <2>2, OneGoto DEF Places
    <2> QED
        BY <1>1, <2>2, <2>3 DEF LogHash, LogTrace
<1>3. CASE NestedMalloc(t)
    <2>1. ~At(t, "trace") /\ ~At(t, "look")
        BY <1>3 DEF NestedMalloc, At
    <2> QED
        BY <1>1, <1>3, <2>1, NestedFrames DEF LogHash, LogTrace
<1>4. CASE IgnoreLibc(t)
    <2>1. frames[t] # <<>> /\ Goto(t, "leave") /\ ~At(t, "trace") /\ ~LogHash(t)
        BY <1>4 DEF IgnoreLibc, At, LogHash
    <2> QED
        BY <1>1, <2>1, OneGoto DEF Places, LogTrace
<1>5. CASE LogHash(t)
    <2>1. frames[t] # <<>> /\ Goto(t, "trace") /\ ~At(t, "trace")
        BY <1>5 DEF LogHash, At
    <2> QED
        BY <1>1, <1>5, <2>1, OneGoto DEF Places, LogTrace
<1>6. CASE LogTrace(t)
    <2>1. frames[t] # <<>> /\ Goto(t, "leave") /\ At(t, "trace") /\ ~LogHash(t)
        BY <1>6 DEF LogTrace, LogHash, At
    <2> QED
        BY <1>1, <1>6, <2>1, OneGoto DEF Places
<1>7. CASE LogFree(t)
    <2>1. frames[t] # <<>> /\ Goto(t, "leave") /\ ~At(t, "trace") /\ ~LogHash(t)
        BY <1>7 DEF LogFree, LogHash, At
    <2> QED
        BY <1>1, <2>1, OneGoto DEF Places, LogTrace
<1>8. CASE ClearFlag(t)
    <2>1. ~At(t, "trace") /\ ~LogHash(t)
        BY <1>8 DEF ClearFlag, LogHash, At
    <2> QED
        BY <1>1, <1>8, <2>1, ClearFrames DEF LogTrace
<1> QED
    BY <1>2, <1>3, <1>4, <1>5, <1>6, <1>7, <1>8 DEF Inside

(* What a step writes.                                                      *)
LEMMA InsideWrites ==
    ASSUME FlagInv, NEW t \in Threads, Inside(t)
    PROVE  /\ UNCHANGED start_vars
           /\ \/ /\ UNCHANGED <<trace_file, overwritten>>
                 /\ ~LogHash(t) /\ ~LogTrace(t)
              \/ Write([tag |-> "Free"]) /\ ~LogHash(t) /\ ~LogTrace(t)
              \/ LogHash(t) \/ LogTrace(t)
BY DEF Inside, SetFlag, NestedMalloc, IgnoreLibc, LogHash, LogTrace, LogFree, ClearFlag

(* A step of one thread lets only that thread between its two lines, or out *)
(* of there.                                                                *)
LEMMA TracingMoves ==
    ASSUME NEW t \in Threads, Alone(t)
    PROVE  Tracing' = IF (At(t, "trace"))' THEN Tracing \cup {t} ELSE Tracing \ {t}
BY DEF Tracing, At, Alone

(* A step that writes no [Hash] and no [Trace] line changes nothing of it.  *)
LEMMA OrphanInvKept ==
    ASSUME OrphanInv, FlagInv', BelowLook', Tracing' = Tracing,
           UNCHANGED start_vars,
           UNCHANGED <<trace_file, overwritten>> \/ Write([tag |-> "Free"])
    PROVE  OrphanInv'
<1>1. /\ trace_file' \in Seq(LogLines) /\ Log' = Log /\ overwritten' \in BOOLEAN
      /\ overwritten' => overwritten
    <2>1. CASE UNCHANGED <<trace_file, overwritten>>
        BY <2>1 DEF Log, OrphanInv
    <2>2. CASE Write([tag |-> "Free"])
        <3>1. [tag |-> "Free"] \in LogLines
            BY DEF LogLines
        <3>2. ReadLine(Log, [tag |-> "Free"]) = Log
            BY ReadFree
        <3> QED
            BY <2>2, <3>1, <3>2, WriteIsRead DEF OrphanInv
    <2> QED
        BY <2>1, <2>2
<1>2. first_lines' = first_lines /\ constructed' = constructed
    BY DEF start_vars
<1> QED
    BY <1>1, <1>2 DEF OrphanInv, QueueFits

LEMMA LogHashOrphanInv ==
    ASSUME OrphanInv, NEW t \in Threads, LogHash(t)
    PROVE  OrphanInv'
<1>1. FlagInv /\ BelowLook /\ Inside(t)
    BY DEF OrphanInv, Inside
<1>2. Alone(t) /\ BelowLook' /\ FlagInv' /\ (At(t, "trace"))' /\ ~LogTrace(t) /\ ~At(t, "trace")
    <2>1. ~LogTrace(t)
        BY DEF LogHash, LogTrace, At
    <2> QED
        BY <1>1, <2>1, InsideFrames
<1>3. Tracing' = Tracing \cup {t} /\ t \notin Tracing /\ Tracing' \subseteq Threads
    BY <1>2, TracingMoves DEF Tracing
<1>4. /\ Cardinality(Tracing') = Cardinality(Tracing) + 1
      /\ Cardinality(Tracing') <= Cardinality(Threads)
    BY <1>3, TracingCounts, ThreadsAssumption, FS_AddElement, FS_Subset
<1> DEFINE v == Head(frames[t]).var
<1>5. v \in V
    <2>1. frames[t] \in Seq(Frames) /\ frames[t] # <<>>
        BY <1>1 DEF LogHash, At, FlagInv, FramesOK
    <2>2. Head(frames[t]) \in Frames
        BY <2>1
    <2> QED
        BY <2>2 DEF Frames, V
<1> HIDE DEF v
<1>6. [tag |-> "Hash", var |-> v] \in LogLines
    BY <1>5 DEF LogLines
<1>7. Write([tag |-> "Hash", var |-> v]) /\ UNCHANGED start_vars
    BY DEF LogHash, v
<1>8. /\ trace_file' \in Seq(LogLines) /\ overwritten' \in BOOLEAN
      /\ ~overwritten => Log' = ReadLine(Log, [tag |-> "Hash", var |-> v]) /\ ~overwritten'
      /\ overwritten => Log' = Log
    BY <1>6, <1>7, WriteIsRead DEF OrphanInv
<1>9. first_lines' = first_lines /\ constructed' = constructed
    BY <1>7 DEF start_vars
<1>10. CASE overwritten
    <2>1. Log' = Log /\ Len(Log.hashObj) = 0 /\ Log.orphans = 0 /\ first_lines # 0
        BY <1>8, <1>10, TracingCounts DEF OrphanInv, QueueFits
    <2>2. QueueFits'
        BY <1>4, <1>9, <1>10, <2>1, TracingCounts DEF OrphanInv, QueueFits
    <2> QED
        BY <1>2, <1>8, <1>9, <2>1, <2>2 DEF OrphanInv
<1>11. CASE ~overwritten
    <2>1. Log' \in Logs /\ Log'.hashObj = Append(Log.hashObj, v) /\ Log'.orphans = Log.orphans
        BY <1>5, <1>8, <1>11, ReadHash DEF OrphanInv
    <2>2. Len(Log'.hashObj) = Len(Log.hashObj) + 1
        BY <1>5, <2>1, TracingCounts
    <2>3. QueueFits'
        BY <1>4, <1>8, <1>9, <1>11, <2>1, <2>2, TracingCounts DEF OrphanInv, QueueFits
    <2> QED
        BY <1>2, <1>8, <1>9, <2>1, <2>3 DEF OrphanInv
<1> QED
    BY <1>10, <1>11

LEMMA LogTraceOrphanInv ==
    ASSUME OrphanInv, NEW t \in Threads, LogTrace(t)
    PROVE  OrphanInv'
<1>1. FlagInv /\ BelowLook /\ Inside(t)
    BY DEF OrphanInv, Inside
<1>2. Alone(t) /\ BelowLook' /\ FlagInv' /\ ~(At(t, "trace"))' /\ At(t, "trace")
    <2>1. ~LogHash(t)
        BY DEF LogHash, LogTrace, At
    <2> QED
        BY <1>1, <2>1, InsideFrames
<1>3. Tracing' = Tracing \ {t} /\ t \in Tracing
    BY <1>2, TracingMoves DEF Tracing
<1>4. Cardinality(Tracing') = Cardinality(Tracing) - 1 /\ Cardinality(Tracing) # 0
    BY <1>3, TracingCounts, FS_RemoveElement, FS_EmptySet
<1> DEFINE n == Head(frames[t]).size
<1>5. n \in Nat
    <2>1. frames[t] \in Seq(Frames) /\ frames[t] # <<>>
        BY <1>1 DEF LogTrace, At, FlagInv, FramesOK
    <2>2. Head(frames[t]) \in Frames
        BY <2>1
    <2> QED
        BY <2>2 DEF Frames
<1> HIDE DEF n
<1>6. [tag |-> "Trace", size |-> n] \in LogLines
    BY <1>5 DEF LogLines
<1>7. Write([tag |-> "Trace", size |-> n]) /\ UNCHANGED start_vars
    BY DEF LogTrace, n
<1>8. /\ trace_file' \in Seq(LogLines) /\ overwritten' \in BOOLEAN
      /\ ~overwritten => Log' = ReadLine(Log, [tag |-> "Trace", size |-> n]) /\ ~overwritten'
      /\ overwritten => Log' = Log
    BY <1>6, <1>7, WriteIsRead DEF OrphanInv
<1>9. first_lines' = first_lines /\ constructed' = constructed
    BY <1>7 DEF start_vars
<1>10. CASE overwritten
    <2>1. Log' = Log /\ Len(Log.hashObj) = 0 /\ Log.orphans = 0 /\ first_lines # 0
        BY <1>8, <1>10, TracingCounts DEF OrphanInv, QueueFits
    <2>2. QueueFits'
        BY <1>4, <1>9, <1>10, <2>1, TracingCounts DEF OrphanInv, QueueFits
    <2> QED
        BY <1>2, <1>8, <1>9, <2>1, <2>2 DEF OrphanInv
<1>11. CASE ~overwritten /\ Log.hashObj # <<>>
    <2>1. Log' \in Logs /\ Log'.hashObj = Tail(Log.hashObj) /\ Log'.orphans = Log.orphans
        BY <1>5, <1>8, <1>11, ReadTrace DEF OrphanInv
    <2>2. Len(Log'.hashObj) = Len(Log.hashObj) - 1
        BY <1>11, <2>1, TracingCounts
    <2>3. QueueFits'
        BY <1>4, <1>8, <1>9, <1>11, <2>1, <2>2, TracingCounts DEF OrphanInv, QueueFits
    <2> QED
        BY <1>2, <1>8, <1>9, <2>1, <2>3 DEF OrphanInv
<1>12. CASE ~overwritten /\ Log.hashObj = <<>>
    <2>1. /\ Log' \in Logs /\ Log'.hashObj = Log.hashObj
          /\ Log'.orphans = Log.orphans + 1
        BY <1>5, <1>8, <1>12, ReadOrphan DEF OrphanInv
    <2>2. Len(Log.hashObj) = 0
        BY <1>12
    <2>3. QueueFits'
        BY <1>4, <1>8, <1>9, <1>12, <2>1, <2>2, TracingCounts DEF OrphanInv, QueueFits
    <2> QED
        BY <1>2, <1>8, <1>9, <2>1, <2>3 DEF OrphanInv
<1> QED
    BY <1>10, <1>11, <1>12

(* At the constructor nobody is between two lines, and nothing is covered   *)
(* yet.                                                                     *)
LEMMA ConstructorOrphanInv ==
    ASSUME OrphanInv, Constructor
    PROVE  OrphanInv'
<1>1. /\ frames' = frames /\ trace_file' = trace_file /\ ~constructed /\ constructed'
      /\ first_lines' = Len(trace_file) /\ overwritten' = (trace_file # <<>>)
    BY DEF Constructor
<1>2. FlagInv' /\ BelowLook' /\ Log' = Log /\ Tracing' = Tracing
    BY <1>1, ConstructorKeepsInv DEF OrphanInv, BelowLook, Log, Tracing, At
<1>3. Tracing = {}
    BY DEF Constructor, AtRest, Tracing, At
<1>4. Cardinality(Tracing) = 0
    BY <1>3, FS_EmptySet
<1>5. Len(Log.hashObj) = 0 /\ Log.orphans = 0 /\ Log.hashObj = <<>>
    BY <1>1, <1>4, TracingCounts DEF OrphanInv, QueueFits
<1>6. /\ first_lines' \in Nat /\ overwritten' \in BOOLEAN
      /\ overwritten' => first_lines' # 0
    <2>1. trace_file \in Seq(LogLines)
        BY DEF OrphanInv
    <2> HIDE DEF LogLines
    <2>2. Len(trace_file) \in Nat /\ (trace_file # <<>> => Len(trace_file) # 0)
        BY <2>1
    <2>3. (trace_file # <<>>) \in BOOLEAN
        OBVIOUS
    <2> QED
        BY <1>1, <2>2, <2>3, Zenon
<1>7. QueueFits'
    BY <1>1, <1>2, <1>4, <1>5, <1>6, TracingCounts DEF QueueFits
<1> QED
    BY <1>1, <1>2, <1>6, <1>7 DEF OrphanInv

LEMMA OrphanInvInit == Init => OrphanInv
<1> SUFFICES ASSUME Init PROVE OrphanInv
    OBVIOUS
<1>1. /\ frames = [t \in Threads |-> <<>>] /\ trace_file = <<>>
      /\ ~overwritten /\ overwritten \in BOOLEAN /\ first_lines = 0
    BY DEF Init
<1>2. Log = Empty
    BY <1>1, ReadLogEmpty DEF Log
<1>3. Empty \in Logs /\ Len(Empty.hashObj) = 0 /\ Empty.orphans = 0
    BY DEF Empty, Logs
<1>4. Tracing = {}
    BY <1>1 DEF Tracing, At
<1>5. BelowLook
    BY <1>1 DEF BelowLook
<1>6. Cardinality(Tracing) = 0 /\ Cardinality(Threads) \in Nat
    BY <1>4, FS_EmptySet, FS_CardinalityType, ThreadsAssumption
<1>7. QueueFits
    BY <1>1, <1>2, <1>3, <1>6 DEF QueueFits
<1> QED
    BY <1>1, <1>2, <1>3, <1>5, <1>7, FlagInvInit DEF OrphanInv

LEMMA OrphanInvNext ==
    OrphanInv /\ [Next]_vars => OrphanInv'
<1> SUFFICES ASSUME OrphanInv, [Next]_vars PROVE OrphanInv'
    OBVIOUS
<1>1. FlagInv /\ BelowLook
    BY DEF OrphanInv
<1>2. ASSUME NEW t \in Threads, Call(t) PROVE OrphanInv'
    <2>1. /\ Alone(t) /\ BelowLook' /\ FlagInv'
          /\ UNCHANGED <<trace_file, overwritten>> /\ UNCHANGED start_vars
          /\ ~At(t, "trace") /\ ~(At(t, "trace"))'
        BY <1>1, <1>2, CallFrames
    <2>2. Tracing' = Tracing
        BY <2>1, TracingMoves DEF Tracing
    <2> QED
        BY <2>1, <2>2, OrphanInvKept
<1>3. ASSUME NEW t \in Threads, Inside(t), ~LogHash(t), ~LogTrace(t) PROVE OrphanInv'
    <2>1. /\ Alone(t) /\ BelowLook' /\ FlagInv'
          /\ ~At(t, "trace") /\ ~(At(t, "trace"))'
        BY <1>1, <1>3, InsideFrames
    <2>2. Tracing' = Tracing
        BY <2>1, TracingMoves DEF Tracing
    <2>3. /\ UNCHANGED start_vars
          /\ UNCHANGED <<trace_file, overwritten>> \/ Write([tag |-> "Free"])
        BY <1>1, <1>3, InsideWrites
    <2> QED
        BY <2>1, <2>2, <2>3, OrphanInvKept
<1>4. CASE UNCHANGED vars
    <2>1. /\ UNCHANGED <<trace_flag, frames, trace_file, overwritten>>
          /\ UNCHANGED start_vars
        BY <1>4 DEF vars
    <2>2. FlagInv' /\ BelowLook' /\ Tracing' = Tracing
        BY <1>1, <2>1 DEF FlagInv, FramesOK, FlagHasOwner, BelowLook, Tracing, At
    <2> QED
        BY <2>1, <2>2, OrphanInvKept
<1> QED
    BY <1>2, <1>3, <1>4, LogHashOrphanInv, LogTraceOrphanInv, ConstructorOrphanInv DEF Next

LEMMA OrphanInvBounds == OrphanInv => OrphansAreBounded
BY TracingCounts DEF OrphanInv, QueueFits, Log, OrphansAreBounded

(* Whatever the threads do, and however deep their calls are nested, the    *)
(* script finds a [Hash] for each [Trace], but for one call of each thread  *)
(* if lines of before the constructor cover others.                         *)
THEOREM FewTracesAreOrphans ==
    Spec => []OrphansAreBounded
BY OrphanInvInit, OrphanInvNext, OrphanInvBounds, PTL DEF Spec

(* The same for the two passes together.                                    *)
THEOREM FewTracesAreOrphansInBoth ==
    SpecTwoPass => []OrphansAreBounded
BY TwoPassIsFast, OrphanInvInit, OrphanInvNext, OrphanInvBounds, PTL DEF SpecTwoPass

-----------------------------------------------------------------------------
(* The second loop lists, in order and once each, the elements of its       *)
(* sequence that belong to a hero variable.                                 *)
Heroes(q, n) == {k \in 1 .. n : flagHero(q, q[k].var)}

Place(K, k) == Cardinality({j \in K : j <= k})

(* Sequence out holds the elements of q at the positions K.                 *)
IsList(out, q, K, T) ==
    /\ out \in Seq(T) /\ Len(out) = Cardinality(K)
    /\ \A k \in K : Place(K, k) \in 1 .. Len(out) /\ out[Place(K, k)] = q[k]
    /\ \A i \in 1 .. Len(out) : \E k \in K : out[i] = q[k]

(* One element more, behind all that are there.                             *)
LEMMA ListGrows ==
    ASSUME NEW T, NEW q, NEW n \in Nat, NEW K, K \subseteq 1 .. n, q[n + 1] \in T,
           NEW out, IsList(out, q, K, T)
    PROVE  IsList(Append(out, q[n + 1]), q, K \cup {n + 1}, T)
<1> DEFINE m == n + 1
           L == K \cup {m}
           r == Append(out, q[m])
<1>1. IsFiniteSet(K)
    <2>1. IsFiniteSet(1 .. n)
        BY FS_Interval
    <2> QED
        BY <2>1, FS_Subset
<1>2. m \notin K /\ \A k \in K : k <= m /\ ~(m <= k) /\ k \in Int
    OBVIOUS
<1>3. m \in Int /\ m <= m
    OBVIOUS
<1>4. /\ out \in Seq(T) /\ Len(out) \in Nat /\ Len(out) = Cardinality(K)
      /\ \A k \in K : Place(K, k) \in 1 .. Len(out) /\ out[Place(K, k)] = q[k]
      /\ \A i \in 1 .. Len(out) : \E k \in K : out[i] = q[k]
    BY DEF IsList
<1>5. /\ r \in Seq(T) /\ Len(r) = Len(out) + 1 /\ r[Len(out) + 1] = q[m]
      /\ \A i \in 1 .. Len(out) : r[i] = out[i] /\ i \in 1 .. Len(r)
      /\ \A i \in 1 .. Len(r) : i \in 1 .. Len(out) \/ i = Len(out) + 1
      /\ Len(out) + 1 \in 1 .. Len(r)
    BY <1>4
<1> HIDE DEF m, r
<1>6. Cardinality(L) = Cardinality(K) + 1
    BY <1>1, <1>2, FS_AddElement
<1>7. \A k \in K : Place(L, k) = Place(K, k)
    <2>1. \A k \in K : {j \in L : j <= k} = {j \in K : j <= k}
        BY <1>2
    <2> HIDE DEF L
    <2> QED
        BY <2>1 DEF Place
<1>8. Place(L, m) = Len(out) + 1
    <2>1. {j \in L : j <= m} = L
        BY <1>2, <1>3
    <2> HIDE DEF L
    <2> QED
        BY <2>1, <1>4, <1>6 DEF Place
<1>9. \A k \in L : Place(L, k) \in 1 .. Len(r) /\ r[Place(L, k)] = q[k]
    <2>1. \A k \in K : Place(L, k) \in 1 .. Len(r) /\ r[Place(L, k)] = q[k]
        <3> HIDE DEF L
        <3> QED
            BY <1>4, <1>5, <1>7
    <2>2. Place(L, m) \in 1 .. Len(r) /\ r[Place(L, m)] = q[m]
        <3> HIDE DEF L
        <3> QED
            BY <1>5, <1>8
    <2>3. \A k \in L : k \in K \/ k = m
        OBVIOUS
    <2> HIDE DEF L
    <2> QED
        BY <2>1, <2>2, <2>3, Zenon
<1>10. \A i \in 1 .. Len(r) : \E k \in L : r[i] = q[k]
    <2>1. ASSUME NEW i \in 1 .. Len(out) PROVE \E k \in L : r[i] = q[k]
        <3>1. PICK k \in K : out[i] = q[k]
            BY <1>4
        <3>2. k \in L /\ r[i] = q[k]
            BY <1>5, <3>1
        <3> QED
            BY <3>2
    <2>2. m \in L
        OBVIOUS
    <2> HIDE DEF L
    <2> QED
        BY <1>5, <2>1, <2>2, Zenon
<1>11. Len(r) = Cardinality(L)
    BY <1>4, <1>5, <1>6
<1>12. IsList(r, q, L, T)
    <2> HIDE DEF L
    <2> QED
        BY <1>5, <1>9, <1>10, <1>11 DEF IsList
<1> QED
    BY <1>12 DEF m, r

(* What the loop has listed after n turns.                                  *)
LEMMA HeroesWritten ==
    ASSUME NEW T, NEW q \in Seq(T), NEW len \in Nat, len = Len(q),
           NEW it, IsFold(it, "write", q, <<>>, q)
    PROVE  \A n \in 0 .. len : IsList(it[1 .. n], q, Heroes(q, n), T)
<1>1. DOMAIN q = 1 .. len
    OBVIOUS
<1>2. TakesTurns(it, "write", q, <<>>, q, len)
    BY <1>1, FoldNext, Zenon
<1>3. /\ it[1 .. 0] = <<>>
      /\ \A k \in 0 .. len - 1 : it[1 .. k + 1] = WriteHero(q, it[1 .. k], q[k + 1])
    <2>1. \A acc, x : Turn("write", q, acc, x) = WriteHero(q, acc, x)
        BY DEF Turn
    <2> QED
        BY <1>2, <2>1, Zenon DEF TakesTurns
<1> DEFINE Done(n) == IsList(it[1 .. n], q, Heroes(q, n), T)
           Bad == {n \in 0 .. len : ~Done(n)}
<1>4. SUFFICES ASSUME Bad # {} PROVE FALSE
    OBVIOUS
<1>5. PICK n \in Bad : \A j \in Bad : n <= j
    <2>1. Bad \subseteq Nat
        OBVIOUS
    <2> HIDE DEF Bad
    <2> QED
        BY <1>4, <2>1, LeastNatural
<1>6. CASE n = 0
    <2>1. Heroes(q, 0) = {}
        BY DEF Heroes
    <2>2. <<>> \in Seq(T) /\ Len(<<>>) = 0 /\ 1 .. 0 = {}
        OBVIOUS
    <2>3. IsList(<<>>, q, {}, T)
        BY <2>2, FS_EmptySet DEF IsList
    <2>4. Done(0)
        BY <1>3, <2>1, <2>3
    <2> QED
        BY <1>5, <1>6, <2>4
<1>7. CASE n # 0
    <2>1. PICK k \in 0 .. len - 1 : n = k + 1
        <3>1. n - 1 \in 0 .. len - 1 /\ n = (n - 1) + 1
            BY <1>5, <1>7
        <3> QED
            BY <3>1
    <2>2. k \in Nat /\ k \in 0 .. len /\ ~(n <= k) /\ k + 1 \in 1 .. len
        BY <2>1
    <2>3. Done(k)
        <3>1. k \notin Bad
            <4> HIDE DEF Bad
            <4> QED
                BY <1>5, <2>2
        <3> QED
            BY <2>2, <3>1
    <2>4. Heroes(q, k) \subseteq 1 .. k /\ q[k + 1] \in T
        BY <1>1, <2>2 DEF Heroes
    <2>5. CASE flagHero(q, q[k + 1].var)
        <3>1. Heroes(q, k + 1) = Heroes(q, k) \cup {k + 1}
            <4>1. 1 .. k + 1 = (1 .. k) \cup {k + 1}
                BY <2>2
            <4> QED
                BY <2>5, <4>1 DEF Heroes
        <3>2. it[1 .. k + 1] = Append(it[1 .. k], q[k + 1])
            BY <1>3, <2>1, <2>5, Zenon DEF WriteHero
        <3>3. IsList(Append(it[1 .. k], q[k + 1]), q, Heroes(q, k) \cup {k + 1}, T)
            BY <2>2, <2>3, <2>4, ListGrows
        <3>4. Done(k + 1)
            BY <3>1, <3>2, <3>3, Zenon
        <3> QED
            BY <1>5, <2>1, <3>4
    <2>6. CASE ~flagHero(q, q[k + 1].var)
        <3>1. Heroes(q, k + 1) = Heroes(q, k)
            <4>1. 1 .. k + 1 = (1 .. k) \cup {k + 1}
                BY <2>2
            <4> QED
                BY <2>6, <4>1 DEF Heroes
        <3>2. it[1 .. k + 1] = it[1 .. k]
            BY <1>3, <2>1, <2>6, Zenon DEF WriteHero
        <3>3. Done(k + 1)
            BY <2>3, <3>1, <3>2, Zenon
        <3> QED
            BY <1>5, <2>1, <3>3
    <2> QED
        BY <2>5, <2>6
<1> QED
    BY <1>6, <1>7

(* The lines of HashValues, for a log from which the script makes q.        *)
LEMMA HashValuesList ==
    ASSUME NEW lines, NEW T, NEW q \in Seq(T), q = ReadLog(lines).out
    PROVE  IsList(HashValues(lines), q, Heroes(q, Len(q)), T)
<1>1. PICK len \in Nat : len = Len(q) /\ DOMAIN q = 1 .. len
    OBVIOUS
<1>2. PICK it : /\ IsFold(it, "write", q, <<>>, q)
                /\ HashValues(lines) = it[1 .. len]
    BY <1>1, HashValuesIsFold, Zenon
<1>3. \A n \in 0 .. len : IsList(it[1 .. n], q, Heroes(q, n), T)
    BY <1>1, <1>2, HeroesWritten, Zenon
<1>4. len \in 0 .. len
    OBVIOUS
<1> QED
    BY <1>1, <1>2, <1>3, <1>4, Zenon

-----------------------------------------------------------------------------
(* As long as no two calls overlapped, at most one thread is inside the     *)
(* library, with one frame, and what the script has paired is what the      *)
(* application has allocated, but for the object of the frame if its lines  *)
(* are not both there, and for the objects whose lines are covered.         *)

Objects == [var : Vars \cup {LibcVar}, size : Nat]

(* Of objs, the first e objects and those from the number j + 1 on.         *)
KeptOf(objs, e, j) == SubSeq(objs, 1, e) \o SubSeq(objs, j + 1, Len(objs))

(* Where the log goes on after the constructor.                             *)
Start == [early |-> early_objects, first |-> first_lines, covered |-> overwritten]

(* The script has made the pairs out of objs: what is lost is a stretch     *)
(* after the objects of before the constructor, up to the last one as long  *)
(* as lines are covered.                                                    *)
Fits(start, out, objs) ==
    \E j \in start.early .. Len(objs) :
        /\ out = KeptOf(objs, start.early, j)
        /\ start.first = 0 => j = start.early
        /\ start.covered => j = Len(objs)

(* The same, but objs ends with the object o, which is not paired yet.      *)
FitsBut(start, out, objs, o) ==
    \E prev \in Seq(Objects) : objs = Append(prev, o) /\ Fits(start, out, prev)

(* The objects after the constructor are all lost.                          *)
LostAll(start, out, objs) ==
    /\ start.first # 0 /\ start.early <= Len(objs)
    /\ out = KeptOf(objs, start.early, Len(objs))

(* The queue and the pairs that the script has when the one frame is f and  *)
(* the application's objects are objs.                                      *)
FitsFrame(f, log, start, objs) ==
    LET o == [var |-> f.var, size |-> f.size]
    IN  CASE f.place \in {"free", "freeline", "leave"} ->
               log.hashObj = <<>> /\ Fits(start, log.out, objs)
          [] f.place \in {"enter", "symbols", "look"} ->
               /\ log.hashObj = <<>>
               /\ IF f.var = LibcVar THEN Fits(start, log.out, objs)
                  ELSE FitsBut(start, log.out, objs, o)
          [] OTHER ->
               \/ /\ log.hashObj = <<f.var>> /\ ~start.covered
                  /\ FitsBut(start, log.out, objs, o)
               \/ log.hashObj = <<>> /\ LostAll(start, log.out, objs)

Quiet ==
    /\ \A u \in Threads : frames[u] = <<>>
    /\ ~trace_flag
    /\ Log.hashObj = <<>> /\ Fits(Start, Log.out, objects)

Busy(t, f) ==
    /\ frames[t] = <<f>>
    /\ \A u \in Threads \ {t} : frames[u] = <<>>
    /\ trace_flag <=> f.place \in Held
    /\ FitsFrame(f, Log, Start, objects)

HeroInv ==
    /\ OrphanInv
    /\ overlapped \in BOOLEAN
    /\ objects \in Seq(Objects)
    /\ early_objects \in Nat
    /\ ~constructed => early_objects = 0
    /\ ~overlapped => Quiet \/ \E t \in Threads, f \in Frames : Busy(t, f)

(* The objects of the fast pass keep their types.                           *)
LEMMA ObjectsTyped ==
    ASSUME objects \in Seq(Objects), [Next]_vars
    PROVE  objects' \in Seq(Objects)
<1>1. CASE UNCHANGED objects
    BY <1>1
<1>2. ASSUME NEW t \in Threads, NEW v \in Vars \cup {LibcVar}, NEW n \in Sizes,
             Alloc(t, v, n)
      PROVE  objects' \in Seq(Objects)
    <2>1. [var |-> v, size |-> n] \in Objects
        BY SizesAssumption DEF Objects
    <2>2. objects' = Append(objects, [var |-> v, size |-> n]) \/ objects' = objects
        BY <1>2 DEF Alloc
    <2> QED
        BY <2>1, <2>2
<1> QED
    BY <1>1, <1>2 DEF Next, vars, Call, Inside, Free, SetFlag, NestedMalloc, IgnoreLibc,
       LogHash, LogTrace, LogFree, ClearFlag, Constructor

(* Of the objects and one more, that one is kept too.                       *)
LEMMA KeptGrows ==
    ASSUME NEW T, NEW objs \in Seq(T), NEW o \in T, NEW e \in Nat,
           NEW j \in e .. Len(objs)
    PROVE  /\ j \in e .. Len(Append(objs, o))
           /\ KeptOf(Append(objs, o), e, j) = Append(KeptOf(objs, e, j), o)
<1> DEFINE n == Len(objs)
           r == Append(objs, o)
           rest == SubSeq(objs, j + 1, n)
           more == SubSeq(r, j + 1, n + 1)
<1>1. /\ n \in Nat /\ j \in Nat /\ e <= j /\ j <= n /\ Len(r) = n + 1 /\ r \in Seq(T)
      /\ r[n + 1] = o /\ \A i \in 1 .. n : r[i] = objs[i]
    OBVIOUS
<1>2. \A i \in 1 .. n : objs[i] \in T
    OBVIOUS
<1> HIDE DEF n, r
<1>3. SubSeq(r, 1, e) = SubSeq(objs, 1, e) /\ SubSeq(objs, 1, e) \in Seq(T)
    BY <1>1 DEF n
<1>4. /\ rest \in Seq(T) /\ Len(rest) = n - j
      /\ \A i \in 1 .. n - j : rest[i] = objs[j + i]
    BY <1>1, <1>2
<1>5. /\ more \in Seq(T) /\ Len(more) = n + 1 - j
      /\ \A i \in 1 .. n + 1 - j : more[i] = r[j + i]
    <2>1. \A i \in 1 .. n + 1 : r[i] \in T
        BY <1>1, <1>2
    <2> QED
        BY <1>1, <2>1
<1> HIDE DEF rest, more
<1>6. more = Append(rest, o)
    <2>1. /\ Append(rest, o) \in Seq(T) /\ Len(Append(rest, o)) = n - j + 1
          /\ Append(rest, o)[n - j + 1] = o
          /\ \A i \in 1 .. n - j : Append(rest, o)[i] = rest[i]
        BY <1>1, <1>4
    <2>2. Len(more) = Len(Append(rest, o))
        BY <1>1, <1>5, <2>1
    <2>3. \A i \in 1 .. Len(more) : more[i] = Append(rest, o)[i]
        <3> SUFFICES ASSUME NEW i \in 1 .. n + 1 - j PROVE more[i] = Append(rest, o)[i]
            BY <1>5
        <3>1. CASE i = n + 1 - j
            <4>1. more[i] = r[n + 1] /\ i = n - j + 1
                BY <1>1, <1>5, <3>1
            <4> QED
                BY <1>1, <2>1, <4>1
        <3>2. CASE i # n + 1 - j
            <4>1. i \in 1 .. n - j /\ j + i \in 1 .. n
                BY <1>1, <3>2
            <4> QED
                BY <1>1, <1>4, <1>5, <2>1, <4>1
        <3> QED
            BY <3>1, <3>2
    <2> QED
        BY <1>5, <2>1, <2>2, <2>3, SeqEqual
<1>7. SubSeq(objs, 1, e) \o Append(rest, o) = Append(SubSeq(objs, 1, e) \o rest, o)
    <2>1. <<o>> \in Seq(T) /\ SubSeq(objs, 1, e) \o rest \in Seq(T)
        BY <1>3, <1>4
    <2>2. /\ Append(rest, o) = rest \o <<o>>
          /\ Append(SubSeq(objs, 1, e) \o rest, o) = (SubSeq(objs, 1, e) \o rest) \o <<o>>
        BY <1>4, <2>1, AppendIsConcat
    <2> DEFINE first == SubSeq(objs, 1, e)
               last  == <<o>>
    <2>3. first \in Seq(T) /\ rest \in Seq(T) /\ last \in Seq(T)
        BY <1>3, <1>4, <2>1
    <2> HIDE DEF first, last
    <2>4. (first \o rest) \o last = first \o (rest \o last)
        <3>1. \A x \in Seq(T), y \in Seq(T), z \in Seq(T) : (x \o y) \o z = x \o (y \o z)
            BY ConcatAssociative
        <3> QED
            BY <2>3, <3>1, Zenon
    <2> QED
        BY <2>2, <2>4, Zenon DEF first, last
<1>8. /\ KeptOf(r, e, j) = SubSeq(r, 1, e) \o more
      /\ KeptOf(objs, e, j) = SubSeq(objs, 1, e) \o rest
    BY <1>1 DEF KeptOf, n, rest, more
<1>9. KeptOf(r, e, j) = Append(KeptOf(objs, e, j), o)
    BY <1>3, <1>6, <1>7, <1>8, Zenon
<1>10. j \in e .. Len(r)
    BY <1>1
<1> QED
    BY <1>9, <1>10 DEF r

(* Only the first objects are kept, whatever follows them.                  *)
LEMMA KeptFirst ==
    ASSUME NEW T, NEW objs \in Seq(T), NEW o \in T, NEW e \in Nat, e <= Len(objs)
    PROVE  KeptOf(Append(objs, o), e, Len(Append(objs, o))) = KeptOf(objs, e, Len(objs))
<1> DEFINE n == Len(objs)
           r == Append(objs, o)
<1>1. /\ n \in Nat /\ e <= n /\ Len(r) = n + 1 /\ r \in Seq(T)
      /\ \A i \in 1 .. n : r[i] = objs[i]
    OBVIOUS
<1> HIDE DEF n, r
<1>2. SubSeq(r, 1, e) = SubSeq(objs, 1, e)
    BY <1>1 DEF n
<1>3. SubSeq(r, (n + 1) + 1, n + 1) = <<>> /\ SubSeq(objs, n + 1, n) = <<>>
    BY <1>1 DEF n
<1> QED
    BY <1>1, <1>2, <1>3 DEF KeptOf, n, r

(* With nothing lost all are kept.                                          *)
LEMMA KeptAll ==
    ASSUME NEW T, NEW objs \in Seq(T), NEW e \in Nat, e <= Len(objs)
    PROVE  KeptOf(objs, e, e) = objs
<1>1. /\ 1 \in 1 .. Len(objs) + 1 /\ e \in 1 - 1 .. Len(objs)
      /\ Len(objs) \in e .. Len(objs)
    OBVIOUS
<1>2. SubSeq(objs, 1, e) \o SubSeq(objs, e + 1, Len(objs)) = SubSeq(objs, 1, Len(objs))
    BY <1>1, ConcatAdjacentSubSeq
<1>3. SubSeq(objs, 1, Len(objs)) = objs
    BY SubSeqFull
<1> QED
    BY <1>2, <1>3, Zenon DEF KeptOf

Starts == [early : Nat, first : Nat, covered : BOOLEAN]

(* The object that was missing is paired.                                   *)
LEMMA FitsPaired ==
    ASSUME NEW st \in Starts, NEW out, NEW objs, NEW o \in Objects,
           FitsBut(st, out, objs, o), ~st.covered
    PROVE  Fits(st, Append(out, o), objs)
<1>1. PICK prev \in Seq(Objects) : objs = Append(prev, o) /\ Fits(st, out, prev)
    BY DEF FitsBut
<1>2. PICK j \in st.early .. Len(prev) :
         out = KeptOf(prev, st.early, j) /\ (st.first = 0 => j = st.early)
    BY <1>1 DEF Fits
<1>3. st.early \in Nat
    BY DEF Starts
<1>4. j \in st.early .. Len(objs) /\ KeptOf(objs, st.early, j) = Append(out, o)
    BY <1>1, <1>2, <1>3, KeptGrows
<1> QED
    BY <1>2, <1>4 DEF Fits

(* It is one of the objects.                                                *)
LEMMA NotPairedTyped ==
    ASSUME NEW st, NEW out, NEW objs \in Seq(Objects), NEW o, FitsBut(st, out, objs, o)
    PROVE  o \in Objects
<1>1. PICK prev \in Seq(Objects) : objs = Append(prev, o)
    BY DEF FitsBut
<1>2. Len(prev) + 1 \in 1 .. Len(objs) /\ objs[Len(prev) + 1] = o
    BY <1>1
<1> QED
    BY <1>2, ElementOfSeq

(* Its line is covered, and so were all those before it.                    *)
LEMMA FitsLost ==
    ASSUME NEW st \in Starts, NEW out, NEW objs, NEW o \in Objects,
           FitsBut(st, out, objs, o), st.covered, st.first # 0
    PROVE  LostAll(st, out, objs)
<1>1. PICK prev \in Seq(Objects) : objs = Append(prev, o) /\ Fits(st, out, prev)
    BY DEF FitsBut
<1>2. st.early \in Nat /\ Len(prev) \in Nat /\ Len(objs) = Len(prev) + 1
    BY <1>1 DEF Starts
<1>3. st.early <= Len(prev) /\ out = KeptOf(prev, st.early, Len(prev))
    <2>1. PICK j \in st.early .. Len(prev) :
             out = KeptOf(prev, st.early, j) /\ j = Len(prev)
        BY <1>1 DEF Fits
    <2> QED
        BY <1>2, <2>1
<1>4. KeptOf(objs, st.early, Len(objs)) = out
    BY <1>1, <1>2, <1>3, KeptFirst
<1>5. st.early <= Len(objs)
    BY <1>2, <1>3
<1> QED
    BY <1>4, <1>5 DEF LostAll

(* With all objects after the constructor lost, the rest may follow.        *)
LEMMA LostFits ==
    ASSUME NEW st \in Starts, NEW out, NEW objs \in Seq(Objects), LostAll(st, out, objs)
    PROVE  Fits(st, out, objs)
<1>1. Len(objs) \in st.early .. Len(objs)
    BY DEF LostAll, Starts
<1> QED
    BY <1>1 DEF Fits, LostAll

(* Lines may cease to be covered.                                           *)
Follows(st, next) ==
    next.early = st.early /\ next.first = st.first /\ (next.covered => st.covered)

LEMMA FitsFollows ==
    ASSUME NEW st, NEW next, Follows(st, next), NEW out, NEW objs
    PROVE  /\ Fits(st, out, objs) => Fits(next, out, objs)
           /\ LostAll(st, out, objs) => LostAll(next, out, objs)
<1>1. ASSUME Fits(st, out, objs) PROVE Fits(next, out, objs)
    <2>1. PICK j \in st.early .. Len(objs) :
             /\ out = KeptOf(objs, st.early, j)
             /\ st.first = 0 => j = st.early
             /\ st.covered => j = Len(objs)
        BY <1>1 DEF Fits
    <2> QED
        BY <2>1 DEF Fits, Follows
<1>2. LostAll(st, out, objs) => LostAll(next, out, objs)
    BY DEF LostAll, Follows
<1> QED
    BY <1>1, <1>2

(* A step that is not the constructor's keeps the log's start.              *)
LEMMA StartFollows ==
    ASSUME HeroInv, OrphanInv', UNCHANGED start_vars, overwritten' => overwritten
    PROVE  Start \in Starts /\ Start' \in Starts /\ Follows(Start, Start')
BY DEF HeroInv, OrphanInv, Start, Starts, Follows, start_vars

(* A call of the application enters an empty library, if it does not        *)
(* overlap.                                                                 *)
LEMMA CallHeroInv ==
    ASSUME HeroInv, NEW t \in Threads, Call(t)
    PROVE  HeroInv'
<1>1. /\ FlagInv' /\ UNCHANGED <<trace_flag, trace_file, overwritten>>
      /\ UNCHANGED start_vars /\ Counted
    BY CallKeepsInv DEF HeroInv, OrphanInv, Call, Alloc, Free
<1>2. Log' = Log /\ Start' = Start
    BY <1>1 DEF Log, Start, start_vars
<1>3. overlapped' \in BOOLEAN
    BY <1>1 DEF Counted, HeroInv
<1>4. ASSUME ~overlapped'
      PROVE  Quiet' \/ \E f \in Frames : Busy(t, f)'
    <2>1. ~overlapped /\ \A u \in Threads : frames[u] = <<>>
        BY <1>1, <1>4 DEF Counted, HeroInv
    <2>2. Quiet
        <3>1. ASSUME NEW u \in Threads, NEW f, Busy(u, f) PROVE FALSE
            <4>1. frames[u] = <<f>> /\ frames[u] = <<>>
                BY <2>1, <3>1 DEF Busy
            <4>2. <<f>> # <<>>
                OBVIOUS
            <4> QED
                BY <4>1, <4>2, Zenon
        <3> QED
            BY <2>1, <3>1 DEF HeroInv
    <2>3. ASSUME NEW f \in Frames, Push(t, f), f.place \notin Held,
                 FitsFrame(f, Log, Start, objects')
          PROVE  Busy(t, f)'
        <3>1. frames'[t] = <<f>> /\ \A u \in Threads \ {t} : frames'[u] = <<>>
            <4>1. frames' = [frames EXCEPT ![t] = <<f>> \o <<>>]
                BY <2>1, <2>3 DEF Push
            <4>2. <<f>> \o <<>> = <<f>>
                OBVIOUS
            <4> QED
                BY <2>1, <4>1, <4>2 DEF HeroInv, OrphanInv, FlagInv, FramesOK
        <3> QED
            BY <1>1, <1>2, <2>2, <2>3, <3>1 DEF Busy, Quiet
    <2>4. CASE Free(t)
        <3> DEFINE f == Frame("free", OwnVar, 0)
        <3>1. Push(t, f) /\ objects' = objects
            BY <2>2, <2>4 DEF Free, Quiet
        <3>2. f \in Frames /\ f.place = "free"
            BY DEF Frame, Frames, Places
        <3> HIDE DEF f
        <3>3. f.place \notin Held /\ FitsFrame(f, Log, Start, objects')
            BY <2>2, <3>1, <3>2 DEF Quiet, FitsFrame, Held
        <3> QED
            BY <2>3, <3>1, <3>2, <3>3
    <2>5. ASSUME NEW v \in Vars \cup {LibcVar}, NEW n \in Sizes, Alloc(t, v, n)
          PROVE  Quiet' \/ \E f \in Frames : Busy(t, f)'
        <3> DEFINE f == Frame("enter", v, n)
        <3>1. CASE n > CALLTRACK_SIZE
            <4>1. Push(t, f)
                BY <2>2, <2>5, <3>1 DEF Alloc, Quiet
            <4>2. objects' = IF v # LibcVar
                             THEN Append(objects, [var |-> v, size |-> n]) ELSE objects
                BY <2>5, <3>1 DEF Alloc
            <4>3. f \in Frames /\ f.place = "enter" /\ f.var = v /\ f.size = n
                BY SizesAssumption DEF Frame, Frames, Places
            <4> HIDE DEF f
            <4>4. f.place \notin Held /\ FitsFrame(f, Log, Start, objects')
                <5>1. Fits(Start, Log.out, objects) /\ Log.hashObj = <<>>
                    BY <2>2 DEF Quiet
                <5>2. v # LibcVar =>
                        FitsBut(Start, Log.out, objects', [var |-> f.var, size |-> f.size])
                    BY <4>2, <4>3, <5>1 DEF FitsBut, HeroInv
                <5>3. v = LibcVar => Fits(Start, Log.out, objects')
                    BY <4>2, <5>1
                <5> QED
                    BY <4>3, <5>1, <5>2, <5>3 DEF FitsFrame, Held
            <4> QED
                BY <2>3, <4>1, <4>3, <4>4
        <3>2. CASE ~(n > CALLTRACK_SIZE)
            <4>1. frames' = frames /\ objects' = objects
                BY <2>5, <3>2 DEF Alloc
            <4> QED
                BY <1>1, <1>2, <2>2, <4>1 DEF Quiet
        <3> QED
            BY <3>1, <3>2
    <2> QED
        BY <2>4, <2>5 DEF Call
<1>5. OrphanInv' /\ objects' \in Seq(Objects)
    BY OrphanInvNext, ObjectsTyped DEF Next, HeroInv
<1>6. early_objects' = early_objects /\ constructed' = constructed
    BY <1>1 DEF start_vars
<1> QED
    BY <1>3, <1>4, <1>5, <1>6 DEF HeroInv

(* The one frame moves to another place.                                    *)
LEMMA BusyMoves ==
    ASSUME HeroInv, NEW t \in Threads, NEW f \in Frames, Busy(t, f),
           NEW place \in Places, Goto(t, place),
           NEW g, g = [f EXCEPT !.place = place],
           trace_flag' <=> place \in Held, FitsFrame(g, Log', Start', objects')
    PROVE  Busy(t, g)' /\ g \in Frames
<1>1. frames[t] # <<>> /\ Head(frames[t]) = f /\ Tail(frames[t]) = <<>>
    BY DEF Busy
<1>2. g \in Frames /\ g.place = place
    BY DEF Frames
<1> DEFINE s == frames[t]
<1>3. frames' = [frames EXCEPT ![t] = [s EXCEPT ![1] = [s[1] EXCEPT !.place = place]]]
    BY DEF Goto
<1>6. s = <<f>>
    BY DEF Busy
<1> HIDE DEF s
<1>4. \A u \in Threads \ {t} : frames'[u] = <<>>
    BY <1>3 DEF Busy, HeroInv, OrphanInv, FlagInv, FramesOK
<1>5. frames'[t] = <<g>>
    <2>1. [s EXCEPT ![1] = [s[1] EXCEPT !.place = place]] = <<g>>
        BY <1>6
    <2> QED
        BY <1>3, <2>1 DEF HeroInv, OrphanInv, FlagInv, FramesOK
<1> QED
    BY <1>2, <1>4, <1>5 DEF Busy

(* A step inside the library is one of the only thread there.               *)
LEMMA InsideHeroInv ==
    ASSUME HeroInv, NEW t \in Threads, Inside(t)
    PROVE  HeroInv'
<1>1. OrphanInv' /\ objects' \in Seq(Objects)
    BY OrphanInvNext, ObjectsTyped DEF Next, HeroInv
<1>2. /\ overlapped' = overlapped /\ objects' = objects /\ frames[t] # <<>>
      /\ UNCHANGED start_vars
    BY DEF Inside, SetFlag, NestedMalloc, IgnoreLibc, LogHash, LogTrace, LogFree,
           ClearFlag, At
<1>3. ASSUME ~overlapped PROVE Quiet' \/ \E g \in Frames : Busy(t, g)'
    <2>1. PICK f \in Frames : Busy(t, f)
        <3>1. Quiet \/ \E u \in Threads, f \in Frames : Busy(u, f)
            BY <1>3 DEF HeroInv
        <3>2. ~Quiet
            BY <1>2 DEF Quiet
        <3>3. ASSUME NEW u \in Threads, NEW f \in Frames, Busy(u, f) PROVE u = t
            BY <1>2, <3>3 DEF Busy
        <3> QED
            BY <3>1, <3>2, <3>3
    <2>2. /\ frames[t] = <<f>> /\ Head(frames[t]) = f /\ Tail(frames[t]) = <<>>
          /\ \A place : At(t, place) <=> f.place = place
          /\ FitsFrame(f, Log, Start, objects) /\ Log \in Logs
          /\ f.size \in Nat /\ f.var \in V
          /\ trace_flag \in BOOLEAN /\ (trace_flag <=> f.place \in Held)
        BY <2>1 DEF Busy, At, HeroInv, OrphanInv, FlagInv, Frames, V
    <2> DEFINE Moved(place) == [f EXCEPT !.place = place]
    <2>3. \A place : /\ Moved(place).place = place
                     /\ Moved(place).var = f.var /\ Moved(place).size = f.size
        BY DEF Frames
    <2>4. ASSUME NEW place \in Places, Goto(t, place), trace_flag' <=> place \in Held,
                 FitsFrame(Moved(place), Log', Start', objects')
          PROVE  \E g \in Frames : Busy(t, g)'
        <3>1. PICK g : g = Moved(place)
            OBVIOUS
        <3>2. Busy(t, g)' /\ g \in Frames
            BY <2>1, <2>4, <3>1, BusyMoves
        <3> QED
            BY <3>2
    <2> HIDE DEF Moved
    <2>5. UNCHANGED <<trace_file, overwritten>> => Log' = Log /\ Start' = Start
        BY <1>2 DEF Log, Start, start_vars
    <2>13. Log.out \in Seq(Pairs) /\ Start \in Starts
        BY <2>2 DEF Logs, HeroInv, OrphanInv, Start, Starts
    <2>14. Start.covered <=> overwritten
        BY DEF Start
    <2>15. ~overwritten /\ ~overwritten' => Start' = Start
        <3>1. overwritten \in BOOLEAN /\ overwritten' \in BOOLEAN
            BY <1>1 DEF HeroInv, OrphanInv
        <3>2. ~overwritten /\ ~overwritten' => overwritten' = overwritten
            BY <3>1
        <3> QED
            BY <1>2, <3>2 DEF Start, start_vars
    <2>6. CASE SetFlag(t)
        <3>1. \/ f.place = "enter" /\ Goto(t, "symbols")
              \/ f.place = "free" /\ Goto(t, "freeline")
            BY <2>2, <2>6 DEF SetFlag
        <3>2. trace_flag' = TRUE /\ Log' = Log /\ Start' = Start
            BY <2>5, <2>6 DEF SetFlag
        <3>3. CASE f.place = "enter" /\ Goto(t, "symbols")
            <4>1. FitsFrame(Moved("symbols"), Log', Start', objects')
                BY <1>2, <2>2, <2>3, <3>2, <3>3 DEF FitsFrame
            <4> QED
                BY <2>4, <3>2, <3>3, <4>1 DEF Places, Held
        <3>4. CASE f.place = "free" /\ Goto(t, "freeline")
            <4>1. FitsFrame(Moved("freeline"), Log', Start', objects')
                BY <1>2, <2>2, <2>3, <3>2, <3>4 DEF FitsFrame
            <4> QED
                BY <2>4, <3>2, <3>4, <4>1 DEF Places, Held
        <3> QED
            BY <3>1, <3>3, <3>4
    <2>7. CASE NestedMalloc(t)
        <3>1. f.place = "symbols" /\ trace_flag
            BY <2>2, <2>7 DEF NestedMalloc, Held
        <3>2. Goto(t, "look") /\ trace_flag' = trace_flag /\ Log' = Log /\ Start' = Start
            BY <2>5, <2>7, <3>1 DEF NestedMalloc
        <3>3. FitsFrame(Moved("look"), Log', Start', objects')
            BY <1>2, <2>2, <2>3, <3>1, <3>2 DEF FitsFrame
        <3> QED
            BY <2>4, <3>1, <3>2, <3>3 DEF Places, Held
    <2>8. CASE IgnoreLibc(t)
        <3>1. f.place = "look" /\ f.var = LibcVar /\ Goto(t, "leave")
            BY <2>2, <2>8 DEF IgnoreLibc
        <3>2. trace_flag' = trace_flag /\ Log' = Log /\ Start' = Start
            BY <2>5, <2>8 DEF IgnoreLibc
        <3>3. FitsFrame(Moved("leave"), Log', Start', objects')
            BY <1>2, <2>2, <2>3, <3>1, <3>2 DEF FitsFrame
        <3> QED
            BY <2>2, <2>4, <3>1, <3>2, <3>3 DEF Places, Held
    <2>9. CASE LogHash(t)
        <3> DEFINE o == [var |-> f.var, size |-> f.size]
        <3>1. f.place = "look" /\ f.var # LibcVar /\ Goto(t, "trace")
            BY <2>2, <2>9 DEF LogHash
        <3>2. trace_flag' = trace_flag /\ Write([tag |-> "Hash", var |-> f.var])
            BY <2>2, <2>9 DEF LogHash
        <3>3. /\ ~overwritten => /\ Log' = ReadLine(Log, [tag |-> "Hash", var |-> f.var])
                                 /\ ~overwritten'
              /\ overwritten => Log' = Log
            <4>1. [tag |-> "Hash", var |-> f.var] \in LogLines
                BY <2>2 DEF LogLines
            <4> QED
                BY <3>2, <4>1, WriteIsRead DEF HeroInv, OrphanInv
        <3>4. Log.hashObj = <<>> /\ FitsBut(Start, Log.out, objects, o)
            BY <2>2, <3>1 DEF FitsFrame
        <3>5. CASE ~overwritten
            <4>1. Log'.hashObj = Append(Log.hashObj, f.var) /\ Log'.out = Log.out
                BY <2>2, <3>3, <3>5, ReadHash
            <4>2. Start' = Start /\ ~Start.covered
                BY <2>14, <2>15, <3>3, <3>5
            <4>3. FitsFrame(Moved("trace"), Log', Start', objects')
                BY <1>2, <2>3, <3>4, <4>1, <4>2 DEF FitsFrame
            <4> QED
                BY <2>2, <2>4, <3>1, <3>2, <4>3 DEF Places, Held
        <3>6. CASE overwritten
            <4>1. Start.covered /\ Start.first # 0
                BY <3>6 DEF Start, HeroInv, OrphanInv, QueueFits
            <4>2. LostAll(Start, Log.out, objects)
                <5>1. o \in Objects
                    BY <3>4, NotPairedTyped DEF HeroInv
                <5> HIDE DEF o
                <5> QED
                    BY <2>13, <3>4, <4>1, <5>1, FitsLost
            <4>3. LostAll(Start', Log'.out, objects') /\ Log'.hashObj = <<>>
                BY <1>1, <1>2, <3>3, <3>4, <3>6, <4>2, FitsFollows, StartFollows
            <4>4. FitsFrame(Moved("trace"), Log', Start', objects')
                BY <2>3, <4>3 DEF FitsFrame
            <4> QED
                BY <2>2, <2>4, <3>1, <3>2, <4>4 DEF Places, Held
        <3> QED
            BY <3>5, <3>6
    <2>10. CASE LogTrace(t)
        <3> DEFINE o == [var |-> f.var, size |-> f.size]
                   Out == Log.hashObj # <<>>
        <3>1. f.place = "trace" /\ Goto(t, "leave")
            BY <2>2, <2>10 DEF LogTrace
        <3>2. trace_flag' = trace_flag /\ Write([tag |-> "Trace", size |-> f.size])
            BY <2>2, <2>10 DEF LogTrace
        <3>3. /\ ~overwritten => /\ Log' = ReadLine(Log, [tag |-> "Trace", size |-> f.size])
                                 /\ ~overwritten'
              /\ overwritten => Log' = Log
            <4>1. [tag |-> "Trace", size |-> f.size] \in LogLines
                BY <2>2 DEF LogLines
            <4> QED
                BY <3>2, <4>1, WriteIsRead DEF HeroInv, OrphanInv
        <3>4. \/ /\ Log.hashObj = <<f.var>> /\ ~Start.covered
                 /\ FitsBut(Start, Log.out, objects, o)
              \/ Log.hashObj = <<>> /\ LostAll(Start, Log.out, objects)
            BY <2>2, <3>1 DEF FitsFrame
        <3>5. CASE /\ Log.hashObj = <<f.var>> /\ ~Start.covered
                   /\ FitsBut(Start, Log.out, objects, o)
            <4>1. /\ Log.hashObj # <<>> /\ Head(Log.hashObj) = f.var
                  /\ Tail(Log.hashObj) = <<>> /\ ~overwritten
                BY <2>14, <3>5
            <4>2. Log'.hashObj = <<>> /\ Log'.out = Append(Log.out, o)
                <5>1. Log \in Logs /\ f.size \in Nat
                    BY <2>2
                <5>2. /\ Log'.hashObj = Tail(Log.hashObj)
                      /\ Log'.out = Append(Log.out, [var |-> Head(Log.hashObj), size |-> f.size])
                    BY <3>3, <4>1, <5>1, ReadTrace
                <5> QED
                    BY <4>1, <5>2
            <4>3. o \in Objects
                BY <3>5, NotPairedTyped DEF HeroInv
            <4>4. Fits(Start, Append(Log.out, o), objects)
                BY <2>13, <3>5, <4>3, FitsPaired
            <4>5. Start' = Start
                BY <2>15, <3>3, <4>1
            <4>6. FitsFrame(Moved("leave"), Log', Start', objects')
                BY <1>2, <2>3, <4>2, <4>4, <4>5 DEF FitsFrame
            <4> QED
                BY <2>2, <2>4, <3>1, <3>2, <4>6 DEF Places, Held
        <3>6. CASE Log.hashObj = <<>> /\ LostAll(Start, Log.out, objects)
            <4>1. Log'.hashObj = <<>> /\ Log'.out = Log.out
                BY <2>2, <3>3, <3>6, ReadOrphan DEF HeroInv, OrphanInv
            <4>2. LostAll(Start', Log'.out, objects') /\ Start' \in Starts
                BY <1>1, <1>2, <3>3, <3>6, <4>1, FitsFollows, StartFollows
            <4>3. Fits(Start', Log'.out, objects')
                BY <1>1, <4>2, LostFits
            <4>4. FitsFrame(Moved("leave"), Log', Start', objects')
                BY <2>3, <4>1, <4>3 DEF FitsFrame
            <4> QED
                BY <2>2, <2>4, <3>1, <3>2, <4>4 DEF Places, Held
        <3> QED
            BY <3>4, <3>5, <3>6
    <2>11. CASE LogFree(t)
        <3>1. f.place = "freeline" /\ Goto(t, "leave")
            BY <2>2, <2>11 DEF LogFree
        <3>2. trace_flag' = trace_flag /\ Write([tag |-> "Free"])
            BY <2>11 DEF LogFree
        <3>3. Log' = Log /\ (overwritten' => overwritten)
            <4>1. [tag |-> "Free"] \in LogLines
                BY DEF LogLines
            <4>2. ReadLine(Log, [tag |-> "Free"]) = Log
                BY ReadFree
            <4> QED
                BY <3>2, <4>1, <4>2, WriteIsRead DEF HeroInv, OrphanInv
        <3>4. Log.hashObj = <<>> /\ Fits(Start, Log.out, objects)
            BY <2>2, <3>1 DEF FitsFrame
        <3>5. Fits(Start', Log'.out, objects')
            BY <1>1, <1>2, <3>3, <3>4, FitsFollows, StartFollows
        <3>6. FitsFrame(Moved("leave"), Log', Start', objects')
            BY <2>3, <3>3, <3>4, <3>5 DEF FitsFrame
        <3> QED
            BY <2>2, <2>4, <3>1, <3>2, <3>6 DEF Places, Held
    <2>12. CASE ClearFlag(t)
        <3>1. f.place = "leave" /\ trace_flag' = FALSE /\ Log' = Log /\ Start' = Start
            BY <2>2, <2>5, <2>12 DEF ClearFlag
        <3>2. frames' = [frames EXCEPT ![t] = <<>>]
            BY <2>2, <2>12 DEF ClearFlag, Pop
        <3>3. \A u \in Threads : frames'[u] = <<>>
            BY <2>1, <3>2 DEF Busy, HeroInv, OrphanInv, FlagInv, FramesOK
        <3>4. Log.hashObj = <<>> /\ Fits(Start, Log.out, objects)
            BY <2>2, <3>1 DEF FitsFrame
        <3>5. Quiet'
            BY <1>2, <3>1, <3>3, <3>4 DEF Quiet
        <3> QED
            BY <3>5
    <2> QED
        BY <2>6, <2>7, <2>8, <2>9, <2>10, <2>11, <2>12 DEF Inside
<1> QED
    BY <1>1, <1>2, <1>3 DEF HeroInv, start_vars

(* At the constructor all is paired, and nothing is covered yet.            *)
LEMMA ConstructorHeroInv ==
    ASSUME HeroInv, Constructor
    PROVE  HeroInv'
<1>1. /\ OrphanInv' /\ UNCHANGED <<frames, trace_file, objects, overlapped>>
      /\ trace_flag' = FALSE /\ early_objects' = Len(objects) /\ constructed'
    BY ConstructorOrphanInv DEF Constructor, HeroInv
<1>2. objects \in Seq(Objects) /\ Len(objects) \in Nat
    BY DEF HeroInv
<1>3. ASSUME ~overlapped PROVE Quiet'
    <2>1. Quiet
        <3>1. ASSUME NEW t \in Threads, NEW f, Busy(t, f) PROVE FALSE
            <4>1. frames[t] = <<f>> /\ frames[t] = <<>>
                BY <3>1 DEF Busy, Constructor, AtRest
            <4> QED
                BY <4>1
        <3> QED
            BY <1>3, <3>1 DEF HeroInv
    <2>2. early_objects = 0 /\ first_lines = 0
        BY DEF Constructor, HeroInv, OrphanInv, QueueFits
    <2>3. Log.out = objects
        <3>1. PICK j \in Start.early .. Len(objects) :
                 Log.out = KeptOf(objects, Start.early, j) /\ (Start.first = 0 => j = Start.early)
            BY <2>1 DEF Quiet, Fits
        <3>2. Start.early = 0 /\ Start.first = 0
            BY <2>2 DEF Start
        <3>3. Log.out = KeptOf(objects, 0, 0)
            BY <3>1, <3>2
        <3> QED
            BY <1>2, <3>3, KeptAll
    <2>4. KeptOf(objects, Len(objects), Len(objects)) = objects
        BY <1>2, KeptAll
    <2>5. Start'.early = Len(objects)
        BY <1>1 DEF Start
    <2>6. Fits(Start', objects, objects)
        BY <1>2, <2>4, <2>5 DEF Fits
    <2>7. Log' = Log
        BY <1>1 DEF Log
    <2> QED
        BY <1>1, <2>1, <2>3, <2>6, <2>7 DEF Quiet
<1> QED
    BY <1>1, <1>2, <1>3 DEF HeroInv

LEMMA HeroInvInit == Init => HeroInv
<1> SUFFICES ASSUME Init PROVE HeroInv
    OBVIOUS
<1>1. Log = Empty
    BY ReadLogEmpty DEF Init, Log
<1>2. OrphanInv
    BY OrphanInvInit
<1>3. Fits(Start, <<>>, <<>>)
    <2>1. KeptOf(<<>>, 0, 0) = <<>>
        <3>1. PICK q \in Seq(Objects) : q = <<>>
            BY EmptySeq
        <3>2. PICK e \in Nat : e = 0
            OBVIOUS
        <3>3. e <= Len(q)
            BY <3>1, <3>2
        <3>4. KeptOf(q, e, e) = q
            BY <3>3, KeptAll
        <3> QED
            BY <3>1, <3>2, <3>4, Zenon
    <2>2. Start.early = 0 /\ Len(<<>>) = 0
        BY DEF Init, Start
    <2> QED
        BY <2>1, <2>2 DEF Fits
<1>4. Quiet
    BY <1>1, <1>3 DEF Init, Quiet, Empty
<1>5. objects \in Seq(Objects)
    BY DEF Init
<1> QED
    BY <1>2, <1>4, <1>5 DEF HeroInv, Init

LEMMA HeroInvNext ==
    HeroInv /\ [Next]_vars => HeroInv'
<1> SUFFICES ASSUME HeroInv, [Next]_vars PROVE HeroInv'
    OBVIOUS
<1>1. CASE Next
    BY <1>1, CallHeroInv, InsideHeroInv, ConstructorHeroInv DEF Next
<1>2. CASE UNCHANGED vars
    <2>1. OrphanInv'
        BY <1>2, OrphanInvNext DEF HeroInv
    <2>2. /\ UNCHANGED <<trace_flag, frames, objects, overlapped, early_objects,
                         constructed>>
          /\ Log' = Log /\ Start' = Start
        BY <1>2 DEF vars, start_vars, Log, Start
    <2> QED
        BY <2>1, <2>2 DEF HeroInv, Quiet, Busy
<1> QED
    BY <1>1, <1>2

(* At rest, when no calls overlapped, the script has paired what the        *)
(* application allocated and the log has kept.                              *)
LEMMA AllPaired ==
    ASSUME HeroInv, AtRest, ~overlapped
    PROVE  \E j \in Losses : Kept(j) = Log.out /\ Kept(j) \in Seq(Pairs)
<1>1. Quiet
    <2>1. ASSUME NEW t \in Threads, NEW f, Busy(t, f) PROVE FALSE
        <3>1. frames[t] = <<f>> /\ frames[t] = <<>>
            BY <2>1 DEF Busy, AtRest
        <3> QED
            BY <3>1
    <2> QED
        BY <2>1 DEF HeroInv
<1>2. Log.out \in Seq(Pairs)
    BY DEF HeroInv, OrphanInv, Logs
<1>3. Start.early = early_objects /\ Start.first = first_lines
    BY DEF Start
<1>4. PICK j \in early_objects .. Len(objects) :
         Log.out = KeptOf(objects, early_objects, j) /\ (first_lines = 0 => j = early_objects)
    BY <1>1, <1>3 DEF Quiet, Fits
<1>5. j \in Losses
    BY <1>4 DEF Losses
<1> QED
    BY <1>2, <1>4, <1>5 DEF Kept, KeptOf

(* The lines of HashValues are then the objects of the hero variables.      *)
HeroesOf(objs) == {k \in DOMAIN objs : HasBigObject(objs, objs[k].var)}

LEMMA HeroesListed ==
    ASSUME HeroInv, AtRest, ~overlapped
    PROVE  \E j \in Losses : IsList(HashValues(trace_file), Kept(j), HeroesOf(Kept(j)), Pairs)
<1>1. PICK j \in Losses : Kept(j) = Log.out /\ Kept(j) \in Seq(Pairs)
    BY AllPaired
<1>2. PICK q : q = Kept(j)
    OBVIOUS
<1>3. q = ReadLog(trace_file).out /\ q \in Seq(Pairs)
    BY <1>1, <1>2 DEF Log
<1>4. IsList(HashValues(trace_file), q, Heroes(q, Len(q)), Pairs)
    BY <1>3, HashValuesList
<1>5. Heroes(q, Len(q)) = HeroesOf(q)
    <2>1. \A v : flagHero(q, v) <=> HasBigObject(q, v)
        BY DEF flagHero, HasBigObject
    <2>2. DOMAIN q = 1 .. Len(q)
        BY <1>3
    <2> QED
        BY <2>1, <2>2 DEF Heroes, HeroesOf
<1> QED
    BY <1>2, <1>4, <1>5

LEMMA HeroInvLists == HeroInv => HeroObjectsListed
<1> SUFFICES ASSUME HeroInv, AtRest, ~overlapped
             PROVE  \E j \in Losses : Lists(HashValues(trace_file), Kept(j))
    BY DEF HeroObjectsListed
<1>1. PICK j \in Losses : IsList(HashValues(trace_file), Kept(j), HeroesOf(Kept(j)), Pairs)
    BY HeroesListed
<1>2. ASSUME NEW listed, NEW objs, IsList(listed, objs, HeroesOf(objs), Pairs)
      PROVE  Lists(listed, objs)
    BY <1>2 DEF IsList, Lists, Place, HeroesOf
<1> QED
    BY <1>1, <1>2

(* As long as no two calls overlap, the files for the slow pass list, in    *)
(* order and once each, exactly the objects of the hero variables, among    *)
(* all objects or, if calls were logged before the constructor, all but a   *)
(* stretch of objects right after it.                                       *)
THEOREM HeroesAreListed ==
    Spec => []HeroObjectsListed
BY HeroInvInit, HeroInvNext, HeroInvLists, PTL DEF Spec

(* The same for the two passes together.                                    *)
THEOREM HeroesAreListedInBoth ==
    SpecTwoPass => []HeroObjectsListed
BY TwoPassIsFast, HeroInvInit, HeroInvNext, HeroInvLists, PTL DEF SpecTwoPass

-----------------------------------------------------------------------------
(* The slow pass.  An object gets the first line of the table that holds    *)
(* its hash value, and the number that it brings the line's counter to:     *)
(* objects of one line differ in the number, and the line determines the    *)
(* variable, because hash values of different variables differ.             *)

(* Line l is the first one for variable v.                                  *)
IsLineOf(l, v) ==
    /\ l \in DOMAIN var_hash_value_table
    /\ var_hash_value_table[l] = StringHash(v, "slow")
    /\ \A j \in DOMAIN var_hash_value_table :
          var_hash_value_table[j] = StringHash(v, "slow") => l <= j

SlowTypes ==
    /\ objects \in Seq(Objects)
    /\ pass \in {"fast", "slow"}
    /\ DOMAIN var_hash_value_table \subseteq Nat
    /\ var_count_trans \in [DOMAIN var_hash_value_table -> Nat]
    /\ announced \in Seq(DOMAIN objects)
    /\ var_outfile \in Seq([line : DOMAIN var_hash_value_table, number : Nat])
    /\ done \in Nat

(* What has been announced has a name, with the line of its variable.       *)
NamesHaveLines ==
    /\ Len(var_outfile) = Len(announced)
    /\ \A a \in DOMAIN announced :
          IsLineOf(var_outfile[a].line, objects[announced[a]].var)

(* The counter of a line is at its last number, and the numbers of a line   *)
(* are in order.                                                            *)
NumbersAreCounted ==
    \A a \in DOMAIN announced :
        LET l == var_outfile[a].line
        IN  l <= VAR_COUNT_TRANS =>
              /\ var_outfile[a].number <= var_count_trans[l]
              /\ \A b \in DOMAIN announced :
                    a < b /\ var_outfile[b].line = l =>
                        var_outfile[a].number < var_outfile[b].number

SlowInv ==
    /\ SlowTypes
    /\ pass = "fast" => announced = <<>> /\ var_outfile = <<>>
    /\ NamesHaveLines
    /\ NumbersAreCounted

(* Hash values of different variables differ.                               *)
LEMMA StringHashDiffers ==
    ASSUME NEW v, NEW w, NEW p, StringHash(v, p) = StringHash(w, p)
    PROVE  v = w
<1>1. StringHash(v, p)[1] = v /\ StringHash(w, p)[1] = w
    BY DEF StringHash
<1> QED
    BY <1>1

(* The search of LookIntoHashValue stops at the first line of the variable. *)
LEMMA LineIsFirst ==
    ASSUME SlowTypes, Lines # {}, done < Len(objects)
    PROVE  IsLineOf(Line, objects[done + 1].var)
<1>1. Lines \in SUBSET Nat
    BY DEF SlowTypes, Lines
<1>2. \E x \in Lines : \A y \in Lines : x <= y
    BY <1>1, LeastNatural
<1>3. Line \in Lines /\ \A j \in Lines : Line <= j
    BY <1>2 DEF Line
<1> QED
    BY <1>3 DEF Lines, IsLineOf

(* The elements of a sequence.                                              *)
LEMMA ElementOf ==
    ASSUME NEW S, NEW s \in Seq(S), NEW i \in 1 .. Len(s)
    PROVE  s[i] \in S
OBVIOUS

(* A name is added, with number n; the counters become cnt.                 *)
AddsName(n, cnt) ==
    /\ var_outfile' = Append(var_outfile, [line |-> Line, number |-> n])
    /\ announced' = Append(announced, done + 1)
    /\ done' = done + 1
    /\ var_count_trans' = cnt
    /\ UNCHANGED <<objects, pass, var_hash_value_table>>

(* Its number is the line's new count, above those that the line has given. *)
CountsName(n, cnt) ==
    /\ n \in Nat /\ cnt \in [DOMAIN var_hash_value_table -> Nat]
    /\ \A l \in DOMAIN var_hash_value_table : var_count_trans[l] <= cnt[l]
    /\ Line <= VAR_COUNT_TRANS => n = cnt[Line] /\ var_count_trans[Line] < n

(* A name with the next number of its line differs from all the names       *)
(* before.                                                                  *)
LEMMA NameIsAdded ==
    ASSUME SlowInv, pass = "slow", done < Len(objects), Lines # {},
           NEW n, NEW cnt, CountsName(n, cnt), AddsName(n, cnt)
    PROVE  SlowInv'
<1> DEFINE k == Len(announced) + 1
<1>1. /\ SlowTypes /\ NamesHaveLines /\ NumbersAreCounted
      /\ IsLineOf(Line, objects[done + 1].var)
    BY LineIsFirst DEF SlowInv
<1>2. done + 1 \in DOMAIN objects /\ Line \in DOMAIN var_hash_value_table
    BY <1>1 DEF SlowTypes, IsLineOf
<1>3. SlowTypes'
    BY <1>1, <1>2 DEF SlowTypes, AddsName, CountsName
<1>4. /\ Len(announced) \in Nat /\ DOMAIN announced = 1 .. Len(announced)
      /\ Len(var_outfile) = Len(announced)
      /\ Len(announced') = k /\ Len(var_outfile') = k
      /\ DOMAIN announced' = DOMAIN announced \cup {k}
      /\ announced'[k] = done + 1
      /\ var_outfile'[k].line = Line /\ var_outfile'[k].number = n
      /\ \A a \in DOMAIN announced :
            announced'[a] = announced[a] /\ var_outfile'[a] = var_outfile[a]
    BY <1>1, <1>2 DEF SlowTypes, NamesHaveLines, AddsName
<1>5. \A a \in DOMAIN announced : a < k
    BY <1>4
<1> HIDE DEF k
<1>6. NamesHaveLines'
    <2>1. \A a \in DOMAIN announced' :
             IsLineOf(var_outfile'[a].line, objects[announced'[a]].var)
        BY <1>1, <1>4 DEF NamesHaveLines
    <2>2. UNCHANGED <<objects, var_hash_value_table>>
        BY DEF AddsName
    <2> QED
        BY <1>4, <2>1, <2>2 DEF NamesHaveLines, IsLineOf
<1>7. NumbersAreCounted'
    <2> SUFFICES ASSUME NEW a \in DOMAIN announced',
                        var_outfile'[a].line <= VAR_COUNT_TRANS
                 PROVE  /\ var_outfile'[a].number <= cnt[var_outfile'[a].line]
                        /\ \A b \in DOMAIN announced' :
                              a < b /\ var_outfile'[b].line = var_outfile'[a].line =>
                                  var_outfile'[a].number < var_outfile'[b].number
        BY DEF NumbersAreCounted, AddsName
    <2>1. CASE a = k
        <3>1. var_outfile'[a].line = Line /\ var_outfile'[a].number = n
            BY <1>4, <2>1
        <3>2. n <= cnt[Line]
            BY <3>1 DEF CountsName
        <3>3. \A b \in DOMAIN announced' : ~(a < b)
            BY <1>4, <1>5, <2>1 DEF k
        <3> QED
            BY <3>1, <3>2, <3>3
    <2>2. CASE a \in DOMAIN announced
        <3> DEFINE l == var_outfile[a].line
        <3>1. IsLineOf(l, objects[announced[a]].var) /\ var_outfile'[a] = var_outfile[a]
            BY <1>1, <1>4, <2>2 DEF NamesHaveLines
        <3>2. var_outfile[a].number \in Nat
            <4> DEFINE R == [line : DOMAIN var_hash_value_table, number : Nat]
            <4>1. var_outfile \in Seq(R) /\ a \in 1 .. Len(var_outfile)
                BY <1>1, <1>4, <2>2 DEF SlowTypes
            <4>2. var_outfile[a] \in R
                BY <4>1, ElementOf
            <4> QED
                BY <4>2
        <3>3. /\ l \in DOMAIN var_hash_value_table
              /\ var_count_trans[l] \in Nat /\ cnt[l] \in Nat
              /\ var_count_trans[l] <= cnt[l] /\ l <= VAR_COUNT_TRANS
            BY <1>1, <3>1 DEF SlowTypes, IsLineOf, CountsName
        <3>4. var_outfile[a].number <= var_count_trans[l]
            BY <1>1, <2>2, <3>3 DEF NumbersAreCounted
        <3>5. ASSUME NEW b \in DOMAIN announced', a < b, var_outfile'[b].line = l
              PROVE  var_outfile[a].number < var_outfile'[b].number
            <4>1. CASE b \in DOMAIN announced
                BY <1>1, <1>4, <2>2, <3>3, <3>5, <4>1 DEF NumbersAreCounted
            <4>2. CASE b = k
                <5>1. var_outfile'[b].number = n /\ l = Line
                    BY <1>4, <3>5, <4>2
                <5>2. var_count_trans[l] < n /\ n \in Nat
                    BY <3>3, <5>1 DEF CountsName
                <5> HIDE DEF l
                <5> QED
                    BY <3>2, <3>3, <3>4, <5>1, <5>2
            <4> QED
                BY <1>4, <4>1, <4>2
        <3>6. var_outfile[a].number <= cnt[l]
            BY <3>2, <3>3, <3>4
        <3> QED
            BY <3>1, <3>5, <3>6
    <2> QED
        BY <1>4, <2>1, <2>2
<1> QED
    BY <1>1, <1>3, <1>6, <1>7 DEF SlowInv, AddsName

(* An object that is recognized gets its line's next number.                *)
LEMMA LookIntoHashValueInv ==
    ASSUME SlowInv, LookIntoHashValue
    PROVE  SlowInv'
<1> DEFINE n   == var_count_trans[Line] + 1
           cnt == [var_count_trans EXCEPT ![Line] = @ + 1]
<1>1. SlowTypes /\ IsLineOf(Line, objects[done + 1].var)
    BY LineIsFirst DEF SlowInv, LookIntoHashValue
<1>2. Line \in DOMAIN var_hash_value_table
    BY <1>1 DEF IsLineOf
<1>3. n \in Nat /\ cnt \in [DOMAIN var_hash_value_table -> Nat] /\ n = cnt[Line]
    BY <1>1, <1>2 DEF SlowTypes
<1>4. \A l \in DOMAIN var_hash_value_table : var_count_trans[l] <= cnt[l]
    BY <1>1, <1>2 DEF SlowTypes
<1>5. CountsName(n, cnt)
    BY <1>1, <1>2, <1>3, <1>4 DEF CountsName, SlowTypes
<1>6. AddsName(n, cnt)
    BY <1>1, <1>2 DEF AddsName, LookIntoHashValue, vars, SlowTypes
<1> QED
    BY <1>5, <1>6, NameIsAdded DEF LookIntoHashValue

(* A line beyond the counters gives any number.                             *)
LEMMA LookIntoHashValueBeyondInv ==
    ASSUME SlowInv, LookIntoHashValueBeyond
    PROVE  SlowInv'
<1>1. PICK n \in 0 .. MaxCalls :
         var_outfile' = Append(var_outfile, [line |-> Line, number |-> n])
    BY DEF LookIntoHashValueBeyond
<1>2. SlowTypes /\ IsLineOf(Line, objects[done + 1].var)
    BY LineIsFirst DEF SlowInv, LookIntoHashValueBeyond
<1>3. Line \in Nat /\ ~(Line <= VAR_COUNT_TRANS)
    BY <1>2, CountersAssumption DEF SlowTypes, IsLineOf, LookIntoHashValueBeyond
<1>4. CountsName(n, var_count_trans)
    BY <1>2, <1>3 DEF CountsName, SlowTypes
<1>5. AddsName(n, var_count_trans)
    BY <1>1 DEF AddsName, LookIntoHashValueBeyond, vars
<1> QED
    BY <1>4, <1>5, NameIsAdded DEF LookIntoHashValueBeyond

(* No name has been given at the start.                                     *)
LEMMA SlowInvInit == InitTwoPass => SlowInv
<1> SUFFICES ASSUME InitTwoPass PROVE SlowInv
    OBVIOUS
<1>1. /\ objects = <<>> /\ pass = "fast" /\ var_hash_value_table = <<>>
      /\ var_count_trans = <<>> /\ var_outfile = <<>> /\ announced = <<>> /\ done = 0
    BY DEF InitTwoPass, Init
<1>2. DOMAIN var_hash_value_table = {}
    BY <1>1
<1>3. SlowTypes
    BY <1>1, <1>2 DEF SlowTypes
<1>4. NamesHaveLines /\ NumbersAreCounted
    BY <1>1 DEF NamesHaveLines, NumbersAreCounted
<1> QED
    BY <1>1, <1>3, <1>4 DEF SlowInv

(* Every step of the two passes keeps what is known of the names.           *)
LEMMA SlowInvNext ==
    SlowInv /\ [NextTwoPass]_two_pass_vars => SlowInv'
<1> SUFFICES ASSUME SlowInv, [NextTwoPass]_two_pass_vars
             PROVE  SlowInv'
    OBVIOUS
<1>1. CASE FastStep
    <2>1. /\ pass = "fast" /\ announced = <<>> /\ var_outfile = <<>>
          /\ announced' = <<>> /\ var_outfile' = <<>>
          /\ UNCHANGED <<pass, var_hash_value_table, var_count_trans, done>>
        BY <1>1 DEF FastStep, SlowInv, slow_vars
    <2>2. objects' \in Seq(Objects)
        BY <1>1, ObjectsTyped DEF FastStep, SlowInv, SlowTypes
    <2>3. SlowTypes'
        BY <2>1, <2>2 DEF SlowInv, SlowTypes
    <2>4. NamesHaveLines' /\ NumbersAreCounted'
        BY <2>1 DEF NamesHaveLines, NumbersAreCounted
    <2> QED
        BY <2>1, <2>3, <2>4 DEF SlowInv
<1>2. CASE StartSlowPass
    <2> DEFINE lines == HashValues(trace_file)
    <2>1. /\ announced = <<>> /\ var_outfile = <<>> /\ pass' = "slow"
          /\ announced' = <<>> /\ var_outfile' = <<>>
          /\ UNCHANGED <<objects, done>>
        BY <1>2 DEF StartSlowPass, SlowInv, vars
    <2>2. /\ var_hash_value_table' =
               [i \in 1 .. Len(lines) |-> StringHash(lines[i].var, "fast")]
          /\ var_count_trans' = [i \in DOMAIN var_hash_value_table' |-> 0]
        BY <1>2 DEF StartSlowPass, ReadHashValues
    <2> HIDE DEF lines
    <2>3. DOMAIN var_hash_value_table' \subseteq Nat
        BY <2>2
    <2>4. var_count_trans' \in [DOMAIN var_hash_value_table' -> Nat]
        BY <2>2
    <2>5. announced' \in Seq(DOMAIN objects')
        BY <2>1
    <2>6. var_outfile' \in Seq([line : DOMAIN var_hash_value_table', number : Nat])
        BY <2>1
    <2>7. SlowTypes'
        BY <2>1, <2>3, <2>4, <2>5, <2>6 DEF SlowInv, SlowTypes
    <2>8. NamesHaveLines' /\ NumbersAreCounted'
        BY <2>1 DEF NamesHaveLines, NumbersAreCounted
    <2> QED
        BY <2>1, <2>7, <2>8 DEF SlowInv
<1>3. CASE LookIntoHashValue
    BY <1>3, LookIntoHashValueInv
<1>4. CASE LookIntoHashValueBeyond
    BY <1>4, LookIntoHashValueBeyondInv
<1>5. CASE NotChosen
    <2>1. /\ pass = "slow" /\ done' = done + 1
          /\ UNCHANGED <<pass, objects, var_hash_value_table, var_count_trans,
                         var_outfile, announced>>
        BY <1>5 DEF NotChosen, vars
    <2>2. SlowTypes'
        BY <2>1 DEF SlowInv, SlowTypes
    <2> QED
        BY <2>1, <2>2 DEF SlowInv, NamesHaveLines, NumbersAreCounted, IsLineOf
<1>6. CASE UNCHANGED two_pass_vars
    BY <1>6 DEF two_pass_vars, vars, slow_vars, SlowInv, SlowTypes, NamesHaveLines,
                NumbersAreCounted, IsLineOf
<1> QED
    BY <1>1, <1>2, <1>3, <1>4, <1>5, <1>6 DEF NextTwoPass

(* The names in variable_out-all tell the announced objects apart, and      *)
(* those of one variable share the line and are numbered in order.          *)
THEOREM NamesAreDistinct ==
    SpecTwoPass => []NamesTellObjects
<1>1. SlowInv => NamesTellObjects
    <2> SUFFICES ASSUME SlowInv, NEW a \in DOMAIN announced, NEW b \in DOMAIN announced,
                        a < b, var_outfile[a].line <= VAR_COUNT_TRANS,
                        var_outfile[b].line <= VAR_COUNT_TRANS
                 PROVE  IF objects[announced[a]].var = objects[announced[b]].var
                        THEN /\ var_outfile[a].line = var_outfile[b].line
                             /\ var_outfile[a].number < var_outfile[b].number
                        ELSE var_outfile[a].line # var_outfile[b].line
        BY DEF NamesTellObjects
    <2> DEFINE la == var_outfile[a].line
               lb == var_outfile[b].line
               va == objects[announced[a]].var
               vb == objects[announced[b]].var
    <2>1. IsLineOf(la, va) /\ IsLineOf(lb, vb)
        BY DEF SlowInv, NamesHaveLines
    <2>2. la \in Nat /\ lb \in Nat
        BY <2>1 DEF SlowInv, SlowTypes, IsLineOf
    <2>3. CASE va = vb
        <3>1. la = lb
            BY <2>1, <2>2, <2>3 DEF IsLineOf
        <3>2. var_outfile[a].number < var_outfile[b].number
            BY <3>1 DEF SlowInv, NumbersAreCounted
        <3> QED
            BY <2>3, <3>1, <3>2
    <2>4. CASE va # vb
        <3>1. StringHash(va, "slow") # StringHash(vb, "slow")
            BY <2>4, StringHashDiffers
        <3>2. la # lb
            BY <2>1, <3>1 DEF IsLineOf
        <3> QED
            BY <2>4, <3>2
    <2> QED
        BY <2>3, <2>4
<1> QED
    BY <1>1, SlowInvInit, SlowInvNext, PTL DEF SpecTwoPass

-----------------------------------------------------------------------------
(* Which objects are announced.  The table holds the hash value of a        *)
(* variable exactly when the script has listed an object of it, and the     *)
(* hash value is the same in both processes unless an address is unnamed.   *)

(* A hash value of one pass is found in the other one.                      *)
LEMMA StringHashFound ==
    ASSUME NEW v, NEW w
    PROVE  StringHash(w, "fast") = StringHash(v, "slow") <=> w = v /\ v \notin Unnamed
<1>1. ASSUME StringHash(w, "fast") = StringHash(v, "slow")
      PROVE  w = v /\ v \notin Unnamed
    <2>1. StringHash(w, "fast")[1] = w /\ StringHash(v, "slow")[1] = v
        BY DEF StringHash
    <2>2. w = v
        BY <1>1, <2>1
    <2>3. ASSUME v \in Unnamed PROVE FALSE
        <3>1. StringHash(w, "fast") = <<v, "fast">> /\ StringHash(v, "slow") = <<v, "slow">>
            BY <2>2, <2>3 DEF StringHash
        <3>2. StringHash(w, "fast")[2] = "fast" /\ StringHash(v, "slow")[2] = "slow"
            BY <3>1
        <3> QED
            BY <1>1, <3>2
    <2> QED
        BY <2>2, <2>3
<1>2. ASSUME w = v, v \notin Unnamed
      PROVE  StringHash(w, "fast") = StringHash(v, "slow")
    BY <1>2 DEF StringHash
<1> QED
    BY <1>1, <1>2

LEMMA RangeAppend ==
    ASSUME NEW T, NEW s \in Seq(T), NEW x \in T
    PROVE  Range(Append(s, x)) = Range(s) \cup {x}
<1>1. PICK n \in Nat : DOMAIN s = 1 .. n /\ n = Len(s)
    OBVIOUS
<1>2. /\ DOMAIN Append(s, x) = (1 .. n) \cup {n + 1}
      /\ Append(s, x)[n + 1] = x /\ \A i \in 1 .. n : Append(s, x)[i] = s[i]
    BY <1>1
<1> QED
    BY <1>1, <1>2 DEF Range

(* Lines of the table with the hash value of v.                             *)
LinesOf(v) ==
    {i \in DOMAIN var_hash_value_table : var_hash_value_table[i] = StringHash(v, "slow")}

(* Variable v has a big object that is kept when the log goes on at j, and  *)
(* the slow pass finds its hash value.                                      *)
IsHero(j, v) == HasBigObject(Kept(j), v) /\ v \notin Unnamed

(* The numbers of the objects that are recognized among the first n.        *)
Recognized(j, n) == {k \in 1 .. n : IsHero(j, objects[k].var)}

TableListsHeroes(j) == \A v : LinesOf(v) # {} <=> IsHero(j, v)

AnnounceInv ==
    /\ HeroInv /\ SlowInv
    /\ pass = "fast" => done = 0
    /\ pass = "slow" /\ ~overlapped =>
          \E j \in Losses : TableListsHeroes(j) /\ Range(announced) = Recognized(j, done)

(* The objects and what is lost of them are the same ones in the slow pass. *)
LEMMA SlowPassKeeps ==
    ASSUME UNCHANGED <<objects, early_objects, first_lines>>
    PROVE  /\ Losses' = Losses
           /\ \A j \in Losses : \A v : IsHero(j, v)' <=> IsHero(j, v)
           /\ \A j \in Losses : \A n : Recognized(j, n)' = Recognized(j, n)
BY DEF Losses, IsHero, Kept, HasBigObject, Recognized

(* The constructor reads the files of a pass in which no calls overlapped.  *)
LEMMA TableIsRead ==
    ASSUME HeroInv, ~overlapped, StartSlowPass
    PROVE  \E j \in Losses : \A v : LinesOf(v)' # {} <=> IsHero(j, v)
<1> DEFINE lines == HashValues(trace_file)
<1>1. PICK j \in Losses : IsList(lines, Kept(j), HeroesOf(Kept(j)), Pairs)
    BY HeroesListed DEF StartSlowPass
<1> DEFINE objs == Kept(j)
           K == HeroesOf(objs)
<1>2. var_hash_value_table' = [i \in 1 .. Len(lines) |-> StringHash(lines[i].var, "fast")]
    BY DEF StartSlowPass, ReadHashValues
<1> HIDE DEF lines, objs
<1>3. \A i \in 1 .. Len(lines) : \E k \in K : lines[i] = objs[k]
    BY <1>1 DEF IsList, objs
<1>4. \A k \in K : Place(K, k) \in 1 .. Len(lines) /\ lines[Place(K, k)] = objs[k]
    BY <1>1 DEF IsList, objs
<1>5. \A k : k \in K <=> k \in DOMAIN objs /\ HasBigObject(objs, objs[k].var)
    BY DEF HeroesOf
<1> HIDE DEF K
<1>6. ASSUME NEW v, IsHero(j, v)
      PROVE  \E i \in 1 .. Len(lines) : StringHash(lines[i].var, "fast") = StringHash(v, "slow")
    <2>1. PICK k \in DOMAIN objs : objs[k].var = v
        BY <1>6 DEF IsHero, HasBigObject, Range, objs
    <2>2. k \in K
        BY <1>5, <1>6, <2>1 DEF IsHero, objs
    <2>3. lines[Place(K, k)].var = v /\ Place(K, k) \in 1 .. Len(lines)
        BY <1>4, <2>1, <2>2
    <2> QED
        BY <1>6, <2>3, StringHashFound DEF IsHero
<1>7. ASSUME NEW v, NEW i \in 1 .. Len(lines),
             StringHash(lines[i].var, "fast") = StringHash(v, "slow")
      PROVE  IsHero(j, v)
    <2>1. PICK k \in K : lines[i] = objs[k]
        BY <1>3
    <2>2. lines[i].var = v /\ v \notin Unnamed
        BY <1>7, StringHashFound
    <2> QED
        BY <1>5, <2>1, <2>2 DEF IsHero, objs
<1>8. \A v : LinesOf(v)' = {i \in 1 .. Len(lines) :
                              StringHash(lines[i].var, "fast") = StringHash(v, "slow")}
    BY <1>2 DEF LinesOf
<1> QED
    BY <1>6, <1>7, <1>8

(* The next object is announced if it has a line.                           *)
LEMMA NextIsRecognized ==
    ASSUME SlowTypes, NEW j, TableListsHeroes(j), done < Len(objects)
    PROVE  Recognized(j, done + 1) =
              IF Lines # {} THEN Recognized(j, done) \cup {done + 1} ELSE Recognized(j, done)
<1>1. done \in Nat /\ 1 .. done + 1 = (1 .. done) \cup {done + 1}
    BY DEF SlowTypes
<1>2. Lines = LinesOf(objects[done + 1].var)
    BY DEF Lines, LinesOf
<1>3. Lines # {} <=> IsHero(j, objects[done + 1].var)
    BY <1>2 DEF TableListsHeroes
<1> QED
    BY <1>1, <1>3 DEF Recognized

(* A step of the slow pass.                                                 *)
LEMMA SlowStepAnnounces ==
    ASSUME AnnounceInv, LookIntoHashValue \/ LookIntoHashValueBeyond \/ NotChosen,
           ~overlapped'
    PROVE  (\E j \in Losses :
               TableListsHeroes(j) /\ Range(announced) = Recognized(j, done))'
<1>1. /\ pass = "slow" /\ done < Len(objects) /\ done' = done + 1
      /\ UNCHANGED <<objects, overlapped, var_hash_value_table>>
      /\ UNCHANGED <<objects, early_objects, first_lines>>
    BY DEF LookIntoHashValue, LookIntoHashValueBeyond, NotChosen, vars, start_vars
<1>2. PICK j \in Losses : TableListsHeroes(j) /\ Range(announced) = Recognized(j, done)
    BY <1>1 DEF AnnounceInv
<1>3. SlowTypes
    BY DEF AnnounceInv, SlowInv
<1>4. \A v : LinesOf(v)' = LinesOf(v) /\ (IsHero(j, v)' <=> IsHero(j, v))
    BY <1>1, SlowPassKeeps DEF LinesOf
<1>5. TableListsHeroes(j)'
    BY <1>2, <1>4 DEF TableListsHeroes
<1>6. Recognized(j, done)' = Recognized(j, done + 1)
    BY <1>1, <1>4 DEF Recognized
<1>7. Range(announced') = Recognized(j, done + 1)
    <2>1. CASE Lines # {}
        <3>1. announced' = Append(announced, done + 1)
            BY <2>1 DEF LookIntoHashValue, LookIntoHashValueBeyond, NotChosen
        <3>2. announced \in Seq(Nat) /\ done + 1 \in Nat
            BY <1>3 DEF SlowTypes, HeroInv, AnnounceInv
        <3>3. Range(announced') = Range(announced) \cup {done + 1}
            BY <3>1, <3>2, RangeAppend
        <3> QED
            BY <1>1, <1>2, <1>3, <2>1, <3>3, NextIsRecognized
    <2>2. CASE Lines = {}
        <3>1. announced' = announced
            BY <2>2 DEF LookIntoHashValue, LookIntoHashValueBeyond, NotChosen
        <3> QED
            BY <1>1, <1>2, <1>3, <2>2, <3>1, NextIsRecognized
    <2> QED
        BY <2>1, <2>2
<1>8. j \in Losses'
    BY <1>1, SlowPassKeeps
<1> QED
    BY <1>5, <1>6, <1>7, <1>8

LEMMA AnnounceInvInit == InitTwoPass => AnnounceInv
<1> SUFFICES ASSUME InitTwoPass PROVE AnnounceInv
    OBVIOUS
<1>1. pass = "fast" /\ done = 0
    BY DEF InitTwoPass
<1> QED
    BY <1>1, TwoPassIsFast, HeroInvInit, SlowInvInit DEF AnnounceInv

LEMMA AnnounceInvNext ==
    AnnounceInv /\ [NextTwoPass]_two_pass_vars => AnnounceInv'
<1> SUFFICES ASSUME AnnounceInv, [NextTwoPass]_two_pass_vars
             PROVE  AnnounceInv'
    OBVIOUS
<1>1. HeroInv' /\ SlowInv'
    BY TwoPassIsFast, HeroInvNext, SlowInvNext DEF AnnounceInv
<1>2. CASE FastStep
    <2>1. pass' = "fast" /\ pass = "fast" /\ done' = done
        BY <1>2 DEF FastStep, slow_vars
    <2> QED
        BY <1>1, <2>1 DEF AnnounceInv
<1>3. CASE StartSlowPass
    <2>1. /\ pass = "fast" /\ pass' = "slow" /\ done' = done /\ announced' = announced
          /\ overlapped' = overlapped
        BY <1>3 DEF StartSlowPass, vars
    <2>2. announced' = <<>> /\ done' = 0
        BY <2>1 DEF AnnounceInv, SlowInv
    <2>3. Range(announced') = {} /\ \A j : Recognized(j, done)' = {}
        BY <2>2 DEF Range, Recognized
    <2>4. ASSUME ~overlapped'
          PROVE  (\E j \in Losses :
                     TableListsHeroes(j) /\ Range(announced) = Recognized(j, done))'
        <3>1. PICK j \in Losses : \A v : LinesOf(v)' # {} <=> IsHero(j, v)
            BY <1>3, <2>1, <2>4, TableIsRead DEF AnnounceInv
        <3>2. UNCHANGED <<objects, early_objects, first_lines>>
            BY <1>3 DEF StartSlowPass, vars, start_vars
        <3>3. j \in Losses' /\ \A v : IsHero(j, v)' <=> IsHero(j, v)
            BY <3>2, SlowPassKeeps
        <3>4. TableListsHeroes(j)'
            BY <3>1, <3>3 DEF TableListsHeroes
        <3> QED
            BY <2>3, <3>3, <3>4
    <2> QED
        BY <1>1, <2>1, <2>4 DEF AnnounceInv
<1>4. CASE LookIntoHashValue \/ LookIntoHashValueBeyond \/ NotChosen
    <2>1. pass' = "slow"
        BY <1>4 DEF LookIntoHashValue, LookIntoHashValueBeyond, NotChosen
    <2>2. ~overlapped' =>
            (\E j \in Losses :
                TableListsHeroes(j) /\ Range(announced) = Recognized(j, done))'
        BY <1>4, SlowStepAnnounces
    <2> QED
        BY <1>1, <2>1, <2>2 DEF AnnounceInv
<1>5. CASE UNCHANGED two_pass_vars
    <2>1. /\ UNCHANGED <<objects, overlapped, pass, var_hash_value_table, announced, done>>
          /\ UNCHANGED <<objects, early_objects, first_lines>>
        BY <1>5 DEF two_pass_vars, vars, slow_vars, start_vars
    <2>2. Losses' = Losses /\ \A v : LinesOf(v)' = LinesOf(v)
        BY <2>1, SlowPassKeeps DEF LinesOf
    <2>3. ASSUME NEW j \in Losses, TableListsHeroes(j), Range(announced) = Recognized(j, done)
          PROVE  TableListsHeroes(j)' /\ Range(announced)' = Recognized(j, done)'
        <3>1. \A v : IsHero(j, v)' <=> IsHero(j, v)
            BY <2>1, SlowPassKeeps
        <3> QED
            BY <2>1, <2>2, <2>3, <3>1 DEF TableListsHeroes, Recognized, Range
    <2> QED
        BY <1>1, <2>1, <2>2, <2>3 DEF AnnounceInv
<1> QED
    BY <1>2, <1>3, <1>4, <1>5 DEF NextTwoPass

(* When no calls of the fast pass overlapped, the slow pass announces every *)
(* object of every variable with a big object, and no other, but for call   *)
(* stacks with an address that has no symbol, and for the variables whose   *)
(* big objects the log has lost because calls were logged before the        *)
(* constructor.                                                             *)
THEOREM HeroesAreAnnounced ==
    SpecTwoPass => []HeroObjectsAnnounced
<1>1. AnnounceInv => HeroObjectsAnnounced
    BY DEF AnnounceInv, HeroObjectsAnnounced, Recognized, IsHero
<1> QED
    BY <1>1, AnnounceInvInit, AnnounceInvNext, PTL DEF SpecTwoPass
=============================================================================
