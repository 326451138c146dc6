---------------------------- MODULE PinToolMTInv ----------------------------
(***************************************************************************)
(* The inductive invariant of the multi-threaded tools.                    *)
(*                                                                         *)
(* The first part holds whatever the threads do to each other: what a      *)
(* thread is doing, the blocks, the number of messages.  The second holds  *)
(* as long as no two threads are inside the unlocked routines at the same  *)
(* time; each of its conjuncts is what one property needs.                 *)
(***************************************************************************)
EXTENDS PinToolMT

Message == [addr : Nat, size : Nat \ {0}]

Block == [state : {"inside", "live", "freed"}, size : Nat, chosen : BOOLEAN,
          by : Threads]

Frame ==
    [pc : {"run", "recv", "read", "bytes", "arg", "after", "test", "size", "addr",
           "init", "load", "store", "before", "retire", "set", "stat", "hook",
           "setflag", "show", "nested", "fill", "send", "clear", "return", "lock",
           "scan", "credit", "free", "freeset", "freeclear", "freep"},
     todo : Nat, back : {"run", "hook", "return", "nested", "clear"},
     nest : Seq(Nat), size : Nat, old : Nat, ptr : Nat, at : Nat, ret : Nat, reg : Nat]

Globals ==
    /\ variant \in Variants
    /\ in_alloc \in {0, 1} /\ G_var_size \in Nat
    /\ msg_addr \in [addr : Nat, size : Nat] /\ lib_msg \in [addr : Nat, size : Nat]
    /\ count \in Nat
    /\ table \in [1 .. MAX_SIZE -> [addr : Int, size : Nat, ops : Nat]]
    /\ credits \in [1 .. MAX_SIZE -> Nat]
    /\ g_lock \subseteq Threads
    /\ queue \in Seq(Message) /\ received \in Seq(Message)
    /\ trace_flag \in BOOLEAN /\ raced \in BOOLEAN
    /\ thr \in [Threads -> Frame]

-----------------------------------------------------------------------------
(* What thread t is doing, by its program counter.                          *)
Polling == {"recv", "read", "bytes", "arg", "after", "test", "size", "addr", "init",
            "load", "store"}

(* In a ...Before routine of a call of its own or of show_stackframe ...    *)
InEntry(r) ==
    /\ r.pc \in Polling \cup {"before", "retire", "set"}
    /\ r.todo # 0 /\ r.todo <= 2

AtStat(r) == r.pc = "stat" /\ r.todo <= 1

(* ... which then goes on in the library, or in libc ...                    *)
InLibrary(r) ==
    /\ r.todo = 0
    /\ \/ r.pc \in {"hook", "return", "nested", "clear"} /\ r.pc = r.back
       \/ r.pc \in {"setflag", "show"} /\ r.back \in {"hook", "nested"}
       \/ r.pc \in {"fill", "send"} /\ r.back = "nested"

(* ... in the library's free ...                                            *)
Freeing == {"free", "freeset", "freeclear", "freep"}

(* ... and in the analysis of an access.                                    *)
InAnalysis(r) ==
    /\ r.pc \in Polling \cup {"lock", "scan", "credit"}
    /\ r.todo = 0 /\ r.back \in {"run", "clear"}

FrameOK(r) ==
    /\ \/ r.pc \in {"run"} \cup Freeing /\ r.back = "run" /\ r.todo = 0
       \/ (InEntry(r) \/ AtStat(r)) /\ r.back \in {"hook", "return", "nested"}
       \/ InLibrary(r)
       \/ InAnalysis(r)
    /\ r.pc = "show" \/ (r.back = "nested" /\ r.pc \notin {"fill", "send"}) =>
          r.nest # <<>>
    /\ r.back = "hook" => r.nest = IF r.pc = "show" THEN <<NestedMallocs>> ELSE <<>>
    /\ r.pc \in Freeing \cup {"retire"} => r.old # 0
    /\ r.pc = "credit" => r.at \in 1 .. MAX_SIZE
    /\ IF variant.fortran
       THEN r.back \in {"run", "return"} /\ r.pc \notin (Polling \ {"recv"}) \cup Freeing
       ELSE r.back # "return"

(* Calls that have not sent a message and still may.                        *)
Unsent == {t \in Threads : thr[t].back \in {"hook", "nested"} /\ thr[t].size > 0}

(* A thread in a call has its block, with its arguments.                    *)
CallOK(t) ==
    LET r == thr[t]
    IN  /\ r.back # "run" =>
             /\ r.ptr \in DOMAIN heap
             /\ heap[r.ptr].state = "inside" /\ heap[r.ptr].by = t
        /\ r.back \in {"hook", "return", "nested"} => r.size = heap[r.ptr].size
        /\ r.pc = "setflag" \/ r.pc = "show" \/ r.back = "nested" => r.size > 0
        /\ r.pc \in {"fill", "send"} => heap[r.ptr].chosen
        /\ r.old # 0 => r.old \in DOMAIN heap /\ heap[r.old].state = "freed"

HeapOK ==
    /\ IsFiniteSet(DOMAIN heap) /\ Cardinality(DOMAIN heap) <= MaxCalls
    /\ \A p \in DOMAIN heap : p \in Nat /\ 0 < p /\ p < Fresh /\ heap[p] \in Block

(* No message is of 0 bytes; nor is any request before the first of 0      *)
(* bytes, and until then in_alloc says that G_var_size is that of one.      *)
SizesArePositive ==
    /\ \A t \in Threads :
          /\ thr[t].pc \in {"read", "bytes"} => msg_addr.size > 0
          /\ thr[t].pc = "send" => lib_msg.size > 0
    /\ NoZeroRequests =>
          /\ in_alloc = 1 => G_var_size > 0
          /\ \A t \in Threads : thr[t].pc = "stat" => G_var_size > 0

(* A row that is being written is in the table, and so is the next: every   *)
(* call sends at most one message.                                          *)
RowsSuffice ==
    /\ count + Cardinality(Filling) <= Len(received)
    /\ \A t \in Threads : thr[t].pc = "store" =>
          thr[t].reg + Cardinality(Filling) <= Len(received)
    /\ IF variant.fortran
       THEN queue = <<>> /\ received = StaticObjects
       ELSE Len(received) + Len(queue) + Cardinality(Unsent)
                <= Cardinality(DOMAIN heap)

LockOK ==
    /\ \A t, u \in g_lock : t = u
    /\ variant.locks =>
          \A t \in Threads : InAnalysis(thr[t]) /\ thr[t].pc # "lock" => t \in g_lock

ControlInv ==
    /\ Globals
    /\ \A t \in Threads : FrameOK(thr[t]) /\ CallOK(t)
    /\ HeapOK
    /\ SizesArePositive
    /\ RowsSuffice
    /\ LockOK

-----------------------------------------------------------------------------
OneWriter == \A t, u \in Threads : Writing(t) /\ Writing(u) => t = u

(* G_var_size is what the routine has stored there.                         *)
SizeIsAsked == \A t \in Threads : thr[t].pc = "stat" => G_var_size = Asked(thr[t])

(* Where a row of message m lies, and what becomes of it.                   *)
Placed(m) == IF variant.fortran THEN AsInt(m.addr) ELSE m.addr

RowOK(r, m) ==
    /\ r.size = m.size
    /\ \/ r.addr = Placed(m)
       \/ /\ r.addr = -m.size
          /\ Placed(m) \in DOMAIN heap /\ heap[Placed(m)].state = "freed"

(* A thread that has received a message carries it to the next row.         *)
FillingOK(t) ==
    LET r == thr[t]
        m == received[count + 1]
        x == table[count + 1]
    IN  /\ r.pc \in {"read", "bytes", "arg"} => msg_addr = m
        /\ r.pc \in {"after", "test", "size", "addr"} => r.ret = m.addr
        /\ r.pc \in {"arg", "after", "test", "size"} => G_var_size = m.size
        /\ r.pc \in {"addr", "init", "load", "store"} => x.size = m.size
        /\ r.pc \in {"init", "load", "store"} => x.addr = m.addr
        /\ r.pc = "store" => r.reg = count

RowsOK ==
    /\ Len(received) = count + Cardinality(Filling)
    /\ \A i \in 1 .. count : RowOK(table[i], received[i])
    /\ \A t \in Filling : FillingOK(t)

(* Under g_lock, what Credit writes is one more than what it has read.      *)
CreditsOK ==
    /\ \A i \in 1 .. MAX_SIZE : table[i].ops = credits[i]
    /\ \A t \in Threads : thr[t].pc = "credit" =>
          thr[t].at <= count /\ thr[t].reg = table[thr[t].at].ops

(* Threads that have not read the queue since they last sent a message: the *)
(* poll of the second ...Before routine of a call finds in_alloc = 1 and    *)
(* the size, which the first has left, unless another thread has read the   *)
(* queue in between.                                                        *)
AtSecond(r) == r.back = "hook" /\ r.todo = 1 /\ r.pc \in {"stat", "before", "recv"}

Owing ==
    {t \in Threads : \/ t \notin Unsent
                     \/ thr[t].back = "hook" /\ thr[t].todo = 2
                     \/ AtSecond(thr[t])}

(* In a routine for a 0-byte request, past its poll.                        *)
AsksNothing(r) ==
    /\ r.back = "hook" /\ r.size = 0
    /\ r.pc \in (Polling \ {"recv"}) \cup {"retire", "set", "stat"}

(* A poll would be skipped, or will be when the routine that is running is  *)
(* over, and somebody may meet that.                                        *)
MaySkip ==
    /\ \/ (in_alloc = 0 \/ G_var_size = 0) /\ \A t \in Threads : ~Writing(t)
       \/ \E t \in Filling : thr[t].todo = 0
       \/ \E t \in Threads : AsksNothing(thr[t])
    /\ \E t \in Threads : thr[t].pc = "before" /\ thr[t].back = "hook" /\ thr[t].size > 0

QueueOK ==
    /\ Len(queue) <= Cardinality(Owing)
    /\ MaySkip /\ queue # <<>> => Len(queue) < Cardinality(Owing)

(* Two threads that race.  A poll is skipped only when the other thread has *)
(* cleared in_alloc, on taking a message.  Each thread has a share of the   *)
(* queue, in thirds of a message: what its place leaves it,                 *)
Place(r) == IF r.back = "nested" THEN 0 ELSE IF r.back = "hook" THEN 1 ELSE 3

(* one for each ...Before routine that it is in or will come to,            *)
Routines(r) == IF r.pc = "stat" THEN r.todo + 1 ELSE r.todo

(* one for in_alloc = 1 if it may still read it before it writes it,        *)
Heeds(r) ==
    r.pc \notin (Polling \ {"recv"}) \cup {"retire", "set", "stat"}

(* less one for each time that it will clear in_alloc.                      *)
Clears(r) ==
    IF r.pc = "read" THEN 2 ELSE IF r.pc \in {"bytes", "arg", "after"} THEN 1 ELSE 0

Share(alloc, r) ==
    Place(r) + Routines(r) + (IF Heeds(r) THEN alloc ELSE 0) - Clears(r)

TwoTakeTurns ==
    NoZeroRequests =>
    \A t, u \in Threads : t # u /\ Threads = {t, u} =>
        3 * Len(queue) <= Share(in_alloc, thr[t]) + Share(in_alloc, thr[u])

(* While only thread 0 announces blocks, its message waits in the queue     *)
(* only from msgsnd to the poll of the next analysed access.                *)
NoneClears == \A t \in Threads : thr[t].pc \notin {"read", "bytes", "arg", "after"}

MessageOf(p) == [addr |-> p, size |-> heap[p].size]

MainPolls ==
    queue # <<>> =>
        /\ thr[Main].back = "clear" /\ Len(queue) = 1
        /\ thr[Main].pc \in {"lock", "recv"}
        /\ thr[Main].pc = "lock" => in_alloc = 1 /\ NoneClears

MainHasSaidSo == Main \in Unsent /\ ~Writing(Main) => in_alloc = 1 /\ NoneClears

MainFills ==
    /\ thr[Main].pc = "fill" => lib_msg.addr = thr[Main].ptr
    /\ thr[Main].pc = "send" => lib_msg = MessageOf(thr[Main].ptr)

BlocksAreAnnounced ==
    \A p \in DOMAIN heap : heap[p].chosen =>
        \/ \E k \in DOMAIN received : received[k] = MessageOf(p)
        \/ queue = <<MessageOf(p)>>
        \/ thr[Main].pc \in {"fill", "send"} /\ thr[Main].ptr = p

MainIsServed == MainPolls /\ MainHasSaidSo /\ MainFills /\ BlocksAreAnnounced

MainAnnounces ==
    /\ variant = pintool_mt_sep
    /\ \A p \in DOMAIN heap : heap[p].chosen => heap[p].by = Main

MTIInv ==
    /\ ControlInv
    /\ ~raced => OneWriter /\ SizeIsAsked
    /\ ~raced \/ variant.fortran => RowsOK
    /\ ~raced /\ variant.locks => CreditsOK
    /\ ~raced /\ ~variant.fortran => QueueOK
    /\ ~variant.fortran => TwoTakeTurns
    /\ ~raced /\ MainAnnounces => MainIsServed
=============================================================================
