------------------------------- MODULE PinTool -------------------------------
(***************************************************************************)
(* The object registry of the Pin tool (pin-tools/pintool.h).              *)
(*                                                                         *)
(* The analysis routines that Pin inserts before the entry of the          *)
(* allocation functions and before every memory access keep a table of     *)
(* objects, the size of the request in progress and the flag in_alloc, and *)
(* read the System V message queue on which the preloaded call-stack       *)
(* library announces the objects to profile.                               *)
(*                                                                         *)
(* Each routine is an operator from the tool's state (a record) to its     *)
(* state after the routine, because one instruction of the application     *)
(* can run several of them.                                                *)
(***************************************************************************)
EXTENDS Integers, Sequences

(* READ_TRACE_SIZE is not defined in any build: TRACE_SIZE keeps its        *)
(* initial value.                                                           *)
TRACE_SIZE == 0

(***************************************************************************)
(* Row of the object table.  addr and size are var_addr and var_size;      *)
(* freed, ended and accessed say that free_time, end_num_inst and          *)
(* first_access_time have been given a value.                              *)
(***************************************************************************)
Object == [addr : Int, size : Nat, freed : BOOLEAN, ended : BOOLEAN,
           accessed : BOOLEAN]

Message == [addr : Nat, size : Nat]

ToolState == [in_alloc : {0, 1}, G_var_size : Nat, objs : Seq(Object),
              queue : Seq(Message)]

InitTool == [in_alloc |-> 0, G_var_size |-> 0, objs |-> <<>>, queue |-> <<>>]

NewObject(a, n) == [addr |-> a, size |-> n, freed |-> FALSE, ended |-> FALSE,
                    accessed |-> FALSE]

(* Mutant: the row of the last object is used again once it is released.    *)
AllocAfterReusesRow(s, ret) ==
    LET n == Len(s.objs)
        o == NewObject(ret, s.G_var_size)
    IN  [s EXCEPT !.in_alloc = 0,
                  !.objs = IF n > 0 /\ s.objs[n].freed
                           THEN [@ EXCEPT ![n] = o]
                           ELSE Append(@, o)]

(* Mutant: an object of one byte counts as too small to trace.              *)
AllocAfterSkipsOneByte(s, ret) ==
    [s EXCEPT !.in_alloc = 0,
              !.objs = IF s.G_var_size > TRACE_SIZE + 1
                       THEN Append(@, NewObject(ret, s.G_var_size))
                       ELSE @]

(* The object at the requested address becomes object number count.        *)
AllocAfter(s, ret) ==
    [s EXCEPT !.in_alloc = 0,
              !.objs = IF s.G_var_size > TRACE_SIZE
                       THEN Append(@, NewObject(ret, s.G_var_size))
                       ELSE @]

(* msgrcv with IPC_NOWAIT: nothing happens when no message is there.        *)
TestAndGetAddr(s) ==
    IF s.queue = <<>>
    THEN s
    ELSE AllocAfter([s EXCEPT !.queue = Tail(@),
                              !.in_alloc = 0,
                              !.G_var_size = Head(s.queue).size],
                    Head(s.queue).addr)

(* What MallocBefore, CallocBefore and ReallocBefore do first.              *)
PollBefore(s) ==
    IF s.in_alloc = 1 /\ s.G_var_size > TRACE_SIZE
    THEN TestAndGetAddr(s)
    ELSE s

(* Mutant: the routine never says that an allocation is in progress.        *)
ChangeAllocStatForgets(s) == s

ChangeAllocStat(s) ==
    [s EXCEPT !.in_alloc = IF s.G_var_size > TRACE_SIZE THEN 1 ELSE @]

MallocBefore(s, size) ==
    ChangeAllocStat([PollBefore(s) EXCEPT !.G_var_size = size])

CallocBefore(s, num, size) ==
    ChangeAllocStat([PollBefore(s) EXCEPT !.G_var_size = size * num])

(* A released object keeps its row; its range moves below address 0.        *)
Retire(o) == [o EXCEPT !.addr = -o.size, !.freed = TRUE]

(* Mutant: realloc does not end the old object.                             *)
ReallocBeforeKeepsOld(s, addr, size) ==
    ChangeAllocStat([PollBefore(s) EXCEPT !.G_var_size = size])

ReallocBefore(s, addr, size) ==
    LET p == PollBefore(s)
    IN  ChangeAllocStat(
          [p EXCEPT !.objs = [i \in DOMAIN p.objs |->
                                IF p.objs[i].addr = addr
                                THEN Retire(p.objs[i])
                                ELSE p.objs[i]],
                    !.G_var_size = size])

(* Mutant: free records the times but leaves the range where it was.        *)
FreeBeforeKeepsRange(s, addr) ==
    [s EXCEPT !.objs = [i \in DOMAIN s.objs |->
                          IF s.objs[i].addr = addr
                          THEN [s.objs[i] EXCEPT !.freed = TRUE, !.ended = TRUE]
                          ELSE s.objs[i]]]

FreeBefore(s, addr) ==
    [s EXCEPT !.objs = [i \in DOMAIN s.objs |->
                          IF s.objs[i].addr = addr
                          THEN [Retire(s.objs[i]) EXCEPT !.ended = TRUE]
                          ELSE s.objs[i]]]

(* Mutant: the byte after an object counts as its own.                      *)
CoversOneMore(o, c) == o.addr <= c /\ c <= o.addr + o.size

Covers(o, c) == o.addr <= c /\ c < o.addr + o.size

(* The scan of the table stops at the first object that covers address c.   *)
IsOwner(s, c, i) ==
    /\ i \in DOMAIN s.objs
    /\ Covers(s.objs[i], c)
    /\ \A j \in DOMAIN s.objs : j < i => ~Covers(s.objs[j], c)

Credit(s, c) ==
    [s EXCEPT !.objs = [i \in DOMAIN s.objs |->
                          IF IsOwner(s, c, i)
                          THEN [s.objs[i] EXCEPT !.accessed = TRUE]
                          ELSE s.objs[i]]]

(* RecordMemRead and RecordMemWrite of pintool.h.                           *)
RecordMem(s, c) ==
    Credit(IF s.in_alloc = 1 THEN TestAndGetAddr(s) ELSE s, c)

(* Output gives every object without an end the end of the run.             *)
Output(s) ==
    [s EXCEPT !.objs = [i \in DOMAIN s.objs |->
                          [s.objs[i] EXCEPT !.ended = TRUE]]]

(* Objects of the table that have not been released.                        *)
Registered(s) == {i \in DOMAIN s.objs : s.objs[i].addr >= 0}
=============================================================================
