------------------------------ MODULE FastPass ------------------------------
(***************************************************************************)
(* The fast pass: libfastpass.so (calltrack/src/dcalltrack.cpp with        *)
(* SHOW_SIZE and SHOW_FREE) writes a [Hash] and a [Trace] line for every   *)
(* traced allocation to var_time_info; offline_process_ex.py reads the log *)
(* back, pairs the lines through a queue and lists the objects of the hero *)
(* variables for the slow pass.                                            *)
(*                                                                         *)
(* The library has one trace_flag for the whole process and no lock.  A    *)
(* thread inside the library has a stack of frames, because the library's  *)
(* own malloc comes back into it.                                          *)
(*                                                                         *)
(* init runs twice when a library initializer allocates before the         *)
(* constructor: from that malloc and from the constructor, which opens     *)
(* var_time_info again.  The first stream is never closed, and libc writes *)
(* its lines at exit, over as many bytes of the second stream's.           *)
(***************************************************************************)
EXTENDS Naturals, Sequences, SequencesExt

CONSTANTS Threads,
          Vars,          \* call stacks of the application's allocations
          LibcVar,       \* a call stack whose caller is libc.so.6
          OwnVar,        \* the call stack of the library's own malloc
          Sizes,         \* bytes asked for
          MaxCalls,      \* bound: calls the application makes
          MaxDepth       \* bound: frames of one thread

ASSUME ThreadsAssumption == IsFiniteSet(Threads)
ASSUME BoundsAssumption == MaxCalls \in Nat /\ MaxDepth \in Nat
ASSUME SizesAssumption == Sizes \subseteq Nat

VARIABLES trace_flag,
          frames,        \* the frames of each thread, innermost first
          trace_file,    \* the lines of var_time_info, as they are after exit
          overwritten,   \* lines of the first stream will cover the next one
          constructed,   \* the constructor has run
          first_lines,   \* history: lines written before the constructor
          early_objects, \* history: objects allocated before the constructor
          calls,         \* calls made so far
          objects,       \* what the application allocated: var, size
          overlapped     \* history: a call was made while another was traced

start_vars == <<constructed, first_lines, early_objects>>

vars == <<trace_flag, frames, trace_file, overwritten, start_vars, calls, objects,
          overlapped>>

CALLTRACK_SIZE == 0

HERO_SIZE == 4095

(* funcnamesize, the library's own request.                                 *)
OwnSize == 2048

Frame(place, v, n) == [place |-> place, var |-> v, size |-> n]

Push(t, f) == frames' = [frames EXCEPT ![t] = <<f>> \o @]

Pop(t) == frames' = [frames EXCEPT ![t] = Tail(@)]

At(t, place) == frames[t] # <<>> /\ Head(frames[t]).place = place

Goto(t, place) == frames' = [frames EXCEPT ![t][1].place = place]

(* A line that the first stream covers, as a whole or in part, is lost to   *)
(* the script.                                                              *)
Write(line) ==
    IF overwritten
    THEN trace_file' = trace_file /\ overwritten' \in BOOLEAN
    ELSE trace_file' = Append(trace_file, line) /\ overwritten' = FALSE

AtRest == \A t \in Threads : frames[t] = <<>>

(* A library initializer runs alone.                                        *)
Counted ==
    /\ calls < MaxCalls
    /\ constructed \/ AtRest
    /\ calls' = calls + 1
    /\ overlapped' = (overlapped \/ \E u \in Threads : frames[u] # <<>>)

(* malloc, calloc or realloc: the block is there; is the call traced?       *)
Alloc(t, v, n) ==
    /\ frames[t] = <<>> /\ Counted
    /\ objects' = IF n > CALLTRACK_SIZE /\ v # LibcVar
                  THEN Append(objects, [var |-> v, size |-> n]) ELSE objects
    /\ IF ~trace_flag /\ n > CALLTRACK_SIZE
       THEN Push(t, Frame("enter", v, n)) ELSE UNCHANGED frames
    /\ UNCHANGED <<trace_flag, trace_file, overwritten, start_vars>>

(* The first call is never a free: freep is set by the first init.          *)
Free(t) ==
    /\ frames[t] = <<>> /\ Counted
    /\ constructed \/ calls > 0
    /\ IF ~trace_flag
       THEN Push(t, Frame("free", OwnVar, 0)) ELSE UNCHANGED frames
    /\ UNCHANGED <<trace_flag, trace_file, overwritten, start_vars, objects>>

SetFlag(t) ==
    /\ \/ At(t, "enter") /\ Goto(t, "symbols")
       \/ At(t, "free") /\ Goto(t, "freeline")
    /\ trace_flag' = TRUE
    /\ UNCHANGED <<trace_file, overwritten, start_vars, calls, objects, overlapped>>

(* show_stackframe allocates: a malloc of the application's library.        *)
NestedMalloc(t) ==
    /\ At(t, "symbols")
    /\ IF ~trace_flag
       THEN /\ Len(frames[t]) < MaxDepth
            /\ frames' = [frames EXCEPT ![t] =
                 <<Frame("enter", OwnVar, OwnSize),
                   [Head(@) EXCEPT !.place = "look"]>> \o Tail(@)]
       ELSE Goto(t, "look")
    /\ UNCHANGED <<trace_flag, trace_file, overwritten, start_vars, calls, objects,
                   overlapped>>

(* Mutant: show_stackframe returns 1 for a caller in libc.                  *)
TraceLibc(t) ==
    /\ At(t, "look") /\ Head(frames[t]).var = LibcVar
    /\ Goto(t, "trace")
    /\ UNCHANGED <<trace_flag, trace_file, overwritten, start_vars, calls, objects,
                   overlapped>>

(* The caller is libc: show_stackframe returns 0 and nothing is logged.     *)
IgnoreLibc(t) ==
    /\ At(t, "look") /\ Head(frames[t]).var = LibcVar
    /\ Goto(t, "leave")
    /\ UNCHANGED <<trace_flag, trace_file, overwritten, start_vars, calls, objects,
                   overlapped>>

LogHash(t) ==
    /\ At(t, "look") /\ Head(frames[t]).var # LibcVar
    /\ Write([tag |-> "Hash", var |-> Head(frames[t]).var])
    /\ Goto(t, "trace")
    /\ UNCHANGED <<trace_flag, start_vars, calls, objects, overlapped>>

LogTrace(t) ==
    /\ At(t, "trace")
    /\ Write([tag |-> "Trace", size |-> Head(frames[t]).size])
    /\ Goto(t, "leave")
    /\ UNCHANGED <<trace_flag, start_vars, calls, objects, overlapped>>

(* A [Trace] free line has no size.                                         *)
LogFree(t) ==
    /\ At(t, "freeline")
    /\ Write([tag |-> "Free"])
    /\ Goto(t, "leave")
    /\ UNCHANGED <<trace_flag, start_vars, calls, objects, overlapped>>

(* Mutant: a call that was not logged leaves the flag as it is.             *)
ClearFlagIfLogged(t) ==
    /\ At(t, "leave")
    /\ trace_flag' = (Head(frames[t]).var = LibcVar)
    /\ Pop(t)
    /\ UNCHANGED <<trace_file, overwritten, start_vars, calls, objects, overlapped>>

ClearFlag(t) ==
    /\ At(t, "leave")
    /\ trace_flag' = FALSE
    /\ Pop(t)
    /\ UNCHANGED <<trace_file, overwritten, start_vars, calls, objects, overlapped>>

(* The constructor runs init; the flag is clear already, and a log open,    *)
(* when a malloc has run init before.                                       *)
Constructor ==
    /\ ~constructed /\ AtRest
    /\ constructed' = TRUE
    /\ trace_flag' = FALSE
    /\ overwritten' = (trace_file # <<>>)
    /\ first_lines' = Len(trace_file)
    /\ early_objects' = Len(objects)
    /\ UNCHANGED <<frames, trace_file, calls, objects, overlapped>>

(* The first run of init is over, in the first malloc if one comes before   *)
(* the constructor.                                                         *)
Init ==
    /\ trace_flag = FALSE
    /\ frames = [t \in Threads |-> <<>>]
    /\ trace_file = <<>> /\ overwritten = FALSE
    /\ constructed = FALSE /\ first_lines = 0 /\ early_objects = 0
    /\ calls = 0
    /\ objects = <<>>
    /\ overlapped = FALSE

Call(t) == (\E v \in Vars \cup {LibcVar}, n \in Sizes : Alloc(t, v, n)) \/ Free(t)

Inside(t) ==
    \/ SetFlag(t) \/ NestedMalloc(t) \/ IgnoreLibc(t) \/ LogHash(t)
    \/ LogTrace(t) \/ LogFree(t) \/ ClearFlag(t)

Next == Constructor \/ \E t \in Threads : Call(t) \/ Inside(t)

Spec == Init /\ [][Next]_vars

-----------------------------------------------------------------------------
(* offline_process_ex.py.                                                   *)

(* One line of the log: hashObj is the queue, out the pairs made so far,    *)
(* orphans counts "No [Hash] before [Trace]".                               *)
ReadLine(s, line) ==
    CASE line.tag = "Hash" ->
           [s EXCEPT !.hashObj = Append(@, line.var)]
      [] line.tag = "Trace" /\ s.hashObj # <<>> ->
           [s EXCEPT !.hashObj = Tail(@),
                     !.out = Append(@, [var  |-> Head(s.hashObj),
                                        size |-> line.size])]
      [] line.tag = "Trace" /\ s.hashObj = <<>> ->
           [s EXCEPT !.orphans = @ + 1]
      [] OTHER -> s

ReadLog(lines) ==
    FoldLeft(ReadLine, [hashObj |-> <<>>, out |-> <<>>, orphans |-> 0], lines)

(* Mutant: the last object of a variable decides.                           *)
flagHeroLast(pairs, v) ==
    LET own == SelectSeq(pairs, LAMBDA p : p.var = v)
    IN  own # <<>> /\ Last(own).size > HERO_SIZE

flagHero(pairs, v) == \E p \in Range(pairs) : p.var = v /\ p.size > HERO_SIZE

(* The second reading of the log: an object of a hero variable is written.  *)
WriteHero(pairs, out, p) ==
    IF flagHero(pairs, p.var) THEN Append(out, p) ELSE out

(* The lines of HashValues and VarMinSize.                                  *)
HashValues(lines) ==
    LET pairs == ReadLog(lines).out
    IN  FoldLeft(LAMBDA out, p : WriteHero(pairs, out, p), <<>>, pairs)

-----------------------------------------------------------------------------
HasBigObject(objs, v) == \E o \in Range(objs) : o.var = v /\ o.size > HERO_SIZE

(* The objects that were not lost: those of before the constructor, and all *)
(* from the number j + 1 on.                                                *)
Kept(j) ==
    SubSeq(objects, 1, early_objects) \o SubSeq(objects, j + 1, Len(objects))

(* What can be lost is a stretch right after the constructor, and nothing   *)
(* unless something was logged before it.                                   *)
Losses == {j \in early_objects .. Len(objects) : first_lines = 0 => j = early_objects}

Lists(listed, objs) ==
    LET heroes == {k \in DOMAIN objs : HasBigObject(objs, objs[k].var)}
    IN  /\ Len(listed) = Cardinality(heroes)
        /\ \A k \in heroes : listed[Cardinality({j \in heroes : j <= k})] = objs[k]

(* As long as no two calls overlap, in whichever threads they are made, the *)
(* files for the slow pass list, in order and once each, exactly the objects*)
(* of the variables with a big object, whatever else is allocated or freed. *)
(* When a library initializer was traced before the constructor, the first  *)
(* objects after the constructor may be missing from the log; then the      *)
(* files list the objects of the variables with a big object among the rest.*)
HeroObjectsListed ==
    AtRest /\ ~overlapped => \E j \in Losses : Lists(HashValues(trace_file), Kept(j))

(* Tracing is never left switched off, whichever threads raced for the flag.*)
FlagOpenAtRest == AtRest => ~trace_flag

(* Whatever the threads do, the script finds a [Hash] for each [Trace], but *)
(* for the calls that were being logged when the lines of the first stream, *)
(* if it has any, end: at most one call of each thread.                     *)
OrphansAreBounded ==
    ReadLog(trace_file).orphans <=
        IF first_lines = 0 THEN 0 ELSE Cardinality(Threads)
=============================================================================
