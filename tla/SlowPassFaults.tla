--------------------------- MODULE SlowPassFaults ---------------------------
(***************************************************************************)
(* The slow pass where something fails: libc runs out of memory, or the    *)
(* process is killed and another one gets its pid, and with it the queue.  *)
(***************************************************************************)
EXTENDS SlowPass

(* mallocp or callocp returns NULL: the library says so on stderr and       *)
(* carries on with ptr = 0.  reallocp does not say so; the old block stays. *)
AllocFails ==
    /\ pc = "libc"
    /\ ~Releases(call)
    /\ tool' = EntryRoutine(tool, call)
    /\ pc' = "hook"
    /\ UNCHANGED <<heap, phase, call, scratch, trace_flag>>

(* The kernel kills the process: neither final nor Fini runs, and the queue *)
(* stays in the kernel.                                                     *)
Kill ==
    /\ pc # "done"
    /\ pc' = "done"
    /\ UNCHANGED <<tool, heap, phase, call, scratch, trace_flag>>

NextFaults == Next \/ AllocFails \/ Kill

(* Instructions of the library and of libc keep executing: the process is   *)
(* single-threaded, so nothing but msgsnd can hold them up.                 *)
SpecFaults == Init /\ [][NextFaults]_vars /\ WF_vars(LibStep)

-----------------------------------------------------------------------------
(* A process that opens the queue named after its pid finds no message of   *)
(* an earlier process in it, wherever that one was killed.                  *)
QueueIsPrivate == (pc = "run" /\ phase = "init") => tool.queue = <<>>

(* However often processes of one pid are killed, between msgsnd and the    *)
(* poll too, the queue never holds a second message: a process takes the    *)
(* old one before it can send its own, so msgsnd does not block on what     *)
(* dead processes left.                                                     *)
QueueHoldsOneMessage == Len(tool.queue) <= 1

(* The damage an old message does is one row, and that of a failed          *)
(* allocation is a row at address 0: every other unreleased row is a live   *)
(* announced block of this process, with its size.                          *)
ForeignRowsAreExplained ==
    Cardinality({i \in Registered(tool) :
                   LET o == tool.objs[i]
                   IN  /\ o.addr # 0
                       /\ ~ /\ o.addr \in DOMAIN heap
                            /\ heap[o.addr] = [size |-> o.size, traced |-> TRUE]})
      <= 1
=============================================================================
