# Deepmap (Two Pass Memory Profiler) in TLA+

Deepmap profiles the objects a program allocates. A *fast pass* runs the program
under a preloaded library that logs every allocation with its call stack; an
offline script picks the variables worth profiling; a *slow pass* runs the
program again under a preloaded library and a Pin tool, which agree on the
chosen objects over a System V message queue and measure how each is accessed.
Beside this there is a library that allocates from files on an SSD, and a few
smaller tools.

This directory models the parts of the program that keep state over time, checks
them with TLC, and proves with TLAPS, for every value of the constants, the safety
properties of all of them but the heap volume tool. Paths below are relative to the repository.

## The system

| Component | State | Operations | Hard behaviour | Correct when |
|---|---|---|---|---|
| Slow-pass library, `calltrack/src/dcalltrack.cpp`, `dcalltrack.h` (`libslowpass.so`) | `trace_flag`, table of chosen hash values, its own short-lived blocks | interposed `malloc`, `calloc`, `realloc`, `free`; `init`, `final`; `write_down_addr` (msgsnd) | its own allocations come back into it; msgsnd can block; the process can be killed in between | every chosen block is announced once, with the address and size libc gave |
| Pin tool, object registry, `pin-tools/pintool.h`, `pintool.cpp` | `in_alloc`, `G_var_size`, `count`, `var_addr`, `var_size`, `free_time`, ... per object; the queue | analysis routines at the entry of allocation functions (`MallocBefore` ... `FreeBefore`), at each access (`RecordMemRead`, `RecordMemWrite`), at the end (`Output`) | polls at whatever comes next; addresses are reused; nested calls overwrite `G_var_size` | each access is credited to the live block that contains it, and to nothing else |
| Pin tool, metrics | counters per object, last access per page and cache line, totals at the last episode | `GetMetrics` and the `Update...` routines, `InsCount`, `DumpMemoryInfo` | boundaries of pages, lines, episodes; order of reads and writes | the counters equal what the whole history defines |
| Multi-threaded and Fortran tools, `pintool_mt.h`, `pintool_mt_whole.cpp`, `pintool_mt_sep.cpp`, `pintool*-fortran.cpp` | as the tool, and a lock; the Fortran tools fill the table from `./AllocInfo` | `RecordMemReadMT`, `RecordMemReadMTsep` and their writing twins, the `...Before` routines, `ReadAllocInfo` | accesses are analysed under the lock, the routines that write the table are not; `whole` does not poll at accesses; a request of 0 bytes keeps others from polling | accesses are never lost; rows are messages; msgsnd does not wait |
| Table of call sites, `LookHashTable` in `dcalltrack.h`, with the threads of `dcalltrack_mt.cpp` | hash table, `var_count`, `g_lock`, flag per thread | lookup and insertion by linear probing under the lock; `init`, run by the first call and as the constructor; `final` dumps the table | two threads with the same new call stack; a second run of `init`; nested allocations under the lock; full table; truncated hash; the dump takes no lock | one number per hash value; the lock comes back; the dump has every variable |
| Fast pass, `dcalltrack.cpp` (`libfastpass.so`), and `offline_process_ex.py` | `trace_flag`, the log `var_time_info`; the script's queue `hashObj` | interposed calls write `[Hash]` and `[Trace]` lines; the script pairs them; `init` runs twice when a library initializer allocates | one flag and no lock for all threads; a log that is open twice | the files for the slow pass list the objects of the hero variables |
| Footprint library, `calltrack/src/dstack.cpp` (`libdinfo.so`) | `footprint`, `allocmap` | interposed calls | stale and missing entries of `allocmap`; failing calls | the total is what the program holds |
| Heap volume tool, `pin-tools/heaptool.cpp` | segment tree over the address space, `allocmap`, `alloc_size` | callbacks before and after allocation functions, `FindAddr` at accesses | ranges split and merged in any order | an address is heap exactly when it lies in a block |
| NVM library, `NVMallocLibrary/src/nvm.c`, `namespace.c` | name space (slots), `f_idx`, files on the SSD, mappings | `nvm_init`, `nvm_malloc`, `nvm_calloc`, `nvm_realloc`, `nvm_free`, `nvm_exit` | files outlive a killed process; searches by address meet released slots | every variable is mapped to its own file; what is released is gone |
| Deepmap wrapper, `deepmap.cpp` (`libdeepmap.so`) | `trace_flag` | interposed `malloc`, `calloc`, `realloc`, `free` over the NVM library; constructor and destructor | the library exits in the middle of a call; `realloc` returns what was never assigned | the program's blocks are the library's variables; nothing stays on the SSD |
| `datatool.cpp`, tracing tools, SSD configuration, benchmarks, scripts | see `PROJECT.json` | | | not modelled |

How they interact:

- The slow-pass library runs inside the process that the Pin tool instruments:
  the tool's routines run *between* the library's instructions, and several run
  at one instruction. The only message is the announcement (address, size) the
  library sends to the queue named after the pid; the tool reads it before a
  memory access while `in_alloc` is set, or at the next allocation entry.
- The fast pass and the slow pass meet in files: log → script → `HashValues`
  → table of chosen hash values. Both hash the string of symbols that describes a call
  stack, so they agree as far as that string is the same in two processes.
- The NVM library is called by a program directly, or by the Deepmap wrapper;
  successive processes meet in the files that the SSD holds.

## Modules

| Module | Models | State and actions against the code |
|---|---|---|
| `PinTool` | the tool's registry | one operator per analysis routine, from a record (`in_alloc`, `G_var_size`, `objs`, `queue`) to a record, because one instruction runs several routines. `objs[i]` is row *i* of the arrays; `Retire` is the move of `var_addr` below 0 that ends a row. |
| `SlowPass` | application + library + libc + queue + `PinTool` in one process | `pc` follows an allocation call: `run` → `libc` (library entered, tool's routine has run) → `hook` (libc has returned; the routine ran again at libc's entry) → `look` (call site being looked up, library's own blocks `scratch` live) → `found` → `sent` → `close` → `run`. Memory accesses (`AppAccess`, `LibAccess`) happen at any place. `phase` is the process life cycle; `Start` is a later process with the same pid and queue. |
| `SlowPassFaults` | the same with libc out of memory and the process killed | `AllocFails`, `Kill` |
| `TrackedHeap` | abstract specification: what the slow pass promises | blocks are allocated, chosen or passed over, touched, released; every chosen block ends as one closed profile |
| `SlowPassRefines` | refinement mapping from `SlowPass` to `TrackedHeap` | the library's own blocks are invisible; tracked blocks are the unreleased rows |
| `SlowPassInv`, `SlowPassFaultsInv`, `CallTableInv`, `NVMallocInv`, `PinToolMTInv` | inductive invariants | each EXTENDS its component and says what holds between any two steps |
| `SlowPassProofs`, `CallTableProofs`, `TwoPassProofs`, `NVMallocProofs`, `PinToolMTProofs`, `FootprintProofs`, `ObjectMetricsProofs` | proofs | `SlowPassProofs` covers `PinTool`, `SlowPassRefines` and `SlowPassFaults` too, `TwoPassProofs` covers `FastPass`, and `NVMallocProofs` covers `Deepmap` |
| `SumLemmas` | lemmas | least elements, and sums over finite sets, for the modules that count |
| `PinToolMT`, `MCPinToolMT` | all threads of a program under `pintool_mt_whole`, `pintool_mt_sep` or one of the Fortran tools, with the slow-pass library | one step per assignment to shared state, test of it or search of the table: `TestAndGetAddr` and `AllocAfter` are eleven steps from `Recv` to `StoreCount`, a `...Before` routine is `Before` (test), `Retire`, `SetSize`, `ChangeAllocStat`, and `free` has its flag and both its `FreeBefore` routines; `thr[t]` holds a thread's place, what routines it has still to run (`todo`), and the calls it is inside (`nest`). `variant` selects the tool; the five are records of what their `.cpp` attaches. |
| `ObjectMetrics` | counters of one object and episode reports | one operator per `Update...` routine; `log` is the history that the properties compare with |
| `CallTable`, `MCCallTable` | hash table of call sites under `g_lock`, and its dump | one probe per step, one assignment per step when an entry is filled; `t_trace_flags` per thread; `Constructor` is the second run of `init`; `Final`, then `Dump` slot by slot without the lock |
| `FastPass` | log of the fast pass and the offline script | `frames` are the library's activations per thread, innermost first; `Constructor` is the run of `init` that opens the log again; `HashValues` is the script as a fold over the log |
| `TwoPass` | `FastPass`, then the slow pass's table of chosen hash values | EXTENDS `FastPass`; `StartSlowPass` reads the file the script has written; `LookIntoHashValue` takes the objects of the fast pass one by one and names them |
| `Footprint` | `footprint` and `allocmap` | one action per interposed call |
| `HeapTool` | segment tree | `Update` and `Find` as recursive operators; nodes are named by their ranges |
| `NVMalloc` | NVM library, SSD and successive processes | one action per library call, one per way a call ends the process. `proc` is `down` before `nvm_init`, `up`, or `exit` after the library has called `exit(0)` and while the handlers run. |
| `Deepmap` | the wrapper over the NVM library | EXTENDS `NVMalloc`: each action is an action of `NVMalloc` together with what the program holds afterwards (`held`) |

`SlowPass` leaves open which call sites are chosen; `TwoPass` says which, and leaves
out how they are announced. `CallTable` is the table; `FastPass` takes its numbers as
given and uses the call stack as the variable's name.

### Simplifications

- *Slow pass.* Which call sites are chosen is free (`Selected`, `NotSelected`).
  The two blocks of `show_stackframe` are modelled; the buffer that
  `LookIntoHashValue`'s file reads may allocate when the table is first read is
  not, nor is what it costs. The library touches the stack on its way out
  of `write_down_addr` (the return addresses), so `sent` is left through an
  access; this is what makes the hand-over prompt.
- *Threads.* In `PinToolMT` every block lies at an address of its own (reuse of
  addresses is `SlowPass`), and `NestedMallocs` is 1 where `show_stackframe` calls malloc
  twice: the second call repeats the steps of the first. The spin lock is a set of
  holders with one element at most. Addresses cut to an `int` by `ReadAllocInfo` are modelled
  with `IntLimit` = 32, where the code has 2^31. A poll's test `in_alloc == 1 && G_var_size > 0`
  reads two variables in one step; so do `GetMetrics`' search for the row and its first read
  of the counter. If another thread stores between the two reads of the test, a skipped
  poll is as if tested at the second, and a poll that is made after all only reads the queue
  earlier.
- *NVM.* A call is one step. There is no thread in the library and only the
  files outlive a kill, so a kill inside a call leaves what a kill before or
  after it leaves. Calls for addresses that were never registered are in `Deepmap`. A full
  SSD shows in `nvm_realloc` (`Resized`); a new file whose `posix_fallocate` fails still gets
  its size from `ftruncate`.
- *Deepmap.* One thread. `realloc` returns a local variable that is never assigned
  when it goes through the NVM library: built without optimization it is a stack slot,
  so the result is any page or `Junk`. `realloc(p, 0)` calls itself until the stack
  is used up, a `Crash`; so is a malloc before the constructor, through a null pointer.
  printf is taken not to allocate.
- *Two passes.* The program does the same in both passes, and one call at a time in the
  slow pass. The hash is injective on the strings; a frame without a symbol contributes
  an address that differs from process to process.
- *Call table.* `Dump` reads the fields of a slot in one step. Until the constructor the
  process has one thread, and calls of the call stacks `EarlySites` are those of library
  initializers; `Init` is the state after the first run of `init`, or before the constructor
  when there is no such call.
- *Fast pass.* The library's `free(funcname)` writes no line and is part of
  `ClearFlag`. `MaxDepth` bounds nested activations, which only other threads'
  races can create. The text of the lines is abstracted to tag and values. Until the
  constructor the process has one thread, and it exits normally. What was logged by then is
  taken to fit the first stream's buffer, so it reaches the file only at exit, at offset 0, over
  the first lines of the second stream (both begin with a `[Start]` line of the same length);
  how many of them it covers is left open, a line that is torn counts as lost, and the
  `[Summary]` lines are taken to lie beyond. What `fopen` allocates in the constructor has a
  caller in libc, and is neither logged nor modelled. `variable_out-all`, which is opened
  twice too, is modelled as it was written.
- *Footprint.* The first malloc reads `/proc` untraced, so two entries of value 0
  appear in `allocmap`; `init`'s own `calloc` before the constructor is left out.
- *Heap tool.* One thread, callbacks are steps. Blocks lie in the lower half of what
  the tree covers, as user space does.
- *Metrics.* Wall-clock times are left out. Accesses of one size; the object starts at
  address 0 of the model. `INT_RANGE` is 2^32 in the code.

## Runs

The constants are small because each hazard needs few parts: one object that
is released and one that takes over its addresses, one message in flight, two threads.

| Run | Module / cfg | Bounds | Shows |
|---|---|---|---|
| `slow_pass` | `SlowPassRefines` / `SlowPass.cfg` | 3 cells, sizes 0–2, queue of one message, 2 announcements per process | the inductive invariant; no access is credited to a stale or wrong object (`NoStaleOwner`); none to a live announced block is missed (`AnnouncedBlocksAreRegistered`); the queue is a hand-over (`QueueIsHandOver`); rows end only on release and never come back (`RowsOnlyRetireOnRelease`); `TrackedHeap` is implemented (`KeepsPromise`) |
| `slow_faults` | `SlowPassFaults` | 2 cells, queue of two | with kills and failing allocations: at most one message is ever in the queue; foreign rows are one old message and rows at 0; calls return |
| `killed` | `SlowPassFaults` | 3 cells | *violation*: a message survives a killed process |
| `nvm` | `NVMallocInv` / `NVMalloc.cfg` | 3 pages, 4 slots, 5 names, sizes of 1 and 2 pages, any number of processes | the inductive invariant; ownership of files across processes; `nvm_exit` removes what the process made, also when it runs as a handler after `exit(0)`; until a resize brings back the address of a released slot, searches by address are right and nothing leaks |
| `nvm_stale` | `NVMalloc` | 4 pages, 3 slots, 4 names | *violation*: after such a resize `nvm_free` deregisters the wrong slot |
| `metrics` | `ObjectMetrics` | object of 5 bytes on pages of 2 (a partial last page), 3 accesses, 4 instructions, episodes of 2 | counters equal the history's; distances in bytes and in pages add up while each is below half the range of an int (8 here); reports split the history |
| `calltable` | `MCCallTable` / `CallTable.cfg` | 2 threads, 5 call stacks with 4 hash values, one of them met before the constructor, 3 slots, one home slot | the inductive invariant; one number per hash on either side of the constructor; no hole in a probe sequence; a dump at the end that races the other thread has every variable numbered since the constructor and before it; the lock is released unless the table is full of other hashes |
| `two_pass` | `TwoPass` | 2 threads, 3 variables, one of them without a symbol, sizes 0, 8, 4096, 3 calls, 2 counters | tracing is never left off; no orphan `[Trace]`, or one per thread if early lines cover later ones; exact hero objects while calls do not overlap, but for a stretch after the constructor in that case; the slow pass announces exactly those it can recognize, and its names tell objects apart as far as the counters reach |
| `footprint` | `Footprint` | 4 addresses, sizes 0, 1, 3, 5 calls | never below what the program holds unless a realloc failed; exact until the first realloc or failure |
| `heap_tool` | `HeapTool` | 16 addresses, sizes 0, 1, 3, 4, 4 calls | the tree answers as the set of blocks; failing calls break their own block and the range below the size asked for, and nothing else |
| `mt` | `MCPinToolMT` / `PinToolMT.cfg` | 2 threads, sizes 0 and 2, each of the 5 tools, 4 events, 2 allocation calls and, before any access or release, a third | the inductive invariant; while no two threads are inside the routines at once the table is the sequence of messages received; no access is lost under the lock; without races at most one message per thread waits, requests of 0 bytes included, and until the first of these also when the threads race; under `pintool_mt_sep` the main thread's blocks are registered when it uses them, or the other thread is registering the one that is not |
| `deepmap` | `Deepmap` | 4 pages, sizes 1 and 3 of pages of 2, 2 slots, 3 names | until the first realloc the program's blocks are the library's variables and the library is used by its rules; the destructor leaves at most the file of a creation that failed |

Why the bounds suffice: a stale row needs a block, its release, and a second
block over its cells; 3 cells hold a block of two next to one of one cell,
a resize in place and a move, and the library's blocks fall on released cells.
More rows than two only repeat the scan. In `calltable` every probe collides and
wraps, and the fourth hash meets the full table. In `nvm_stale` one slot released, one
resized and one new are three slots, and four pages let a mapping of two pages come
back to an old address. `nvm` has four slots and five names: only then can a variable
that has lost its slot to a stale address have its file unlinked through the slot of
another one. `MaxObjects`, `MaxCalls`, `MaxAccesses`,
`MaxInstructions`, `MaxEvents`, `MaxDepth` and `MAX_FILE_INDEX_LIMIT` bound what would
otherwise grow. In `mt` three calls let two threads announce at once and one of
them go on to a third block, and what this is for, the length of the queue, needs no access and
no release: `ThirdCallBound` stops the third call there. The race on `count` and on the message
buffer needs two calls, and a request of 0 bytes one. The queue has room for three messages where two threads
are to leave two. In `calltable` one call stack met early is enough: its number is gone from
the table after the constructor, and it may be met again. In
`two_pass` three objects are enough for a variable listed twice before another one,
and the third line lies beyond the counters. Deadlock is checked where the system
cannot stop: in the slow pass, the NVM library, the wrapper, the call table, and `mt`,
whose threads stop only through `Exit`. `TwoPass`, `Footprint`, `HeapTool` and
`ObjectMetrics` stop when their bound of calls is used up.

The inductive invariants contain the types, so the runs that check one check no
`TypeOK` beside it.

Some properties speak of a history variable: `returned` in `NVMalloc` (a resize has
taken a variable to the address of a released slot), `realloced` in `Deepmap`,
`overlapped` in `FastPass` (calls of two threads overlapped), `raced` in `PinToolMT`
(two threads were inside the routines that write the table), `past` in `Footprint`
(reallocs and failures so far), `lost` and `low` in `HeapTool` (what failing calls have
broken). They mark exactly where the code stops being right, so the property holds
up to that point and the violation, where there is one, begins at it. `received`, `credits`,
`before` and `log` only record what has happened.

Fairness: `SpecFaults` has `WF_vars(LibStep)`. The process has one thread, so the
instructions inside the library and libc go on until the call returns; nothing
is assumed about the application, and a kill may come at any time. `CallTable`'s
`FairSpec` has weak fairness of each thread inside the library: it is scheduled
when it can run. Which waiting thread gets the lock, and that threads call at
all, is not assumed. The other modules assume no fairness and state safety only.

## Proofs

The only assumptions are those on the constants, stated beside them in the modules:
sizes, threads and tables are not empty and finite where the code's are, and no bound
has the value it has in a `.cfg`.

Many properties compare a state with a sum, a count or a fold over a history. The
library's induction theorems take an operator, which the provers cannot instantiate, so an
induction is written as a least counterexample: a set of finite sets, or of numbers, that
is not empty has a least member (`LeastSubset`, `LeastNatural` in `SumLemmas`). With it
`SumLemmas` shows that a sum over a finite set does not depend on the order in which its
recursive function takes elements off, which is what its definition leaves open.

### Slow pass

`SlowPassProofs` proves `IInv` (`Invariance`), and from it `TypeOK`, `NoStaleOwner`
(`OwnersAreLive`), `QueueIsHandOver` (`HandOver`) and `AnnouncedBlocksAreRegistered`
(`NoAccessMissed`), for every heap, set of sizes, capacity and number of rows.

`NoStaleOwner` is not inductive: a step that hands out addresses keeps it only if
no unreleased row overlaps them, which needs to know that every such row is a
live block. `IInv` says both directions:

- `RowsAreBlocks`: a row is retired (its address is minus its size) or is a live announced block with its size;
- `BlocksHaveRows`: a live announced block has a row, unless its message is still in the queue (`sent`) or its release has begun (`libc`, `freep`);
- `RowsDiffer`: no two unreleased rows share an address;
- `BlocksAreDisjoint`: libc never hands out overlapping blocks;
- `AtPlace`: what holds at each `pc`, above all that the queue holds exactly the announcement of `call.ptr` at `sent` and nothing elsewhere, and that `in_alloc` is 1 from the lookup until the message is read.

Its first part states what each analysis routine does to a table of rows
(`MallocBeforeEffect`, `FreeBeforeEffect`, `DeliverEffect`, ...). It then
shows what three kinds of change do to the correspondence of rows and blocks
(`RowsStay`, `RowRetires`, `NothingRetires`), has one lemma per action, and
`NextInv` collects them. Addresses are positive while retired rows lie below 0, and
disjoint blocks make the first covering row the only one; that gives the properties.

For the refinement it adds to `IInv` that retired rows carry the mark of their release
and that blocks stay in the heap (`PInv`), and it proves `RowsOnlyRetireOnRelease` and the
refinement of `TrackedHeap` (`Refinement`) step by step. libc's result is the
promise's `Alloc`; the poll that receives the announcement is `Track`; the entry of
`free` or `realloc` is `Release`; an access of the application is `Touch`; a new process
is `Restart`; the return of a call that was not announced passes the block over;
everything else shows the promise nothing. The work is in two places: a release closes
exactly one profile because no two unreleased rows share an address, and an access of
the library never falls on a row.

### Kills and failing allocations

`SlowPassProofs` also proves `QueueHoldsOneMessage` (`OneMessageAfterKills`) and
`ForeignRowsAreExplained` (`WrongRowsAreExplained`) of `SpecFaults`, for any sequence of
processes of one pid, killed between any two steps. `IInv` does not survive a kill:
the queue may hold an old message when a process starts, a row may name what is not a
block, and a live announced block may lose its row. `FaultsIInv`, which TLC has also checked under
`SlowPassFaults.cfg`, keeps what does:

- `PendingIsFirst`: while a message of a dead process waits, the table is empty. So its row
  becomes row 1, and the table it joins holds nothing yet;
- `FaultsAtPlace`: from the lookup of the call site to msgsnd the queue is empty. The
  library's own two allocations run `MallocBefore` four times, and the second run polls
  because the first has set `in_alloc` (`OwnAllocationsPoll`). Hence msgsnd finds room in
  any queue (`MsgsndNeverBlocks`), the safety half of `CallsReturn`;
- `OneForeignRow`: all rows but one are `Explained`: retired, at NULL, or a live announced
  block with its size. `Receives` says what any routine may do to the table (retire rows
  at given addresses, or receive the one message into an empty table), and
  `ForeignRowStaysOne` that this, with the blocks at those addresses the only ones to go,
  is enough.

### Table of call sites

`CallTableProofs` proves `CallTableIInv`, and from it `TypeOK`, `OneIdPerHash`
(`NumbersTellSites`), `EveryEntryIsReachable` (`EntriesAreFound`) and `DumpListsVariables`
(`DumpIsComplete`), for any threads, hash function, home slots and size of the table, and
any call stacks met before the constructor. The constructor empties the table, so what these
say starts there: a number returned before it is in no slot and in no dump, `var_count` goes on
from `early_count`, and `StartInv` keeps the early numbers apart from the later ones.
`LockInv`: only the holder of `g_lock` is between `Lock` and `Unlock`. `SlotInv`: a slot
that is marked and not numbered is the one being filled; numbers are not repeated.
`ChainInv`: a search that starts at the home of a numbered slot's hash passes only
numbered slots with other hashes; `ProbeInv` says the same of the search in progress, so
that the slot where it ends may join. Searches wrap around, so "passes" is the cyclic
order `Before`, and `NextSlotWraps` and `DistanceIsBefore` relate it to the modulus the
code uses. `CountInv`: `var_count` is `early_count` and the number of slots counted since, which
keeps it within two tables though nothing compares it. `IdsInv` and `DumpInv` carry the numbers that were
returned to the lines of the dump, which reads without the lock: a number never leaves
its slot.

### Fast pass and two passes

`TwoPassProofs`, `TracingComesBack`: `FlagOpenAtRest`. The flag may be clear while threads
are inside, so it protects nothing; but if it is set, some thread's innermost frame will
clear it (`FlagHasOwner`). While it is set it turns the library's own allocations away, so
no frame is put above that one. `TracingComesBackInBoth` is the
same for `TwoPass`, whose steps are steps of `FastPass` or leave it alone.
`NamesAreDistinct`: `NamesTellObjects`. A name is the first line of the variable
in the file and the count of that line (`SlowInv`), hash values of variables differ, and
counters bound the numbers given out.

`FewTracesAreOrphans`: `OrphansAreBounded`, under any overlap of calls. Reading the log up to now,
the script's queue `hashObj` has as many elements as there are threads that have written a
`[Hash]` line and not yet their `[Trace]` line, less those whose `[Hash]` line was covered
(`OrphanInv`). So a thread about to write `[Trace]` finds the queue nonempty, though what it
takes out may be another thread's. Where lines of the first stream have covered others, elements
can be missing, and missing elements and orphans together are no more than there are threads.

`HeroesAreListed`: `HeroObjectsListed`. As long as no two calls have overlapped the library
is empty, with an empty queue and a list of pairs that is the list of objects (`Quiet`), or
one frame alone is inside, and queue and pairs fit how far it has come (`Busy`, `FitsFrame`).
The list of objects is the one that the log has kept: all of them, or those from before the
constructor and those after the last line that was covered (`Kept`).
The file the script writes is then the objects of the heroes, in order: at each step of the
fold that builds it, a hero's object stands at the number of heroes up to it (`IsList`).

`HeroesAreAnnounced`: `HeroObjectsAnnounced`. The table the constructor reads has a line
for each hero's object and no other (`TableListsHeroes`), and after `done` objects the slow
pass has announced the recognizable ones among them (`AnnounceInv`). Two directions are
needed: a variable whose string is the same in both processes is found at its line, and one
without a symbol matches no line because its addresses differ.

### Object metrics

`ObjectMetricsProofs` proves all four properties of `ObjectMetrics`, for any size of the
object, of pages, lines and episodes, and any neighbourhood. `GetMetricsEffect` first says what
one access does to each counter; the invariants then relate what the tool *remembers* to the
whole history:

- `LocalityInv`: for each page and cache line the tool keeps the instruction of the last
  access, or the value it began with (`Remembers`). An earlier access of a unit is recent
  only if the last one is, so that is enough to tell whether any is; and the value a unit
  begins with is never recent.
- `PagesInv`: `last_access_page`, `sequential_direct` and `dirty_flag` are the page of the current
  visit, the turn from the visit before to it, and whether it has written. A visit
  is counted as dirty or as going on when that is first seen, hence once.
- `OffsetsInv`: the distances add up while each is below half the range of an int
  (`AbsIsDistance`); beyond it `abs` of the truncated difference is another number.
- `EpisodesInv`: what the totals have grown by since the last report is what the current
  episode's accesses add (`Unreported`), and there are as many reports as complete episodes.

### Footprint

`FootprintProofs` proves `NeverUndercounts` and `ExactWithoutRealloc`, for any addresses and
sizes. `NeverUndercounts` is not inductive: a `free` takes off what is recorded at the
address, which after a realloc may be more than the block or belong to a block long gone.
`CoversCharges` is: the total covers, summed over all addresses, the larger of the bytes held
there and the bytes recorded there. A call raises the charge of one address at most, by no
more than the total grows, and what it takes off leaves the charge of the old address
(`ChargesMove`). NULL has a charge too, after a failed call. `RecordsAreExact` adds, for the
time before the first realloc or failure, that NULL has no entry.

### NVM library and wrapper

`NVMallocProofs` proves `NVMallocIInv`, and from it `TypeOK`, `VariablesOwnTheirFiles`,
`VariablesAreMapped`, `NothingLeaks` and `ExitRemovesFiles`, for any number of pages,
slots, names and processes; and for the wrapper `HeldBlocksAreVariables`, `KeepsTheRules` and
`DestructorRemovesFiles`. The invariant has two parts. `FilesInv` is about slots and
files alone: file names are never reused within a process, so each is in one
slot at most, and every file of the process is in one. It holds whatever pointers the
calls are given, which is why `nvm_exit` and the destructor clean up even after
`realloc` has returned garbage. `LiveInv` relates slots, mappings and variables, and
holds until a resize brings back the address of a released slot: the search by address
finds the variable's slot because no *lower* slot has the address. `nvm_malloc`,
`nvm_free` and `nvm_realloc` are first reduced to what they do to one slot (`Allocates`,
`Releases`, `Resizes`), and the two parts are proved of these.

The proof attempt showed that a stronger form of `VariablesOwnTheirFiles`, in which
a live variable's file always exists, is false: with four slots and five names a variable
that has lost its slot to a stale address has its file unlinked through another slot. The
property now says so, and `nvm` has these bounds.

### Multi-threaded tools

`PinToolMTProofs` proves `MTIInv`, and from it `TypeOK` (`ToolTypes`), `TableIsReceived`,
`NoAccessIsLost`, `QueueIsBounded` and `SepRegistersMain`, for any number of threads, any
sizes, 0 included, any capacity and `AllocInfo`, and each of the five tools; and
`TwoThreadsNeverWait` (`TwoShareTheQueue`), until the first request of 0 bytes. The invariant
is built in layers, each inductive with those before it:

- `ControlInv` holds under any races: where each thread is and what it still has to
  run, that a call's block is its own, that the lock has one holder, that messages have a
  size, and that rows, messages and calls that can still send are together no more than blocks.
  The last keeps `count` within the table even when a stale `count` is stored back.
- `RowsOK`, without races or in a Fortran tool: at most one thread is in the unlocked
  routines (`OneWriter`), so what it stores in `G_var_size` is there when it reads it
  (`SizeIsAsked`); if it publishes a row it carries the message after the last
  row, and `FillingOK` says at each place what part of it is written. A row leaves its
  address only when its block is given back.
- `CreditsOK`: under `g_lock` only one thread is between `Scan` and `Credit`, so what it has
  read of a counter is still its value. Publishing and retiring never touch a counter of a
  published row.
- `QueueOK`: the messages in the queue are no more than the threads that have not
  polled since they last sent (`Owing`). The entry of a call runs two `...Before` routines, and
  the second polls because the first has set `in_alloc` and left its size. The ways past it
  are a poll of another thread in between, which has taken a message, and a request of
  0 bytes of another thread in between (`AsksNothing`). The first routine of that request
  polls too, if the size before it was not 0, and the size that it leaves is only overwritten by
  a routine that is not followed by a skipped poll; so a thread that may skip its poll
  (`MaySkip`) finds room for its message.
- `TwoTakeTurns`, for two threads under any races until the first request of 0 bytes: each
  thread has a share of the queue, and the queue holds no more than both shares. They are in
  thirds of a message. What a share counts is the place of the thread (3 outside a call, 1 in a
  call, 0 once the call is traced), the `...Before` routines it has still to run, whether it will
  find `in_alloc` set, and, against it, how often it will clear `in_alloc` while it takes a message:
  a thread may skip its second poll because the other has cleared `in_alloc`, but the other has
  taken a message for that. Two shares are less than nine thirds, so no more than two messages
  wait.
- `MainIsServed`, under `pintool_mt_sep` without races while only thread 0 announces: its message
  is in the queue only from msgsnd to the poll of the access that follows, and no other
  thread can clear `in_alloc` in that time without having received it. In that case thread 0 skips
  its poll and goes on, while the other thread is still filling the row; until it is published,
  accesses to the new block are credited to nothing. `SepRegistersMain` says that this is
  the only way.

Two conditions are there because the properties are false without them.
`QueueIsBounded` needs that there are no races, for more threads than TLC can explore: a thread
that clears `in_alloc` lets every other thread skip a poll, and each may have a message in the
queue. With the two nested calls of the code about eight racing threads are enough to leave more
messages than threads, and from there on only the queue's capacity bounds them, at which
msgsnd waits. `TwoThreadsNeverWait` says what is left without this condition, and it needs that
nobody has asked for 0 bytes: a thread that calls `malloc(0)` in lockstep with another one stores 0
in `G_var_size` after each store of that one, every test of its polls fails, and the queue
fills (`pintool.h:700`).

### What stays with TLC

- Liveness: `LockIsReleased` and `CallsReturn`. Fairness is out of the prover's reach; the safety
  half of `CallsReturn` is proved (`MsgsndNeverBlocks`).
- `FindMatchesHeap`: the segment tree is updated and searched by recursive operators, as in the
  code, and the prover cannot reason about a module that has them.

## Disagreements between the code and its texts

Shown by runs (details in `PROJECT.json`, `findings`): `killed`, `nvm_stale`.

Met while modelling and described by a property or an abstraction instead of a run:

- `dcalltrack.cpp:198`: a NULL result of malloc is announced, as a block at
  address 0; `ForeignRowsAreExplained` allows exactly these rows.
- `pintool.h:803`: `count` is never compared with `MAX_SIZE`.
- `pintool_mt.h:27`: under `pintool_mt_whole` no access polls, so the accesses before the
  next allocation are credited to no object, and the row of a block that is released
  meanwhile is made after its release and never ends.
- `pintool.h:740`: `ReallocBefore` ends a row without setting `end_num_inst`, as
  `FreeBefore` does.
- `pintool.h:699`: `in_alloc` is "A kind of lock", but is tested and cleared in two steps
  and by all threads: rows are torn or overwritten once two threads are inside the
  routines. `TableIsReceived` says that it takes that. It also lets threads skip
  polls: see `QueueIsBounded`.
- `pintool.h:700`: a request of 0 bytes leaves 0 in `G_var_size`, and until another size is stored
  no `...Before` routine of any thread reads the queue: see `TwoThreadsNeverWait`.
- `pintool_mt.h:57`: under `pintool_mt_sep` thread 0 can miss the first accesses to a block of its own,
  when another thread has received the message and is still filling the row; see
  `SepRegistersMain`.
- `pintool.h:661`: `InsCount` runs on every thread without a lock; not modelled.
- `dcalltrack.h:438`: a lookup in a full table never ends, and holds the lock;
  `LockIsReleased` says that this is the only way.
- `dcalltrack.h:435`: the 64-bit hash is truncated; `OneIdPerHash` speaks of the
  truncated value.
- `dcalltrack_mt.cpp:254`: the second run of `init` clears the table and not `var_count`: variables
  numbered before the constructor are not in the dump, unless they are met again, under
  another number. `OneIdPerHash` and `DumpListsVariables` begin at the constructor.
- `dcalltrack.cpp:59`: the second run of `init` opens `var_time_info` again while the first stream
  is open; at exit its lines cover the first lines after the constructor, whose objects the
  script then misses. `HeroObjectsListed` and `OrphansAreBounded` say that no more is lost.
- `dcalltrack.cpp:200`: with two threads `[Hash]` and `[Trace]` lines can be paired
  wrongly; `HeroObjectsListed` says that this takes two overlapping calls.
- `dstack.cpp:226`: realloc tests the new address where it needs the old one's
  entry, so the footprint grows; `NeverUndercounts` says in which direction it errs.
- `heaptool.cpp:326`: a realloc that fails hides its block, and the NULL it returns becomes
  a block at address 0; `FindMatchesHeap` says that nothing else breaks.
- `heaptool.cpp:107`: a node set as a whole does not hand its state to its children when
  a part of it is changed. Blocks are never changed in part, so it takes the range at
  address 0 to show it.
- `heaptool.cpp:172`: the number of nodes is compared with `SEG_NODES` after they were used.
- `pintool.h:246`: `abs` takes an `int`; `OffsetsMatchHistory` says up to
  which distance, in bytes or pages, it is right.
- `deepmap.cpp:120`: `realloc` returns an uninitialized pointer, `realloc(p, 0)` never returns,
  `calloc(0, k)` ends the process, and blocks of libc are never released.
- `dcalltrack.h:355`: `var_count_trans` has 100 entries, while the script writes a line for every
  object; `NamesTellObjects` holds as far as it reaches.
- `dcalltrack.h:565`: a frame without a symbol enters the hashed string with its absolute
  address, so the slow pass does not recognize such call stacks (`HeroObjectsAnnounced`).
- `placement.c:23`: the arguments of `strstr` are swapped, so no line is ever taken for a
  hash value; not modelled.
- `nvm.c:165`: the result of `posix_fallocate` is ignored: on a full SSD `nvm_realloc` returns a
  variable that is shorter than the program asked for. `VariablesAreMapped` says that its
  slot, file and mapping agree on the shorter length.
- `nvm.c:46`: `roundsize` of a size near `SIZE_MAX` is 0; sizes are small in the model.

## Not modelled

- *SSD configuration and placement files*: parsed once at start-up; which directory a
  file is in is fixed by its index and changes nothing the model shows.
- *Two processes on one SSD at once* (`nvm.c:75`): the second process goes on with the
  file of the first, and from there on nothing about either holds.
- *Two threads in the NVM library or in `HeapTool`*: neither takes a lock, and nothing
  of the name space or the tree survives the first overlap.
- *Two threads at the end of an episode* (`pintool.h:661`): an instruction counter in
  `PinToolMT` would multiply its states.
- *The volume counters of `HeapTool`* and the averages of `Footprint`: sums over what
  is modelled, weighted with measured time.
- *Incomplete logs*: a killed fast pass leaves a log the script was not written for.
- `datatool.cpp` and the tracing tools add up or print each event as it happens;
  `calltrack.c` prints call stacks; the `.c` versions beside the `.cpp` files are not
  built; benchmarks are programs to be profiled.

## What may come next

- *The segment tree, proved*: `Update` and `Find` written as the set of nodes that a range
  covers and the path to an address, checked by TLC against the recursive form that is here,
  and `FindMatchesHeap` from the invariant that below a node set as a whole nothing is heap.
- *More of `HeapTool` and the metrics*: the volume counters, and the episode counter with
  several threads (`pintool.h:661`).
