# A TLA+ model of rw_sep

rw_sep is a collection of microbenchmarks for persistent memory (Optane): a
bump allocator over DRAM and files of PM channels, loops of AVX-512 loads,
stores, write-backs and fences, and drivers that run the loops in threads on
one or two channels to see whether reads and writes should be kept apart. What
such a program measures is only worth something if its buffers are what it
believes they are (no two of them share a line, each lies on the channel it
names), if the loops touch what their arguments say and make it durable where
they fence, and if no thread outlives the memory it works on. This project
models those parts, checks them with TLC on small instances, and proves with
TLAPS, for all sizes, the allocator's safety and its refinement of an abstract
store, what the kernels touch and make durable, what the threads of the two
multi-threaded drivers may rely on, what the single-threaded ones prepare,
store and make durable, and that the persistent lists do what they promise
whenever a process is killed.

## The system

| Part | State | Operations | Interacts with |
|---|---|---|---|
| `fastalloc` (`OptaneStudy/src`, `fastallocate`, `pm_study/src`: three copies) | per pool: region table, count, current pointer, bytes left; files mapped | `init` (two classes), `alloc`, `free`, `fast_free` | drivers call it; `open`, `posix_fallocate`, `mmap` |
| global allocators of `fastallocate`, `pm_study` | two global pointers | `init_fast_allocator`, `fast_alloc`, `concurrency_fast_alloc`, `fast_free` | `fastalloc` |
| access kernels of `memaccess.c` | registers, `*rand_seed`, the buffer | 17 kernels | PM through store, `clwb`, `clflush`, `vmovntdq`, fence |
| pointer chasing of `memaccess.c` | the index `cindex`, the buffer | `get_rand`, `init_chasing_index`, `chasing_storeclwb`, `chasing_loadnt` | `rdrand`, PM |
| `rw_sep_multithread.cpp` | allocators, buffers, structs passed to threads, thread handles | `main`, `read_after_write_job` (three tasks), `init`, `set_arg`, thread functions | `fastalloc`, pthreads, PM |
| `latency_job.c` and the tests of `common.h` | one buffer, parallel tables of tasks | `latency_job`, 31 test functions | PM, the processor's cache |
| `pm_study` `lat.cpp` | the memory with a ring in it, a barrier, the sequence of runs | `access_lat`, `run`, `worker` | `std::thread`, pthread barrier, PM |
| `fastallocate/rw_sep.cpp` | an array of objects, nested loops | `main`: mixed and separated accesses | `fastalloc`, PM |
| `pmdk/lists.c` | a pool file with persistent lists | `main`, `list_print`, `list_insert`, the constructor | libpmemobj, other runs of the program |
| `read_after_write.cpp` | as `rw_sep_multithread.cpp`, one thread | four tasks | `fastalloc`, `memaccess` |
| `pmdk/rw_sep.c` | a mapped file | copies of it, timed | libpmem |

`lattester.h` and `perf_util.h` are declarations and macros no file uses,
`NValloc` a note; Makefiles and binaries have no behaviour of their own.

What is hard here, and what makes each part correct:

* **fastalloc.** Long sequences of calls with sizes that round up, cross a
  region, exceed it, or wrap an unsigned counter; a first region that is
  smaller in one class; system calls whose failure is not looked at. Correct
  means: no byte handed out twice, blocks inside their region and file, each
  heap area deleted once.
* **kernels.** Loops with the test at the end, counters in different units, a
  power failure at any instruction. Correct means: the lines touched are those
  of the arguments, a crash takes back at most the last unfenced group, and
  the loop ends.
* **pointer chasing.** A random construction that may fail in the middle.
  Correct means: one cycle through all positions, and a reader that knows only
  the memory follows the writer.
* **rw_sep_multithread.** All interleavings of main and the threads, structs
  shared through globals, creation failures main reports and ignores. Correct
  means: nothing freed under a running thread, threads only share what the
  task says they share, and the experiment is the one announced.
* **latency tests.** Tables kept in step by hand, each with its own `#ifdef`, a
  preparation that touches four lines whatever the test works on, write-backs
  in the middle of a test's instructions. Correct means: each test starts from
  the cache state and leaves the durability its name says.
* **lat.cpp.** Threads that build random rings in one memory, meet at a
  barrier and measure; runs that find what earlier runs have left. Correct
  means: nobody measures while another builds, a pass visits each unit of its
  own part once, and "strict" and "relaxed" mean what they say after a crash.
* **fastallocate/rw_sep.cpp.** Two ways through the same objects with
  different loops, a number of objects from `argv[1]` and a number of uses
  from constants. Correct means: both ways do the same work, the separated way is
  not timed with the stores of the mixed one under way, and all is durable at
  the end.
* **lists.c.** Processes that race for one file, are killed or lose power
  anywhere. Correct means: each run does its job at one moment or not at all,
  and what it did stays.

`PROJECT.json` lists the hazards one by one with the properties that cover
them.

## Modules

| Module | Models | |
|---|---|---|
| `FastAlloc` | class `fastalloc`, `concurrency_fastalloc`, `fast_free` | component |
| `BlockStore` | what an allocator promises: fresh, aligned, disjoint blocks of a live allocator | abstract specification |
| `PMem` | x86 persistency: store, `clwb`, `vmovntdq`, fence (external) | operators |
| `MemAccess` | the kernels of `memaccess.c` except chasing | component |
| `ChasingIndex` | the chasing tests of `memaccess.c` | component |
| `RwSepMultithread` | `rw_sep_multithread.cpp`, with `FastAlloc` as an instance and `PMem` as its memory | composition |
| `LatencyJob` | `latency_job.c` and the tests of `common.h`, on `PMem` and a cache | component |
| `LatRing` | `pm_study/microbenchmark/lat.cpp`, on `PMem` | component |
| `FastRwSep` | `fastallocate/rw_sep.cpp`, with `FastAlloc` as an instance and `PMem` as its memory | composition |
| `Lists` | `pmdk/lists.c`, run by several processes | component |
| `TwoLists` | what a run of `lists` promises | abstract specification |
| `FastAllocProofs` | theorems about `FastAlloc` | proofs |
| `PMemProofs` | lemmas about `PMem` | proofs |
| `MemAccessProofs` | theorems about `MemAccess` | proofs |
| `ChasingProofs` | theorems about `ChasingIndex` | proofs |
| `RwSepProofs` | theorems about `RwSepMultithread` | proofs |
| `LatRingProofs` | theorems about `LatRing` | proofs |
| `ListsProofs` | theorems about `Lists` | proofs |
| `DriverProofs` | theorems about `FastRwSep` and `LatencyJob` | proofs |
| `MC...` | the constants for TLC | |

**FastAlloc.** The fields `dram_cnt`/`nvm_cnt`, `dram_curr`/`nvm_curr` and
`dram_left`/`nvm_left` are the functions `cnt`, `curr`, `left` over cursors
(allocator, pool), because the code of the two pools is the same but for where
a region comes from. `alloc` is `AllocFits` or one of three `Grow...` actions,
`init` of the two classes `InitFastAllocator` and `InitConcurrency` (and
`InitBadChannel`, which exits). `heap` holds the `new char[]` areas not
deleted, `nvmap` the mappings (never undone), `blocks` what was handed out. A
pointer is a region and an offset. `OptaneStudy` chooses between the two
versions of the file. The copies of `fastallocate` and `pm_study` differ from
each other in the order in which they make their objects, and in where the
file's path comes from: `fastallocate` builds it from a global mount number,
`pm_study` has `/mnt/aep1/test` and `/mnt/aep/test` written into the two
`init`s. Both have one mount per class, which is what the model needs. Opening
and mapping a file ends in one of four ways (`Outcome`): it succeeds; mmap
alone refuses, as it does `MAP_SYNC` without DAX; `posix_fallocate` alone fails;
both fail, as they do when `open` did. The two drivers below keep the first and
the last of these, because nothing but a message that is never printed tells
them from the others. A new object's fields are those of the class's initialisers. `uint64_t` keeps its width as
the modulus `Word`; sizes above a region wrap `left` as in the code. The
failure of `new` (an exception that ends the process) is a behaviour that
stops.

**PMem.** A line has a version. `ver` is what a load sees, `per` what a power
failure leaves, `pend` what a thread has sent off and not fenced. A crash is
not an action: the lines it would set back are `Lost(mem)`, so an invariant
about `Lost` says what a crash in any state does. Cache evictions only raise
`per` and are left out, which is the worst case for every property here.

**MemAccess.** One behaviour is one call. Registers are offsets and counters;
the action names follow the labels of the loops. A macro of several lines is
one step; so is what a loop does before its first access, as the registers that
`cachefence` sets when a flush group begins. The sizebw kernels unroll four accesses; the model counts them and
tests the counter after the fourth. Delay loops are left out.

**ChasingIndex.** The three functions in sequence, on one memory. `data` is
what a line holds, so that `chasing_loadnt` follows the memory and not the
index. `skip` is the index's size, so that blocks lie side by side.

**RwSepMultithread.** main is the script of a task (the sequence of its calls,
`Script`), each thread a small program counter with the registers of its loop and the pointer pthread_create
was given (`arg`), which it follows when it first runs.
Store and `clwb` are separate steps, because writer and reader of a pair work
on the same lines in task 1. `tid` says what a handle refers to: pthread_join
of a handle that pthread_create did not set in this task is undefined, so the
model lets it return or end the process. A buffer whose mmap failed ends the
process at the first access. The thread functions lack a return statement; the
Makefile builds without optimisation, where they return.

**LatencyJob.** The test functions differ in their kind (load, store, what
writes back) and in the 64, 128 or 256 bytes they work on, and are one function
of both here. `Tests` is `bench_func` row by row and `Skips` is
`latency_tasks_skip`, two lists with an `#ifdef` each, so that their agreement
is something to check; `latency_tasks_str` only names the tests in the report
and is left out. `cached` is the set of lines in the processor's cache; no line
leaves it by itself, so that `PreparedAsNamed` speaks of what the code does and
not of luck. The instructions of a test are counted by `k`, and where the
write-backs stand among them is `AtFlush`. `task` and `op` are `i` and `j` of
`latency_job`. Time stamps and statistics are left
out. The rules for `latency_job.c` are commented out in the Makefile; the model
is of the source as it stands.

**LatRing.** `run` is the process `main` with its loop counter, `worker` one
process per thread, the barrier a set of waiting threads of which the last one
releases all. A unit of 256 bytes has two lines that matter: the one with
`next` and the one with `pad[15]`. `random_shuffle` is any permutation
(`Orders`). The lines of the memory and the pointers in them (`next`) are kept
from run to run, as they are in the program. An iteration of a thread is
several steps: access, write-back, fence. main passes one thread to each run;
the code is written for any number, and so is the model.

**FastRwSep.** main's loops with their bounds as constants; the array `a` is
the sequence of blocks `FastAlloc` has given. What lies beyond the end of `a`
is `OutOfRange`, which ends the behaviour, as the effect is undefined.
`argv[2]` may be 0: then each round goes straight to its report. The model
fences where the code does, so that the mixed passes of a second test loop
begin with separated streams under way; `Drained` speaks of the other direction
and of the return.

**Lists.** Each process goes through main's checks and calls. libpmemobj is
external: creating a pool takes two steps, of which a kill leaves the first; a
pool can be open in one process; an object is reserved with old content,
constructed and then linked in one failure-atomic step; the value of an element
has a durable copy `per` beside the visible `val`. A kill leaves `val`, a power
failure sets it back to `per`. Whether another process changed the file between
`file_exists` and `create` or `open` is an interleaving like any other.

## Runs

| Run | Shows | Bounds |
|---|---|---|
| `fastalloc_optane` | `TypeOK`, `NoOverlap`, `Contained`, `StorageDisjoint`, `HeapAccounting`, `NvmOnPM` | two interchangeable allocators, channels 0, 1 and a refused one, regions of two lines, word of four lines, 3 regions, 4 blocks, mmap refused or not |
| `fastalloc_mount` | `StorageDisjoint`, `ImplementsStore` | a plain and a concurrency allocator on one mount, requests that fit a region, 4 blocks, all four outcomes |
| `fastalloc_nospace` | violation of `FallocateFailureReported` | one allocator, ENOSPC |
| `memaccess` | `TypeOK`, `FootprintExact`, `LossBounded`, `FencedDurable`, `Termination` | every kernel with sizes and counts from 0 to a few lines, also ones that do not divide |
| `chasing` | `TypeOK`, `OneCycle`, `LoadsFollowStores`, `ChainDurable`, `Termination` | all cycles of up to 5 positions, 0 to 2 blocks, access size one below to one above |
| `rw_sep` | `TypeOK`, `NoRunAfterFree`, `PrivateBuffers`, `Task3Separate`, `Task2Channels`, `DurableAtFree`, `Termination` | two writers and two readers, two accesses each, one failure, one job |
| `rw_sep_task3` | violation of `Task3DiffChannel` | one pair |
| `latency_job` | `JobTypeOK`, `PreparedAsNamed`, `DurableAsNamed`, `OwnLines` | both builds, all tasks, three calls of each |
| `lat_ring` | `TypeOK`, `StartTogether`, `EachUnitOnce`, `PersistencyAsNamed`, `Termination` | one to three threads, rings of up to three units in every order, two iterations, sequences of two runs, a refused run, a failing creation |
| `lat_ring_main` | violation of `NoRunRefused` | main's 19 runs, `alloc_max` as the code has it |
| `lists` | `TypeOK`, `ImplementsTwoLists` | two processes, one list of each type, a pool for three elements, right and wrong command lines, kills and power failures at any step |
| `fast_rw_sep` | `TypeOK`, `SameWork`, `OwnBlocks`, `Drained` | rounds of two and four objects, no, one or two test loops each, `argv[1]` from 0 to the default, failing `mmap` and `fopen` |

Why the bounds are enough. The allocator's code compares a size with `left`
and nothing else; with regions of two lines and requests of one line, one
region, more than a region and nearly a word, all orders of fitting, crossing
and wrapping happen within four blocks, and the theorems below remove the
bound. A kernel's loops depend on how size, stride and count compare with a
line and with each other; the calls contain every order of them. In `rw_sep` a
region holds one buffer, so that the second buffer of each allocator is in a
second file, as the fifth of eight is in the program; two pairs are the least
that can tell "same pair" from "same kind", and the four jobs differ only in
channel numbers. In `latency_job` a call sees what its predecessor left in the
cache and on its way, and the preparation reaches four lines, so that the
widest reach is one call; three calls have a first, a middle and a last. In
`lat_ring` two units are the least for a ring that is not a loop on itself, and
three the least with two different rings; the second run starts from pointers
the first has cleared. In `lists` two processes have every race for the file,
and three elements fill the pool behind another list. `MaxRegion`, `MaxBlocks`,
`MaxLine`, `MaxFail` and `MaxThread` are bounds of the models; the first is
also the length of the code's tables, beyond which its effect is undefined.

`CHECK_DEADLOCK FALSE` is set in all runs but `lists`: an allocator that used
up its blocks, a kernel that returned and a main that ended have no next step.
`Termination` shows that the programs that have it stop only there. In `lists`
a process can always be started or can end.

**Findings.** `posix_fallocate` returns a positive number on failure and the
code tests `< 0`, so "fallocate fail" is never printed (`fastalloc_nospace`).
Task 3 announces "rw on diff channel, but seperate", and runs both kinds of
threads on the first channel, as the comment above it says (`rw_sep_task3`).
`lat.cpp` defines `alloc_max` as `(1 < 30)`, which is 1 and not 2^30: the first
of the runs main announces is refused and the program exits (`lat_ring_main`).

**What a reader should know of the code, from the conditions of the
properties.**

* A request above `ALLOC_SIZE` (4 GB) makes `left` wrap and every later block
  of the cursor lie behind its region (`Sound`). Two allocators of one class on
  one channel map the same files (`StorageDisjoint` excludes them; `rw_sep`
  uses one per channel at a time). Each nvm region leaks its size of heap
  (`HeapAccounting` counts it). In `fastallocate` and `pm_study` nvm blocks
  beyond the first region lie on the heap.
* The seq kernels and `imcprobe` end without a fence (`FencedDurable`).
* `latency_job.c` runs 25 tasks, which is the number without `AEP_SUPPORTED`;
  a build with it has 31 and leaves the last six out.
* In `lat.cpp` a thread's slot keeps what the run before has left until `run`
  creates the thread anew: `StartTogether` and `EachUnitOnce` are about a run
  under way. A part smaller than a unit makes `traverse_order.at(unit_num - 1)`
  throw, nobody catches it and the process is terminated (`EmptyPart`).
* The rounds of `fastallocate/rw_sep.cpp` use the objects 0 to 511 whatever
  `argv[1]` says: it only sets how many are allocated, and a smaller one makes
  the loops run past the array (`OutOfRange`). `times` is computed for the
  default of 513 before `argv[1]` is read and computed again after it. With a
  failed `fopen` the program dies at the report of the first round.
* A `lists` that is killed while it makes the pool leaves a file that neither
  `create` nor `open` accepts, and every later run fails. When the pool is full
  it inserts nothing and returns 0 (`Drop` of `TwoLists`).

## Fairness

* `MemAccess`: `WF(Next)`, a thread that is running continues.
* `ChasingIndex`: `WF(Next)` and strong fairness of drawing a free position:
  `rdrand` is random, so a free position is not missed for ever. Without it
  `init_chasing_index` may draw taken positions for ever, which has
  probability 0.
* `RwSepMultithread`: weak fairness of main and of every thread, as a
  preemptive scheduler gives it. No fairness between the outcomes of a call.
* `LatRing`: the same. A thread that waits at the barrier has no step until the
  last one arrives, so termination also shows that the barrier is filled.
* `FastAlloc`, `LatencyJob`, `FastRwSep` and `Lists` have no liveness property:
  nobody has to call the allocator, the two single-threaded programs are
  straight loops over constants, and a `lists` may be killed at any time.

## Proofs

| Theorem | Module | Statement |
|---|---|---|
| `TypeCorrect` | `FastAllocProofs` | `Spec => []TypeOK` |
| `BlocksNeverOverlap` | | `Spec => []NoOverlap` |
| `BlocksContained` | | `Spec => []Contained` |
| `StoreRefinement` | | `Request \subseteq 0 .. AllocSize` implies `Spec => ImplementsStore` |
| `HeapAccounted` | | `Spec => []HeapAccounting` |
| `NvmIsOnPM` | | `Spec => []NvmOnPM` |
| `StorageIsDisjoint` | | `Spec => []StorageDisjoint` |
| `Task3IsSeparate` | `RwSepProofs` | `Spec => []Task3Separate` |
| `NothingFreedUnderThread` | | `Spec => []NoRunAfterFree` |
| `Task2OnTwoChannels` | | the channels of each job differ implies `Spec => []Task2Channels` |
| `DurableWhenFreed` | | `Spec => []DurableAtFree` |
| `BuffersPrivate` | | the channels of each job differ implies `Spec => []PrivateBuffers` |
| `TypesCorrect` | | `Spec => []TypeOK` |
| `FootprintIsExact` | `MemAccessProofs` | `MaskBound` implies `Spec => []FootprintExact` |
| `LossIsBounded` | | `MaskBound` implies `Spec => []LossBounded` |
| `FencedIsDurable` | | `MaskBound` implies `Spec => []FencedDurable` |
| `TypesCorrect` | | `MaskBound`, `CallsFit` and `SeedsSet` imply `Spec => []TypeOK` |
| `IndexIsOneCycle` | `ChasingProofs` | `Spec => []OneCycle` |
| `LoadsFollow` | | `Spec => []LoadsFollowStores` |
| `ChainIsDurable` | | `Spec => []ChainDurable` |
| `TypesCorrect` | | `Spec => []TypeOK` |
| `ThreadsStartTogether` | `LatRingProofs` | `Spec => []StartTogether` |
| `UnitsOnce` | | `Spec => []EachUnitOnce` |
| `PersistencyHolds` | | `Spec => []PersistencyAsNamed` |
| `TypesCorrect` | | `Spec => []TypeOK` |
| `ThreadsApart` | | `Spec => []((Alive /\ main # "run") => PartsApart)` |
| `ListsTypeCorrect` | `ListsProofs` | `Spec => []TypeOK` |
| `ListsRefinement` | | `Spec => ImplementsTwoLists` |
| `LoopsWithinArray` | `DriverProofs` | `FastRwSep`: `Spec => []TypeOK` |
| `WaysStoreAlike` | | `Spec => []SameWork` |
| `ObjectsOwnBlocks` | | `Spec => []OwnBlocks` |
| `StreamsDrained` | | `Spec => []Drained` |
| `JobTypes` | | `LatencyJob`: `LatencyAssumption` implies `JobSpec => []JobTypeOK` |
| `JobPrepares` | | `JobSpec => []PreparedAsNamed` |
| `JobDurable` | | `JobSpec => []DurableAsNamed` |
| `JobOwnLines` | | `JobSpec => []OwnLines` |

**FastAlloc.** For any number of allocators, any region sizes that are
multiples of 64, any word, table length, request set and failures. The
assumptions are `SizeAssumption` (sizes are multiples of 64 and a region is
smaller than the word: `fastalloc.h` defines 4 GB and 1 GB) and
`TableAssumption` (types only).

`TypeOK` is not inductive: `alloc` returns `curr`, which is NULL for an object
not created or freed; `PointerInv` says that a live object's is not.
`NoOverlap` needs to know that what was handed out of the current region lies
before `curr`. The inductive invariant is

    SafetyInv == TypeOK /\ PointerInv /\ FreshInv /\ CursorInv /\ BlockInv /\ NoOverlap

where `CursorInv` says that `curr` and `left` describe the tail of the newest
region (`off + left` is that region's size, which is where the smaller first
region of `concurrency_fastalloc` matters), `BlockInv` that blocks lie inside
their region and, in the newest, before `curr`, and `FreshInv` that an object
not yet created has handed out nothing. All of it is conditional on `Sound`:
the requests made of the cursor so far fit a region. `AlignFacts` and
`SubFacts` are the two pieces of arithmetic. `HandSafe` does the work for both
branches of `alloc`: a block cut at `off`, with the cursor moved behind it,
preserves the invariant; the branches only show its premises. The refinement
adds `FittingInv`, from which every cursor is `Sound`; the new block is then
the witness for the store's `Give`.

Where the regions lie is a second invariant,

    StorageInv == TypeOK /\ PointerInv /\ TableInv /\ HeapAccounting /\ MapInv /\ ChannelInv /\ NvmInv

`TableInv` says that a block's region is one its cursor has counted, `MapInv`
that a mapping's file is named by its owner's class, channel and number,
`NvmInv` that `OptaneStudy` maps a file for every nvm region it counts, and
`ChannelInv` that the copies without channels use channel 0. `HeapAccounting`
is inductive with them. `StorageDisjoint` speaks of both kinds of memory: two
regions have the same file only if allocator class, channel and number agree,
and then they are one region, where `NoOverlap` holds, or lie in twin objects
(`Twins`: one class, one channel), which the property excepts; a heap block
lies in the `new char[]` of its own cursor and region, which `HeapAccounting`
says is still there. A block of a region whose mmap failed lies in no memory,
and the property says nothing of it.

**RwSepMultithread.** For any number of threads, jobs, loop lengths and
failures. Assumed is `RwSepAssumption`: jobs are pairs of channels, a buffer
fits a region, an access fits the stride, the word is a multiple of 64 (it is
2^64). `Task2OnTwoChannels` and `BuffersPrivate` also assume that the two
channels of every job differ, as in the four jobs of main: two allocators on
one channel would map the same files. Main is
a script of calls, and every thread has a place in it where it is created
(`CreateAt`) and one where it is joined (`JoinAt`). `RunInv` says that a thread
that runs has a joinable handle, and that a joinable handle means main is
between the two places; the order of the places in each of the three scripts
is arithmetic, and gives `Task3Separate`. `LiveInv`, `BufInv` and `StructInv`
say that between the calls of `init` and `fast_free` the allocators are alive,
that the buffers filled in so far come from the allocator the task names, and
that a thread works on the buffer of its struct; with `RunInv` they give
`NoRunAfterFree` and `Task2Channels`. `DurableAtFree` needs more: a fence waits
for its own thread's lines only, and writer and reader of a pair store to the
same ones. `CoverInv` says that every line that is not durable is covered by a
thread that runs: one that has its newest version on the way and unfenced, or
is about to write it back. When nobody runs, there is no such line.
`BuffersPrivate` takes the allocators' part from `FastAllocProofs`
through an instance: every step of the driver is a step of `FastAlloc` or
leaves its variables alone, all its requests are one buffer long and fit a
region, so that buffers of one allocator do not overlap and those of two lie in
different files, also behind a second growth; the rest is that a thread's
offset stays below the length of its buffer. What the
steps of the memory do is in `PMemProofs`, over any set of lines and threads;
the largest version a fence makes durable exists because a version is at most
the line's (`MaxFacts`, by well-foundedness of strict inclusion).

**LatRing.** For any sequences of runs with any number of threads, memory and
working sets (`LatAssumption`: types, and that a calculated offset is only used
with non-temporal stores, as main does). `StartTogether` is not inductive: the
barrier lets go when it has counted enough, and that these are all of the run
rests on who is counted and which threads main has left out. `BarrierInv` says
both, and that the threads of a run are all before the barrier's release or all
behind it. `ThreadsApart` rests on `SizeInv`, that the run under way was not
refused, and on the arithmetic of the parts.

`RingInv` is the rest of the inductive invariant. While a thread builds its
ring, the units of its order up to the one at work point to their successors,
whatever an earlier run has left in them and whoever else builds; from then on
the ring is `order`, an injection on the numbers below `unit_num` and so, by
counting, onto the thread's part. A thread that measures has seen exactly the
units of the order up to the one it is at, which gives `EachUnitOnce`: the
chase is over when `next` is the first unit again, that is, after `unit_num`
steps. `PersInv` follows each store a pass has made to its write-back and
fence. `PersistencyAsNamed` speaks of runs that write: a `rd` run may find in
its lines what the last pass of an earlier relaxed run has left unfenced.

**MemAccess.** For any set of calls, width of the seed and buffer. Assumed are
the types of the arguments, that strides and sizes are whole lines where the
aligned instructions fault on others and not 0 where the loop would not move on
(`CallAssumption`), and that the taps contain the highest bit, as 0xd8... does
(`MemAccessAssumption`). Three hypotheses are named where a theorem needs them:
`MaskBound`, that the bits a mask lets through add up to no more than the mask,
which is a fact about powers and sums the provers have no theory of; `CallsFit`,
that the buffer is as long as the calls say; `SeedsSet`, that the seed is not 0
at the start. TLC evaluates all three for the calls of the run.

A loop with its test at the end that adds `u` and compares with `n` makes
`Passes(n, u)` passes (`PassFacts`, the one place with a division). Each kind of
kernel then has an invariant that says at which pass of which loop it is:
`StrideInv` counts rows and lines of a grid, `CacheInv` the fences, flushes and
lines of `cachefence`, whose registers are four sums of the same counters. What
was touched is the grid up to there, and `FootprintExact` follows. `MemInv`
says of every line that it is durable, or was stored since the last fence
(`Since`, an interval computed from the registers) and is on its way or, in
`cachefence`, between the flush pointer and the store pointer. The length of
`Since` bounds the loss, and it is empty behind a fence. `LfsrFacts` shows that
a shift never loses the last 1 of the seed.

**ChasingIndex.** For any size of the index, number of blocks, access size and
number of retries (`ChasingAssumption`: types, `csize` not 0). `OneCycle` says
where one comes to by following the pointers, which a step that changes one
pointer could change everywhere. The invariant `CycleInv` says instead that
there is a list `d` of the positions drawn, without repetition, in which each
points to the one behind it and the last to 0; a draw appends to it. From `d`
it follows that walking from 0 runs through `d` again and again (`Follow` is
the one function with its recursion equations). `WalkInv`, `MemInv`,
`LinesInv` and `OrderInv` then say where the kernels are: step `j` of block `b`
is at `csize * b + Follow[j]`, the lines stored hold what the index says, the
stores of the block at work wait for its fence, and the loads repeat the
stores up to the point they have reached. That a walk of `csize` steps leaves
out no line is a matter of counting (`WalkCovers`).

**Lists.** For any processes, words, command lines and capacity
(`ListsAssumption`: types). `Inv` adds to `TypeOK` that a process past main's
checks has arguments that pass them (`ArgInv`), that a linked element is
durable (`ElementInv`: without `pmemobj_persist` in the constructor a power
failure changes the list), what the object under construction holds at each
step (`NewInv`), and that what `list_print` has printed is a prefix of the list
(`OutInv`). Each step of a process maps to the moment its run does its job or
to a stutter, a kill and a power failure to the end of some runs.

**FastRwSep.** For any bounds of the rounds, number of passes and repetitions,
argument and region sizes. Beside the types (`FastRwSepAssumption`) it is
assumed that doubling `FirstGrn` leads to `LastGrn`, as from 16 to 1024, and
that `N_RW` is at least the size of the last round, as 100000 is at least 512
(`RoundAssumption`); and that the first region holds the objects of the last
round, 128 KB of 1 GB (`RegionAssumption`). Without the first, a round could
end in the middle of a pair or have no pass at all, and without the second the
objects would go on on the heap. The inductive invariant is

    RwInv == LoopInv /\ ArrayInv /\ StoredInv /\ MemInv

`LoopInv` knows that a round is one of the sizes doubling goes through
(`Rounds`, a set, as no recursion is needed to say it) and even, and that the
mixed pass is the one that would run past the array: whoever has finished a
pass has `sep_grn` objects. `ArrayInv` follows the allocator's cursor, 64 bytes
per object in the first region, from which `OwnBlocks` is arithmetic.
`StoredInv` gives the stores of both ways as one function of the passes done
and the objects of the next (`Profile`); it comes out the same for the loop
that steps by one and the loop that steps by two. `MemInv` says that what was
streamed in a round is durable or sent off, also over the next test, which
begins without a fence, and that the last round's is when the rounds are over:
the last fence then covers it.

**LatencyJob.** For any number of calls of a task and both builds
(`LatencyAssumption`: types, and at least one call). One module of proofs
extends this specification and that of `FastRwSep`, which is why this one's
names differ (`JobInit`, `JobNext`, `JobSpec`, `JobTypeOK`, `task`, `op`, `at`,
`pm`). `TaskTable` shows of the two
tables that the 25 tasks latency_job runs are tests of 64, 128 or 256 bytes or
the baseline, wherever the `#ifdef` puts them. The inductive invariant is

    JobInv == JobBounds /\ JobProgress /\ PreparedAsNamed /\ DurableAsNamed

`JobBounds` ties the buffer to the call and the step (`64 * buf = op * size`),
so that a preparation's four lines stay inside it. `JobProgress` says what the
measured instructions have done to the lines they are through with. Where a
line ends is a division by its number of instructions, 2, 3, 8 or 9
(`LineSteps`): behind its write-back a flushing test has sent it off; a store
test without one has a line not durable from its first store on, as nothing is
on its way to it; the lines of a load test, and those of a non-temporal store
test, are durable or sent off at every instruction.

## Only model-checked

The termination properties and what else depends on fairness: liveness and
`ENABLED` are out of the prover's reach. That a masked seed is at most its mask
(`MaskBound`): it is a sum over a set of powers of 2, and what a recursive
definition computes for every input cannot be proved here. Every invariant the
runs check is stated by a theorem.

## Not modelled

* `OptaneStudy/microbenchmark/read_after_write.cpp`: one thread that calls the
  kernels of `MemAccess` on buffers of two allocators, the predecessor of
  `rw_sep_multithread.cpp`; the Makefile does not build it. Nothing in it is
  concurrent and it has no failure path of its own.
* `pmdk/rw_sep.c`: a timed loop of `pmem_memcpy` and `pmem_drain` over one
  mapped file. What is stored and when it is durable is decided in libpmem.
* `repeat_256byte_...` of `common.h`: nothing calls them.
* A second `init_fast_allocator` or `fast_free` on the global pointers of
  `fastallocate` and `pm_study`, which would delete twice: no caller makes one.
* Time measurement, statistics and reports, although the minimum, maximum and
  total of some are read uninitialised.
* `lattester.h`, `perf_util.h` (declarations and macros no file uses),
  `NValloc` (a note), Makefiles and binaries.

## Plan

All parts that run concurrently, fail or persist anything are modelled, and
the invariants of the runs are proved. What is left is
`read_after_write.cpp`, if it is built again.
