----------------------------- MODULE FastAlloc -----------------------------
(***************************************************************************)
(* The bump allocator of fastalloc.cpp: class fastalloc, its subclass      *)
(* concurrency_fastalloc and the functions that create, use and free       *)
(* allocator objects.                                                      *)
(*                                                                         *)
(* An allocator serves two pools, "dram" and "nvm".  A pool is a table of  *)
(* regions (dram[100], nvm[100]), a count of them (dram_cnt, nvm_cnt), a   *)
(* pointer to the next free byte (dram_curr, nvm_curr) and the bytes left  *)
(* behind it (dram_left, nvm_left).  A region of the dram pool is a        *)
(* new char[]; a region of the nvm pool is a file of a PM channel, mapped  *)
(* with mmap.  Blocks are never returned one by one: fast_free drops the   *)
(* whole allocator.                                                        *)
(*                                                                         *)
(* Three copies of the file exist.  In OptaneStudy's copy the caller names *)
(* the PM channel and the nvm pool grows by mapping one more file; in      *)
(* those of fastallocate and pm_study the program has one mount (a global  *)
(* of fastallocate, a path written into the two init methods of pm_study), *)
(* and the code that maps a further file is commented out, which leaves    *)
(* the new char[].  The constant OptaneStudy chooses the copy.             *)
(*                                                                         *)
(* open, posix_fallocate and mmap may fail (Outcome).  The code goes on    *)
(* with whatever pointer mmap returned, and so does the model.             *)
(***************************************************************************)
EXTENDS Integers, FiniteSets

CONSTANTS
  Allocator,      \* the allocator objects the program may create
  Concurrency,    \* those of them that are concurrency_fastalloc objects
  ChannelArg,     \* the values passed as PM channel, or {mount}
  OptaneStudy,    \* TRUE: the copy of OptaneStudy; FALSE: the other two
  AllocSize,      \* ALLOC_SIZE
  ConcAllocSize,  \* CONCURRENCY_ALLOC_SIZE
  Word,           \* 2^64, the modulus of uint64_t
  MaxRegion,      \* 100, the length of the tables dram[] and nvm[]
  Request,        \* the sizes asked of alloc
  Outcome,        \* how opening, extending and mapping a file may end
  MaxBlocks       \* bound of the model: blocks handed out in a behaviour

ASSUME SizeAssumption ==
  /\ AllocSize \in Nat \ {0} /\ ConcAllocSize \in Nat \ {0} /\ Word \in Nat
  /\ AllocSize % 64 = 0 /\ ConcAllocSize % 64 = 0 /\ Word % 64 = 0
  /\ ConcAllocSize <= AllocSize /\ AllocSize < Word
  /\ Request \subseteq 0 .. (Word - 1)

ASSUME TableAssumption ==
  /\ MaxRegion \in Nat \ {0}
  /\ MaxBlocks \in Nat
  /\ Concurrency \subseteq Allocator
  /\ ChannelArg \subseteq Int
  /\ OptaneStudy \in BOOLEAN
  /\ Outcome \subseteq {"ok", "nosync", "nospace", "mapfail"}

VARIABLES
  phase,    \* [Allocator -> ...]: created, or freed and deleted
  channel,  \* [Allocator -> Int]: the field channel
  cnt,      \* [Cursor -> Nat]: dram_cnt and nvm_cnt
  curr,     \* [Cursor -> Pointer]: dram_curr and nvm_curr
  left,     \* [Cursor -> 0 .. Word-1]: dram_left and nvm_left
  heap,     \* the new char[] areas not yet deleted, as <<cursor, index>>
  nvmap,    \* the mappings of PM files made so far; none is ever undone
  blocks,   \* history: what alloc returned, with the size asked for
  exited    \* the process has called exit

vars == <<phase, channel, cnt, curr, left, heap, nvmap, blocks, exited>>

Pool == {"dram", "nvm"}

\* One bump cursor per allocator and pool.
Cursor == Allocator \X Pool

\* A pointer into region reg of a pool; NULL has reg = -1.
Pointer == [reg : Int, off : Int]

NULL == [reg |-> -1, off |-> 0]

----------------------------------------------------------------------------
(* Arithmetic of uint64_t.                                                 *)

\* size / 64 * 64 + (!!(size % 64)) * 64, which is at most Word.
Align64(size) ==
  LET up == (size \div 64) * 64 + (IF size % 64 # 0 THEN 64 ELSE 0)
  IN  IF up < Word THEN up ELSE up - Word

\* A mutant: the subtraction does not wrap.
SubNoWrap(x, y) == x - y

\* x - y with the wrap-around of an unsigned 64-bit subtraction.
Sub64(x, y) == IF y <= x THEN x - y ELSE x - y + Word

\* The size of the i-th region of a cursor: only the region that
\* concurrency_fastalloc::init makes is smaller.
RegionSize(k, i) ==
  IF i = 0 /\ k[1] \in Concurrency THEN ConcAllocSize ELSE AllocSize

----------------------------------------------------------------------------
(* Opening, extending and mapping a file of a PM channel.                  *)

\* A mutant: the name leaves out nvm_cnt.
NvmFilenameNoCnt(a, ch, i) == <<ch, a \in Concurrency, 0>>

\* A mutant: the name leaves out the thread's id.
NvmFilenameNoThread(a, ch, i) == <<ch, FALSE, i>>

\* "/mnt/aep<channel>/test<nvm_cnt>"; a concurrency_fastalloc puts its
\* thread's id before the number.
NvmFilename(a, ch, i) == <<ch, a \in Concurrency, i>>

\* How MapFile may end: "ok"; "nosync", the file is extended and mmap refuses
\* it (MAP_SYNC where there is no DAX); "nospace", the file cannot be extended
\* and mmap takes it all the same; "mapfail", both calls fail, as they do on
\* the -1 of an open that failed.
Refused == {"nosync", "mapfail"}

\* posix_fallocate returns 0 or a positive error number (ENOSPC, EBADF).
FallocateResult(o) ==
  CASE o \in {"ok", "nosync"} -> 0 [] o = "nospace" -> 28 [] o = "mapfail" -> 9

\* The mapping that becomes nvm[i]; told: "fallocate fail" was printed.
MapFile(a, ch, i, o) ==
  [owner  |-> a, idx |-> i, file |-> NvmFilename(a, ch, i),
   mapped |-> o \notin Refused,
   failed |-> FallocateResult(o) # 0,
   told   |-> FallocateResult(o) < 0]

----------------------------------------------------------------------------
Init ==
  /\ phase = [a \in Allocator |-> "unborn"]
  /\ channel = [a \in Allocator |-> 0]
  /\ cnt = [k \in Cursor |-> 0]
  /\ curr = [k \in Cursor |-> NULL]
  /\ left = [k \in Cursor |-> 0]
  /\ heap = {}
  /\ nvmap = {}
  /\ blocks = {}
  /\ exited = FALSE

\* A mutant: concurrency_fastalloc::init records the size of a full region.
InitLeftFull(k) == AllocSize

\* The bytes left that init records, for both pools.
InitLeft(k) == RegionSize(k, 0)

\* What both init methods do to a fresh object: one region for each pool.
\* The new char[] made for the nvm pool stays allocated when the result of
\* mmap replaces the only pointer to it.
FirstRegions(a, ch, o) ==
  /\ cnt' = [k \in Cursor |-> IF k[1] = a THEN 1 ELSE cnt[k]]
  /\ curr' = [k \in Cursor |->
                IF k[1] = a THEN [reg |-> 0, off |-> 0] ELSE curr[k]]
  /\ left' = [k \in Cursor |->
                IF k[1] = a THEN InitLeft(k) ELSE left[k]]
  /\ heap' = heap \cup {<<k, 0>> : k \in {a} \X Pool}
  /\ nvmap' = nvmap \cup {MapFile(a, ch, 0, o)}

\* fastalloc::init as init_fast_allocator calls it on a new fastalloc.  Only
\* OptaneStudy's copy stores the channel, and it accepts 0..3.
InitFastAllocator(a, ch, o) ==
  /\ ~exited /\ phase[a] = "unborn" /\ a \notin Concurrency
  /\ OptaneStudy => ~(ch < 0 \/ ch > 3)
  /\ phase' = [phase EXCEPT ![a] = "live"]
  /\ channel' = [channel EXCEPT ![a] = IF OptaneStudy THEN ch ELSE @]
  /\ FirstRegions(a, ch, o)
  /\ UNCHANGED <<blocks, exited>>

\* OptaneStudy's copy with any other channel: a message, then exit(0).
InitBadChannel(a, ch) ==
  /\ ~exited /\ phase[a] = "unborn" /\ a \notin Concurrency
  /\ OptaneStudy
  /\ ch < 0 \/ ch > 3
  /\ channel' = [channel EXCEPT ![a] = ch]
  /\ exited' = TRUE
  /\ UNCHANGED <<phase, cnt, curr, left, heap, nvmap, blocks>>

\* concurrency_fastalloc::init, which init_fast_allocator calls in
\* fastallocate (isMultiThread) and pm_study (always, before the other one).
\* OptaneStudy declares the class and never creates an object of it.
InitConcurrency(a, mount, o) ==
  /\ ~exited /\ phase[a] = "unborn" /\ a \in Concurrency
  /\ ~OptaneStudy
  /\ phase' = [phase EXCEPT ![a] = "live"]
  /\ FirstRegions(a, mount, o)
  /\ UNCHANGED <<channel, blocks, exited>>

----------------------------------------------------------------------------
(* alloc(size, _on_nvm).                                                   *)

\* How many blocks the cursor has handed out.
Given(k) == Cardinality({b \in blocks : b.cur = k})

\* The block [curr, curr + size) of region reg is handed out.  nth tells it
\* from any other, so that a place handed out twice is two blocks.
Hand(k, req, reg, off) ==
  blocks' = blocks \cup
    {[cur |-> k, nth |-> Given(k), reg |-> reg, off |-> off,
      req |-> req, size |-> Align64(req)]}

\* A mutant: the pointer stays at the block handed out.
CurrAfterSame(off, size) == off

\* nvm_curr = nvm_curr + size.
CurrAfter(off, size) == off + size

\* The else branch, the same in both pools: the block fits what is left.
AllocFits(k, req) ==
  LET size == Align64(req) IN
  /\ ~exited /\ phase[k[1]] = "live" /\ Cardinality(blocks) < MaxBlocks
  /\ ~(size > left[k])
  /\ left' = [left EXCEPT ![k] = Sub64(@, size)]
  /\ Hand(k, req, curr[k].reg, curr[k].off)
  /\ curr' = [curr EXCEPT ![k].off = CurrAfter(@, size)]
  /\ UNCHANGED <<phase, channel, cnt, heap, nvmap, exited>>

\* A mutant: the block cut from a fresh region is not subtracted.
LeftAfterGrowAll(size) == AllocSize

\* nvm_left = ALLOC_SIZE; nvm_left -= size.
LeftAfterGrow(size) == Sub64(AllocSize, size)

\* What the size > left branch of both pools does once the new region is
\* made: it becomes the current one, and the block is cut from its start.
\* A size above AllocSize is not refused: the subtraction wraps.
Grow(k, req) ==
  LET size == Align64(req) IN
  /\ ~exited /\ phase[k[1]] = "live" /\ Cardinality(blocks) < MaxBlocks
  /\ size > left[k]
  /\ cnt[k] < MaxRegion     \* beyond the table the code's effect is undefined
  /\ cnt' = [cnt EXCEPT ![k] = @ + 1]
  /\ left' = [left EXCEPT ![k] = LeftAfterGrow(size)]
  /\ Hand(k, req, cnt[k], 0)
  /\ curr' = [curr EXCEPT ![k] = [reg |-> cnt[k], off |-> CurrAfter(0, size)]]
  /\ heap' = heap \cup {<<k, cnt[k]>>}
  /\ UNCHANGED <<phase, channel, exited>>

\* A mutant: the file is mapped under the number of the region before.
GrowNvmSameFile(a, req, o) ==
  /\ OptaneStudy
  /\ Grow(<<a, "nvm">>, req)
  /\ nvmap' = nvmap \cup {MapFile(a, channel[a], cnt[<<a, "nvm">>] - 1, o)}

\* The nvm pool of OptaneStudy grows by one more file of its channel.
GrowNvm(a, req, o) ==
  /\ OptaneStudy
  /\ Grow(<<a, "nvm">>, req)
  /\ nvmap' = nvmap \cup {MapFile(a, channel[a], cnt[<<a, "nvm">>], o)}

\* The nvm pool of fastallocate and pm_study grows by a new char[].
GrowNvmOnHeap(a, req) ==
  /\ ~OptaneStudy
  /\ Grow(<<a, "nvm">>, req)
  /\ UNCHANGED nvmap

GrowDram(a, req) ==
  /\ Grow(<<a, "dram">>, req)
  /\ UNCHANGED nvmap

----------------------------------------------------------------------------
\* A mutant: the loop of free stops one region early.
FreedAreasShort(d) == {<<d, i>> : i \in 0 .. (cnt[d] - 2)}

\* The areas the loop of free deletes.
FreedAreas(d) == {<<d, i>> : i \in 0 .. (cnt[d] - 1)}

\* fastalloc::free: the dram regions are deleted; the nvm regions are
\* neither unmapped nor are the areas behind them deleted.
Free(a) ==
  LET d == <<a, "dram">> IN
  /\ left' = [left EXCEPT ![d] = 0]
  /\ heap' = heap \ FreedAreas(d)
  /\ curr' = [curr EXCEPT ![d] = NULL]
  /\ UNCHANGED <<cnt, nvmap>>

\* fast_free(allocator): free, then delete the object.
FastFree(a) ==
  /\ ~exited /\ phase[a] = "live"
  /\ Free(a)
  /\ phase' = [phase EXCEPT ![a] = "deleted"]
  /\ UNCHANGED <<channel, blocks, exited>>

Next ==
  \/ \E a \in Allocator, ch \in ChannelArg :
       \/ \E o \in Outcome : InitFastAllocator(a, ch, o)
       \/ \E o \in Outcome : InitConcurrency(a, ch, o)
       \/ InitBadChannel(a, ch)
  \/ \E k \in Cursor, req \in Request : AllocFits(k, req)
  \/ \E a \in Allocator, req \in Request :
       \/ \E o \in Outcome : GrowNvm(a, req, o)
       \/ GrowNvmOnHeap(a, req)
       \/ GrowDram(a, req)
  \/ \E a \in Allocator : FastFree(a)

Spec == Init /\ [][Next]_vars

----------------------------------------------------------------------------
(* Properties.                                                             *)

Block == [cur : Cursor, nth : Nat, reg : Nat, off : Nat, req : Nat, size : Nat]

\* The fields keep their types; left stays a uint64_t although alloc lets
\* the subtraction from nvm_left and dram_left wrap.
TypeOK ==
  /\ phase \in [Allocator -> {"unborn", "live", "deleted"}]
  /\ channel \in [Allocator -> Int]
  /\ cnt \in [Cursor -> Nat]
  /\ curr \in [Cursor -> Pointer]
  /\ left \in [Cursor -> 0 .. (Word - 1)]
  /\ heap \subseteq Cursor \X Nat
  /\ blocks \subseteq Block /\ IsFiniteSet(blocks)
  /\ exited \in BOOLEAN

Live(k) == phase[k[1]] = "live"

\* Every request made of the cursor so far fits a region.  alloc does not
\* check this, and nothing below holds of a cursor that was asked for more:
\* left has wrapped, so all later requests seem to fit.
Sound(k) == \A b \in blocks : b.cur = k => b.req <= AllocSize

Disjoint(b, c) == b.off + b.size <= c.off \/ c.off + c.size <= b.off

\* alloc never hands out a byte of a region twice, over any sequence of
\* calls that cross region boundaries.
NoOverlap ==
  \A b, c \in blocks :
    (b # c /\ b.cur = c.cur /\ b.reg = c.reg /\ Sound(b.cur)) => Disjoint(b, c)

\* A block starts on a cache line, is at least as long as was asked for and
\* ends inside its region: the region of concurrency_fastalloc::init is
\* smaller than those alloc adds to it.
Contained ==
  \A b \in blocks : Sound(b.cur) =>
    /\ b.reg < cnt[b.cur]
    /\ b.off % 64 = 0
    /\ b.req <= b.size
    /\ b.off + b.size <= RegionSize(b.cur, b.reg)

\* The mappings behind a block of the nvm pool (at most one).
MappingOf(b) ==
  {m \in nvmap : b.cur[2] = "nvm" /\ m.owner = b.cur[1] /\ m.idx = b.reg /\ m.mapped}

\* A block on the heap: no file was mapped, or tried to be, for its region.  (A
\* block of a region whose mmap failed lies in no memory at all.)
OnHeap(b) ==
  ~ \E m \in nvmap : b.cur[2] = "nvm" /\ m.owner = b.cur[1] /\ m.idx = b.reg

\* Two blocks count their offsets in the same memory: in one file, or in one
\* new char[].
SameMemory(b, c) ==
  \/ \E m \in MappingOf(b), n \in MappingOf(c) : m.file = n.file
  \/ OnHeap(b) /\ OnHeap(c) /\ b.cur = c.cur /\ b.reg = c.reg

\* Two objects of one class on ONE channel open the same files and do share
\* their bytes.
Twins(x, y) ==
  x # y /\ channel[x] = channel[y] /\ (x \in Concurrency) = (y \in Concurrency)

\* No two blocks share memory, be it a PM file or the heap, but those of twin
\* objects: files of different regions, channels and classes differ, and the
\* area under a heap block is one that free has not given back to the heap
\* as long as the object lives (for nvm, as long as the process does).
StorageDisjoint ==
  /\ \A b \in blocks :
       (OnHeap(b) /\ (b.cur[2] = "nvm" \/ Live(b.cur))) => <<b.cur, b.reg>> \in heap
  /\ \A b, c \in blocks :
       (/\ b # c /\ SameMemory(b, c) /\ ~Twins(b.cur[1], c.cur[1])
        /\ Sound(b.cur) /\ Sound(c.cur))
         => Disjoint(b, c)

\* What is on the heap, at any time: the dram regions of the live allocators
\* (free deletes each of them once) and every new char[] ever made for an
\* nvm region (free deletes none of them, even after mmap replaced it).
HeapAccounting ==
  heap = {r \in Cursor \X (0 .. MaxRegion) :
            /\ r[2] < cnt[r[1]]
            /\ r[1][2] = "nvm" \/ Live(r[1])}

\* OptaneStudy: what was asked for on nvm lies in a PM file, in the
\* allocator's first region and in every later one, unless mmap failed.
NvmOnPM ==
  \A b \in blocks :
    b.cur[2] = "nvm" =>
      \E m \in nvmap : m.owner = b.cur[1] /\ m.idx = b.reg /\ m.file[1] = channel[m.owner]

\* The blocks given out are those of the abstract store.
Store == INSTANCE BlockStore WITH held <- blocks

\* When every request fits a region, the cursors implement the store: each
\* call of init, alloc and free is one of its steps, or changes nothing it
\* can see.
ImplementsStore == Store!Spec

\* init and alloc mean to say "fallocate fail" whenever posix_fallocate
\* could not reserve the region.
FallocateFailureReported == \A m \in nvmap : m.failed => m.told

============================================================================
