----------------------------- MODULE FastRwSep ------------------------------
(***************************************************************************)
(* The benchmark fastallocate/rw_sep.cpp: one thread that takes objects of *)
(* 64 bytes from the concurrency_fastalloc (FastAlloc), every fourth of    *)
(* which it reads and writes with streaming stores (PMem), in two ways:    *)
(* "mixed", each write behind its read, and "separated", all reads of a    *)
(* pass before its writes.  sep_grn objects make a pass; sep_grn doubles   *)
(* from round to round, and a round repeats both ways test_loop times.     *)
(*                                                                         *)
(* fopen and mmap may fail, which main does not act on.  How many objects  *)
(* there are comes from argv[1], how many are used does not; argv[2] may   *)
(* ask for no test loop at all.  Only the time stamps and the report's     *)
(* numbers are left out.                                                   *)
(***************************************************************************)
EXTENDS PMem, Sequences

CONSTANTS
  Argv1,               \* values of argv[1] considered, or DefaultGrn for none
  DefaultGrn,          \* 513, the initial value of sep_grn
  FirstGrn, LastGrn,   \* 16 and 1024, the bounds of main's loop
  TestLoops,           \* values of argv[2] considered, and its default 10000
  N_RW,
  AllocSize, ConcAllocSize, Word, MaxRegion   \* of FastAlloc

ASSUME FastRwSepAssumption ==
  /\ Argv1 \subseteq Int /\ DefaultGrn \in Nat
  /\ FirstGrn \in Nat \ {0} /\ FirstGrn % 2 = 0 /\ LastGrn \in Nat
  /\ N_RW \in Nat /\ TestLoops \subseteq Int

\* Doubling leads from FirstGrn to LastGrn, as from 16 to 1024, and N_RW,
\* 100000, is at least the 512 of the last round.
ASSUME RoundAssumption ==
  /\ FirstGrn < LastGrn /\ LastGrn <= 2 * N_RW
  /\ \E S \in SUBSET (1 .. LastGrn) : FirstGrn \in S /\ \A g \in S : g = LastGrn \/ 2 * g \in S

\* The first region, of 1 GB, holds the objects of the last round.
ASSUME RegionAssumption ==
  /\ AllocSize \in Nat /\ ConcAllocSize \in Nat /\ Word \in Nat
  /\ AllocSize % 64 = 0 /\ ConcAllocSize % 64 = 0 /\ Word % 64 = 0
  /\ 128 * LastGrn <= ConcAllocSize /\ ConcAllocSize <= AllocSize /\ AllocSize < Word

VARIABLES
  phase, channel, cnt, curr, left, heap, nvmap, blocks, exited,  \* FastAlloc
  concurrency_myallocator,   \* the global pointer: NULL or an allocator
  argv1, test_loop, fp,      \* the two arguments; whether fopen succeeded
  pc,                        \* where main is
  a,                         \* the objects: a[n + 1] is a[n] of the code
  sep_grn, t, i, j,          \* main's loops
  mem,                       \* PMem
  stored                     \* history: stores to a[4 * n] in this test loop, per way

fa == <<phase, channel, cnt, curr, left, heap, nvmap, blocks, exited>>
loops == <<sep_grn, t, i, j>>
vars == <<fa, concurrency_myallocator, argv1, test_loop, fp, pc, a, loops, mem, stored>>

FA == INSTANCE FastAlloc WITH
        Allocator <- {"conc"}, Concurrency <- {"conc"}, ChannelArg <- {3}, OptaneStudy <- FALSE,
        Request <- {64}, Outcome <- {"ok", "mapfail"}, MaxBlocks <- 4 * LastGrn

\* A mutant: the last object is forgotten.
timesShort == (argv1 - 1) * 4

\* int times = (sep_grn - 1) * 4 + 1, and the same with argv[1].
times == (argv1 - 1) * 4 + 1

\* A region of the nvm pool and a 64-byte line of it.  Region 0 is the
\* mapped file, the others lie on the heap.
Line == (0 .. (MaxRegion - 1)) \X (0 .. (AllocSize \div 64 - 1))
LineOf(b) == <<b.reg, b.off \div 64>>

\* A mutant: neighbouring pairs.
ObjectNear(n) == 2 * n

\* The index in a of the n-th object a pass uses: 4 * j.
Object(n) == 4 * n

Used == 0 .. (LastGrn - 1)
NoStores == [w \in {"mixed", "separated"} |-> [n \in Used |-> 0]]

Init ==
  /\ FA!Init
  /\ concurrency_myallocator = "NULL"
  /\ argv1 \in Argv1 \cup {DefaultGrn} /\ test_loop \in TestLoops /\ fp \in BOOLEAN
  /\ pc = "init" /\ a = << >>
  /\ sep_grn = DefaultGrn /\ t = 0 /\ i = 0 /\ j = 0
  /\ mem = PMemZero(Line, {"main"})
  /\ stored = NoStores

----------------------------------------------------------------------------
\* init_fast_allocator(true), and the arguments.
InitFastAllocator(o) ==
  /\ pc = "init"
  /\ FA!InitConcurrency("conc", 3, o)
  /\ concurrency_myallocator' = "conc"
  /\ sep_grn' = argv1
  /\ pc' = "alloc"
  /\ UNCHANGED <<argv1, test_loop, fp, a, t, i, j, mem, stored>>

\* a[i] = concurrency_fast_alloc(sizeof(foo_t), true).
AllocObject ==
  /\ pc = "alloc" /\ i < times
  /\ FA!AllocFits(<<concurrency_myallocator, "nvm">>, 64) \/ FA!GrowNvmOnHeap(concurrency_myallocator, 64)
  /\ \E b \in blocks' \ blocks : a' = Append(a, b)
  /\ i' = i + 1
  /\ UNCHANGED <<concurrency_myallocator, argv1, test_loop, fp, pc, sep_grn, t, j, mem, stored>>

AllocDone ==
  /\ pc = "alloc" /\ i >= times
  /\ pc' = "fill" /\ i' = 0
  /\ UNCHANGED <<fa, concurrency_myallocator, argv1, test_loop, fp, a, sep_grn, t, j, mem, stored>>

Mapped(b) == b.reg > 0 \/ \A m \in nvmap : m.mapped

\* a[i]->data[0 .. 7] = 0 .. 7: the line is written, in the cache.
FillObject ==
  /\ pc = "fill" /\ i < times /\ Mapped(a[i + 1])
  /\ mem' = Store(mem, {LineOf(a[i + 1])})
  /\ i' = i + 1
  /\ UNCHANGED <<fa, concurrency_myallocator, argv1, test_loop, fp, pc, a, sep_grn, t, j, stored>>

\* The mapping has failed: the store ends the process.
FillFault ==
  /\ pc = "fill" /\ i < times /\ ~Mapped(a[i + 1])
  /\ pc' = "crashed"
  /\ UNCHANGED <<fa, concurrency_myallocator, argv1, test_loop, fp, a, loops, mem, stored>>

\* for(sep_grn = 16; ...; sep_grn *= 2): a round begins, at once with its
\* report if there is no test loop, or the rounds are done.
BeginRound(grn) ==
  /\ sep_grn' = grn
  /\ t' = 0 /\ i' = 0 /\ j' = 0 /\ stored' = NoStores
  /\ pc' = IF grn >= LastGrn THEN "free" ELSE IF 0 < test_loop THEN "mixed" ELSE "report"

FillDone ==
  /\ pc = "fill" /\ i >= times
  /\ BeginRound(FirstGrn)
  /\ UNCHANGED <<fa, concurrency_myallocator, argv1, test_loop, fp, a, mem>>

----------------------------------------------------------------------------
(* A test loop: the mixed and the separated passes.                        *)

Passes == N_RW \div sep_grn
InRange(n) == Object(n) < times

Stream(way, S) ==
  /\ mem' = NTStore(mem, "main", {LineOf(a[Object(n) + 1]) : n \in S})
  /\ stored' = [stored EXCEPT ![way] = [n \in Used |-> IF n \in S THEN @[n] + 1 ELSE @[n]]]

\* The inner loop goes on to n, or the outer loop to its next pass, at label.
NextInner(n, label) ==
  IF n < sep_grn THEN j' = n /\ UNCHANGED <<i, pc>>
                 ELSE j' = 0 /\ i' = i + 1 /\ pc' = label

\* A read of the object, and a streaming store of one more.
MixedAccess ==
  /\ pc = "mixed" /\ i < Passes /\ InRange(j)
  /\ Stream("mixed", {j})
  /\ NextInner(j + 1, "mixed")
  /\ UNCHANGED <<fa, concurrency_myallocator, argv1, test_loop, fp, a, sep_grn, t>>

\* A mutant: no fence.
MixedFenceNone(m) == m

\* _mm_mfence() between the two ways.
MixedFence(m) == Fence(m, "main")

MixedDone ==
  /\ pc = "mixed" /\ i >= Passes
  /\ mem' = MixedFence(mem)
  /\ pc' = "read" /\ i' = 0 /\ j' = 0
  /\ UNCHANGED <<fa, concurrency_myallocator, argv1, test_loop, fp, a, sep_grn, t, stored>>

\* A mutant: the second write of a pair is left out.
PairFirst(n) == {n}

\* The two objects of a step of the separated loops.
Pair(n) == {n, n + 1}

\* The reads of a pass.
SeparatedRead ==
  /\ pc = "read" /\ i < Passes /\ \A n \in Pair(j) : InRange(n)
  /\ IF j + 2 < sep_grn THEN j' = j + 2 /\ UNCHANGED pc
                        ELSE j' = 0 /\ pc' = "stream"
  /\ UNCHANGED <<fa, concurrency_myallocator, argv1, test_loop, fp, a, sep_grn, t, i, mem, stored>>

\* Its writes.
SeparatedStream ==
  /\ pc = "stream"
  /\ Stream("separated", Pair(j))
  /\ NextInner(j + 2, "read")
  /\ UNCHANGED <<fa, concurrency_myallocator, argv1, test_loop, fp, a, sep_grn, t>>

SeparatedDone ==
  /\ pc = "read" /\ i >= Passes
  /\ pc' = "measured"
  /\ UNCHANGED <<fa, concurrency_myallocator, argv1, test_loop, fp, a, loops, mem, stored>>

\* An element of a that does not exist is read, and its target accessed: the
\* behaviour is undefined.  The mixed pass comes to it before the separated.
OutOfRange ==
  /\ pc = "mixed" /\ i < Passes /\ ~InRange(j)
  /\ pc' = "undefined"
  /\ UNCHANGED <<fa, concurrency_myallocator, argv1, test_loop, fp, a, loops, mem, stored>>

\* The next test loop, without a fence, or the end of them.
NextTest ==
  /\ pc = "measured"
  /\ t' = t + 1
  /\ IF t + 1 < test_loop
       THEN pc' = "mixed" /\ i' = 0 /\ j' = 0 /\ stored' = NoStores
       ELSE pc' = "report" /\ UNCHANGED <<i, j, stored>>
  /\ UNCHANGED <<fa, concurrency_myallocator, argv1, test_loop, fp, a, sep_grn, mem>>

\* The round's result is written, and the next round begins.
NextRound ==
  /\ pc = "report" /\ fp
  /\ BeginRound(2 * sep_grn)
  /\ UNCHANGED <<fa, concurrency_myallocator, argv1, test_loop, fp, a, mem>>

\* fputs(str, fp) with the NULL that fopen returned.
ReportFault ==
  /\ pc = "report" /\ ~fp
  /\ pc' = "crashed"
  /\ UNCHANGED <<fa, concurrency_myallocator, argv1, test_loop, fp, a, loops, mem, stored>>

----------------------------------------------------------------------------
\* fast_free: myallocator is NULL, and the other pointer keeps its value.
FastFree ==
  /\ pc = "free" /\ concurrency_myallocator # "NULL"
  /\ FA!FastFree(concurrency_myallocator)
  /\ pc' = "mfence"
  /\ UNCHANGED <<concurrency_myallocator, argv1, test_loop, fp, a, loops, mem, stored>>

\* _mm_mfence(), return 0.
Return ==
  /\ pc = "mfence"
  /\ mem' = Fence(mem, "main")
  /\ pc' = "returned"
  /\ UNCHANGED <<fa, concurrency_myallocator, argv1, test_loop, fp, a, loops, stored>>

Next ==
  \/ \E o \in {"ok", "mapfail"} : InitFastAllocator(o)
  \/ AllocObject \/ AllocDone \/ FillObject \/ FillFault \/ FillDone
  \/ MixedAccess \/ MixedDone \/ SeparatedRead \/ SeparatedStream \/ SeparatedDone
  \/ OutOfRange \/ NextTest \/ NextRound \/ ReportFault
  \/ FastFree \/ Return

Spec == Init /\ [][Next]_vars

----------------------------------------------------------------------------
(* Properties.                                                             *)

\* Every access is to an object that was allocated, as long as argv[1] asks
\* for objects enough: main's rounds do not look at it.
TypeOK ==
  /\ pc \in {"init", "alloc", "fill", "mixed", "read", "stream", "measured", "report", "free",
             "mfence", "returned", "crashed", "undefined"}
  /\ pc \notin {"init", "alloc"} => Len(a) = (IF times < 0 THEN 0 ELSE times)
  /\ pc \in {"mixed", "read", "stream"} => j \in 0 .. (sep_grn - 1) /\ sep_grn < LastGrn
  /\ pc = "stream" => \A n \in Pair(j) : InRange(n)
  /\ argv1 >= LastGrn \div 2 => pc # "undefined"

\* A test loop compares like with like: mixed and separated have stored to
\* the same objects, each of them once per pass, although they walk by one
\* and by two.
SameWork ==
  pc = "measured" =>
    \A w \in {"mixed", "separated"} :
      stored[w] = [n \in Used |-> IF n < sep_grn THEN Passes ELSE 0]

\* No two objects a pass uses share a 256-byte block of the medium, and all
\* lie in the PM file: the allocator rounds to 64 bytes only, and what does
\* not fit its first region would lie on the heap.
OwnBlocks ==
  pc \in {"mixed", "read", "stream"} =>
    \A m, n \in 0 .. (sep_grn - 1) : (InRange(m) /\ InRange(n)) =>
      LET b == a[Object(m) + 1]
          c == a[Object(n) + 1]
      IN  b.reg = 0 /\ (m # n => b.off \div 256 # c.off \div 256)

\* The separated passes begin with no store of the mixed ones under way, and
\* all that the test loops streamed is durable when main returns, although
\* fast_free comes before the last fence.  (The mixed passes of a later test
\* loop do begin with stores of the separated ones under way.)
Drained ==
  LET grn == IF pc = "returned" THEN sep_grn \div 2 ELSE sep_grn  \* of the last round
      streamed == {n \in 0 .. (grn - 1) : 0 < test_loop /\ Object(n) < Len(a)}
  IN  (pc = "returned" \/ (pc = "read" /\ i = 0)) =>
        Lost(mem) \cap {LineOf(a[Object(n) + 1]) : n \in streamed} = {}
============================================================================
