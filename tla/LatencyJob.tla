----------------------------- MODULE LatencyJob -----------------------------
(***************************************************************************)
(* The latency tests of common.h and latency_job.c, which runs them: for   *)
(* each task of the tables in turn, LATENCY_OPS_COUNT calls of its         *)
(* function, each on the next piece of one buffer.                         *)
(*                                                                         *)
(* A function of common.h is one asm block: the address and an mfence, a   *)
(* preparation that brings four lines into the cache or throws them out, a *)
(* time stamp, the measured instructions, an mfence, a time stamp.  What   *)
(* is measured depends on the function's kind and on the 64, 128 or 256    *)
(* bytes it works on.  Those functions differ in nothing else and are one  *)
(* here.  A macro of common.h is one step.  Time stamps and the statistics *)
(* made of them are left out.                                              *)
(*                                                                         *)
(* latency_job.c is modelled as it is written: its rules in the Makefile   *)
(* are commented out.                                                      *)
(*                                                                         *)
(* The names differ from those of FastRwSep, so that one module of proofs  *)
(* can extend both.                                                        *)
(***************************************************************************)
EXTENDS PMem, Sequences

CONSTANTS
  Aep,                \* the builds: whether AEP_SUPPORTED is defined
  LATENCY_OPS_COUNT

ASSUME LatencyAssumption == Aep \subseteq BOOLEAN /\ LATENCY_OPS_COUNT \in Nat \ {0}

VARIABLES
  aep,      \* AEP_SUPPORTED is defined in this build
  task, op, \* i and j of latency_job: the task, and the call of it
  buf,      \* the pointer passed on, in lines from m
  at,       \* where the call is
  k,        \* the measured instructions done
  pm,       \* PMem
  cached    \* the lines in the processor's cache

jobVars == <<aep, task, op, buf, at, k, pm, cached>>

Self == 0

\* fast_alloc(LATENCY_OPS_COUNT * 256, true).
Buffer == 0 .. (4 * LATENCY_OPS_COUNT - 1)

----------------------------------------------------------------------------
(* The tables: bench_func and latency_tasks_skip are two lists, written     *)
(* row by row in the order of enum latency_tasks, each with its own #ifdef. *)

\* One block of bench_func, the functions of one size, in its order.
Kinds(with_aep) ==
  <<"load_fence", "ntload_fence", "store_fence", "store_clflush">>
    \o (IF with_aep THEN <<"store_clwb", "store_clflushopt">> ELSE << >>)
    \o <<"nstore_fence", "store_fence_movq", "store_clflush_movq", "load_fence_movq">>

Test(kind, size) == [kind |-> kind, size |-> size]

\* The table bench_func: a block for each size, and baseline behind them.
Tests(with_aep) ==
  LET block(size) == [n \in DOMAIN Kinds(with_aep) |-> Test(Kinds(with_aep)[n], size)]
  IN  block(64) \o block(128) \o block(256) \o <<Test("baseline", 0)>>

\* The function that task t calls; the tables start at 0.
bench_func(t) == Tests(aep)[t + 1]

\* The numbers of latency_tasks_skip.
Skips(with_aep) ==
  LET rows(skip) == [n \in 1 .. (IF with_aep THEN 10 ELSE 8) |-> skip]
  IN  rows(64) \o rows(128) \o rows(256) \o <<0>>

\* A mutant: the #ifdef is missing, and the two rows are always there.
SkipIfdefLost(t) == Skips(TRUE)[t + 1]

latency_tasks_skip(t) == Skips(aep)[t + 1]

\* latency_job.c defines the name of the enum's last member again, with the
\* number of tasks of a build without AEP_SUPPORTED.
BASIC_OPS_TASK_COUNT == 25

----------------------------------------------------------------------------
(* The functions.                                                          *)

\* movq stores and loads 8 bytes, the others 32.
Movq == {"store_fence_movq", "store_clflush_movq", "load_fence_movq"}

\* The store tests prepare with LOAD_CACHE_LINE.
Warm == {"store_fence", "store_clflush", "store_clwb", "store_clflushopt",
         "store_fence_movq", "store_clflush_movq"}

\* The load tests and the non-temporal store prepare with FLUSH_CACHE_LINE.
Cold == {"load_fence", "ntload_fence", "load_fence_movq", "nstore_fence"}

\* The tests that end each line with clflush, clwb or clflushopt.
Flushing == {"store_clflush", "store_clwb", "store_clflushopt", "store_clflush_movq"}

\* The accesses to each line.
Accesses(kind) == IF kind \in Movq THEN 8 ELSE 2

\* The instructions for each line.
PerLine(kind) == IF kind \in Flushing THEN Accesses(kind) + 1 ELSE Accesses(kind)

test == bench_func(task)

\* The number of measured instructions.
Length == (test.size \div 64) * PerLine(test.kind)

\* The line the next of them works on.
Target == buf + (k \div PerLine(test.kind))

\* A mutant: the write-back stands before the last store to its line.
AtFlushEarly == test.kind \in Flushing /\ k % PerLine(test.kind) = Accesses(test.kind) - 1

\* It is the write-back behind the line's stores.
AtFlush == test.kind \in Flushing /\ k % PerLine(test.kind) = Accesses(test.kind)

\* The four lines a preparation touches, whatever the size.
Window == buf .. (buf + 3)

----------------------------------------------------------------------------
JobInit ==
  /\ aep \in Aep
  /\ task = 0 /\ op = 0 /\ buf = 0 /\ k = 0
  /\ at = "call"
  /\ pm = PMemZero(Buffer, {Self})
  /\ cached = {}

\* LOAD_ADDR: mov, mfence.  baseline takes no address.
LoadAddr ==
  /\ at = "call"
  /\ IF test.kind = "baseline" THEN at' = "timed" /\ UNCHANGED pm
     ELSE at' = "prepare" /\ pm' = Fence(pm, Self)
  /\ UNCHANGED <<aep, task, op, buf, k, cached>>

\* LOAD_CACHE_LINE: 32 loads, mfence.
LoadCacheLine ==
  /\ at = "prepare" /\ test.kind \in Warm
  /\ cached' = cached \cup Window
  /\ pm' = Fence(pm, Self)
  /\ at' = "timed"
  /\ UNCHANGED <<aep, task, op, buf, k>>

\* A mutant: clflush at 0*32, 1*32, 2*32 and 3*32.
FlushedHalf == buf .. (buf + 1)

\* clflush at 0*32, 2*32, 4*32 and 6*32.
Flushed == Window

\* FLUSH_CACHE_LINE: four clflush, mfence.
FlushCacheLine ==
  /\ at = "prepare" /\ test.kind \in Cold
  /\ cached' = cached \ Flushed
  /\ pm' = Fence(Clwb(pm, Self, Flushed), Self)
  /\ at' = "timed"
  /\ UNCHANGED <<aep, task, op, buf, k>>

\* A mutant: one instruction too many.
MeasuredLate == at = "timed" /\ k <= Length

\* A measured instruction is next.
Measured == at = "timed" /\ k < Length

Advance == k' = k + 1 /\ UNCHANGED <<aep, task, op, buf, at>>

\* vmovdqa or movq to memory.
TimedStore ==
  /\ Measured /\ test.kind \in Warm /\ ~AtFlush
  /\ pm' = Store(pm, {Target})
  /\ cached' = cached \cup {Target}
  /\ Advance

\* clflush and clflushopt take the line out of the cache, clwb need not.
TimedFlush ==
  /\ Measured /\ test.kind \in Warm /\ AtFlush
  /\ pm' = Clwb(pm, Self, {Target})
  /\ cached' = IF test.kind = "store_clwb" THEN cached ELSE cached \ {Target}
  /\ Advance

\* vmovntpd.
TimedNtStore ==
  /\ Measured /\ test.kind = "nstore_fence"
  /\ pm' = NTStore(pm, Self, {Target})
  /\ cached' = cached \ {Target}
  /\ Advance

\* vmovdqa, vmovntdqa or movq from memory.
TimedLoad ==
  /\ Measured /\ test.kind \in Cold \ {"nstore_fence"}
  /\ cached' = cached \cup {Target}
  /\ UNCHANGED pm
  /\ Advance

\* TIMING_END, which begins with mfence.
TimingEnd ==
  /\ at = "timed" /\ k = Length
  /\ pm' = Fence(pm, Self)
  /\ at' = "return"
  /\ UNCHANGED <<aep, task, op, buf, k, cached>>

\* buf += skip, and the two loops of latency_job.
NextCall ==
  /\ at = "return"
  /\ k' = 0
  /\ IF op + 1 < LATENCY_OPS_COUNT
       THEN /\ op' = op + 1 /\ buf' = buf + latency_tasks_skip(task) \div 64
            /\ at' = "call" /\ UNCHANGED task
       ELSE /\ op' = 0 /\ task' = task + 1 /\ buf' = 0     \* buf = m
            /\ at' = IF task' < BASIC_OPS_TASK_COUNT THEN "call" ELSE "done"
  /\ UNCHANGED <<aep, pm, cached>>

JobNext ==
  \/ LoadAddr \/ LoadCacheLine \/ FlushCacheLine
  \/ TimedStore \/ TimedFlush \/ TimedNtStore \/ TimedLoad
  \/ TimingEnd \/ NextCall

JobSpec == JobInit /\ [][JobNext]_jobVars

----------------------------------------------------------------------------
(* Properties.                                                             *)

\* The lines the call under way measures.
Own == buf .. (buf + test.size \div 64 - 1)

Calling == at # "done" /\ test.kind # "baseline"

\* The measured instruction exists, and no line is durable before it is
\* written.
JobTypeOK ==
  /\ task \in 0 .. BASIC_OPS_TASK_COUNT /\ op \in 0 .. (LATENCY_OPS_COUNT - 1) /\ buf \in Nat
  /\ at \in {"call", "prepare", "timed", "return", "done"}
  /\ at # "done" => k \in 0 .. Length
  /\ cached \subseteq Nat
  /\ \A l \in Buffer : pm.per[l] <= pm.ver[l]

\* When the clock starts, a store test finds its lines in the cache and a
\* load test finds none of them there, whatever the tests before have left;
\* and nothing written earlier is still on its way, so the final mfence
\* waits for the measured instructions only.
PreparedAsNamed ==
  (Calling /\ at = "timed" /\ k = 0) =>
    /\ test.kind \in Warm => Own \subseteq cached
    /\ test.kind \in Cold => Own \cap cached = {}
    /\ pm.pend[Self] = {}

\* When a test that writes back or stores past the cache returns, all it
\* stored is durable: no line was sent off half written.  The tests with a
\* fence alone leave all of their lines to be lost.
DurableAsNamed ==
  (Calling /\ at = "return") =>
    Lost(pm) \cap Own =
      IF test.kind \in Warm \ Flushing THEN Own ELSE {}

\* latency_tasks_skip agrees with bench_func: every call of a task measures
\* lines of its own, side by side, and with its preparation stays inside the
\* buffer, also in the last call of a task.
OwnLines ==
  Calling => /\ 64 * buf = op * test.size
             /\ Window \subseteq Buffer
============================================================================
