-------------------------- MODULE RwSepMultithread --------------------------
(***************************************************************************)
(* The benchmark rw_sep_multithread.cpp: main, the threads it creates, the *)
(* allocators it takes their buffers from (FastAlloc) and the persistent   *)
(* memory they write (PMem).                                               *)
(*                                                                         *)
(* A job is a pair of PM channels; it runs three tasks.  Each task makes   *)
(* one allocator per channel, takes a buffer from each for every thread    *)
(* pair, runs NUMTHREAD stride_storeclwb threads ("w") and as many         *)
(* stride_nt threads ("r"), joins them and frees the allocators.           *)
(*   Task 1  both kinds on the buffers of the first channel                *)
(*   Task 2  "w" on the first channel, "r" on the second                   *)
(*   Task 3  as task 1, but "r" is created when all "w" were joined        *)
(*                                                                         *)
(* What main does in a task is a script: the sequence of its calls.  The   *)
(* time measurement, flush_cache and the output change nothing of this     *)
(* state and are left out.  pthread_create and mmap may fail.              *)
(* The thread functions end without a return statement; as the Makefile    *)
(* builds them, without optimisation, they return with a value that        *)
(* pthread_join(tid, NULL) discards.                                       *)
(***************************************************************************)
EXTENDS PMem, Sequences

CONSTANTS
  NUMTHREAD,
  Jobs,          \* the sequence of channel pairs main passes
  access_size, stride_size, count,
  AllocSize, Word, MaxRegion,   \* of FastAlloc
  MaxFail        \* bound of the model: failed mappings and thread handles

ASSUME RwSepAssumption ==
  /\ Jobs \in Seq((0 .. 3) \X (0 .. 3))
  /\ NUMTHREAD \in Nat \ {0} /\ MaxFail \in Nat /\ MaxRegion \in Nat \ {0}
  /\ count \in Nat \ {0} /\ stride_size \in Nat /\ access_size \in 1 .. stride_size
  /\ AllocSize \in Nat /\ Word \in Nat
  /\ stride_size % 64 = 0 /\ AllocSize % 64 = 0 /\ Word % 64 = 0
  /\ count * stride_size <= AllocSize /\ AllocSize < Word

VARIABLES
  phase, channel, cnt, curr, left, heap, nvmap, blocks, exited,  \* FastAlloc
  job, task, step,   \* where main is: the step-th call of the task's script
  buf_sep1, buf_sep2, f1, f2,   \* buffers, and the structs passed to threads
  tid,       \* [Thread -> ...]: what tid_w[i], tid_r[i] refer to
  thr,       \* [Thread -> ...]: the threads' registers
  mem        \* PMem

fa == <<phase, channel, cnt, curr, left, heap, nvmap, blocks, exited>>
vars == <<fa, job, task, step, buf_sep1, buf_sep2, f1, f2, tid, thr, mem>>

Index == 0 .. (NUMTHREAD - 1)
Thread == {"w", "r"} \X Index

\* alloc1 and alloc2 point to new objects in every task.
Allocator == (1 .. Len(Jobs)) \X (1 .. 3) \X {1, 2}
alloc(k) == <<job, task, k>>

FA == INSTANCE FastAlloc WITH
        Concurrency <- {}, ChannelArg <- 0 .. 3, OptaneStudy <- TRUE,
        ConcAllocSize <- AllocSize, Request <- {count * stride_size},
        Outcome <- {"ok", "mapfail"}, MaxBlocks <- 6 * NUMTHREAD * Len(Jobs)

\* A line of persistent memory: a file and a 64-byte line of it.
PMLine == {FA!NvmFilename(a, ch, r) : a \in Allocator, ch \in 0 .. 3, r \in 0 .. (MaxRegion - 1)}
            \X (0 .. (AllocSize \div 64 - 1))

NoBuf == [cur |-> <<>>]
Idle == [pc |-> "idle", arg |-> 1, buf |-> NoBuf, r8 |-> 0, r10 |-> 0, r11 |-> 0]

Init ==
  /\ FA!Init
  /\ job = 1 /\ task = 1 /\ step = 1
  /\ buf_sep1 = [i \in Index |-> NoBuf] /\ buf_sep2 = buf_sep1
  /\ f1 = buf_sep1 /\ f2 = buf_sep1
  /\ tid = [t \in Thread |-> "stale"]
  /\ thr = [t \in Thread |-> Idle]
  /\ mem = PMemZero(PMLine, Thread)

----------------------------------------------------------------------------
(* The script of a task.                                                   *)

Call(op, arg) == [op |-> op, arg |-> arg]

\* for(i ...) { op(a, i); op(b, i); }
Loop2(op, a, b) ==
  [n \in 1 .. 2 * NUMTHREAD |-> Call(op, <<IF n % 2 = 1 THEN a ELSE b, (n - 1) \div 2>>)]

\* for(i ...) { op(a, i); }
Loop1(op, a) == [n \in 1 .. NUMTHREAD |-> Call(op, <<a, n - 1>>)]

\* init(count, stride_size), then set_arg.
Prepare ==
  <<Call("init", 1), Call("init", 2)>> \o Loop2("alloc", 1, 2) \o <<Call("set_arg", 0)>>

\* A mutant: the readers of tasks 1 and 2 are not joined.
RunTogetherNoJoin == Loop2("create", "w", "r") \o Loop1("join", "w")

\* Tasks 1 and 2.
RunTogether == Loop2("create", "w", "r") \o Loop2("join", "r", "w")

\* A mutant: task 3 creates the readers before it joins the writers.
RunSeparateEarly ==
  Loop1("create", "w") \o Loop1("create", "r") \o Loop1("join", "w") \o Loop1("join", "r")

\* Task 3.
RunSeparate ==
  Loop1("create", "w") \o Loop1("join", "w") \o Loop1("create", "r") \o Loop1("join", "r")

Script(t) ==
  Prepare \o (IF t = 3 THEN RunSeparate ELSE RunTogether)
    \o <<Call("free", 1), Call("free", 2)>>

\* main has returned.
Ended == job > Len(Jobs)

\* The call main makes next is op.
At(op) == ~exited /\ ~Ended /\ Script(task)[step].op = op

Arg == Script(task)[step].arg

\* On to the next call, task, or job.
Advance ==
  IF step < Len(Script(task)) THEN step' = step + 1 /\ UNCHANGED <<job, task>>
  ELSE /\ step' = 1
       /\ task' = IF task < 3 THEN task + 1 ELSE 1
       /\ job' = IF task < 3 THEN job ELSE job + 1

Failures == Cardinality({m \in nvmap : ~m.mapped}) + Cardinality({t \in Thread : tid[t] = "failed"})

----------------------------------------------------------------------------
(* The calls of main.                                                      *)

\* alloc1 = init_fast_allocator(port[0]); alloc2 = init_fast_allocator(port[1]).
InitAllocator(o) ==
  /\ At("init")
  /\ o # "ok" => Failures < MaxFail
  /\ FA!InitFastAllocator(alloc(Arg), Jobs[job][Arg], o)
  /\ Advance
  /\ UNCHANGED <<buf_sep1, buf_sep2, f1, f2, tid, thr, mem>>

\* A mutant: the buffer is asked for without the factor count.
BufferSizeOne == stride_size

\* count * stride_size.
BufferSize == count * stride_size

\* buf_sep1[i] = fast_alloc(alloc1, ..., true), and the same with 2.
AllocBuffer(o) ==
  LET k == Arg[1]
      i == Arg[2]
  IN
  /\ At("alloc")
  /\ \/ o = "ok" /\ FA!AllocFits(<<alloc(k), "nvm">>, BufferSize)
     \/ /\ o # "ok" => Failures < MaxFail
        /\ FA!GrowNvm(alloc(k), BufferSize, o)
  /\ \E b \in blocks' \ blocks :
       /\ buf_sep1' = IF k = 1 THEN [buf_sep1 EXCEPT ![i] = b] ELSE buf_sep1
       /\ buf_sep2' = IF k = 2 THEN [buf_sep2 EXCEPT ![i] = b] ELSE buf_sep2
  /\ Advance
  /\ UNCHANGED <<f1, f2, tid, thr, mem>>

\* A mutant: f2 gets the buffers of the first channel.
SecondBuffersFirst == buf_sep1

\* f2[i].start_addr = buf_sep2[i].
SecondBuffers == buf_sep2

set_arg ==
  /\ At("set_arg")
  /\ f1' = buf_sep1 /\ f2' = SecondBuffers
  /\ Advance
  /\ UNCHANGED <<fa, buf_sep1, buf_sep2, tid, thr, mem>>

\* The last argument of pthread_create: 1 for &f1[i], and 2 for &f2[i], which
\* the readers of task 2 get.
PassedStruct(t) == IF task = 2 /\ t[1] = "r" THEN 2 ELSE 1

\* pthread_create of stride_storeclwb or stride_nt.
CreateThread ==
  /\ At("create")
  /\ tid' = [tid EXCEPT ![Arg] = "joinable"]
  /\ thr' = [thr EXCEPT ![Arg] = [Idle EXCEPT !.pc = "start", !.arg = PassedStruct(Arg)]]
  /\ Advance
  /\ UNCHANGED <<fa, buf_sep1, buf_sep2, f1, f2, mem>>

\* pthread_create fails: a message, and main goes on with the old handle.
CreateFail ==
  /\ At("create")
  /\ Failures < MaxFail
  /\ tid' = [tid EXCEPT ![Arg] = "failed"]
  /\ Advance
  /\ UNCHANGED <<fa, buf_sep1, buf_sep2, f1, f2, thr, mem>>

\* pthread_join returns: the thread has ended, or the handle is one that
\* pthread_create did not set in this task.
JoinReturns(t) == tid[t] = "joinable" => thr[t].pc = "done"

JoinThread ==
  /\ At("join")
  /\ JoinReturns(Arg)
  /\ tid' = [tid EXCEPT ![Arg] = IF @ = "joinable" THEN "stale" ELSE @]
  /\ Advance
  /\ UNCHANGED <<fa, buf_sep1, buf_sep2, f1, f2, thr, mem>>

\* pthread_join of such a handle is undefined; it may also end the process.
JoinCrash ==
  /\ At("join")
  /\ tid[Arg] # "joinable"
  /\ exited' = TRUE
  /\ UNCHANGED <<phase, channel, cnt, curr, left, heap, nvmap, blocks,
                 job, task, step, buf_sep1, buf_sep2, f1, f2, tid, thr, mem>>

\* fast_free(alloc1), fast_free(alloc2).
FreeAllocator ==
  /\ At("free")
  /\ FA!FastFree(alloc(Arg))
  /\ Advance
  /\ UNCHANGED <<buf_sep1, buf_sep2, f1, f2, tid, thr, mem>>

----------------------------------------------------------------------------
(* The threads.                                                            *)

\* The struct behind the pointer thread t was created with.
StructOf(t) == IF thr[t].arg = 2 THEN f2[t[2]] ELSE f1[t[2]]

Running(t) == thr[t].pc \notin {"idle", "done"}

At_(t, label) == ~exited /\ ~Ended /\ thr[t].pc = label

Mapping(b) == CHOOSE m \in nvmap : m.owner = b.cur[1] /\ m.idx = b.reg

\* The line at r8 + r10 of the thread's buffer.
LineOf(t) ==
  <<Mapping(thr[t].buf).file, (thr[t].buf.off + thr[t].r8 + thr[t].r10) \div 64>>

\* The thread reads its struct, through the pointer it was given.
ThreadStart(t) ==
  /\ At_(t, "start")
  /\ thr' = [thr EXCEPT ![t] =
               [Idle EXCEPT !.pc = "access", !.arg = thr[t].arg, !.buf = StructOf(t)]]
  /\ UNCHANGED <<fa, job, task, step, buf_sep1, buf_sep2, f1, f2, tid, mem>>

\* The inner loop's step: r10 moves on, and the loop ends at access_size.
InnerNext(x) ==
  [x EXCEPT !.r10 = @ + 64, !.pc = IF x.r10 + 64 < access_size THEN "access" ELSE "fence"]

\* stride_storeclwb: vmovdqa64, and in a step of its own clwb.
WriterStore(t) ==
  /\ At_(t, "access") /\ t[1] = "w" /\ Mapping(thr[t].buf).mapped
  /\ mem' = Store(mem, {LineOf(t)})
  /\ thr' = [thr EXCEPT ![t].pc = "clwb"]
  /\ UNCHANGED <<fa, job, task, step, buf_sep1, buf_sep2, f1, f2, tid>>

WriterClwb(t) ==
  /\ At_(t, "clwb")
  /\ mem' = Clwb(mem, t, {LineOf(t)})
  /\ thr' = [thr EXCEPT ![t] = InnerNext(@)]
  /\ UNCHANGED <<fa, job, task, step, buf_sep1, buf_sep2, f1, f2, tid>>

\* stride_nt: vmovntdq, which is a store.
ReaderNt(t) ==
  /\ At_(t, "access") /\ t[1] = "r" /\ Mapping(thr[t].buf).mapped
  /\ mem' = NTStore(mem, t, {LineOf(t)})
  /\ thr' = [thr EXCEPT ![t] = InnerNext(@)]
  /\ UNCHANGED <<fa, job, task, step, buf_sep1, buf_sep2, f1, f2, tid>>

\* The buffer is MAP_FAILED: the first access ends the process.
AccessFault(t) ==
  /\ At_(t, "access") /\ ~Mapping(thr[t].buf).mapped
  /\ exited' = TRUE
  /\ UNCHANGED <<phase, channel, cnt, curr, left, heap, nvmap, blocks,
                 job, task, step, buf_sep1, buf_sep2, f1, f2, tid, thr, mem>>

\* A mutant: the kernels do not fence.
ThreadFenceNone(m, t) == m

\* SIZEBTST_FENCE, SIZEBTLD_FENCE: mfence.
ThreadFence(m, t) == Fence(m, t)

\* A mutant: the outer loop runs once too often.
OuterMoreLate(n) == n <= count

\* cmp count, r11; jl: the outer loop goes on.
OuterMore(n) == n < count

\* A mutant: the delay loop clears its counter on every pass and never ends.
ThreadNextSpins(t) ==
  /\ At_(t, "fence")
  /\ mem' = ThreadFence(mem, t)
  /\ thr' = [thr EXCEPT ![t].r10 = 0]
  /\ UNCHANGED <<fa, job, task, step, buf_sep1, buf_sep2, f1, f2, tid>>

\* The fence behind the inner loop, the delay, and the outer loop's test.
ThreadNext(t) ==
  /\ At_(t, "fence")
  /\ mem' = ThreadFence(mem, t)
  /\ thr' = [thr EXCEPT ![t].r8 = @ + stride_size, ![t].r10 = 0, ![t].r11 = @ + 1,
                         ![t].pc = IF OuterMore(thr[t].r11 + 1) THEN "access" ELSE "done"]
  /\ UNCHANGED <<fa, job, task, step, buf_sep1, buf_sep2, f1, f2, tid>>

----------------------------------------------------------------------------
MainNext ==
  \/ \E o \in {"ok", "mapfail"} : InitAllocator(o) \/ AllocBuffer(o)
  \/ set_arg \/ CreateThread \/ CreateFail \/ JoinThread \/ JoinCrash \/ FreeAllocator

ThreadStep(t) ==
  \/ ThreadStart(t) \/ WriterStore(t) \/ WriterClwb(t) \/ ReaderNt(t)
  \/ AccessFault(t) \/ ThreadNext(t)

Next == MainNext \/ \E t \in Thread : ThreadStep(t)

\* The operating system keeps running main and every thread.
Spec == Init /\ [][Next]_vars /\ WF_vars(MainNext) /\ \A t \in Thread : WF_vars(ThreadStep(t))

----------------------------------------------------------------------------
(* Properties.                                                             *)

\* main stays in its script, and a running thread at an offset its buffer has.
TypeOK ==
  /\ job \in 1 .. (Len(Jobs) + 1) /\ task \in 1 .. 3 /\ step \in 1 .. Len(Script(task))
  /\ tid \in [Thread -> {"stale", "joinable", "failed"}]
  /\ \A t \in Thread : thr[t].pc \in {"idle", "start", "access", "clwb", "fence", "done"}
  /\ \A t \in Thread : Running(t) => thr[t].r8 < count * stride_size
  /\ \A l \in PMLine : mem.per[l] <= mem.ver[l]

\* A thread that may still access memory.
Accessing(t) == Running(t) /\ thr[t].pc # "start"

\* No allocator is freed under a thread that uses its buffers or has yet to
\* read the struct that points to them, also when a pthread_create failed.
NoRunAfterFree ==
  \A t \in Thread : (Running(t) /\ ~exited) =>
    /\ phase[(IF Accessing(t) THEN thr[t].buf ELSE StructOf(t)).cur[1]] = "live"
    /\ Accessing(t) => thr[t].buf = StructOf(t)

\* The lines the thread's buffer was taken for.
LinesOf(t) ==
  {<<Mapping(thr[t].buf).file, thr[t].buf.off \div 64 + n>> : n \in 0 .. ((count * stride_size) \div 64 - 1)}

\* Two threads work on a common line of PM only if they are the writer and
\* the reader of one pair, in task 1, and no thread leaves its buffer.
PrivateBuffers ==
  /\ \A t, u \in Thread : (Accessing(t) /\ Accessing(u) /\ t # u) =>
       (LinesOf(t) \cap LinesOf(u) # {} => task = 1 /\ t[2] = u[2])
  /\ \A t \in Thread : thr[t].pc \in {"access", "clwb"} => LineOf(t) \in LinesOf(t)

\* Task 3: no reader runs beside a writer.
Task3Separate ==
  task = 3 => ~\E t, u \in Thread : t[1] = "w" /\ u[1] = "r" /\ Running(t) /\ Running(u)

\* Task 2: writers and readers never use the same channel at a time.
Task2Channels ==
  \A t, u \in Thread :
    (task = 2 /\ t[1] = "w" /\ u[1] = "r" /\ Accessing(t) /\ Accessing(u)) =>
      channel[thr[t].buf.cur[1]] # channel[thr[u].buf.cur[1]]

\* When a task frees its allocators, all that its threads stored is durable,
\* although writer and reader of a pair store to the same lines.
DurableAtFree == At("free") => Lost(mem) = {}

\* main returns, or the process ended at a failed mapping or thread handle.
Termination == <>(Ended \/ exited)

\* What task 3 announces: "rw on diff channel, but seperate".
Task3DiffChannel ==
  \A i \in Index :
    (At("free") /\ task = 3 /\ thr[<<"w", i>>].pc = "done" /\ thr[<<"r", i>>].pc = "done") =>
      channel[thr[<<"w", i>>].buf.cur[1]] # channel[thr[<<"r", i>>].buf.cur[1]]
============================================================================
