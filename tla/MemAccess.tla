----------------------------- MODULE MemAccess ------------------------------
(***************************************************************************)
(* The access kernels of memaccess.c: loops of AVX-512 loads and stores,   *)
(* cache-line write-backs and fences over a buffer of persistent memory.   *)
(* One behaviour is one call of one kernel by one thread.                  *)
(*                                                                         *)
(* Registers keep their names and hold what the kernel's comments say:     *)
(* byte offsets from start_addr and counters.  Every loop of the file has  *)
(* its test at the end, so its body runs at least once.  A macro of        *)
(* memaccess.h (SIZEBTST_512_AVX512 ...) is one step.  The delay loops     *)
(* only pass time and are left out.  Offsets are multiples of 64: the      *)
(* aligned AVX-512 instructions fault on any other.                        *)
(***************************************************************************)
EXTENDS PMem

CONSTANTS
  Call,     \* the calls considered: records of a kernel's name and arguments
  MaxLine,  \* bound of the model: the lines behind start_addr
  Taps,     \* the bits of $0xd800000000000000
  Width,    \* 64, the bits of the random seed
  Seeds     \* the values of *rand_seed, as functions 0 .. Width-1 -> {0, 1}

ASSUME MemAccessAssumption ==
  /\ MaxLine \in Nat /\ Width \in Nat \ {0}
  /\ Taps \subseteq 0 .. (Width - 1) /\ Width - 1 \in Taps
  /\ Seeds \subseteq [0 .. (Width - 1) -> {0, 1}]

VARIABLES
  call,     \* the call under way
  pc,       \* the label the thread is at
  r8, r9, r10, r11, rdx,
  seed,     \* *rand_seed
  mem,      \* the memory of PMem
  touched   \* history: the lines loaded or stored

vars == <<call, pc, r8, r9, r10, r11, rdx, seed, mem, touched>>

Strided == {"stride_load", "stride_nt", "stride_store", "stride_storeclwb",
            "clwb_nt_mixed", "stride_read_after_write"}
Sizebw  == {"sizebw_load", "sizebw_nt", "sizebw_store", "sizebw_storeclwb"}
Seq_    == {"seq_load", "seq_store", "seq_clwb", "seq_nt"}

\* The arguments, in bytes.  Strides and sizes are multiples of a line: the
\* aligned AVX-512 instructions fault on any other.  A stride of 0, or a size
\* of 0 of a seq_ kernel, never ends.
ASSUME CallAssumption ==
  \A c \in Call :
    \/ c.kernel \in Strided /\ c.size \in Int /\ c.count \in Int /\ c.skip \in Nat /\ c.skip % 64 = 0
    \/ c.kernel \in Sizebw /\ c.size \in Int /\ c.count \in Int /\ c.mask \subseteq 0 .. (Width - 1)
    \/ c.kernel = "cachefence" /\ c.size \in Int /\ c.cache \in Int /\ c.fence \in Int
    \/ c.kernel = "cacheprobe" /\ c.end \in Int /\ c.stride \in Nat \ {0} /\ c.stride % 64 = 0
    \/ c.kernel = "imcprobe" /\ c.end \in Int /\ c.loop \in Int
    \/ c.kernel \in Seq_ /\ c.end \in Int /\ c.size \in Nat \ {0} /\ c.size % 64 = 0

Self == 0
Line == 0 .. MaxLine

\* The n lines from byte offset off on.
Lines(off, n) == (off \div 64) .. (off \div 64 + n - 1)

----------------------------------------------------------------------------
(* The macros of memaccess.h.                                              *)

\* A mutant: the line is written back before it is stored to.
StoreFlushSwapped(m, S) == Store(Clwb(m, Self, S), S)

\* SIZEBTSTFLUSH_*: a store and a clwb of each line.
StoreFlush(m, S) == Clwb(Store(m, S), Self, S)

\* What the access macro of a kernel does to the lines S.
Access(kernel, m, S) ==
  CASE kernel \in {"stride_load", "sizebw_load", "seq_load"} -> m
    [] kernel \in {"stride_nt", "sizebw_nt", "seq_nt", "imcprobe"} -> NTStore(m, Self, S)
    [] kernel \in {"stride_store", "sizebw_store"} -> Store(m, S)
    [] OTHER -> StoreFlush(m, S)

Touch(m, S) == mem' = m /\ touched' = touched \cup S

\* cmp b, a; jl label: the test at the end of each loop.
Jl(a, b, label, next) == pc' = IF a < b THEN label ELSE next

----------------------------------------------------------------------------
Init ==
  /\ call \in Call
  /\ seed \in Seeds
  /\ pc = IF call.kernel \in Sizebw THEN "rand" ELSE "inner"
  /\ r8 = 0 /\ r9 = 0 /\ r10 = 0 /\ r11 = 0 /\ rdx = 0
  /\ mem = PMemZero(Line, {Self})
  /\ touched = {}

(* stride_load, stride_nt, stride_store, stride_storeclwb, clwb_nt_mixed   *)
(* and stride_read_after_write.                                            *)

\* One pass of the inner loop: one line at r8 + r10.
StrideAccess ==
  /\ pc = "inner" /\ call.kernel \in Strided
  /\ Touch(Access(call.kernel, mem, Lines(r8 + r10, 1)), Lines(r8 + r10, 1))
  /\ r10' = r10 + 64
  /\ Jl(r10', call.size, "inner", "fence")
  /\ UNCHANGED <<call, r8, r9, r11, rdx, seed>>

StrideFence ==
  /\ pc = "fence" /\ call.kernel \in Strided
  /\ mem' = Fence(mem, Self)
  /\ r10' = 0
  /\ pc' = IF call.kernel = "stride_read_after_write" THEN "inner2" ELSE "next"
  /\ UNCHANGED <<call, r8, r9, r11, rdx, seed, touched>>

\* The second inner loop of stride_read_after_write, vmovntdq stores to the
\* lines just written.
RawAccess ==
  /\ pc = "inner2"
  /\ Touch(NTStore(mem, Self, Lines(r8 + r10, 1)), Lines(r8 + r10, 1))
  /\ r10' = r10 + 64
  /\ Jl(r10', call.size, "inner2", "fence2")
  /\ UNCHANGED <<call, r8, r9, r11, rdx, seed>>

RawFence ==
  /\ pc = "fence2"
  /\ mem' = Fence(mem, Self)
  /\ r10' = 0
  /\ pc' = "next"
  /\ UNCHANGED <<call, r8, r9, r11, rdx, seed, touched>>

\* After the delay: the offset moves by skip, the counter by one.
StrideNext ==
  /\ pc = "next" /\ call.kernel \in Strided
  /\ r8' = r8 + call.skip
  /\ r11' = r11 + 1
  /\ Jl(r11', call.count, "inner", "done")
  /\ UNCHANGED <<call, r9, r10, rdx, seed, mem, touched>>

----------------------------------------------------------------------------
(* sizebw_load, sizebw_nt, sizebw_store and sizebw_storeclwb.              *)

\* A mutant: the feedback into the taps is left out.
Shift(s) == [i \in 0 .. (Width - 1) |-> IF i = Width - 1 THEN 0 ELSE s[i + 1]]

\* RandLFSR64: *rand_seed shifted right, and the taps flipped if the bit
\* shifted out was 1.
Lfsr(s) ==
  [i \in 0 .. (Width - 1) |->
     LET up == IF i = Width - 1 THEN 0 ELSE s[i + 1]
     IN  IF i \in Taps THEN (up + s[0]) % 2 ELSE up]

\* seed & accessmask; call.mask holds the positions of the mask's bits, in
\* lines.
Masked(s, mask) == 64 * MapThenSumSet(LAMBDA i : s[i] * 2^i, mask)

\* The highest offset a mask lets through, in lines.
MaskLines(mask) == MapThenSumSet(LAMBDA i : 2^i, mask)

\* The bits a mask lets through never add up to more than the mask.
MaskBound ==
  \A c \in Call, s \in [0 .. (Width - 1) -> {0, 1}] : c.kernel \in Sizebw =>
    MaskLines(c.mask) \in Nat /\ \E x \in 0 .. MaskLines(c.mask) : Masked(s, c.mask) = 64 * x

SizebwRand ==
  /\ pc = "rand"
  /\ seed' = Lfsr(seed)
  /\ r8' = Masked(seed', call.mask)
  /\ r10' = 0
  /\ pc' = "inner"
  /\ UNCHANGED <<call, r9, r11, rdx, mem, touched>>

\* The 512-byte macro touches eight lines however small the access size.
SizebwAccess ==
  /\ pc = "inner" /\ call.kernel \in Sizebw
  /\ Touch(Access(call.kernel, mem, Lines(r8 + r10, 8)), Lines(r8 + r10, 8))
  /\ r10' = r10 + 512
  /\ Jl(r10', call.size, "inner", "fence")
  /\ UNCHANGED <<call, r8, r9, r11, rdx, seed>>

\* The loop body holds four accesses and adds 4 to r11; the model adds 1
\* after each and tests the counter after the fourth.
SizebwFence ==
  /\ pc = "fence" /\ call.kernel \in Sizebw
  /\ mem' = Fence(mem, Self)
  /\ r11' = r11 + 1
  /\ IF r11' % 4 # 0 THEN pc' = "rand" ELSE Jl(r11', call.count, "rand", "done")
  /\ UNCHANGED <<call, r8, r9, r10, rdx, seed, touched>>

----------------------------------------------------------------------------
(* cachefence: stores, written back every cache bytes, fenced every fence  *)
(* bytes.  rdx is the next line to write back, r9 the next to store to.    *)

CacheWrite ==
  /\ pc = "inner" /\ call.kernel = "cachefence"
  /\ Touch(Store(mem, Lines(r9, 1)), Lines(r9, 1))
  /\ r9' = r9 + 64 /\ r10' = r10 + 64 /\ r11' = r11 + 64
  /\ Jl(r10', call.cache, "inner", "flush")
  /\ UNCHANGED <<call, r8, rdx, seed>>

\* A mutant: the flush loop runs once too often.
FlushMoreLate(next, end) == next <= end

\* cmp rcx, rdx; jl CACHEFENCE_FLUSHONE.
FlushMore(next, end) == next < end

\* A mutant: the flush loop stays at its line.
FlushNextSame(next) == next

\* add $0x40, rdx.
FlushNext(next) == next + 64

\* At the end of the flush loop comes CACHEFENCE_FLUSHBEGIN, at once or behind
\* the fence: r10 starts again at 0 and rdx at r9.
CacheFlush ==
  /\ pc = "flush"
  /\ mem' = Clwb(mem, Self, Lines(rdx, 1))
  /\ LET next == FlushNext(rdx) IN
     IF FlushMore(next, r9)
       THEN pc' = "flush" /\ rdx' = next /\ UNCHANGED r10
       ELSE /\ Jl(r11, call.fence, "inner", "fence")
            /\ r10' = 0 /\ rdx' = r9
  /\ UNCHANGED <<call, r8, r9, r11, seed, touched>>

\* A mutant: the counter of bytes since the last fence is not reset.
FenceCounterKept == r11

\* CACHEFENCE_FENCEBEGIN: xor r11, r11.
FenceCounter == 0

CacheFence ==
  /\ pc = "fence" /\ call.kernel = "cachefence"
  /\ mem' = Fence(mem, Self)
  /\ r11' = FenceCounter
  /\ Jl(r9, call.size, "inner", "done")
  /\ UNCHANGED <<call, r8, r9, r10, rdx, seed, touched>>

----------------------------------------------------------------------------
(* cacheprobe, imcprobe and the seq_ kernels.                              *)

\* cacheprobe stores to two lines at each stride and flushes them (clflush),
\* with one mfence at the end.
CacheProbe ==
  /\ pc = "inner" /\ call.kernel = "cacheprobe"
  /\ Touch(StoreFlush(mem, Lines(r8, 2)), Lines(r8, 2))
  /\ r8' = r8 + call.stride
  /\ Jl(r8', call.end, "inner", "fence")
  /\ UNCHANGED <<call, r9, r10, r11, rdx, seed>>

CacheProbeFence ==
  /\ pc = "fence" /\ call.kernel = "cacheprobe"
  /\ mem' = Fence(mem, Self)
  /\ pc' = "done"
  /\ UNCHANGED <<call, r8, r9, r10, r11, rdx, seed, touched>>

\* imcprobe: loop passes of vmovntdq over [start_addr, end_addr), no fence.
ImcProbe ==
  /\ pc = "inner" /\ call.kernel = "imcprobe"
  /\ Touch(Access("imcprobe", mem, Lines(r8, 1)), Lines(r8, 1))
  /\ IF r8 + 64 < call.end
       THEN r8' = r8 + 64 /\ UNCHANGED <<r9, pc>>
       ELSE r8' = 0 /\ r9' = r9 + 1 /\ Jl(r9', call.loop, "inner", "done")
  /\ UNCHANGED <<call, r10, r11, rdx, seed>>

\* seq_load, seq_store, seq_clwb, seq_nt: blocks of size bytes up to
\* end_addr, no fence.
SeqAccess ==
  /\ pc = "inner" /\ call.kernel \in Seq_
  /\ Touch(Access(call.kernel, mem, Lines(r9 + r8, 1)), Lines(r9 + r8, 1))
  /\ IF r8 + 64 < call.size
       THEN r8' = r8 + 64 /\ UNCHANGED <<r9, pc>>
       ELSE r8' = 0 /\ r9' = r9 + call.size /\ Jl(r9', call.end, "inner", "done")
  /\ UNCHANGED <<call, r10, r11, rdx, seed>>

Next ==
  \/ StrideAccess \/ StrideFence \/ RawAccess \/ RawFence \/ StrideNext
  \/ SizebwRand \/ SizebwAccess \/ SizebwFence
  \/ CacheWrite \/ CacheFlush \/ CacheFence
  \/ CacheProbe \/ CacheProbeFence \/ ImcProbe \/ SeqAccess

\* The thread that called the kernel keeps running.
Spec == Init /\ [][Next]_vars /\ WF_vars(Next)

----------------------------------------------------------------------------
(* Properties.                                                             *)

\* How often a loop that adds u before it tests against n runs.
Passes(n, u) == IF n <= u THEN 1 ELSE (n + u - 1) \div u

\* The lines cachefence writes between two fences.
FenceGroup(c) ==
  LET flush == Passes(c.cache, 64) IN flush * Passes(c.fence, 64 * flush)

\* The lines a call is to touch, from its arguments alone.
Footprint(c) ==
  CASE c.kernel \in Strided ->
         {i * (c.skip \div 64) + j : i \in 0 .. (Passes(c.count, 1) - 1),
                                     j \in 0 .. (Passes(c.size, 64) - 1)}
    [] c.kernel \in Sizebw ->
         0 .. (MaskLines(c.mask) + 8 * Passes(c.size, 512) - 1)
    [] c.kernel \in Seq_ ->
         {i * (c.size \div 64) + j : i \in 0 .. (Passes(c.end, c.size) - 1),
                                     j \in 0 .. (Passes(c.size, 64) - 1)}
    [] c.kernel = "cachefence" ->
         0 .. (FenceGroup(c) * Passes(c.size, 64 * FenceGroup(c)) - 1)
    [] c.kernel = "cacheprobe" ->
         {i * (c.stride \div 64) + j : i \in 0 .. (Passes(c.end, c.stride) - 1), j \in 0 .. 1}
    [] c.kernel = "imcprobe" -> 0 .. (Passes(c.end, 64) - 1)

\* The kernels that write lines back and fence them.
Fenced == {"stride_nt", "stride_storeclwb", "clwb_nt_mixed", "stride_read_after_write",
           "sizebw_nt", "sizebw_storeclwb", "cachefence"}

\* The most lines such a kernel has stored since its last fence.
LossWindow(c) ==
  CASE c.kernel \in Strided -> Passes(c.size, 64)
    [] c.kernel \in Sizebw  -> 8 * Passes(c.size, 512)
    [] OTHER                -> FenceGroup(c)

\* The buffer holds what the calls describe.
CallsFit == \A c \in Call : Footprint(c) \subseteq Line

\* The kernels are started with a seed other than 0.
SeedsSet == \A s \in Seeds : \E i \in 0 .. (Width - 1) : s[i] # 0

\* The registers are offsets and counters, cachefence flushes no line that it
\* has not stored to, no line is durable before it is stored to, and the seed
\* of the random offsets never gets stuck at 0.
TypeOK ==
  /\ call \in Call
  /\ pc \in {"rand", "inner", "fence", "inner2", "fence2", "flush", "next", "done"}
  /\ r8 \in Nat /\ r9 \in Nat /\ r10 \in Nat /\ r11 \in Nat
  /\ rdx \in 0 .. r9 /\ (pc = "flush" => rdx < r9)
  /\ touched \subseteq Line
  /\ \A l \in Line : mem.per[l] <= mem.ver[l]
  /\ call.kernel \in Sizebw => \E i \in 0 .. (Width - 1) : seed[i] # 0

\* A kernel touches the lines its arguments describe and no others: all of
\* them when it returns (the sizebw kernels: nothing beyond mask and size).
FootprintExact ==
  /\ touched \subseteq Footprint(call)
  /\ (pc = "done" /\ call.kernel \notin Sizebw) => touched = Footprint(call)

\* A power failure at any moment takes back at most what the kernel stored
\* since its last fence.
LossBounded == call.kernel \in Fenced => Cardinality(Lost(mem)) <= LossWindow(call)

\* Once a kernel that writes back and fences has passed the fence of an
\* access, or has returned, everything it stored is durable.  The kernels
\* without a fence return with stores under way; a single fence of the
\* caller makes all of them durable.
FencedDurable ==
  /\ (call.kernel \in Fenced \cup {"cacheprobe"} /\ pc \in {"rand", "next", "done"}) => Lost(mem) = {}
  /\ (call.kernel \in (Seq_ \cup {"imcprobe"}) /\ pc = "done") => Lost(Fence(mem, Self)) = {}

\* Every call returns, a size or count of 0 included.  (A seq_ kernel with
\* size 0 or a cacheprobe with stride 0 would not move on, and is left out
\* of Call.)
Termination == <>(pc = "done")
============================================================================
