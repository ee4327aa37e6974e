-------------------------- MODULE MemAccessProofs --------------------------
(***************************************************************************)
(* Proofs about MemAccess for any arguments: each kernel touches the lines *)
(* its arguments describe, its loss in a power failure is bounded, and     *)
(* what it has fenced is durable.                                          *)
(***************************************************************************)
EXTENDS MemAccess, PMemProofs

\* The first j lines of row a, and the first a rows of w lines, where rows
\* begin s lines apart.
Row(s, a, j) == {a * s + x : x \in 0 .. (j - 1)}
Grid(s, a, w) == {i * s + x : i \in 0 .. (a - 1), x \in 0 .. (w - 1)}

\* The kernels that send off what they store.
Flushing == Fenced \cup Seq_ \cup {"cacheprobe", "imcprobe"}

\* What may be under way, from the registers.
Since ==
  CASE call.kernel \in Strided -> Lines(r8, r10 \div 64)
    [] call.kernel \in Sizebw -> IF pc \in {"rand", "done"} THEN {} ELSE Lines(r8, r10 \div 64)
    [] call.kernel = "cachefence" -> Lines(r9 - r11, r11 \div 64)
    [] OTHER -> IF call.kernel = "cacheprobe" /\ pc = "done" THEN {} ELSE Line

\* A line that is not durable is on its way, or waits for cachefence's flush.
MemInv ==
  /\ MemOK(mem, Line, {Self})
  /\ call.kernel \in Flushing => \A l \in Line :
       \/ mem.per[l] = mem.ver[l]
       \/ /\ l \in Since
          /\ \/ <<l, mem.ver[l]>> \in mem.pend[Self]
             \/ call.kernel = "cachefence" /\ rdx <= 64 * l /\ 64 * l < r9

\* The registers a kernel does not use stay 0.
RegInv ==
  /\ call \in Call /\ seed \in [0 .. (Width - 1) -> {0, 1}]
  /\ r8 \in Int /\ r9 \in Nat /\ r10 \in Nat /\ r11 \in Nat /\ rdx \in Nat
  /\ call.kernel # "cachefence" => rdx = 0

\* Where the stride_ kernels are: row r11, line j of it.
StrideInv ==
  LET n == Passes(call.count, 1)
      w == Passes(call.size, 64)
      s == call.skip \div 64
  IN  /\ pc \in {"inner", "fence", "inner2", "fence2", "next", "done"}
      /\ pc \in {"inner2", "fence2"} => call.kernel = "stride_read_after_write"
      /\ r11 \in 0 .. n /\ (pc = "done" <=> r11 = n) /\ r8 = 64 * (r11 * s)
      /\ \E j \in 0 .. w :
           /\ r10 = 64 * j
           /\ pc \in {"inner", "inner2"} => j < w
           /\ pc \in {"fence", "fence2"} => j = w
           /\ pc \in {"next", "done"} => j = 0
           /\ touched = IF pc = "done" THEN Grid(s, n, w)
                        ELSE Grid(s, r11, w) \cup Row(s, r11, IF pc = "inner" THEN j ELSE w)

\* The sizebw_ kernels: a masked offset, and j times eight lines behind it.
SizebwInv ==
  LET w == Passes(call.size, 512) IN
  /\ pc \in {"rand", "inner", "fence", "done"}
  /\ \E x \in 0 .. MaskLines(call.mask) : r8 = 64 * x
  /\ \E j \in Nat :
       r10 = 512 * j /\ (pc \in {"inner", "fence"} => j <= w) /\ (pc = "inner" => j < w)
  /\ touched \subseteq 0 .. (MaskLines(call.mask) + 8 * w - 1)

\* The loops of cachefence: the lines of a flush, the flushes of a fence, and
\* the fences.
FlushLines(c) == Passes(c.cache, 64)
FlushCount(c) == Passes(c.fence, 64 * FlushLines(c))
FenceCount(c) == Passes(c.size, 64 * FenceGroup(c))

\* cachefence: h fences, since the last one m flushes, since the last one b
\* lines stored, of which the flush under way has written back d.
CacheInv ==
  LET F == FlushLines(call)
      K == FlushCount(call)
      G == FenceGroup(call)
      H == FenceCount(call)
  IN  /\ pc \in {"inner", "flush", "fence", "done"} /\ r8 = 0
      /\ \E h \in 0 .. H, m \in 0 .. K, b \in 0 .. F, d \in 0 .. F :
           /\ r9 = 64 * (G * h + F * m + b) /\ r10 = 64 * b
           /\ r11 = 64 * (F * m + b) /\ rdx = 64 * (G * h + F * m + d)
           /\ touched = 0 .. (G * h + F * m + b - 1)
           /\ pc \in {"inner", "flush"} => h < H /\ m < K
           /\ pc = "inner" => b < F /\ d = 0
           /\ pc = "flush" => b = F /\ d < F
           /\ pc = "fence" => h < H /\ m = K /\ b = 0 /\ d = 0
           /\ pc = "done" => h = H /\ m = 0 /\ b = 0 /\ d = 0

\* cacheprobe: i strides.
CacheProbeInv ==
  LET n == Passes(call.end, call.stride) IN
  /\ pc \in {"inner", "fence", "done"}
  /\ \E i \in 0 .. n :
       /\ r8 = 64 * (i * (call.stride \div 64))
       /\ touched = Grid(call.stride \div 64, i, 2)
       /\ pc = "inner" <=> i < n

\* imcprobe: line j, in the first pass or a later one.
ImcProbeInv ==
  LET w == Passes(call.end, 64) IN
  /\ pc \in {"inner", "done"} /\ (pc = "done" => r9 > 0)
  /\ \E j \in 0 .. (w - 1) :
       r8 = 64 * j /\ touched = 0 .. ((IF r9 = 0 THEN j ELSE w) - 1)

\* The seq_ kernels: block i, line j of it.
SeqInv ==
  LET n == Passes(call.end, call.size)
      w == call.size \div 64
  IN  /\ pc \in {"inner", "done"}
      /\ \E i \in 0 .. n, j \in 0 .. (w - 1) :
           /\ r9 = 64 * (i * w) /\ r8 = 64 * j
           /\ touched = Grid(w, i, w) \cup Row(w, i, j)
           /\ pc = "inner" <=> i < n
           /\ pc = "done" => j = 0

\* Each kernel where its registers say.
KernelInv ==
  /\ call.kernel \in Strided => StrideInv
  /\ call.kernel \in Sizebw => SizebwInv
  /\ call.kernel = "cachefence" => CacheInv
  /\ call.kernel = "cacheprobe" => CacheProbeInv
  /\ call.kernel = "imcprobe" => ImcProbeInv
  /\ call.kernel \in Seq_ => SeqInv

AccessInv == RegInv /\ KernelInv /\ MemInv

----------------------------------------------------------------------------
(* Arithmetic of loops with the test at the end.                           *)

\* Products are monotone.
LEMMA Scaled ==
  ASSUME NEW u \in Nat, NEW a \in Nat, NEW b \in Nat, a < b
  PROVE  a * u \in Nat /\ b * u \in Nat /\ a * u + u <= b * u
<1>1. PICK c \in Nat : b = a + 1 + c
  <2>1. b - a - 1 \in Nat /\ b = a + 1 + (b - a - 1)
    OBVIOUS
  <2> QED BY <2>1
<1>2. b * u = a * u + u + c * u /\ c * u \in Nat /\ a * u \in Nat
  BY <1>1, SMT
<1> QED BY <1>2, SMT

\* A loop that adds u and then tests against n leaves at pass Passes(n, u),
\* and not before.
LEMMA PassFacts ==
  ASSUME NEW n \in Int, NEW u \in Nat \ {0}
  PROVE  /\ Passes(n, u) \in Nat \ {0}
         /\ \A k \in 1 .. Passes(n, u) : k * u < n <=> k < Passes(n, u)
<1>1. CASE n <= u
  <2>1. Passes(n, u) = 1
    BY <1>1 DEF Passes
  <2>2. ~(1 * u < n)
    BY <1>1
  <2> QED BY <2>1, <2>2
<1>2. CASE u < n
  <2> DEFINE q == (n + u - 1) \div u
             r == (n + u - 1) % u
  <2>1. q \in Int /\ r \in 0 .. (u - 1) /\ n + u - 1 = q * u + r
    BY SMT
  <2>2. Passes(n, u) = q
    BY <1>2 DEF Passes
  <2> HIDE DEF q, r
  <2>3. q \in Nat \ {0}
    <3>1. CASE q < 1
      <4>1. q * u <= 0
        <5>1. PICK c \in Nat : q = 0 - c
          <6>1. 0 - q \in Nat /\ q = 0 - (0 - q)
            BY <2>1, <3>1
          <6> QED BY <6>1
        <5>2. q * u = 0 - c * u /\ c * u \in Nat
          BY <5>1, SMT
        <5> QED BY <5>2
      <4>2. q * u \in Int
        BY <2>1, SMT
      <4> QED BY <1>2, <2>1, <4>1, <4>2, SMT
    <3> QED BY <2>1, <3>1
  <2>4. ASSUME NEW k \in 1 .. q PROVE k * u < n <=> k < q
    <3>1. k \in Nat /\ q * u \in Nat /\ k * u \in Nat
      BY <2>3, SMT
    <3>2. CASE k < q
      <4>1. k * u + u <= q * u
        BY <2>3, <3>1, <3>2, Scaled
      <4>2. k * u + u <= n + u - 1
        BY <2>1, <3>1, <4>1
      <4> QED BY <3>1, <3>2, <4>2
    <3>3. CASE k = q
      BY <2>1, <3>1, <3>3
    <3> QED BY <2>3, <3>2, <3>3
  <2> QED BY <2>2, <2>3, <2>4
<1> QED BY <1>1, <1>2

\* The same where a pass adds one,
LEMMA CountPasses ==
  \A n \in Int : /\ Passes(n, 1) \in Nat \ {0}
                 /\ \A k \in 1 .. Passes(n, 1) : k < n <=> k < Passes(n, 1)
<1>1. 1 \in Nat \ {0}
  OBVIOUS
<1>2. ASSUME NEW n \in Int
      PROVE  /\ Passes(n, 1) \in Nat \ {0}
             /\ \A k \in 1 .. Passes(n, 1) : k * 1 < n <=> k < Passes(n, 1)
  BY <1>1, PassFacts
<1> QED BY <1>2

\* where it adds a line in bytes,
LEMMA LinePasses ==
  \A n \in Int : /\ Passes(n, 64) \in Nat \ {0}
                 /\ \A k \in 1 .. Passes(n, 64) : 64 * k < n <=> k < Passes(n, 64)
<1>1. 64 \in Nat \ {0}
  OBVIOUS
<1>2. ASSUME NEW n \in Int
      PROVE  /\ Passes(n, 64) \in Nat \ {0}
             /\ \A k \in 1 .. Passes(n, 64) : k * 64 < n <=> k < Passes(n, 64)
  BY <1>1, PassFacts
<1> QED BY <1>2

\* and where it adds eight lines.
LEMMA BlockPasses ==
  \A n \in Int : /\ Passes(n, 512) \in Nat \ {0}
                 /\ \A k \in 1 .. Passes(n, 512) : 512 * k < n <=> k < Passes(n, 512)
<1>1. 512 \in Nat \ {0}
  OBVIOUS
<1>2. ASSUME NEW n \in Int
      PROVE  /\ Passes(n, 512) \in Nat \ {0}
             /\ \A k \in 1 .. Passes(n, 512) : k * 512 < n <=> k < Passes(n, 512)
  BY <1>1, PassFacts
<1> QED BY <1>2

\* A row grows by one line, a grid by one row.
LEMMA GridFacts ==
  ASSUME NEW s \in Nat, NEW a \in Nat, NEW w \in Nat, NEW j \in Nat
  PROVE  /\ Row(s, a, 0) = {} /\ Grid(s, 0, w) = {}
         /\ Row(s, a, j + 1) = Row(s, a, j) \cup {a * s + j}
         /\ Grid(s, a + 1, w) = Grid(s, a, w) \cup Row(s, a, w)
<1>1. Row(s, a, 0) = {} /\ Grid(s, 0, w) = {}
  BY DEF Row, Grid
<1>2. Row(s, a, j + 1) = Row(s, a, j) \cup {a * s + j}
  <2>1. \A x : x \in 0 .. (j + 1 - 1) <=> x \in 0 .. (j - 1) \/ x = j
    OBVIOUS
  <2>2. ASSUME NEW y
        PROVE  y \in Row(s, a, j + 1) <=> y \in Row(s, a, j) \/ y = a * s + j
    <3>1. /\ y \in Row(s, a, j + 1) <=> \E x \in 0 .. (j + 1 - 1) : y = a * s + x
          /\ y \in Row(s, a, j) <=> \E x \in 0 .. (j - 1) : y = a * s + x
      BY DEF Row, Grid
    <3> QED BY ONLY <2>1, <3>1, Zenon
  <2> QED BY <2>2, Zenon
<1>3. Grid(s, a + 1, w) = Grid(s, a, w) \cup Row(s, a, w)
  <2>1. \A x : x \in 0 .. (a + 1 - 1) <=> x \in 0 .. (a - 1) \/ x = a
    OBVIOUS
  <2>2. ASSUME NEW y
        PROVE  y \in Grid(s, a + 1, w) <=> y \in Grid(s, a, w) \/ y \in Row(s, a, w)
    <3>1. /\ y \in Grid(s, a + 1, w) <=> \E i \in 0 .. (a + 1 - 1), x \in 0 .. (w - 1) : y = i * s + x
          /\ y \in Grid(s, a, w) <=> \E i \in 0 .. (a - 1), x \in 0 .. (w - 1) : y = i * s + x
          /\ y \in Row(s, a, w) <=> \E x \in 0 .. (w - 1) : y = a * s + x
      BY DEF Row, Grid
    <3> QED BY ONLY <2>1, <3>1, Zenon
  <2> QED BY <2>2, Zenon
<1> QED BY <1>1, <1>2, <1>3

\* Rows of one grid lie in it.
LEMMA GridGrows ==
  ASSUME NEW s \in Nat, NEW a \in Nat, NEW n \in Nat, NEW w \in Nat, NEW j \in 0 .. w
  PROVE  /\ a <= n => Grid(s, a, w) \subseteq Grid(s, n, w)
         /\ a < n => Row(s, a, j) \subseteq Grid(s, n, w)
<1>1. ASSUME a <= n, NEW y \in Grid(s, a, w) PROVE y \in Grid(s, n, w)
  <2>1. \A i \in 0 .. (a - 1) : i \in 0 .. (n - 1)
    BY <1>1
  <2>2. PICK i \in 0 .. (a - 1), x \in 0 .. (w - 1) : y = i * s + x
    BY <1>1 DEF Row, Grid
  <2> QED BY <2>1, <2>2 DEF Row, Grid
<1>2. ASSUME a < n, NEW y \in Row(s, a, j) PROVE y \in Grid(s, n, w)
  <2>1. a \in 0 .. (n - 1) /\ \A x \in 0 .. (j - 1) : x \in 0 .. (w - 1)
    BY <1>2
  <2>2. PICK x \in 0 .. (j - 1) : y = a * s + x
    BY <1>2 DEF Row, Grid
  <2> QED BY <2>1, <2>2 DEF Row, Grid
<1> QED BY <1>1, <1>2

\* Lines at an offset that is a multiple of 64.
LEMMA LineFacts ==
  ASSUME NEW x \in Int, NEW n \in Int
  PROVE  Lines(64 * x, n) = x .. (x + n - 1) /\ Lines(64 * x, 1) = {x}
<1>1. (64 * x) \div 64 = x /\ x .. (x + 1 - 1) = {x}
  OBVIOUS
<1> QED BY <1>1 DEF Lines

----------------------------------------------------------------------------
(* The memory.                                                             *)

\* An access sends off what it stores, if its kernel does that, and leaves
\* the other lines alone.
LEMMA AccessFacts ==
  ASSUME NEW k, NEW m, MemOK(m, Line, {Self}), NEW S
  PROVE  /\ MemOK(Access(k, m, S), Line, {Self})
         /\ k \in Flushing =>
              /\ m.pend[Self] \subseteq Access(k, m, S).pend[Self]
              /\ \A l \in Line :
                   \/ /\ Access(k, m, S).ver[l] = m.ver[l]
                      /\ Access(k, m, S).per[l] = m.per[l]
                   \/ l \in S /\ <<l, Access(k, m, S).ver[l]>> \in Access(k, m, S).pend[Self]
<1> DEFINE st == Store(m, S)
           a == Clwb(st, Self, S)
<1>1. /\ MemOK(st, Line, {Self}) /\ st.per = m.per /\ st.pend = m.pend
      /\ \A l \in Line : st.ver[l] = IF l \in S THEN m.ver[l] + 1 ELSE m.ver[l]
  BY StoreFacts
<1>2. /\ MemOK(a, Line, {Self}) /\ a.ver = st.ver /\ a.per = st.per
      /\ st.pend[Self] \subseteq a.pend[Self]
      /\ \A l \in S : <<l, st.ver[l]>> \in a.pend[Self]
  <2> HIDE DEF st
  <2> QED BY <1>1, ClwbFacts
<1>3. Access(k, m, S) \in {m, a, st} /\ (k \in Flushing => Access(k, m, S) \in {m, a})
  BY DEF Access, NTStore, StoreFlush, Flushing, Fenced, Seq_
<1> HIDE DEF st, a
<1>4. CASE Access(k, m, S) = m
  BY <1>4
<1>5. CASE Access(k, m, S) = a
  <2>1. m.pend[Self] \subseteq a.pend[Self]
    BY <1>1, <1>2
  <2>2. ASSUME NEW l \in Line
        PROVE  \/ a.ver[l] = m.ver[l] /\ a.per[l] = m.per[l]
               \/ l \in S /\ <<l, a.ver[l]>> \in a.pend[Self]
    BY <1>1, <1>2
  <2> QED BY <1>2, <1>5, <2>1, <2>2
<1>6. CASE Access(k, m, S) = st /\ k \notin Flushing
  BY <1>1, <1>6
<1> QED BY <1>3, <1>4, <1>5, <1>6

\* What has been stored since the last fence grows by an access.
LEMMA AccessStep ==
  ASSUME MemInv, call' = call, call.kernel # "cachefence",
         NEW k, call.kernel \in Flushing => k \in Flushing, NEW S, mem' = Access(k, mem, S),
         S \cap Line \subseteq Since', Since \cap Line \subseteq Since'
  PROVE  MemInv'
<1>1. MemOK(mem', Line, {Self})
  BY AccessFacts DEF MemInv
<1>2. ASSUME call.kernel \in Flushing, NEW l \in Line
      PROVE  \/ mem'.per[l] = mem'.ver[l]
             \/ l \in Since' /\ <<l, mem'.ver[l]>> \in mem'.pend[Self]
  <2>1. /\ mem.pend[Self] \subseteq mem'.pend[Self]
        /\ \/ mem'.ver[l] = mem.ver[l] /\ mem'.per[l] = mem.per[l]
           \/ l \in S /\ <<l, mem'.ver[l]>> \in mem'.pend[Self]
    BY <1>2, AccessFacts DEF MemInv
  <2>2. \/ mem.per[l] = mem.ver[l]
        \/ l \in Since /\ <<l, mem.ver[l]>> \in mem.pend[Self]
    BY <1>2 DEF MemInv
  <2> QED BY <2>1, <2>2
<1>3. Line' = Line
  BY DEF Line
<1> QED BY <1>1, <1>2, <1>3 DEF MemInv

\* A fence makes everything durable that has been sent off.
LEMMA FenceStep ==
  ASSUME MemInv, call' = call, mem' = Fence(mem, Self),
         call.kernel = "cachefence" => r9 <= rdx, r9 \in Nat, rdx \in Nat
  PROVE  /\ MemInv'
         /\ call.kernel \in Flushing => \A l \in Line : mem'.per[l] = mem'.ver[l]
<1>1. MemOK(mem, Line, {Self}) /\ MemOK(mem', Line, {Self}) /\ mem'.ver = mem.ver
  BY FenceFacts DEF MemInv
<1>2. ASSUME call.kernel \in Flushing, NEW l \in Line
      PROVE  mem'.per[l] = mem'.ver[l]
  <2>1. mem.per[l] = mem.ver[l] \/ <<l, mem.ver[l]>> \in mem.pend[Self]
    <3>1. ~(call.kernel = "cachefence" /\ rdx <= 64 * l /\ 64 * l < r9)
      BY <1>2 DEF Line
    <3> QED BY <1>2, <3>1 DEF MemInv
  <2>2. mem.per[l] <= mem'.per[l] /\ (<<l, mem.ver[l]>> \in mem.pend[Self] => mem'.per[l] = mem.ver[l])
    BY <1>1, FenceFacts
  <2>3. mem'.per[l] <= mem'.ver[l] /\ mem'.per[l] \in Nat /\ mem'.ver[l] \in Nat
    BY <1>1 DEF MemOK
  <2> QED BY <1>1, <2>1, <2>2, <2>3
<1>3. Line' = Line
  BY DEF Line
<1> QED BY <1>1, <1>2, <1>3 DEF MemInv

\* Where the memory stays, registers may move on.
LEMMA MemSame ==
  ASSUME MemInv, call' = call, mem' = mem, Since \cap Line \subseteq Since',
         call.kernel = "cachefence" => rdx' = rdx /\ r9' = r9
  PROVE  MemInv'
<1>1. Line' = Line
  BY DEF Line
<1>2. ASSUME call.kernel \in Flushing, NEW l \in Line
      PROVE  \/ mem.per[l] = mem.ver[l]
             \/ /\ l \in Since'
                /\ \/ <<l, mem.ver[l]>> \in mem.pend[Self]
                   \/ call.kernel = "cachefence" /\ rdx' <= 64 * l /\ 64 * l < r9'
  BY <1>2 DEF MemInv
<1> QED BY <1>1, <1>2 DEF MemInv

----------------------------------------------------------------------------
(* The kernels, one by one.                                                *)

\* Each loop of cachefence runs at least once.
LEMMA CacheSizes ==
  ASSUME NEW c, c.size \in Int, c.cache \in Int, c.fence \in Int
  PROVE  /\ FlushLines(c) \in Nat \ {0} /\ FlushCount(c) \in Nat \ {0}
         /\ FenceGroup(c) \in Nat \ {0} /\ FenceCount(c) \in Nat \ {0}
         /\ FenceGroup(c) = FlushLines(c) * FlushCount(c)
<1> DEFINE F == FlushLines(c)
           K == FlushCount(c)
           G == F * K
<1>1. F \in Nat \ {0}
  BY PassFacts DEF FlushLines
<1>2. K \in Nat \ {0}
  <2>1. 64 * F \in Nat \ {0}
    BY <1>1
  <2> HIDE DEF F
  <2> QED BY <2>1, PassFacts DEF FlushCount, F
<1>3. FenceGroup(c) = G
  BY DEF FenceGroup, FlushLines, FlushCount
<1> HIDE DEF F, K
<1>4. G \in Nat \ {0}
  <2>1. 0 * F + F <= K * F /\ K * F \in Nat
    BY <1>1, <1>2, Scaled
  <2>2. K * F = F * K /\ 0 * F = 0
    BY <1>1, <1>2, SMT
  <2> QED BY <1>1, <2>1, <2>2
<1> HIDE DEF G
<1>5. Passes(c.size, 64 * G) \in Nat \ {0}
  <2>1. 64 * G \in Nat \ {0}
    BY <1>4
  <2> QED BY <2>1, PassFacts
<1>6. FenceCount(c) = Passes(c.size, 64 * G)
  BY <1>3 DEF FenceCount
<1> QED BY <1>1, <1>2, <1>3, <1>4, <1>5, <1>6 DEF F, K, G

\* At the start nothing is touched, and every loop is before its first pass.
LEMMA AccessInit == MaskBound /\ Init => AccessInv
<1> SUFFICES ASSUME MaskBound, Init PROVE AccessInv
  OBVIOUS
<1>1. /\ r8 = 0 /\ r9 = 0 /\ r10 = 0 /\ r11 = 0 /\ rdx = 0 /\ touched = {}
      /\ pc = IF call.kernel \in Sizebw THEN "rand" ELSE "inner"
  BY DEF Init
<1>2. RegInv
  BY <1>1, MemAccessAssumption DEF Init, RegInv
<1>3. MemInv
  <2>1. mem = PMemZero(Line, {Self})
    BY DEF Init
  <2>2. MemOK(mem, Line, {Self}) /\ \A l \in Line : mem.per[l] = 0 /\ mem.ver[l] = 0
    BY ZeroFacts, <2>1
  <2> QED BY <2>2 DEF MemInv
<1>4. ASSUME call.kernel \in Strided PROVE StrideInv
  <2>1. call.count \in Int /\ call.size \in Int /\ call.skip \in Nat
    BY <1>4, CallAssumption DEF Init, Strided, Sizebw, Seq_
  <2> DEFINE n == Passes(call.count, 1)
             w == Passes(call.size, 64)
             s == call.skip \div 64
  <2>2. n \in Nat \ {0} /\ w \in Nat \ {0} /\ s \in Nat
    <3>1. n \in Nat \ {0}
      <4>1. 1 \in Nat \ {0}
        OBVIOUS
      <4> QED BY <2>1, <4>1, PassFacts
    <3>2. w \in Nat \ {0}
      BY <2>1, PassFacts
    <3>3. s \in Nat
      BY <2>1
    <3> QED BY <3>1, <3>2, <3>3
  <2>3. pc = "inner"
    BY <1>1, <1>4 DEF Strided, Sizebw
  <2> HIDE DEF n, w, s
  <2>4. Grid(s, 0, w) = {} /\ Row(s, 0, 0) = {} /\ 0 * s = 0
    BY <2>2, GridFacts
  <2>5. /\ r11 \in 0 .. n /\ (pc = "done" <=> r11 = n) /\ r8 = 64 * (r11 * s)
    BY <1>1, <2>2, <2>3, <2>4
  <2>6. /\ 0 \in 0 .. w /\ r10 = 64 * 0 /\ 0 < w
        /\ touched = Grid(s, r11, w) \cup Row(s, r11, 0)
    BY <1>1, <2>2, <2>4
  <2> QED BY <2>3, <2>5, <2>6 DEF StrideInv, n, w, s
<1>5. ASSUME call.kernel \in Sizebw, MaskLines(call.mask) \in Nat PROVE SizebwInv
  <2>1. 0 \in 0 .. MaskLines(call.mask) /\ r8 = 64 * 0 /\ 0 \in Nat /\ r10 = 512 * 0 /\ pc = "rand" /\ touched = {}
    BY <1>1, <1>5
  <2> QED BY <2>1 DEF SizebwInv
<1>6. ASSUME call.kernel = "cachefence" PROVE CacheInv
  <2>1. call.size \in Int /\ call.cache \in Int /\ call.fence \in Int
    BY <1>6, CallAssumption DEF Init, Strided, Sizebw, Seq_
  <2> DEFINE F == FlushLines(call)
             K == FlushCount(call)
             G == FenceGroup(call)
             H == FenceCount(call)
  <2>2. F \in Nat \ {0} /\ K \in Nat \ {0} /\ G \in Nat \ {0} /\ H \in Nat \ {0}
    BY <2>1, CacheSizes
  <2> HIDE DEF F, K, G, H
  <2>3. pc = "inner" /\ G * 0 = 0 /\ F * 0 = 0
    BY <1>1, <1>6, <2>2 DEF Sizebw
  <2>4. /\ 0 \in 0 .. H /\ 0 \in 0 .. K /\ 0 \in 0 .. F
        /\ r9 = 64 * (G * 0 + F * 0 + 0) /\ r10 = 64 * 0
        /\ r11 = 64 * (F * 0 + 0) /\ rdx = 64 * (G * 0 + F * 0 + 0)
        /\ touched = 0 .. (G * 0 + F * 0 + 0 - 1)
        /\ 0 < H /\ 0 < K /\ 0 < F
    BY <1>1, <2>2, <2>3
  <2>5. \E h \in 0 .. H, m \in 0 .. K, b \in 0 .. F, d \in 0 .. F :
          /\ r9 = 64 * (G * h + F * m + b) /\ r10 = 64 * b
          /\ r11 = 64 * (F * m + b) /\ rdx = 64 * (G * h + F * m + d)
          /\ touched = 0 .. (G * h + F * m + b - 1)
          /\ pc \in {"inner", "flush"} => h < H /\ m < K
          /\ pc = "inner" => b < F /\ d = 0
          /\ pc = "flush" => b = F /\ d < F
          /\ pc = "fence" => h < H /\ m = K /\ b = 0 /\ d = 0
          /\ pc = "done" => h = H /\ m = 0 /\ b = 0 /\ d = 0
    BY <2>3, <2>4
  <2> QED BY <1>1, <2>3, <2>5 DEF CacheInv, F, K, G, H
<1>7. ASSUME call.kernel = "cacheprobe" PROVE CacheProbeInv
  <2>1. call.end \in Int /\ call.stride \in Nat \ {0}
    BY <1>7, CallAssumption DEF Init, Strided, Sizebw, Seq_
  <2> DEFINE n == Passes(call.end, call.stride)
             s == call.stride \div 64
  <2>2. n \in Nat \ {0} /\ s \in Nat
    <3>1. n \in Nat \ {0}
      BY <2>1, PassFacts
    <3>2. s \in Nat
      BY <2>1
    <3> QED BY <3>1, <3>2
  <2> HIDE DEF n, s
  <2>3. Grid(s, 0, 2) = {} /\ 0 * s = 0 /\ 0 \in 0 .. n /\ 0 < n /\ pc = "inner"
    BY <1>1, <1>7, <2>2, GridFacts DEF Sizebw
  <2> QED BY <1>1, <2>3 DEF CacheProbeInv, n, s
<1>8. ASSUME call.kernel = "imcprobe" PROVE ImcProbeInv
  <2>1. call.end \in Int
    BY <1>8, CallAssumption DEF Init, Strided, Sizebw, Seq_
  <2>2. Passes(call.end, 64) \in Nat \ {0}
    BY <2>1, PassFacts
  <2>3. 0 \in 0 .. (Passes(call.end, 64) - 1) /\ pc = "inner" /\ touched = 0 .. (0 - 1)
    BY <1>1, <1>8, <2>2 DEF Sizebw
  <2> QED BY <1>1, <2>3 DEF ImcProbeInv
<1>9. ASSUME call.kernel \in Seq_ PROVE SeqInv
  <2>1. call.end \in Int /\ call.size \in Nat \ {0} /\ call.size % 64 = 0
    BY <1>9, CallAssumption DEF Init, Strided, Sizebw, Seq_
  <2> DEFINE n == Passes(call.end, call.size)
             w == call.size \div 64
  <2>2. n \in Nat \ {0} /\ w \in Nat \ {0}
    <3>1. n \in Nat \ {0}
      BY <2>1, PassFacts
    <3>2. w \in Nat \ {0}
      BY <2>1
    <3> QED BY <3>1, <3>2
  <2>3. pc = "inner"
    BY <1>1, <1>9 DEF Sizebw, Seq_
  <2> HIDE DEF n, w
  <2>4. /\ 0 * w = 0 /\ 0 \in 0 .. n /\ 0 < n /\ 0 \in 0 .. (w - 1)
        /\ Grid(w, 0, w) = {} /\ Row(w, 0, 0) = {}
    BY <2>2, GridFacts
  <2> QED BY <1>1, <2>3, <2>4 DEF SeqInv, n, w
<1>10. call.kernel \in Sizebw => MaskLines(call.mask) \in Nat
  <2>1. [i \in 0 .. (Width - 1) |-> 0] \in [0 .. (Width - 1) -> {0, 1}]
    OBVIOUS
  <2> QED BY <2>1 DEF Init, MaskBound
<1> QED BY <1>2, <1>3, <1>4, <1>5, <1>6, <1>7, <1>8, <1>9, <1>10 DEF AccessInv, KernelInv

\* Every call is one of six kinds, with arguments of its kind.
LEMMA KernelKinds ==
  ASSUME AccessInv
  PROVE  /\ \/ call.kernel \in Strided \/ call.kernel \in Sizebw \/ call.kernel = "cachefence"
            \/ call.kernel = "cacheprobe" \/ call.kernel = "imcprobe" \/ call.kernel \in Seq_
         /\ call.kernel \in Strided => /\ call.size \in Int /\ call.count \in Int /\ call.skip \in Nat
                                       /\ call.skip % 64 = 0
         /\ call.kernel \in Sizebw => call.size \in Int /\ call.count \in Int
         /\ call.kernel = "cachefence" => call.size \in Int /\ call.cache \in Int /\ call.fence \in Int
         /\ call.kernel = "cacheprobe" => /\ call.end \in Int /\ call.stride \in Nat \ {0}
                                          /\ call.stride % 64 = 0
         /\ call.kernel = "imcprobe" => call.end \in Int
         /\ call.kernel \in Seq_ => call.end \in Int /\ call.size \in Nat \ {0} /\ call.size % 64 = 0
BY CallAssumption DEF AccessInv, RegInv, Strided, Sizebw, Seq_

\* A step of the stride_ kernels.
LEMMA StrideStep ==
  ASSUME AccessInv, StrideAccess \/ StrideFence \/ RawAccess \/ RawFence \/ StrideNext
  PROVE  AccessInv'
<1> DEFINE n == Passes(call.count, 1)
           w == Passes(call.size, 64)
           s == call.skip \div 64
           a == r11 * s
<1>1. call.kernel \in Strided
  <2>1. CASE StrideAccess \/ StrideFence \/ StrideNext
    BY <2>1 DEF StrideAccess, StrideFence, StrideNext
  <2>2. CASE pc \in {"inner2", "fence2"}
    BY <2>2, KernelKinds DEF AccessInv, KernelInv, SizebwInv, CacheInv, CacheProbeInv, ImcProbeInv, SeqInv
  <2> QED BY <2>1, <2>2 DEF RawAccess, RawFence
<1>2. call.size \in Int /\ call.count \in Int /\ call.skip \in Nat /\ call.skip = 64 * s /\ s \in Nat
  <2>1. call.size \in Int /\ call.count \in Int /\ call.skip \in Nat /\ call.skip % 64 = 0
    BY <1>1, KernelKinds
  <2> QED BY <2>1
<1>3. w \in Nat \ {0} /\ \A k \in 1 .. w : 64 * k < call.size <=> k < w
  BY <1>2, LinePasses, Zenon
<1>4. n \in Nat \ {0} /\ \A k \in 1 .. n : k < call.count <=> k < n
  BY <1>2, CountPasses, Zenon
<1>5. StrideInv /\ RegInv /\ MemInv
  BY <1>1 DEF AccessInv, KernelInv
<1>6. /\ call' = call /\ r9' = r9 /\ rdx' = rdx /\ seed' = seed
      /\ pc' = "done" => StrideNext
  BY DEF StrideAccess, StrideFence, RawAccess, RawFence, StrideNext, Jl, Touch
<1>7. n' = n /\ w' = w /\ s' = s
  BY <1>6
<1> HIDE DEF n, w, s
<1>8. r11 \in 0 .. n /\ (pc = "done" <=> r11 = n) /\ r8 = 64 * a
      /\ (pc \in {"inner2", "fence2"} => call.kernel = "stride_read_after_write")
  BY <1>5 DEF StrideInv, n, s
<1>9. PICK j \in 0 .. w :
        /\ r10 = 64 * j
        /\ pc \in {"inner", "inner2"} => j < w
        /\ pc \in {"fence", "fence2"} => j = w
        /\ pc \in {"next", "done"} => j = 0
        /\ touched = IF pc = "done" THEN Grid(s, n, w)
                     ELSE Grid(s, r11, w) \cup Row(s, r11, IF pc = "inner" THEN j ELSE w)
  BY <1>5 DEF StrideInv, n, w, s
<1>10. /\ r11 \in Nat /\ a \in Nat /\ j \in Nat
  BY <1>2, <1>3, <1>4, <1>8, <1>9
<1> HIDE DEF a
<1>11. Since = a .. (a + j - 1) /\ Lines(r8 + r10, 1) = {a + j}
  <2>1. r8 = 64 * a /\ r10 = 64 * j /\ r10 \div 64 = j /\ r8 + r10 = 64 * (a + j)
    BY <1>8, <1>9, <1>10
  <2>2. Lines(r8, j) = a .. (a + j - 1)
    BY <1>10, <2>1, LineFacts
  <2>3. Lines(64 * (a + j), 1) = {a + j}
    <3> DEFINE c == a + j
    <3>1. c \in Int
      BY <1>10
    <3> HIDE DEF c
    <3>2. Lines(64 * c, 1) = {c}
      BY <3>1, LineFacts
    <3> QED BY <3>2 DEF c
  <2> QED BY <1>1, <2>1, <2>2, <2>3 DEF Since, Strided, Sizebw
<1>12. ASSUME r8' = r8, NEW i \in Nat, r10' = 64 * i
       PROVE  Since' = a .. (a + i - 1)
  <2>1. r8' = 64 * a /\ r10' \div 64 = i
    BY <1>8, <1>12
  <2>2. Lines(r8', i) = a .. (a + i - 1)
    BY <1>10, <1>12, <2>1, LineFacts
  <2>3. Since' = Lines(r8', r10' \div 64)
    BY <1>1, <1>6 DEF Since, Strided, Sizebw
  <2> QED BY <2>1, <2>2, <2>3
<1>13. ASSUME StrideInv', RegInv', MemInv' PROVE AccessInv'
  BY <1>1, <1>6, <1>13 DEF AccessInv, KernelInv, Strided, Sizebw, Seq_
<1>14. RegInv'
  <2>1. r8 \in Int /\ r10 \in Nat /\ r11 \in Nat
    BY <1>5 DEF RegInv
  <2>2. r8' \in Int /\ r10' \in Nat /\ r11' \in Nat
    BY <1>2, <2>1 DEF StrideAccess, StrideFence, RawAccess, RawFence, StrideNext
  <2> QED BY <1>1, <1>5, <1>6, <2>2 DEF RegInv
<1>15. ASSUME NEW i \in 0 .. w, r10' = 64 * i, r11' = r11, r8' = r8, pc # "done",
              pc' \in {"inner", "fence", "inner2", "fence2", "next"},
              pc' \in {"inner2", "fence2"} => call.kernel = "stride_read_after_write",
              pc' \in {"inner", "inner2"} => i < w,
              pc' \in {"fence", "fence2"} => i = w,
              pc' = "next" => i = 0,
              touched' = Grid(s, r11, w) \cup Row(s, r11, IF pc' = "inner" THEN i ELSE w)
       PROVE  StrideInv'
  <2>1. r11' \in 0 .. n /\ ~(pc' = "done") /\ ~(r11' = n) /\ r8' = 64 * (r11' * s)
    BY <1>8, <1>15 DEF a
  <2> QED BY <1>6, <1>7, <1>15, <2>1 DEF StrideInv, n, w, s
<1>16. CASE StrideAccess
  <2>1. /\ pc = "inner" /\ mem' = Access(call.kernel, mem, Lines(r8 + r10, 1))
        /\ touched' = touched \cup {a + j} /\ r10' = 64 * (j + 1)
        /\ pc' = (IF r10' < call.size THEN "inner" ELSE "fence")
        /\ r8' = r8 /\ r11' = r11
    BY <1>9, <1>10, <1>11, <1>16 DEF StrideAccess, Touch, Jl
  <2>2. j < w /\ j + 1 \in 0 .. w /\ (r10' < call.size <=> j + 1 < w)
    <3> DEFINE k == j + 1
    <3>1. j < w /\ k \in 1 .. w /\ r10' = 64 * k
      BY <1>3, <1>9, <2>1
    <3>2. k \in 0 .. w
      BY <1>3, <3>1
    <3> HIDE DEF k
    <3>3. r10' < call.size <=> k < w
      BY <1>3, <3>1
    <3> QED BY <3>1, <3>2, <3>3 DEF k
  <2>3. Row(s, r11, j + 1) = Row(s, r11, j) \cup {a + j}
    BY <1>2, <1>3, <1>10, GridFacts DEF a
  <2>4. touched' = Grid(s, r11, w) \cup Row(s, r11, j + 1)
    BY <1>9, <2>1, <2>3
  <2>5. (pc' = "inner" /\ j + 1 < w) \/ (pc' = "fence" /\ j + 1 = w)
    <3>1. j + 1 < w \/ j + 1 = w
      BY <1>3, <1>10, <2>2
    <3> QED BY <2>1, <2>2, <3>1
  <2>6. touched' = Grid(s, r11, w) \cup Row(s, r11, IF pc' = "inner" THEN j + 1 ELSE w)
    BY <2>4, <2>5
  <2>7. StrideInv'
    BY <1>15, <2>1, <2>2, <2>5, <2>6
  <2>8. MemInv'
    <3>1. Since' = a .. (a + (j + 1) - 1)
      BY <1>10, <1>12, <2>1
    <3>2. Since \subseteq Since' /\ {a + j} \subseteq Since'
      BY <1>10, <1>11, <3>1
    <3>3. call.kernel # "cachefence"
      BY <1>1 DEF Strided
    <3> QED BY <1>5, <1>6, <1>11, <2>1, <3>2, <3>3, AccessStep
  <2> QED BY <1>13, <1>14, <2>7, <2>8
<1>17. CASE RawAccess
  <2>1. /\ pc = "inner2" /\ mem' = NTStore(mem, Self, Lines(r8 + r10, 1))
        /\ touched' = touched \cup {a + j} /\ r10' = 64 * (j + 1)
        /\ pc' = (IF r10' < call.size THEN "inner2" ELSE "fence2")
        /\ r8' = r8 /\ r11' = r11
    BY <1>9, <1>10, <1>11, <1>17 DEF RawAccess, Touch, Jl
  <2>2. j < w /\ j + 1 \in 0 .. w /\ (r10' < call.size <=> j + 1 < w)
    <3> DEFINE k == j + 1
    <3>1. j < w /\ k \in 1 .. w /\ r10' = 64 * k
      BY <1>3, <1>9, <2>1
    <3>2. k \in 0 .. w
      BY <1>3, <3>1
    <3> HIDE DEF k
    <3>3. r10' < call.size <=> k < w
      BY <1>3, <3>1
    <3> QED BY <3>1, <3>2, <3>3 DEF k
  <2>3. a + j \in Row(s, r11, w)
    <3>1. j \in 0 .. (w - 1) /\ a + j = r11 * s + j
      BY <1>3, <1>10, <2>2 DEF a
    <3> QED BY <3>1 DEF Row
  <2>4. touched' = Grid(s, r11, w) \cup Row(s, r11, w)
    BY <1>9, <2>1, <2>3
  <2>5. (pc' = "inner2" /\ j + 1 < w) \/ (pc' = "fence2" /\ j + 1 = w)
    <3>1. j + 1 < w \/ j + 1 = w
      BY <1>3, <1>10, <2>2
    <3> QED BY <2>1, <2>2, <3>1
  <2>6. touched' = Grid(s, r11, w) \cup Row(s, r11, IF pc' = "inner" THEN j + 1 ELSE w)
    BY <2>4, <2>5
  <2>7. StrideInv'
    BY <1>8, <1>15, <2>1, <2>2, <2>5, <2>6
  <2>8. MemInv'
    <3>1. Since' = a .. (a + (j + 1) - 1)
      BY <1>10, <1>12, <2>1
    <3>2. Since \subseteq Since' /\ {a + j} \subseteq Since'
      BY <1>10, <1>11, <3>1
    <3>3. call.kernel # "cachefence" /\ "stride_nt" \in Flushing
          /\ mem' = Access("stride_nt", mem, Lines(r8 + r10, 1))
      BY <1>1, <2>1 DEF Strided, Flushing, Fenced, Access
    <3> QED BY <1>5, <1>6, <1>11, <3>2, <3>3, AccessStep
  <2> QED BY <1>13, <1>14, <2>7, <2>8
<1>18. CASE StrideFence \/ RawFence
  <2>1. /\ pc \in {"fence", "fence2"} /\ mem' = Fence(mem, Self) /\ r10' = 64 * 0
        /\ pc' = (IF pc = "fence" /\ call.kernel = "stride_read_after_write" THEN "inner2" ELSE "next")
        /\ r8' = r8 /\ r11' = r11 /\ touched' = touched
    BY <1>18 DEF StrideFence, RawFence
  <2>2. StrideInv'
    <3>1. pc # "done" /\ pc # "inner" /\ pc' \in {"inner2", "next"} /\ pc' # "inner"
          /\ (pc' = "inner2" => call.kernel = "stride_read_after_write")
      BY <2>1
    <3>2. 0 \in 0 .. w /\ 0 < w
      BY <1>3
    <3>3. touched' = Grid(s, r11, w) \cup Row(s, r11, w)
      BY <1>9, <2>1, <3>1
    <3> QED BY <1>15, <2>1, <3>1, <3>2, <3>3
  <2>3. MemInv'
    <3>1. call.kernel # "cachefence" /\ r9 \in Nat /\ rdx \in Nat
      BY <1>1, <1>5 DEF Strided, RegInv
    <3> QED BY <1>5, <1>6, <2>1, <3>1, FenceStep
  <2> QED BY <1>13, <1>14, <2>2, <2>3
<1>19. CASE StrideNext
  <2>1. /\ pc = "next" /\ mem' = mem /\ r8' = r8 + call.skip /\ r11' = r11 + 1 /\ r10' = r10
        /\ pc' = (IF r11' < call.count THEN "inner" ELSE "done") /\ touched' = touched
    BY <1>19 DEF StrideNext, Jl
  <2>2. j = 0 /\ r10 = 0 /\ r11 # n /\ touched = Grid(s, r11, w) \cup Row(s, r11, w)
    BY <1>8, <1>9, <2>1
  <2>3. r11 + 1 \in 1 .. n /\ (r11' < call.count <=> r11 + 1 < n)
    <3>1. r11 + 1 \in 1 .. n /\ r11 + 1 = r11'
      BY <1>4, <1>8, <1>10, <2>1, <2>2
    <3> QED BY <1>4, <3>1
  <2>4. r8' = 64 * (r11' * s)
    <3>1. (r11 + 1) * s = a + s
      BY <1>2, <1>10, SMT DEF a
    <3> QED BY <1>2, <1>8, <1>10, <2>1, <3>1
  <2>5. touched' = Grid(s, r11', w) /\ Row(s, r11', 0) = {}
    <3>1. r11' \in Nat
      BY <1>10, <2>1
    <3> QED BY <1>2, <1>3, <1>10, <2>1, <2>2, <3>1, GridFacts
  <2>6. (pc' = "inner" /\ r11' < n) \/ (pc' = "done" /\ r11' = n)
    <3>1. r11' < n \/ r11' = n
      BY <1>4, <1>10, <2>1, <2>3
    <3> QED BY <2>1, <2>3, <3>1
  <2>7. StrideInv'
    <3>1. r11' \in 0 .. n /\ (pc' = "done" <=> r11' = n) /\ 0 \in 0 .. w /\ 0 < w /\ r10' = 64 * 0
      BY <1>3, <1>4, <2>1, <2>2, <2>3, <2>6
    <3>2. touched' = IF pc' = "done" THEN Grid(s, n, w)
                     ELSE Grid(s, r11', w) \cup Row(s, r11', IF pc' = "inner" THEN 0 ELSE w)
      BY <2>5, <2>6
    <3> QED BY <1>7, <2>4, <2>6, <3>1, <3>2 DEF StrideInv, n, w, s
  <2>8. MemInv'
    <3>1. Since = {}
      BY <1>10, <1>11, <2>2
    <3>2. call.kernel # "cachefence"
      BY <1>1 DEF Strided
    <3> QED BY <1>5, <1>6, <2>1, <3>1, <3>2, MemSame
  <2> QED BY <1>13, <1>14, <2>7, <2>8
<1> QED BY <1>16, <1>17, <1>18, <1>19

\* A step of the sizebw_ kernels.
LEMMA SizebwStep ==
  ASSUME MaskBound, AccessInv, SizebwRand \/ SizebwAccess \/ SizebwFence
  PROVE  AccessInv'
<1> DEFINE w == Passes(call.size, 512)
<1>1. call.kernel \in Sizebw
  <2>1. CASE pc = "rand"
    BY <2>1, KernelKinds DEF AccessInv, KernelInv, StrideInv, CacheInv, CacheProbeInv, ImcProbeInv, SeqInv
  <2> QED BY <2>1 DEF SizebwRand, SizebwAccess, SizebwFence
<1>2. call.size \in Int /\ call.count \in Int
  BY <1>1, KernelKinds
<1>3. w \in Nat \ {0} /\ \A k \in 1 .. w : 512 * k < call.size <=> k < w
  BY <1>2, BlockPasses, Zenon
<1>4. SizebwInv /\ RegInv /\ MemInv
  BY <1>1 DEF AccessInv, KernelInv
<1>5. call' = call /\ r9' = r9 /\ rdx' = rdx /\ call.kernel # "cachefence"
  BY <1>1 DEF SizebwRand, SizebwAccess, SizebwFence, Touch, Sizebw
<1>6. w' = w /\ MaskLines(call.mask)' = MaskLines(call.mask)
  BY <1>5
<1> HIDE DEF w
<1>7. MaskLines(call.mask) \in Nat /\ \A s \in [0 .. (Width - 1) -> {0, 1}] :
                             \E x \in 0 .. MaskLines(call.mask) : Masked(s, call.mask) = 64 * x
  <2>1. [i \in 0 .. (Width - 1) |-> 0] \in [0 .. (Width - 1) -> {0, 1}] /\ call \in Call
    BY <1>4 DEF RegInv
  <2> QED BY <1>1, <2>1 DEF MaskBound
<1>8. PICK x \in 0 .. MaskLines(call.mask) : r8 = 64 * x
  BY <1>4 DEF SizebwInv
<1>9. PICK j \in Nat : r10 = 512 * j /\ (pc \in {"inner", "fence"} => j <= w) /\ (pc = "inner" => j < w)
  BY <1>4 DEF SizebwInv, w
<1>10. touched \subseteq 0 .. (MaskLines(call.mask) + 8 * w - 1)
  BY <1>4 DEF SizebwInv, w
<1>11. Since = IF pc \in {"rand", "done"} THEN {} ELSE x .. (x + 8 * j - 1)
  <2>1. r10 \div 64 = 8 * j /\ x \in Int /\ 8 * j \in Int
    BY <1>7, <1>9
  <2>2. Lines(r8, 8 * j) = x .. (x + 8 * j - 1)
    BY <1>8, <2>1, LineFacts
  <2> QED BY <1>1, <2>1, <2>2 DEF Since, Strided, Sizebw
<1>12. ASSUME SizebwInv', RegInv', MemInv' PROVE AccessInv'
  BY <1>1, <1>5, <1>12 DEF AccessInv, KernelInv, Strided, Sizebw, Seq_
<1>13. CASE SizebwRand
  <2>1. /\ pc = "rand" /\ pc' = "inner" /\ r8' = Masked(seed', call.mask) /\ r10' = 512 * 0 /\ r11' = r11
        /\ mem' = mem /\ touched' = touched
    BY <1>13 DEF SizebwRand
  <2>2. seed' \in [0 .. (Width - 1) -> {0, 1}]
    <3>1. seed \in [0 .. (Width - 1) -> {0, 1}] /\ seed' = Lfsr(seed) /\ Width \in Nat \ {0}
      BY <1>4, <1>13, MemAccessAssumption DEF RegInv, SizebwRand
    <3>2. ASSUME NEW i \in 0 .. (Width - 1)
          PROVE  LET up == IF i = Width - 1 THEN 0 ELSE seed[i + 1]
                 IN  (IF i \in Taps THEN (up + seed[0]) % 2 ELSE up) \in {0, 1}
      <4> DEFINE up == IF i = Width - 1 THEN 0 ELSE seed[i + 1]
      <4>1. up \in {0, 1} /\ seed[0] \in {0, 1}
        BY <3>1
      <4> HIDE DEF up
      <4>2. (up + seed[0]) % 2 \in {0, 1}
        BY <4>1
      <4> QED BY <4>1, <4>2 DEF up
    <3> QED BY <3>1, <3>2 DEF Lfsr
  <2>3. PICK y \in 0 .. MaskLines(call.mask) : r8' = 64 * y
    BY <1>7, <2>1, <2>2
  <2>4. RegInv'
    <3>1. r8' \in Int /\ r10' \in Nat
      BY <1>7, <2>1, <2>3
    <3> QED BY <1>4, <1>5, <2>1, <2>2, <3>1 DEF RegInv
  <2>5. SizebwInv'
    <3>1. 0 \in Nat /\ 0 < w /\ 0 <= w
      BY <1>3
    <3> QED BY <1>6, <1>10, <2>1, <2>3, <3>1 DEF SizebwInv, w
  <2>6. MemInv'
    <3>1. Since = {}
      BY <1>11, <2>1
    <3> QED BY <1>4, <1>5, <2>1, <3>1, MemSame
  <2> QED BY <1>12, <2>4, <2>5, <2>6
<1>14. CASE SizebwAccess
  <2>1. /\ pc = "inner" /\ r8' = r8 /\ r11' = r11 /\ seed' = seed
        /\ mem' = Access(call.kernel, mem, Lines(r8 + r10, 8))
        /\ touched' = touched \cup Lines(r8 + r10, 8) /\ r10' = 512 * (j + 1)
        /\ pc' = (IF r10' < call.size THEN "inner" ELSE "fence")
    BY <1>9, <1>14 DEF SizebwAccess, Touch, Jl
  <2>2. j < w /\ j + 1 <= w /\ j + 1 \in Nat /\ (r10' < call.size <=> j + 1 < w)
    <3> DEFINE k == j + 1
    <3>1. j < w /\ k \in 1 .. w /\ k \in Nat /\ k <= w /\ r10' = 512 * k
      BY <1>3, <1>9, <2>1
    <3> HIDE DEF k
    <3>2. r10' < call.size <=> k < w
      BY <1>3, <3>1
    <3> QED BY <3>1, <3>2 DEF k
  <2>3. Lines(r8 + r10, 8) = (x + 8 * j) .. (x + 8 * j + 8 - 1)
    <3> DEFINE c == x + 8 * j
    <3>1. c \in Int /\ r8 + r10 = 64 * c
      BY <1>7, <1>8, <1>9
    <3> HIDE DEF c
    <3>2. Lines(64 * c, 8) = c .. (c + 8 - 1)
      BY <3>1, LineFacts
    <3> QED BY <3>1, <3>2 DEF c
  <2>4. RegInv'
    <3>1. r10' \in Nat
      BY <1>9, <2>1
    <3> QED BY <1>4, <1>5, <2>1, <3>1 DEF RegInv
  <2>5. SizebwInv'
    <3>1. Lines(r8 + r10, 8) \subseteq 0 .. (MaskLines(call.mask) + 8 * w - 1)
      BY <1>3, <1>7, <2>2, <2>3
    <3>2. (pc' = "inner" /\ j + 1 < w) \/ pc' = "fence"
      BY <2>1, <2>2
    <3>3. touched' \subseteq 0 .. (MaskLines(call.mask) + 8 * w - 1)
      BY <1>10, <2>1, <3>1
    <3>4. r8' = 64 * x
      BY <1>8, <2>1
    <3> QED BY <1>6, <2>1, <2>2, <3>2, <3>3, <3>4 DEF SizebwInv, w
  <2>6. MemInv'
    <3>1. Since' = x .. (x + 8 * (j + 1) - 1)
      <4>1. r10' \div 64 = 8 * (j + 1) /\ r8' = 64 * x /\ x \in Int /\ 8 * (j + 1) \in Int
        BY <1>7, <1>8, <1>9, <2>1
      <4>2. Lines(64 * x, 8 * (j + 1)) = x .. (x + 8 * (j + 1) - 1)
        BY <4>1, LineFacts
      <4>3. Since' = Lines(r8', r10' \div 64)
        BY <1>1, <1>5, <2>1 DEF Since, Strided, Sizebw
      <4> QED BY <4>1, <4>2, <4>3
    <3>2. Since \subseteq Since' /\ Lines(r8 + r10, 8) \subseteq Since'
      <4>1. Since = x .. (x + 8 * j - 1)
        BY <1>11, <2>1
      <4> QED BY <1>7, <1>9, <2>3, <3>1, <4>1
    <3> QED BY <1>4, <1>5, <2>1, <3>2, AccessStep
  <2> QED BY <1>12, <2>4, <2>5, <2>6
<1>15. CASE SizebwFence
  <2>1. /\ pc = "fence" /\ pc' \in {"rand", "done"} /\ r8' = r8 /\ r10' = r10 /\ r11' = r11 + 1
        /\ seed' = seed /\ mem' = Fence(mem, Self) /\ touched' = touched
    BY <1>15 DEF SizebwFence, Jl
  <2>2. RegInv'
    <3>1. r11' \in Nat
      BY <1>4, <2>1 DEF RegInv
    <3> QED BY <1>4, <1>5, <2>1, <3>1 DEF RegInv
  <2>3. SizebwInv'
    BY <1>6, <1>8, <1>9, <1>10, <2>1 DEF SizebwInv, w
  <2>4. MemInv'
    BY <1>4, <1>5, <2>1, FenceStep DEF RegInv
  <2> QED BY <1>12, <2>2, <2>3, <2>4
<1> QED BY <1>13, <1>14, <1>15

\* A step of imcprobe.
LEMMA ImcProbeStep == ASSUME AccessInv, ImcProbe PROVE AccessInv'
<1> DEFINE w == Passes(call.end, 64)
<1>1. call.kernel = "imcprobe"
  BY DEF ImcProbe
<1>2. call.end \in Int
  BY <1>1, KernelKinds
<1>3. w \in Nat \ {0} /\ \A k \in 1 .. w : 64 * k < call.end <=> k < w
  BY <1>2, LinePasses, Zenon
<1>4. ImcProbeInv /\ RegInv /\ MemInv
  BY <1>1 DEF AccessInv, KernelInv
<1>5. /\ call' = call /\ r10' = r10 /\ r11' = r11 /\ rdx' = rdx /\ seed' = seed
      /\ mem' = Access("imcprobe", mem, Lines(r8, 1)) /\ touched' = touched \cup Lines(r8, 1)
  BY DEF ImcProbe, Touch
<1>6. w' = w
  BY <1>5
<1> HIDE DEF w
<1>7. PICK j \in 0 .. (w - 1) : r8 = 64 * j /\ touched = 0 .. ((IF r9 = 0 THEN j ELSE w) - 1)
  BY <1>4 DEF ImcProbeInv, w
<1>8. Lines(r8, 1) = {j}
  BY <1>3, <1>7, LineFacts
<1>9. MemInv'
  <2>1. Since = Line /\ Since' = Line /\ Lines(r8, 1) \cap Line \subseteq Line
    BY <1>1, <1>5 DEF Since, Strided, Sizebw, Line
  <2> QED BY <1>1, <1>4, <1>5, <2>1, AccessStep
<1>10. r8 + 64 < call.end <=> j + 1 < w
  <2> DEFINE k == j + 1
  <2>1. k \in 1 .. w /\ r8 + 64 = 64 * k
    BY <1>3, <1>7
  <2> HIDE DEF k
  <2>2. 64 * k < call.end <=> k < w
    BY <1>3, <2>1
  <2> QED BY <2>1, <2>2 DEF k
<1>11. CASE j + 1 < w
  <2>1. r8' = 64 * (j + 1) /\ r9' = r9 /\ pc' = pc
    BY <1>7, <1>10, <1>11, <1>3 DEF ImcProbe
  <2>2. j + 1 \in 0 .. (w - 1) /\ touched' = 0 .. ((IF r9 = 0 THEN j + 1 ELSE w) - 1)
    BY <1>3, <1>5, <1>7, <1>8, <1>11
  <2>3. RegInv'
    BY <1>1, <1>3, <1>4, <1>5, <1>7, <2>1 DEF RegInv
  <2>4. ImcProbeInv'
    BY <1>4, <1>6, <2>1, <2>2 DEF ImcProbeInv, w
  <2> QED BY <1>1, <1>5, <1>9, <2>3, <2>4 DEF AccessInv, KernelInv, Strided, Sizebw, Seq_
<1>12. CASE ~(j + 1 < w)
  <2>1. r8' = 64 * 0 /\ r9' = r9 + 1 /\ pc' \in {"inner", "done"}
    BY <1>10, <1>12 DEF ImcProbe, Jl
  <2>2. r9' \in Nat /\ r9' # 0 /\ r9' > 0
    BY <1>4, <2>1 DEF RegInv
  <2>3. touched' = 0 .. (w - 1) /\ 0 \in 0 .. (w - 1)
    BY <1>3, <1>5, <1>7, <1>8, <1>12
  <2>4. RegInv'
    BY <1>1, <1>4, <1>5, <2>1, <2>2 DEF RegInv
  <2>5. ImcProbeInv'
    BY <1>6, <2>1, <2>2, <2>3 DEF ImcProbeInv, w
  <2> QED BY <1>1, <1>5, <1>9, <2>4, <2>5 DEF AccessInv, KernelInv, Strided, Sizebw, Seq_
<1> QED BY <1>11, <1>12

\* A step of the seq_ kernels.
LEMMA SeqStep == ASSUME AccessInv, SeqAccess PROVE AccessInv'
<1> DEFINE n == Passes(call.end, call.size)
           w == call.size \div 64
<1>1. call.kernel \in Seq_
  BY DEF SeqAccess
<1>2. call.end \in Int /\ call.size \in Nat \ {0} /\ call.size = 64 * w /\ w \in Nat \ {0}
  <2>1. call.end \in Int /\ call.size \in Nat \ {0} /\ call.size % 64 = 0
    BY <1>1, KernelKinds
  <2> QED BY <2>1
<1>3. n \in Nat \ {0} /\ \A k \in 1 .. n : k * call.size < call.end <=> k < n
  <2> DEFINE e == call.end
             u == call.size
  <2>1. e \in Int /\ u \in Nat \ {0}
    BY <1>2
  <2> HIDE DEF e, u
  <2>2. \A f \in Int, v \in Nat \ {0} :
          Passes(f, v) \in Nat \ {0} /\ \A k \in 1 .. Passes(f, v) : k * v < f <=> k < Passes(f, v)
    BY PassFacts
  <2>3. Passes(e, u) \in Nat \ {0} /\ \A k \in 1 .. Passes(e, u) : k * u < e <=> k < Passes(e, u)
    BY <2>1, <2>2, Zenon
  <2> QED BY <2>3 DEF e, u
<1>4. SeqInv /\ RegInv /\ MemInv
  BY <1>1 DEF AccessInv, KernelInv
<1>5. /\ call' = call /\ r10' = r10 /\ r11' = r11 /\ rdx' = rdx /\ seed' = seed /\ pc = "inner"
      /\ mem' = Access(call.kernel, mem, Lines(r9 + r8, 1)) /\ touched' = touched \cup Lines(r9 + r8, 1)
  BY DEF SeqAccess, Touch
<1>6. n' = n /\ w' = w
  BY <1>5
<1> HIDE DEF n, w
<1>7. PICK i \in 0 .. n, j \in 0 .. (w - 1) :
        /\ r9 = 64 * (i * w) /\ r8 = 64 * j
        /\ touched = Grid(w, i, w) \cup Row(w, i, j)
        /\ pc = "inner" <=> i < n
        /\ pc = "done" => j = 0
  BY <1>4 DEF SeqInv, n, w
<1> DEFINE a == i * w
<1>8. i \in Nat /\ j \in Nat /\ a \in Nat /\ i < n /\ j < w
  BY <1>2, <1>3, <1>5, <1>7
<1> HIDE DEF a
<1>9. Lines(r9 + r8, 1) = {a + j}
  <2> DEFINE c == a + j
  <2>1. c \in Int /\ r9 + r8 = 64 * c
    BY <1>7, <1>8 DEF a
  <2> HIDE DEF c
  <2>2. Lines(64 * c, 1) = {c}
    BY <2>1, LineFacts
  <2> QED BY <2>1, <2>2 DEF c
<1>10. MemInv'
  <2>1. Since = Line /\ Since' = Line /\ Lines(r9 + r8, 1) \cap Line \subseteq Line
        /\ call.kernel # "cachefence"
    BY <1>1, <1>5 DEF Since, Strided, Sizebw, Seq_, Line
  <2> QED BY <1>4, <1>5, <2>1, AccessStep
<1>11. ASSUME SeqInv', RegInv' PROVE AccessInv'
  BY <1>1, <1>5, <1>10, <1>11 DEF AccessInv, KernelInv, Strided, Sizebw, Seq_
<1>12. touched' = Grid(w, i, w) \cup Row(w, i, j + 1)
  <2>1. Row(w, i, j + 1) = Row(w, i, j) \cup {a + j}
    BY <1>2, <1>8, GridFacts DEF a
  <2> QED BY <1>5, <1>7, <1>9, <2>1
<1>13. r8 + 64 < call.size <=> j + 1 < w
  BY <1>2, <1>7, <1>8
<1>14. CASE j + 1 < w
  <2>1. r8' = 64 * (j + 1) /\ r9' = r9 /\ pc' = pc
    BY <1>7, <1>8, <1>13, <1>14 DEF SeqAccess
  <2>2. j + 1 \in 0 .. (w - 1) /\ pc' = "inner"
    BY <1>2, <1>5, <1>8, <1>14, <2>1
  <2>3. RegInv'
    <3>1. r8' \in Int
      BY <1>8, <2>1
    <3> QED BY <1>4, <1>5, <2>1, <3>1 DEF RegInv
  <2>4. SeqInv'
    BY <1>6, <1>7, <1>8, <1>12, <2>1, <2>2 DEF SeqInv, n, w
  <2> QED BY <1>11, <2>3, <2>4
<1>15. CASE j + 1 = w
  <2>1. r8' = 64 * 0 /\ r9' = r9 + call.size /\ pc' = (IF r9' < call.end THEN "inner" ELSE "done")
    BY <1>13, <1>15 DEF SeqAccess, Jl
  <2>2. r9' = 64 * ((i + 1) * w) /\ r9' = (i + 1) * call.size /\ r9' \in Nat
    <3>1. (i + 1) * w = a + w
      BY <1>2, <1>8, SMT DEF a
    <3>2. \A x, y \in Nat : x * (64 * y) = 64 * (x * y)
      BY SMT
    <3>3. i + 1 \in Nat /\ w \in Nat
      BY <1>2, <1>8
    <3>4. (i + 1) * (64 * w) = 64 * ((i + 1) * w)
      BY <3>2, <3>3
    <3>5. r9' = 64 * (a + w) /\ r9' \in Nat
      BY <1>2, <1>7, <1>8, <2>1 DEF a
    <3> QED BY <1>2, <3>1, <3>4, <3>5
  <2>3. i + 1 \in 1 .. n /\ (r9' < call.end <=> i + 1 < n)
    <3> DEFINE k == i + 1
    <3>1. k \in 1 .. n /\ r9' = k * call.size
      BY <1>3, <1>8, <2>2
    <3> HIDE DEF k
    <3>2. r9' < call.end <=> k < n
      BY <1>3, <3>1
    <3> QED BY <3>1, <3>2 DEF k
  <2>4. touched' = Grid(w, i + 1, w) \cup Row(w, i + 1, 0)
    <3>1. Grid(w, i + 1, w) = Grid(w, i, w) \cup Row(w, i, w)
      BY <1>2, <1>8, GridFacts
    <3>2. Row(w, i + 1, 0) = {}
      BY DEF Row
    <3> QED BY <1>12, <1>15, <3>1, <3>2
  <2>5. RegInv'
    <3>1. r8' \in Int
      BY <2>1
    <3>2. call.kernel # "cachefence"
      BY <1>1 DEF Seq_
    <3> QED BY <1>4, <1>5, <2>2, <3>1, <3>2 DEF RegInv
  <2>6. SeqInv'
    <3>1. pc' \in {"inner", "done"} /\ (pc' = "inner" <=> i + 1 < n)
      BY <2>1, <2>3
    <3>2. i + 1 \in 0 .. n /\ 0 \in 0 .. (w - 1)
      BY <1>2, <1>3, <2>3
    <3> QED BY <1>6, <2>1, <2>2, <2>4, <3>1, <3>2 DEF SeqInv, n, w
  <2> QED BY <1>11, <2>5, <2>6
<1>16. j + 1 < w \/ j + 1 = w
  BY <1>2, <1>8
<1> QED BY <1>14, <1>15, <1>16

\* A step of cacheprobe.
LEMMA CacheProbeStep == ASSUME AccessInv, CacheProbe \/ CacheProbeFence PROVE AccessInv'
<1> DEFINE n == Passes(call.end, call.stride)
           s == call.stride \div 64
<1>1. call.kernel = "cacheprobe"
  BY DEF CacheProbe, CacheProbeFence
<1>2. call.end \in Int /\ call.stride \in Nat \ {0} /\ call.stride = 64 * s /\ s \in Nat \ {0}
  <2>1. call.end \in Int /\ call.stride \in Nat \ {0} /\ call.stride % 64 = 0
    BY <1>1, KernelKinds
  <2> QED BY <2>1
<1>3. n \in Nat \ {0} /\ \A k \in 1 .. n : k * call.stride < call.end <=> k < n
  <2> DEFINE e == call.end
             u == call.stride
  <2>1. e \in Int /\ u \in Nat \ {0}
    BY <1>2
  <2> HIDE DEF e, u
  <2>2. \A f \in Int, v \in Nat \ {0} :
          Passes(f, v) \in Nat \ {0} /\ \A k \in 1 .. Passes(f, v) : k * v < f <=> k < Passes(f, v)
    BY PassFacts
  <2>3. Passes(e, u) \in Nat \ {0} /\ \A k \in 1 .. Passes(e, u) : k * u < e <=> k < Passes(e, u)
    BY <2>1, <2>2, Zenon
  <2> QED BY <2>3 DEF e, u
<1>4. CacheProbeInv /\ RegInv /\ MemInv
  BY <1>1 DEF AccessInv, KernelInv
<1>5. call' = call /\ r9' = r9 /\ r10' = r10 /\ r11' = r11 /\ rdx' = rdx /\ seed' = seed
  BY DEF CacheProbe, CacheProbeFence, Touch
<1>6. n' = n /\ s' = s
  BY <1>5
<1> HIDE DEF n, s
<1>7. PICK i \in 0 .. n :
        /\ r8 = 64 * (i * s) /\ touched = Grid(s, i, 2)
        /\ pc = "inner" <=> i < n
  BY <1>4 DEF CacheProbeInv, n, s
<1> DEFINE a == i * s
<1>8. i \in Nat /\ a \in Nat
  BY <1>2, <1>3, <1>7
<1> HIDE DEF a
<1>9. ASSUME CacheProbeInv', RegInv', MemInv' PROVE AccessInv'
  BY <1>1, <1>5, <1>9 DEF AccessInv, KernelInv, Strided, Sizebw, Seq_
<1>10. CASE CacheProbe
  <2>1. /\ pc = "inner" /\ mem' = Access("cacheprobe", mem, Lines(r8, 2))
        /\ touched' = touched \cup Lines(r8, 2) /\ r8' = r8 + call.stride
        /\ pc' = (IF r8' < call.end THEN "inner" ELSE "fence")
    BY <1>10 DEF CacheProbe, Touch, Jl, Access
  <2>2. i < n
    BY <1>7, <2>1
  <2>3. r8' = 64 * ((i + 1) * s) /\ r8' = (i + 1) * call.stride /\ r8' \in Nat
    <3>1. (i + 1) * s = a + s
      BY <1>2, <1>8, SMT DEF a
    <3>2. \A x, y \in Nat : x * (64 * y) = 64 * (x * y)
      BY SMT
    <3>3. i + 1 \in Nat /\ s \in Nat
      BY <1>2, <1>8
    <3>4. (i + 1) * (64 * s) = 64 * ((i + 1) * s)
      BY <3>2, <3>3
    <3>5. r8' = 64 * (a + s) /\ r8' \in Nat
      BY <1>2, <1>7, <1>8, <2>1 DEF a
    <3> QED BY <1>2, <3>1, <3>4, <3>5
  <2>4. i + 1 \in 1 .. n /\ (r8' < call.end <=> i + 1 < n)
    <3> DEFINE k == i + 1
    <3>1. k \in 1 .. n /\ r8' = k * call.stride
      BY <1>3, <1>8, <2>2, <2>3
    <3> HIDE DEF k
    <3>2. r8' < call.end <=> k < n
      BY <1>3, <3>1
    <3> QED BY <3>1, <3>2 DEF k
  <2>5. touched' = Grid(s, i + 1, 2)
    <3>1. Grid(s, i + 1, 2) = Grid(s, i, 2) \cup Row(s, i, 2)
      BY <1>2, <1>8, GridFacts
    <3>2. Lines(r8, 2) = a .. (a + 2 - 1)
      BY <1>7, <1>8, LineFacts DEF a
    <3>3. Row(s, i, 2) = {a + 0, a + 1}
      <4>1. 0 .. (2 - 1) = {0, 1}
        OBVIOUS
      <4> QED BY <4>1 DEF Row, a
    <3>4. a .. (a + 2 - 1) = {a + 0, a + 1}
      BY <1>8
    <3> QED BY <1>7, <2>1, <3>1, <3>2, <3>3, <3>4
  <2>6. RegInv'
    BY <1>1, <1>4, <1>5, <2>3 DEF RegInv
  <2>7. CacheProbeInv'
    <3>1. pc' \in {"inner", "fence", "done"} /\ (pc' = "inner" <=> i + 1 < n) /\ i + 1 \in 0 .. n
      BY <1>3, <2>1, <2>4
    <3> QED BY <1>6, <2>3, <2>5, <3>1 DEF CacheProbeInv, n, s
  <2>8. MemInv'
    <3>1. Since = Line /\ Since' = Line /\ Lines(r8, 2) \cap Line \subseteq Line
      BY <1>1, <1>5, <2>1 DEF Since, Strided, Sizebw, Line
    <3> QED BY <1>1, <1>4, <1>5, <2>1, <3>1, AccessStep
  <2> QED BY <1>9, <2>6, <2>7, <2>8
<1>11. CASE CacheProbeFence
  <2>1. pc = "fence" /\ pc' = "done" /\ mem' = Fence(mem, Self) /\ r8' = r8 /\ touched' = touched
    BY <1>11 DEF CacheProbeFence
  <2>2. RegInv'
    BY <1>4, <1>5, <2>1 DEF RegInv
  <2>3. CacheProbeInv'
    BY <1>6, <1>7, <2>1 DEF CacheProbeInv, n, s
  <2>4. MemInv'
    BY <1>1, <1>4, <1>5, <2>1, FenceStep DEF RegInv
  <2> QED BY <1>9, <2>2, <2>3, <2>4
<1> QED BY <1>10, <1>11

\* A step of cachefence.
LEMMA CacheStep == ASSUME AccessInv, CacheWrite \/ CacheFlush \/ CacheFence PROVE AccessInv'
<1> DEFINE F == FlushLines(call)
           K == FlushCount(call)
           G == FenceGroup(call)
           H == FenceCount(call)
<1>1. call.kernel = "cachefence"
  <2>1. CASE pc = "flush"
    BY <2>1, KernelKinds DEF AccessInv, KernelInv, StrideInv, SizebwInv, CacheProbeInv, ImcProbeInv, SeqInv
  <2> QED BY <2>1 DEF CacheWrite, CacheFlush, CacheFence
<1>2. call.size \in Int /\ call.cache \in Int /\ call.fence \in Int
  BY <1>1, KernelKinds
<1>3. F \in Nat \ {0} /\ K \in Nat \ {0} /\ G \in Nat \ {0} /\ H \in Nat \ {0} /\ G = F * K
  BY <1>2, CacheSizes
<1>4. /\ \A k \in 1 .. F : 64 * k < call.cache <=> k < F
      /\ \A k \in 1 .. K : k * (64 * F) < call.fence <=> k < K
      /\ \A k \in 1 .. H : k * (64 * G) < call.size <=> k < H
  <2>1. \A f \in Int, v \in Nat \ {0} :
          Passes(f, v) \in Nat \ {0} /\ \A k \in 1 .. Passes(f, v) : k * v < f <=> k < Passes(f, v)
    BY PassFacts
  <2>2. 64 * F \in Nat \ {0} /\ 64 * G \in Nat \ {0}
    BY <1>3
  <2>3. \A k \in 1 .. F : 64 * k < call.cache <=> k < F
    BY <1>2, LinePasses, Zenon DEF FlushLines
  <2>4. K = Passes(call.fence, 64 * F) /\ H = Passes(call.size, 64 * G)
    BY DEF FlushCount, FenceCount
  <2> HIDE DEF F, K, G, H
  <2>5. \A k \in 1 .. K : k * (64 * F) < call.fence <=> k < K
    BY <1>2, <2>1, <2>2, <2>4, Zenon
  <2>6. \A k \in 1 .. H : k * (64 * G) < call.size <=> k < H
    BY <1>2, <2>1, <2>2, <2>4, Zenon
  <2> QED BY <2>3, <2>5, <2>6
<1>5. CacheInv /\ RegInv /\ MemInv
  BY <1>1 DEF AccessInv, KernelInv
<1>6. call' = call /\ r8' = r8 /\ seed' = seed
  BY DEF CacheWrite, CacheFlush, CacheFence, Touch
<1>7. F' = F /\ K' = K /\ G' = G /\ H' = H
  BY <1>6
<1> HIDE DEF F, K, G, H
<1>8. r8 = 0 /\ \E h \in 0 .. H, m \in 0 .. K, b \in 0 .. F, d \in 0 .. F :
        /\ r9 = 64 * (G * h + F * m + b) /\ r10 = 64 * b
        /\ r11 = 64 * (F * m + b) /\ rdx = 64 * (G * h + F * m + d)
        /\ touched = 0 .. (G * h + F * m + b - 1)
        /\ pc \in {"inner", "flush"} => h < H /\ m < K
        /\ pc = "inner" => b < F /\ d = 0
        /\ pc = "flush" => b = F /\ d < F
        /\ pc = "fence" => h < H /\ m = K /\ b = 0 /\ d = 0
        /\ pc = "done" => h = H /\ m = 0 /\ b = 0 /\ d = 0
  BY <1>5 DEF CacheInv, F, K, G, H
<1>9. PICK h \in 0 .. H, m \in 0 .. K, b \in 0 .. F, d \in 0 .. F :
        /\ r9 = 64 * (G * h + F * m + b) /\ r10 = 64 * b
        /\ r11 = 64 * (F * m + b) /\ rdx = 64 * (G * h + F * m + d)
        /\ touched = 0 .. (G * h + F * m + b - 1)
        /\ pc \in {"inner", "flush"} => h < H /\ m < K
        /\ pc = "inner" => b < F /\ d = 0
        /\ pc = "flush" => b = F /\ d < F
        /\ pc = "fence" => h < H /\ m = K /\ b = 0 /\ d = 0
        /\ pc = "done" => h = H /\ m = 0 /\ b = 0 /\ d = 0
  BY <1>8
<1> DEFINE g == G * h
           f == F * m
<1>10. h \in Nat /\ m \in Nat /\ b \in Nat /\ d \in Nat /\ g \in Nat /\ f \in Nat
  BY <1>3, <1>9
<1>18. /\ r9 = 64 * (g + f + b) /\ r10 = 64 * b /\ r11 = 64 * (f + b) /\ rdx = 64 * (g + f + d)
       /\ touched = 0 .. (g + f + b - 1)
  BY <1>9
<1> HIDE DEF g, f
<1>11. ASSUME NEW i \in 0 .. H, NEW x \in 0 .. K, NEW y \in 0 .. F, NEW z \in 0 .. F,
              r9' = 64 * (G * i + F * x + y), r10' = 64 * y,
              r11' = 64 * (F * x + y), rdx' = 64 * (G * i + F * x + z),
              touched' = 0 .. (G * i + F * x + y - 1),
              pc' \in {"inner", "flush", "fence", "done"},
              pc' \in {"inner", "flush"} => i < H /\ x < K,
              pc' = "inner" => y < F /\ z = 0,
              pc' = "flush" => y = F /\ z < F,
              pc' = "fence" => i < H /\ x = K /\ y = 0 /\ z = 0,
              pc' = "done" => i = H /\ x = 0 /\ y = 0 /\ z = 0
       PROVE  CacheInv'
  <2>1. \E h1 \in 0 .. H', m1 \in 0 .. K', b1 \in 0 .. F', d1 \in 0 .. F' :
        /\ r9' = 64 * (G' * h1 + F' * m1 + b1) /\ r10' = 64 * b1
        /\ r11' = 64 * (F' * m1 + b1) /\ rdx' = 64 * (G' * h1 + F' * m1 + d1)
        /\ touched' = 0 .. (G' * h1 + F' * m1 + b1 - 1)
        /\ pc' \in {"inner", "flush"} => h1 < H' /\ m1 < K'
        /\ pc' = "inner" => b1 < F' /\ d1 = 0
        /\ pc' = "flush" => b1 = F' /\ d1 < F'
        /\ pc' = "fence" => h1 < H' /\ m1 = K' /\ b1 = 0 /\ d1 = 0
        /\ pc' = "done" => h1 = H' /\ m1 = 0 /\ b1 = 0 /\ d1 = 0
    BY <1>7, <1>11
  <2>2. r8' = 0
    BY <1>6, <1>8
  <2> QED BY <1>11, <2>1, <2>2 DEF CacheInv, F, K, G, H
<1>12. ASSUME CacheInv', MemInv' PROVE AccessInv'
  <2>1. RegInv'
    <3>1. /\ \A k \in 0 .. H : k \in Nat
          /\ \A k \in 0 .. K : k \in Nat
          /\ \A k \in 0 .. F : k \in Nat
      BY <1>3
    <3>2. PICK i \in 0 .. H, x \in 0 .. K, y \in 0 .. F, z \in 0 .. F :
            /\ r9' = 64 * (G * i + F * x + y) /\ r10' = 64 * y
            /\ r11' = 64 * (F * x + y) /\ rdx' = 64 * (G * i + F * x + z)
      <4>1. \E i \in 0 .. H', x \in 0 .. K', y \in 0 .. F', z \in 0 .. F' :
            /\ r9' = 64 * (G' * i + F' * x + y) /\ r10' = 64 * y
            /\ r11' = 64 * (F' * x + y) /\ rdx' = 64 * (G' * i + F' * x + z)
        BY <1>12 DEF CacheInv, F, K, G, H
      <4> QED BY <1>7, <4>1
    <3>3. i \in Nat /\ x \in Nat /\ y \in Nat /\ z \in Nat
      BY <3>1
    <3>4. G * i \in Nat /\ F * x \in Nat
      BY <1>3, <3>3
    <3>5. r9' \in Nat /\ r10' \in Nat /\ r11' \in Nat /\ rdx' \in Nat
      BY <3>2, <3>3, <3>4
    <3> QED BY <1>1, <1>5, <1>6, <3>5 DEF RegInv
  <2> QED BY <1>1, <1>6, <1>12, <2>1 DEF AccessInv, KernelInv, Strided, Sizebw, Seq_
<1>13. Since = g .. (g + (f + b) - 1)
  <2>1. r9 - r11 = 64 * g /\ r11 \div 64 = f + b /\ f + b \in Int
    BY <1>10, <1>18
  <2>2. Lines(64 * g, f + b) = g .. (g + (f + b) - 1)
    BY <1>10, <2>1, LineFacts
  <2> QED BY <1>1, <2>1, <2>2 DEF Since, Strided, Sizebw
<1>14. ASSUME NEW c \in Nat, r9' - r11' = 64 * g, r11' = 64 * c PROVE Since' = g .. (g + c - 1)
  <2>1. r11' \div 64 = c
    BY <1>14
  <2>2. Lines(64 * g, c) = g .. (g + c - 1)
    BY <1>10, LineFacts
  <2>3. Since' = Lines(r9' - r11', r11' \div 64)
    BY <1>1, <1>6 DEF Since, Strided, Sizebw
  <2> QED BY <1>14, <2>1, <2>2, <2>3
<1>15. CASE CacheWrite
  <2>1. /\ pc = "inner" /\ mem' = Store(mem, Lines(r9, 1)) /\ touched' = touched \cup Lines(r9, 1)
        /\ r9' = 64 * (g + f + (b + 1)) /\ r10' = 64 * (b + 1) /\ r11' = 64 * (f + (b + 1)) /\ rdx' = rdx
        /\ pc' = (IF r10' < call.cache THEN "inner" ELSE "flush")
    BY <1>10, <1>15, <1>18 DEF CacheWrite, Touch, Jl
  <2>2. h < H /\ m < K /\ b < F /\ d = 0
    BY <1>9, <2>1
  <2>3. b + 1 \in 0 .. F /\ (r10' < call.cache <=> b + 1 < F)
    <3> DEFINE k == b + 1
    <3>1. k \in 1 .. F /\ k \in 0 .. F /\ r10' = 64 * k
      BY <1>3, <1>10, <2>1, <2>2
    <3> HIDE DEF k
    <3>2. r10' < call.cache <=> k < F
      BY <1>4, <3>1
    <3> QED BY <3>1, <3>2 DEF k
  <2>4. Lines(r9, 1) = {g + f + b}
    <3> DEFINE c == g + f + b
    <3>1. c \in Int /\ r9 = 64 * c
      BY <1>10, <1>18
    <3> HIDE DEF c
    <3> QED BY <3>1, LineFacts DEF c
  <2>5. touched' = 0 .. (g + f + (b + 1) - 1)
    <3>1. touched = 0 .. (g + f + b - 1)
      BY <1>18
    <3> QED BY <1>10, <2>1, <2>4, <3>1
  <2>6. CacheInv'
    <3>1. b + 1 < F \/ b + 1 = F
      BY <1>3, <1>10, <2>3
    <3>2. (pc' = "inner" /\ b + 1 < F) \/ (pc' = "flush" /\ b + 1 = F)
      BY <2>1, <2>3, <3>1
    <3>3. /\ pc' \in {"inner", "flush", "fence", "done"} /\ (pc' = "inner" => b + 1 < F /\ d = 0)
          /\ (pc' = "flush" => b + 1 = F /\ d < F)
      BY <1>3, <2>2, <3>2
    <3>4. pc' # "fence" /\ pc' # "done"
      BY <3>2
    <3> QED BY <1>9, <1>11, <2>1, <2>2, <2>3, <2>5, <3>3, <3>4 DEF g, f
  <2>7. MemInv'
    <3>1. Since' = g .. (g + (f + (b + 1)) - 1)
      <4> DEFINE c == f + (b + 1)
      <4>1. c \in Nat /\ r9' - r11' = 64 * g /\ r11' = 64 * c
        BY <1>10, <2>1
      <4> HIDE DEF c
      <4>2. Since' = g .. (g + c - 1)
        BY <1>14, <4>1
      <4> QED BY <4>2 DEF c
    <3>2. rdx = 64 * (g + f)
      BY <1>10, <1>18, <2>2
    <3>3. /\ MemOK(mem, Line, {Self}) /\ MemOK(mem', Line, {Self})
          /\ mem'.per = mem.per /\ mem'.pend = mem.pend
          /\ \A l \in Line : mem'.ver[l] = IF l \in Lines(r9, 1) THEN mem.ver[l] + 1 ELSE mem.ver[l]
      BY <1>5, <2>1, StoreFacts DEF MemInv
    <3>4. ASSUME call.kernel \in Flushing, NEW l \in Line
          PROVE  \/ mem'.per[l] = mem'.ver[l]
                 \/ /\ l \in Since'
                    /\ \/ <<l, mem'.ver[l]>> \in mem'.pend[Self]
                       \/ rdx' <= 64 * l /\ 64 * l < r9'
      <4>1. CASE l = g + f + b
        BY <1>10, <2>1, <3>1, <3>2, <4>1
      <4>2. CASE l # g + f + b
        <5>1. \/ mem.per[l] = mem.ver[l]
              \/ l \in Since /\ (<<l, mem.ver[l]>> \in mem.pend[Self] \/ (rdx <= 64 * l /\ 64 * l < r9))
          BY <1>5, <3>4 DEF MemInv
        <5>2. mem'.ver[l] = mem.ver[l]
          BY <2>4, <3>3, <4>2
        <5>3. l \in Int /\ (64 * l < r9 => 64 * l < r9') /\ (l \in Since => l \in Since')
          <6>1. r9 = 64 * (g + f + b)
            BY <1>18
          <6> QED BY <1>10, <1>13, <2>1, <3>1, <6>1 DEF Line
        <5> QED BY <2>1, <3>3, <5>1, <5>2, <5>3
      <4> QED BY <4>1, <4>2
    <3>5. Line' = Line
      BY DEF Line
    <3> QED BY <1>1, <1>6, <3>3, <3>4, <3>5 DEF MemInv
  <2> QED BY <1>12, <2>6, <2>7
<1>16. CASE CacheFlush
  <2>1. /\ pc = "flush" /\ mem' = Clwb(mem, Self, Lines(rdx, 1)) /\ touched' = touched
        /\ rdx' = 64 * (g + f + (d + 1)) /\ r9' = r9 /\ r11' = r11
    <3>1. rdx + 64 = 64 * (g + f + (d + 1))
      BY <1>10, <1>18
    <3>2. rdx + 64 < r9 \/ rdx + 64 = r9
      <4>1. b = F /\ d < F
        BY <1>9, <1>16 DEF CacheFlush
      <4>2. r9 = 64 * (g + f + F)
        BY <1>18, <4>1
      <4> QED BY <1>3, <1>10, <3>1, <4>1, <4>2
    <3> QED BY <1>16, <3>1, <3>2 DEF CacheFlush, FlushNext, FlushMore
  <2>2. h < H /\ m < K /\ b = F /\ d < F
    BY <1>9, <2>1
  <2>3. Lines(rdx, 1) = {g + f + d}
    <3> DEFINE c == g + f + d
    <3>1. c \in Int /\ rdx = 64 * c
      BY <1>10, <1>18
    <3> HIDE DEF c
    <3> QED BY <3>1, LineFacts DEF c
  <2>4. rdx' < r9 <=> d + 1 < F
    <3>1. r9 = 64 * (g + f + F)
      BY <1>18, <2>2
    <3> QED BY <1>3, <1>10, <2>1, <3>1
  <2>5. MemInv'
    <3>1. Since' = Since
      <4>1. r9' - r11' = 64 * g /\ r11' = 64 * (f + b) /\ f + b \in Nat
        BY <1>10, <1>18, <2>1
      <4> QED BY <1>13, <1>14, <4>1
    <3>2. /\ MemOK(mem, Line, {Self}) /\ MemOK(mem', Line, {Self}) /\ Self \in {Self}
      BY <1>5, <2>1, ClwbFacts DEF MemInv
    <3>3. /\ mem'.per = mem.per /\ mem'.ver = mem.ver
          /\ mem.pend[Self] \subseteq mem'.pend[Self]
          /\ \A l \in Lines(rdx, 1) : <<l, mem.ver[l]>> \in mem'.pend[Self]
      BY <2>1, <3>2, ClwbFacts
    <3>4. rdx = 64 * (g + f + d)
      BY <1>18
    <3>5. ASSUME call.kernel \in Flushing, NEW l \in Line
          PROVE  \/ mem'.per[l] = mem'.ver[l]
                 \/ /\ l \in Since'
                    /\ \/ <<l, mem'.ver[l]>> \in mem'.pend[Self]
                       \/ rdx' <= 64 * l /\ 64 * l < r9'
      <4>1. \/ mem.per[l] = mem.ver[l]
            \/ l \in Since /\ (<<l, mem.ver[l]>> \in mem.pend[Self] \/ (rdx <= 64 * l /\ 64 * l < r9))
        BY <1>5, <3>5 DEF MemInv
      <4>2. l = g + f + d => <<l, mem.ver[l]>> \in mem'.pend[Self]
        BY <2>3, <3>3
      <4>3. rdx <= 64 * l => rdx' <= 64 * l \/ l = g + f + d
        BY <1>10, <2>1, <3>4 DEF Line
      <4> QED BY <2>1, <3>1, <3>3, <4>1, <4>2, <4>3
    <3>6. Line' = Line
      BY DEF Line
    <3> QED BY <1>1, <1>6, <3>2, <3>5, <3>6 DEF MemInv
  <2>6. CASE d + 1 < F
    <3>1. pc' = "flush" /\ r10' = r10
      <4>1. FlushNext(rdx) < r9
        <5>1. FlushNext(rdx) = 64 * (g + f + (d + 1)) /\ r9 = 64 * (g + f + F)
          BY <1>10, <1>18, <2>2 DEF FlushNext
        <5> QED BY <1>3, <1>10, <2>6, <5>1
      <4> QED BY <1>16, <4>1 DEF CacheFlush, FlushMore
    <3>2. d + 1 \in 0 .. F
      BY <1>10, <1>3, <2>6
    <3>3. pc' # "inner" /\ pc' # "fence" /\ pc' # "done"
      BY <3>1
    <3>4. CacheInv'
      BY <1>9, <1>11, <1>18, <2>1, <2>2, <2>6, <3>1, <3>2, <3>3 DEF g, f
    <3> QED BY <1>12, <2>5, <3>4
  <2>7. CASE d + 1 = F
    <3>1. r10' = 64 * 0 /\ pc' = (IF r11 < call.fence THEN "inner" ELSE "fence")
      <4>1. ~(FlushNext(rdx) < r9)
        <5>1. FlushNext(rdx) = 64 * (g + f + (d + 1)) /\ r9 = 64 * (g + f + F)
          BY <1>10, <1>18, <2>2 DEF FlushNext
        <5> QED BY <1>3, <1>10, <2>7, <5>1
      <4> QED BY <1>16, <4>1 DEF CacheFlush, FlushMore, Jl
    <3>2. F * (m + 1) = f + F
      BY <1>3, <1>10, SMT DEF f
    <3>3. m + 1 \in 0 .. K /\ (r11 < call.fence <=> m + 1 < K)
      <4> DEFINE k == m + 1
      <4>1. k \in 1 .. K /\ k \in 0 .. K
        BY <1>3, <1>10, <2>2
      <4>2. r11 = k * (64 * F)
        <5>1. \A x, y \in Nat : x * (64 * y) = 64 * (y * x)
          BY SMT
        <5>2. k * (64 * F) = 64 * (F * k)
          BY <1>3, <1>10, <5>1
        <5> QED BY <1>18, <2>2, <3>2, <5>2
      <4> HIDE DEF k
      <4>3. r11 < call.fence <=> k < K
        BY <1>4, <4>1, <4>2
      <4> QED BY <4>1, <4>3 DEF k
    <3>4. /\ r9' = 64 * (g + F * (m + 1) + 0) /\ r11' = 64 * (F * (m + 1) + 0)
          /\ rdx' = 64 * (g + F * (m + 1) + 0) /\ touched' = 0 .. (g + F * (m + 1) + 0 - 1)
      <4>1. /\ r9 = 64 * (g + f + F) /\ r11 = 64 * (f + F) /\ touched = 0 .. (g + f + F - 1)
        BY <1>18, <2>2
      <4>2. /\ r9' = 64 * (g + f + F) /\ r11' = 64 * (f + F) /\ rdx' = 64 * (g + f + F)
            /\ touched' = 0 .. (g + f + F - 1)
        <5>1. g + f + (d + 1) = g + f + F
          BY <2>7
        <5> QED BY <2>1, <4>1, <5>1
      <4> DEFINE q == F * (m + 1)
      <4>3. q = f + F
        BY <3>2
      <4> HIDE DEF q
      <4>4. /\ r9' = 64 * (g + q + 0) /\ r11' = 64 * (q + 0)
            /\ rdx' = 64 * (g + q + 0) /\ touched' = 0 .. (g + q + 0 - 1)
        <5>1. g + q + 0 = g + f + F /\ q + 0 = f + F
          BY <1>3, <1>10, <4>3
        <5>2. q \in Nat
          BY <1>3, <1>10, <4>3
        <5> QED BY <1>3, <1>10, <4>2, <4>3, <5>1, <5>2
      <4> QED BY <4>4 DEF q
    <3>5. m + 1 < K \/ m + 1 = K
      BY <1>3, <1>10, <3>3
    <3>6. (pc' = "inner" /\ m + 1 < K) \/ (pc' = "fence" /\ m + 1 = K)
      BY <3>1, <3>3, <3>5
    <3>7. 0 \in 0 .. F /\ 0 < F
      BY <1>3
    <3>8. CacheInv'
      BY <1>9, <1>11, <2>2, <3>1, <3>3, <3>4, <3>6, <3>7 DEF g
    <3> QED BY <1>12, <2>5, <3>8
  <2> QED BY <1>3, <1>10, <2>2, <2>6, <2>7
<1>17. CASE CacheFence
  <2>1. /\ pc = "fence" /\ mem' = Fence(mem, Self) /\ r11' = 0 /\ r9' = r9 /\ r10' = r10 /\ rdx' = rdx
        /\ touched' = touched /\ pc' = (IF r9 < call.size THEN "inner" ELSE "done")
    BY <1>17 DEF CacheFence, FenceCounter, Jl
  <2>2. h < H /\ m = K /\ b = 0 /\ d = 0
    BY <1>9, <2>1
  <2>3. G * (h + 1) = g + G /\ f = G /\ F * 0 = 0
    <3>1. G * (h + 1) = g + G
      BY <1>3, <1>10, SMT DEF g
    <3>2. F * 0 = 0 /\ f = G
      BY <1>3, <2>2 DEF f
    <3> QED BY <3>1, <3>2
  <2>4. h + 1 \in 0 .. H /\ (r9 < call.size <=> h + 1 < H)
    <3> DEFINE k == h + 1
    <3>1. k \in 1 .. H /\ k \in 0 .. H
      BY <1>3, <1>10, <2>2
    <3>2. r9 = k * (64 * G)
      <4>1. \A x, y \in Nat : x * (64 * y) = 64 * (y * x)
        BY SMT
      <4>2. k * (64 * G) = 64 * (G * k)
        BY <1>3, <1>10, <4>1
      <4> HIDE DEF k
      <4>3. r9 = 64 * (g + f + 0)
        BY <1>18, <2>2
      <4>4. g + f + 0 = G * (h + 1)
        BY <1>3, <1>10, <2>3
      <4> QED BY <4>2, <4>3, <4>4 DEF k
    <3> HIDE DEF k
    <3>3. r9 < call.size <=> k < H
      BY <1>4, <3>1, <3>2
    <3> QED BY <3>1, <3>3 DEF k
  <2>5. /\ r9' = 64 * (G * (h + 1) + F * 0 + 0) /\ r10' = 64 * 0 /\ r11' = 64 * (F * 0 + 0)
        /\ rdx' = 64 * (G * (h + 1) + F * 0 + 0)
        /\ touched' = 0 .. (G * (h + 1) + F * 0 + 0 - 1)
    <3>1. /\ r9 = 64 * (g + f + 0) /\ r10 = 64 * 0 /\ rdx = 64 * (g + f + 0)
          /\ touched = 0 .. (g + f + 0 - 1)
      BY <1>18, <2>2
    <3> DEFINE q == G * (h + 1)
               z == F * 0
    <3>2. q = g + G /\ f = G /\ z = 0
      BY <2>3
    <3> HIDE DEF q, z
    <3>3. q + z + 0 = g + f + 0 /\ z + 0 = 0
      BY <1>3, <1>10, <3>2
    <3>4. /\ r9' = 64 * (q + z + 0) /\ r10' = 64 * 0 /\ r11' = 64 * (z + 0)
          /\ rdx' = 64 * (q + z + 0) /\ touched' = 0 .. (q + z + 0 - 1)
      BY <1>3, <1>10, <2>1, <3>1, <3>2, <3>3
    <3> QED BY <3>4 DEF q, z
  <2>6. CacheInv'
    <3>1. h + 1 < H \/ h + 1 = H
      BY <1>3, <1>10, <2>4
    <3>2. (pc' = "inner" /\ h + 1 < H) \/ (pc' = "done" /\ h + 1 = H)
      BY <2>1, <2>4, <3>1
    <3>3. 0 \in 0 .. F /\ 0 < F /\ 0 \in 0 .. K /\ 0 < K
      BY <1>3
    <3> QED BY <1>11, <2>4, <2>5, <3>2, <3>3
  <2>7. MemInv'
    <3>1. r9 <= rdx /\ r9 \in Nat /\ rdx \in Nat
      <4>1. rdx = r9
        BY <1>18, <2>2
      <4> QED BY <1>5, <4>1 DEF RegInv
    <3> QED BY <1>5, <1>6, <2>1, <3>1, FenceStep
  <2> QED BY <1>12, <2>6, <2>7
<1> QED BY <1>15, <1>16, <1>17

----------------------------------------------------------------------------
(* The theorems.                                                           *)

\* Every step keeps all of it.
LEMMA AccessNext == MaskBound /\ AccessInv /\ [Next]_vars => AccessInv'
<1> SUFFICES ASSUME MaskBound, AccessInv, [Next]_vars PROVE AccessInv'
  OBVIOUS
<1>1. CASE UNCHANGED vars
  <2>1. /\ call' = call /\ pc' = pc /\ r8' = r8 /\ r9' = r9 /\ r10' = r10 /\ r11' = r11 /\ rdx' = rdx
        /\ seed' = seed /\ mem' = mem /\ touched' = touched
    BY <1>1 DEF vars
  <2>2. RegInv'
    BY <2>1 DEF AccessInv, RegInv
  <2>3. MemInv'
    <3>1. Since' = Since
      BY <2>1 DEF Since, Line
    <3> QED BY <2>1, <3>1, MemSame DEF AccessInv
  <2>4. /\ StrideInv => StrideInv'
        /\ SizebwInv => SizebwInv'
        /\ CacheInv => CacheInv'
        /\ CacheProbeInv => CacheProbeInv'
        /\ ImcProbeInv => ImcProbeInv'
        /\ SeqInv => SeqInv'
    <3>1. StrideInv => StrideInv'
      <4> SUFFICES ASSUME StrideInv PROVE StrideInv'
        OBVIOUS
      <4> DEFINE n == Passes(call.count, 1)
                 w == Passes(call.size, 64)
                 s == call.skip \div 64
                 B(j) == /\ r10 = 64 * j
                         /\ pc \in {"inner", "inner2"} => j < w
                         /\ pc \in {"fence", "fence2"} => j = w
                         /\ pc \in {"next", "done"} => j = 0
                         /\ touched = IF pc = "done" THEN Grid(s, n, w)
                                      ELSE Grid(s, r11, w) \cup Row(s, r11, IF pc = "inner" THEN j ELSE w)
      <4>1. n' = n /\ w' = w /\ s' = s
        BY <2>1
      <4>2. PICK j \in 0 .. w : B(j)
        BY DEF StrideInv
      <4>3. B(j)' /\ j \in 0 .. w'
        BY <2>1, <4>1, <4>2
      <4>4. \E i \in 0 .. w' : B(i)'
        BY <4>3
      <4> QED BY <2>1, <4>1, <4>4 DEF StrideInv
    <3>2. SizebwInv => SizebwInv'
      BY <2>1 DEF SizebwInv
    <3>3. CacheInv => CacheInv'
      BY <2>1 DEF CacheInv
    <3>4. CacheProbeInv => CacheProbeInv'
      BY <2>1 DEF CacheProbeInv
    <3>5. ImcProbeInv => ImcProbeInv'
      BY <2>1 DEF ImcProbeInv
    <3>6. SeqInv => SeqInv'
      BY <2>1 DEF SeqInv
    <3> QED BY <3>1, <3>2, <3>3, <3>4, <3>5, <3>6
  <2> QED BY <2>1, <2>2, <2>3, <2>4 DEF AccessInv, KernelInv
<1>2. CASE StrideAccess \/ StrideFence \/ RawAccess \/ RawFence \/ StrideNext
  BY <1>2, StrideStep
<1>3. CASE SizebwRand \/ SizebwAccess \/ SizebwFence
  BY <1>3, SizebwStep
<1>4. CASE CacheWrite \/ CacheFlush \/ CacheFence
  BY <1>4, CacheStep
<1>5. CASE CacheProbe \/ CacheProbeFence
  BY <1>5, CacheProbeStep
<1>6. CASE ImcProbe \/ SeqAccess
  BY <1>6, ImcProbeStep, SeqStep
<1> QED BY <1>1, <1>2, <1>3, <1>4, <1>5, <1>6 DEF Next

\* Where cachefence is, in lines: never beyond the last one of its arguments.
LEMMA CachePlace ==
  ASSUME AccessInv, call.kernel = "cachefence"
  PROVE  \E a \in Nat, c \in 0 .. FenceGroup(call) : \E d \in 0 .. c :
           /\ a + c <= FenceGroup(call) * FenceCount(call)
           /\ r9 = 64 * (a + c) /\ r11 = 64 * c /\ rdx = 64 * (a + d)
           /\ touched = 0 .. (a + c - 1)
           /\ pc = "done" => c = 0 /\ a = FenceGroup(call) * FenceCount(call)
<1> DEFINE F == FlushLines(call)
           K == FlushCount(call)
           G == FenceGroup(call)
           H == FenceCount(call)
<1>1. call.size \in Int /\ call.cache \in Int /\ call.fence \in Int
  BY KernelKinds
<1>2. F \in Nat \ {0} /\ K \in Nat \ {0} /\ G \in Nat \ {0} /\ H \in Nat \ {0} /\ G = F * K
  BY <1>1, CacheSizes
<1> HIDE DEF F, K, G, H
<1>3. pc \in {"inner", "flush", "fence", "done"} /\ \E h \in 0 .. H, m \in 0 .. K, b \in 0 .. F, d \in 0 .. F :
        /\ r9 = 64 * (G * h + F * m + b) /\ r11 = 64 * (F * m + b) /\ rdx = 64 * (G * h + F * m + d)
        /\ touched = 0 .. (G * h + F * m + b - 1)
        /\ pc \in {"inner", "flush"} => h < H /\ m < K
        /\ pc = "inner" => b < F /\ d = 0
        /\ pc = "flush" => b = F /\ d < F
        /\ pc = "fence" => h < H /\ m = K /\ b = 0 /\ d = 0
        /\ pc = "done" => h = H /\ m = 0 /\ b = 0 /\ d = 0
  BY DEF AccessInv, KernelInv, CacheInv, F, K, G, H
<1>4. PICK h \in 0 .. H, m \in 0 .. K, b \in 0 .. F, d \in 0 .. F :
        /\ r9 = 64 * (G * h + F * m + b) /\ r11 = 64 * (F * m + b) /\ rdx = 64 * (G * h + F * m + d)
        /\ touched = 0 .. (G * h + F * m + b - 1)
        /\ pc \in {"inner", "flush"} => h < H /\ m < K
        /\ pc = "inner" => b < F /\ d = 0
        /\ pc = "flush" => b = F /\ d < F
        /\ pc = "fence" => h < H /\ m = K /\ b = 0 /\ d = 0
        /\ pc = "done" => h = H /\ m = 0 /\ b = 0 /\ d = 0
  BY <1>3
<1> DEFINE a == G * h
           f == F * m
<1>5. a \in Nat /\ f \in Nat /\ b \in Nat /\ d \in Nat /\ m \in Nat /\ h \in Nat /\ G * H \in Nat
  BY <1>2, <1>4
<1>6. f + b <= G /\ d <= b
  <2>1. CASE pc \in {"inner", "flush"}
    <3>1. m < K /\ b <= F /\ d <= b
      BY <1>2, <1>4, <1>5, <2>1
    <3>2. m * F + F <= K * F
      BY <1>2, <1>5, <3>1, Scaled
    <3>3. m * F = f /\ K * F = G
      BY <1>2, <1>5, SMT
    <3> HIDE DEF f
    <3> QED BY <1>2, <1>5, <3>1, <3>2, <3>3
  <2>2. CASE pc \in {"fence", "done"}
    <3>1. m = K \/ m = 0
      BY <1>4, <2>2
    <3>2. f = G \/ f = 0
      BY <1>2, <3>1
    <3> HIDE DEF f
    <3> QED BY <1>2, <1>4, <1>5, <2>2, <3>2
  <2> QED BY <1>3, <2>1, <2>2
<1>7. a + (f + b) <= G * H
  <2>1. CASE h < H
    <3>1. h * G + G <= H * G
      BY <1>2, <1>5, <2>1, Scaled
    <3>2. h * G = a /\ H * G = G * H
      BY <1>2, <1>5, SMT
    <3> HIDE DEF a, f
    <3> QED BY <1>2, <1>5, <1>6, <3>1, <3>2
  <2>2. CASE pc = "done"
    <3>1. h = H /\ m = 0 /\ b = 0
      BY <1>4, <2>2
    <3>2. a = G * H /\ f = 0
      BY <1>2, <3>1
    <3> HIDE DEF a, f
    <3> QED BY <1>5, <3>1, <3>2
  <2> QED BY <1>3, <1>4, <2>1, <2>2
<1>8. pc = "done" => f + b = 0 /\ a = G * H
  BY <1>2, <1>4
<1>9. /\ r9 = 64 * (a + f + b) /\ r11 = 64 * (f + b) /\ rdx = 64 * (a + f + d)
      /\ touched = 0 .. (a + f + b - 1)
  BY <1>4
<1> HIDE DEF a, f
<1>10. /\ f + b \in 0 .. G /\ f + d \in 0 .. (f + b)
       /\ a + f + b = a + (f + b) /\ a + f + d = a + (f + d)
  BY <1>2, <1>5, <1>6
<1>11. /\ a + (f + b) <= G * H
       /\ r9 = 64 * (a + (f + b)) /\ r11 = 64 * (f + b) /\ rdx = 64 * (a + (f + d))
       /\ touched = 0 .. (a + (f + b) - 1)
       /\ pc = "done" => f + b = 0 /\ a = G * H
  <2> HIDE DEF G, H
  <2> QED BY <1>2, <1>5, <1>7, <1>8, <1>9, <1>10
<1> QED BY <1>5, <1>10, <1>11, Zenon DEF G, H

\* The lines of Since, and how many a kernel that fences has at most.
LEMMA SinceBound ==
  ASSUME AccessInv, call.kernel \in Fenced
  PROVE  \E x \in Nat, k \in Nat : /\ Since = x .. (x + k - 1) /\ k <= LossWindow(call)
                                   /\ pc \in {"rand", "next", "done"} => k = 0
<1>1. CASE call.kernel \in Strided
  <2> DEFINE w == Passes(call.size, 64)
             s == call.skip \div 64
  <2>1. call.size \in Int /\ call.skip \in Nat
    BY <1>1, KernelKinds
  <2>2. w \in Nat /\ s \in Nat /\ Passes(call.count, 1) \in Nat
    <3>1. call.count \in Int
      BY <1>1, KernelKinds
    <3>2. w \in Nat \ {0}
      BY <2>1, LinePasses, Zenon
    <3>3. Passes(call.count, 1) \in Nat \ {0}
      BY <3>1, CountPasses, Zenon
    <3> QED BY <2>1, <3>2, <3>3
  <2>3. /\ r11 \in 0 .. Passes(call.count, 1) /\ r8 = 64 * (r11 * s)
        /\ pc \in {"inner", "fence", "inner2", "fence2", "next", "done"}
        /\ \E j \in 0 .. w : r10 = 64 * j /\ (pc \in {"next", "done"} => j = 0)
    BY <1>1 DEF AccessInv, KernelInv, StrideInv
  <2>4. PICK j \in 0 .. w : r10 = 64 * j /\ (pc \in {"next", "done"} => j = 0)
    BY <2>3
  <2> DEFINE a == r11 * s
  <2>5. a \in Nat /\ j \in Nat /\ j <= w /\ r8 = 64 * a
    BY <2>2, <2>3, <2>4
  <2> HIDE DEF a, w
  <2>6. Since = a .. (a + j - 1)
    <3>1. r10 \div 64 = j
      BY <2>4, <2>5
    <3>2. Lines(64 * a, j) = a .. (a + j - 1)
      BY <2>5, LineFacts
    <3> QED BY <1>1, <2>5, <3>1, <3>2 DEF Since, Strided, Sizebw
  <2>7. LossWindow(call) = w
    BY <1>1 DEF LossWindow, Strided, Sizebw, w
  <2> QED BY <2>3, <2>4, <2>5, <2>6, <2>7
<1>2. CASE call.kernel \in Sizebw
  <2> DEFINE w == Passes(call.size, 512)
  <2>1. call.size \in Int
    BY <1>2, KernelKinds
  <2>2. w \in Nat \ {0}
    BY <2>1, BlockPasses, Zenon
  <2>3. /\ pc \in {"rand", "inner", "fence", "done"}
        /\ \E x \in 0 .. MaskLines(call.mask) : r8 = 64 * x
        /\ \E j \in Nat : r10 = 512 * j /\ (pc \in {"inner", "fence"} => j <= w)
    BY <1>2 DEF AccessInv, KernelInv, SizebwInv
  <2>4. LossWindow(call) = 8 * w
    BY <1>2 DEF LossWindow, Strided, Sizebw
  <2> HIDE DEF w
  <2>5. PICK x \in 0 .. MaskLines(call.mask) : r8 = 64 * x
    BY <2>3
  <2>6. PICK j \in Nat : r10 = 512 * j /\ (pc \in {"inner", "fence"} => j <= w)
    BY <2>3
  <2>7. x \in Nat
    OBVIOUS
  <2>8. CASE pc \in {"inner", "fence"}
    <3>1. r10 \div 64 = 8 * j /\ 8 * j \in Nat
      BY <2>6
    <3>2. Lines(64 * x, 8 * j) = x .. (x + 8 * j - 1)
      BY <2>7, <3>1, LineFacts
    <3>3. Since = x .. (x + 8 * j - 1)
      BY <1>2, <2>5, <2>8, <3>1, <3>2 DEF Since, Strided, Sizebw
    <3>4. 8 * j <= 8 * w /\ pc \notin {"rand", "next", "done"}
      BY <2>2, <2>6, <2>8
    <3> QED BY <2>4, <2>7, <3>1, <3>3, <3>4, Zenon
  <2>9. CASE pc \in {"rand", "done"}
    <3>1. Since = {} /\ {} = x .. (x + 0 - 1)
      BY <1>2, <2>7, <2>9 DEF Since, Strided, Sizebw
    <3>2. 0 <= 8 * w /\ 0 \in Nat
      BY <2>2
    <3> QED BY <2>4, <2>7, <3>1, <3>2, Zenon
  <2> QED BY <2>3, <2>8, <2>9
<1>3. CASE call.kernel = "cachefence"
  <2>1. PICK a \in Nat, c \in 0 .. FenceGroup(call) : \E d \in 0 .. c :
           /\ r9 = 64 * (a + c) /\ r11 = 64 * c
           /\ pc = "done" => c = 0
    BY <1>3, CachePlace
  <2>2. LossWindow(call) = FenceGroup(call)
    BY <1>3 DEF LossWindow, Strided, Sizebw
  <2>3. FenceGroup(call) \in Nat \ {0}
    BY <1>3, KernelKinds, CacheSizes
  <2>4. c \in Nat /\ c <= FenceGroup(call) /\ r9 - r11 = 64 * a /\ r11 \div 64 = c
    BY <2>1, <2>3
  <2>5. Since = a .. (a + c - 1)
    <3>1. Lines(64 * a, c) = a .. (a + c - 1)
      BY <2>4, LineFacts
    <3> QED BY <1>3, <2>4, <3>1 DEF Since, Strided, Sizebw
  <2>6. pc \in {"inner", "flush", "fence", "done"}
    BY <1>3 DEF AccessInv, KernelInv, CacheInv
  <2> QED BY <2>1, <2>2, <2>4, <2>5, <2>6
<1> QED BY <1>1, <1>2, <1>3 DEF Fenced, Strided, Sizebw


\* FootprintExact follows: the grid of a stride_ or seq_ kernel, the lines up
\* to r9 of cachefence, the strides of cacheprobe, the passes of imcprobe.
LEMMA FootprintHolds == AccessInv => FootprintExact
<1> SUFFICES ASSUME AccessInv PROVE FootprintExact
  OBVIOUS
<1>1. CASE call.kernel \in Strided
  <2> DEFINE n == Passes(call.count, 1)
             w == Passes(call.size, 64)
             s == call.skip \div 64
  <2>1. call.size \in Int /\ call.count \in Int /\ call.skip \in Nat
    BY <1>1, KernelKinds
  <2>2. n \in Nat /\ w \in Nat /\ s \in Nat
    <3>1. n \in Nat \ {0}
      BY <2>1, CountPasses, Zenon
    <3>2. w \in Nat \ {0}
      BY <2>1, LinePasses, Zenon
    <3> QED BY <2>1, <3>1, <3>2
  <2>3. Footprint(call) = Grid(s, n, w)
    BY <1>1 DEF Footprint, Grid, Strided, Sizebw, Seq_
  <2>4. /\ r11 \in 0 .. n /\ (pc = "done" <=> r11 = n)
        /\ \E j \in 0 .. w : touched = IF pc = "done" THEN Grid(s, n, w)
             ELSE Grid(s, r11, w) \cup Row(s, r11, IF pc = "inner" THEN j ELSE w)
    BY <1>1 DEF AccessInv, KernelInv, StrideInv
  <2>5. CASE pc = "done"
    BY <2>3, <2>4, <2>5 DEF FootprintExact
  <2>6. CASE pc # "done"
    <3>1. PICK j \in 0 .. w : touched = Grid(s, r11, w) \cup Row(s, r11, j)
      <4>1. w \in 0 .. w
        BY <2>2
      <4> QED BY <2>4, <2>6, <4>1
    <3> HIDE DEF n, w, s
    <3>2. r11 \in Nat /\ r11 < n
      BY <2>2, <2>4, <2>6
    <3>3. Grid(s, r11, w) \subseteq Grid(s, n, w) /\ Row(s, r11, j) \subseteq Grid(s, n, w)
      BY <2>2, <3>2, GridGrows
    <3> QED BY <2>3, <2>6, <3>1, <3>3 DEF FootprintExact
  <2> QED BY <2>5, <2>6
<1>2. CASE call.kernel \in Sizebw
  <2>1. Footprint(call) = 0 .. (MaskLines(call.mask) + 8 * Passes(call.size, 512) - 1)
    BY <1>2 DEF Footprint, Strided, Sizebw, Seq_
  <2> QED BY <1>2, <2>1 DEF AccessInv, KernelInv, SizebwInv, FootprintExact
<1>3. CASE call.kernel = "cachefence"
  <2> DEFINE G == FenceGroup(call)
             H == FenceCount(call)
  <2>1. PICK a \in Nat, c \in 0 .. G : \E d \in 0 .. c :
          /\ a + c <= G * H
          /\ r9 = 64 * (a + c) /\ r11 = 64 * c /\ rdx = 64 * (a + d)
          /\ touched = 0 .. (a + c - 1)
          /\ pc = "done" => c = 0 /\ a = G * H
    BY <1>3, CachePlace
  <2>2. Footprint(call) = 0 .. (G * H - 1)
    BY <1>3 DEF Footprint, FenceCount, Strided, Sizebw, Seq_
  <2>3. G \in Nat \ {0} /\ H \in Nat \ {0}
    BY <1>3, KernelKinds, CacheSizes
  <2>4. G * H \in Nat
    BY <2>3
  <2> DEFINE g == G * H
  <2>5. a + c \in Nat /\ a + c <= g /\ (pc = "done" => a + c = g) /\ g \in Nat
    BY <2>1, <2>3, <2>4
  <2> HIDE DEF g
  <2>6. 0 .. (a + c - 1) \subseteq 0 .. (g - 1) /\ (pc = "done" => 0 .. (a + c - 1) = 0 .. (g - 1))
    BY <2>5
  <2> QED BY <2>1, <2>2, <2>6 DEF FootprintExact, g
<1>4. CASE call.kernel = "cacheprobe"
  <2> DEFINE n == Passes(call.end, call.stride)
             s == call.stride \div 64
  <2>1. call.end \in Int /\ call.stride \in Nat \ {0}
    BY <1>4, KernelKinds
  <2>2. n \in Nat \ {0} /\ s \in Nat
    <3>1. n \in Nat \ {0}
      BY <2>1, PassFacts
    <3>2. s \in Nat
      BY <2>1
    <3> QED BY <3>1, <3>2
  <2>3. Footprint(call) = Grid(s, n, 2)
    <3>1. 0 .. 1 = 0 .. (2 - 1)
      OBVIOUS
    <3>2. Footprint(call) = {i * s + j : i \in 0 .. (n - 1), j \in 0 .. 1}
      BY <1>4 DEF Footprint, Strided, Sizebw, Seq_
    <3> QED BY <3>1, <3>2 DEF Grid
  <2>4. /\ pc \in {"inner", "fence", "done"}
        /\ \E i \in 0 .. n : touched = Grid(s, i, 2) /\ (pc = "inner" <=> i < n)
    BY <1>4 DEF AccessInv, KernelInv, CacheProbeInv
  <2>5. PICK i \in 0 .. n : touched = Grid(s, i, 2) /\ (pc = "inner" <=> i < n)
    BY <2>4
  <2> HIDE DEF n, s
  <2>6. i \in Nat /\ i <= n /\ (pc = "done" => i = n)
    BY <2>2, <2>5
  <2>7. Grid(s, i, 2) \subseteq Grid(s, n, 2)
    BY <2>2, <2>6, GridGrows
  <2> QED BY <2>3, <2>5, <2>6, <2>7 DEF FootprintExact
<1>5. CASE call.kernel = "imcprobe"
  <2> DEFINE w == Passes(call.end, 64)
  <2>1. call.end \in Int
    BY <1>5, KernelKinds
  <2>2. w \in Nat \ {0}
    BY <2>1, LinePasses, Zenon
  <2>3. Footprint(call) = 0 .. (w - 1)
    BY <1>5 DEF Footprint, Strided, Sizebw, Seq_
  <2>4. /\ pc = "done" => r9 > 0
        /\ \E j \in 0 .. (w - 1) : touched = 0 .. ((IF r9 = 0 THEN j ELSE w) - 1)
    BY <1>5 DEF AccessInv, KernelInv, ImcProbeInv
  <2> HIDE DEF w
  <2>5. PICK j \in 0 .. (w - 1) : touched = 0 .. ((IF r9 = 0 THEN j ELSE w) - 1)
    BY <2>4
  <2>6. touched \subseteq 0 .. (w - 1) /\ (r9 # 0 => touched = 0 .. (w - 1))
    BY <2>2, <2>5
  <2>7. pc = "done" => r9 # 0
    BY <2>4 DEF AccessInv, RegInv
  <2> QED BY <2>3, <2>6, <2>7 DEF FootprintExact
<1>6. CASE call.kernel \in Seq_
  <2> DEFINE n == Passes(call.end, call.size)
             w == call.size \div 64
  <2>1. call.end \in Int /\ call.size \in Nat \ {0} /\ call.size % 64 = 0
    BY <1>6, KernelKinds
  <2>2. n \in Nat \ {0}
    BY <2>1, PassFacts
  <2>3. w \in Nat \ {0} /\ Passes(call.size, 64) = w
    BY <2>1 DEF Passes
  <2>4. Footprint(call) = Grid(w, n, w)
    <3>1. Footprint(call) = {i * w + j : i \in 0 .. (n - 1), j \in 0 .. (Passes(call.size, 64) - 1)}
      BY <1>6 DEF Footprint, Strided, Sizebw, Seq_
    <3> HIDE DEF n, w
    <3> QED BY <2>3, <3>1 DEF Grid
  <2>5. \E i \in 0 .. n, j \in 0 .. (w - 1) :
          /\ touched = Grid(w, i, w) \cup Row(w, i, j)
          /\ pc = "inner" <=> i < n
          /\ pc = "done" => j = 0
    BY <1>6 DEF AccessInv, KernelInv, SeqInv
  <2>6. PICK i \in 0 .. n, j \in 0 .. (w - 1) :
          /\ touched = Grid(w, i, w) \cup Row(w, i, j)
          /\ pc = "inner" <=> i < n
          /\ pc = "done" => j = 0
    BY <2>5
  <2> HIDE DEF n, w
  <2>7. i \in Nat /\ n \in Nat /\ w \in Nat /\ j \in 0 .. w /\ i <= n
    BY <2>2, <2>3, <2>6
  <2>8. Grid(w, i, w) \subseteq Grid(w, n, w) /\ (i < n => Row(w, i, j) \subseteq Grid(w, n, w))
    BY <2>7, GridGrows
  <2>9. Row(w, i, 0) = {}
    BY <2>7, GridFacts
  <2>10. CASE i < n
    <3>1. pc # "done"
      BY <2>6, <2>10
    <3> QED BY <2>4, <2>6, <2>8, <2>10, <3>1 DEF FootprintExact
  <2>11. CASE i = n
    <3>1. pc = "done"
      <4>1. pc # "inner"
        BY <2>6, <2>7, <2>11
      <4> QED BY <1>6, <4>1 DEF AccessInv, KernelInv, SeqInv
    <3>2. touched = Grid(w, n, w)
      BY <2>6, <2>9, <2>11, <3>1
    <3> QED BY <2>4, <3>2 DEF FootprintExact
  <2> QED BY <2>7, <2>10, <2>11
<1> QED BY <1>1, <1>2, <1>3, <1>4, <1>5, <1>6, KernelKinds

\* LossBounded follows: what is not durable lies in Since.
LEMMA LossHolds == AccessInv => LossBounded
<1> SUFFICES ASSUME AccessInv, call.kernel \in Fenced
             PROVE  Cardinality(Lost(mem)) <= LossWindow(call)
  BY DEF LossBounded
<1>1. PICK x \in Nat, k \in Nat : Since = x .. (x + k - 1) /\ k <= LossWindow(call)
  BY SinceBound
<1>2. Lost(mem) \subseteq Since
  <2>1. MemOK(mem, Line, {Self}) /\ \A l \in Line : mem.per[l] = mem.ver[l] \/ l \in Since
    BY DEF AccessInv, MemInv, Flushing
  <2> QED BY <2>1 DEF MemOK, Lost
<1>3. IsFiniteSet(Since) /\ Cardinality(Since) = k
  <2>1. x \in Int /\ x + k - 1 \in Int
    OBVIOUS
  <2>2. /\ IsFiniteSet(x .. (x + k - 1))
        /\ Cardinality(x .. (x + k - 1)) = IF x > x + k - 1 THEN 0 ELSE (x + k - 1) - x + 1
    BY <2>1, FS_Interval
  <2> QED BY <1>1, <2>2
<1>4. Cardinality(Lost(mem)) <= Cardinality(Since) /\ IsFiniteSet(Lost(mem))
  BY <1>2, <1>3, FS_Subset
<1>5. Cardinality(Lost(mem)) \in Nat
  BY <1>4, FS_CardinalityType
<1>6. LossWindow(call) \in Int
  <2>1. CASE call.kernel \in Strided
    <3>1. call.size \in Int
      BY <2>1, KernelKinds
    <3>2. Passes(call.size, 64) \in Nat \ {0}
      BY <3>1, LinePasses, Zenon
    <3> QED BY <2>1, <3>2 DEF LossWindow, Strided, Sizebw
  <2>2. CASE call.kernel \in Sizebw
    <3>1. call.size \in Int
      BY <2>2, KernelKinds
    <3>2. Passes(call.size, 512) \in Nat \ {0}
      BY <3>1, BlockPasses, Zenon
    <3> QED BY <2>2, <3>2 DEF LossWindow, Strided, Sizebw
  <2>3. CASE call.kernel = "cachefence"
    <3>1. FenceGroup(call) \in Nat \ {0}
      BY <2>3, KernelKinds, CacheSizes
    <3> QED BY <2>3, <3>1 DEF LossWindow, Strided, Sizebw
  <2> QED BY <2>1, <2>2, <2>3 DEF Fenced, Strided, Sizebw
<1> QED BY <1>1, <1>3, <1>4, <1>5, <1>6

\* FencedDurable follows: past a fence nothing is in Since; where no fence
\* comes, everything is on its way.
LEMMA DurableHolds == AccessInv => FencedDurable
<1> SUFFICES ASSUME AccessInv PROVE FencedDurable
  OBVIOUS
<1>1. MemOK(mem, Line, {Self})
  BY DEF AccessInv, MemInv
<1>2. ASSUME call.kernel \in Fenced \cup {"cacheprobe"}, pc \in {"rand", "next", "done"}
      PROVE  Lost(mem) = {}
  <2>1. Since = {}
    <3>1. CASE call.kernel \in Fenced
      <4>1. PICK x \in Nat, k \in Nat : Since = x .. (x + k - 1) /\ k = 0
        BY <1>2, <3>1, SinceBound
      <4> QED BY <4>1
    <3>2. CASE call.kernel = "cacheprobe"
      <4>1. pc = "done"
        BY <1>2, <3>2 DEF AccessInv, KernelInv, CacheProbeInv
      <4> QED BY <3>2, <4>1 DEF Since, Strided, Sizebw
    <3> QED BY <1>2, <3>1, <3>2
  <2>2. \A l \in Line : mem.per[l] = mem.ver[l]
    BY <1>2, <2>1 DEF AccessInv, MemInv, Flushing
  <2> QED BY <1>1, <2>2 DEF Lost, MemOK
<1>3. ASSUME call.kernel \in (Seq_ \cup {"imcprobe"})
      PROVE  Lost(Fence(mem, Self)) = {}
  <2> DEFINE f == Fence(mem, Self)
  <2>1. /\ MemOK(f, Line, {Self}) /\ f.ver = mem.ver
        /\ \A l \in Line : mem.per[l] <= f.per[l]
        /\ \A l \in Line : <<l, mem.ver[l]>> \in mem.pend[Self] => f.per[l] = mem.ver[l]
    BY <1>1, FenceFacts
  <2> HIDE DEF f
  <2>2. ASSUME NEW l \in Line PROVE f.per[l] = f.ver[l]
    <3>1. mem.per[l] = mem.ver[l] \/ <<l, mem.ver[l]>> \in mem.pend[Self]
      BY <1>3 DEF AccessInv, MemInv, Flushing, Seq_
    <3>2. f.per[l] \in Nat /\ f.ver[l] \in Nat /\ f.per[l] <= f.ver[l]
      BY <2>1 DEF MemOK
    <3> QED BY <2>1, <3>1, <3>2
  <2>3. Lost(f) = {}
    BY <2>1, <2>2 DEF Lost, MemOK
  <2> QED BY <2>3 DEF f
<1> QED BY <1>2, <1>3 DEF FencedDurable

\* The seed has a bit that is 1.
SeedInv == \E i \in 0 .. (Width - 1) : seed[i] # 0

\* RandLFSR64 never makes a seed 0: a 1 shifted out comes back at the
\* highest tap, any other stays, one bit lower.
LEMMA LfsrFacts ==
  ASSUME NEW s \in [0 .. (Width - 1) -> {0, 1}], \E i \in 0 .. (Width - 1) : s[i] # 0
  PROVE  \E i \in 0 .. (Width - 1) : Lfsr(s)[i] # 0
<1> DEFINE top == Width - 1
<1>1. top \in Nat /\ top \in Taps /\ Taps \subseteq 0 .. top /\ \A i \in 0 .. top : s[i] \in {0, 1}
  BY MemAccessAssumption
<1>2. CASE s[0] = 1
  <2>1. Lfsr(s)[top] = (0 + s[0]) % 2 /\ top \in 0 .. top
    BY <1>1 DEF Lfsr
  <2> QED BY <1>2, <2>1
<1>3. CASE s[0] = 0
  <2>1. PICK i \in 0 .. top : s[i] # 0
    OBVIOUS
  <2>2. i - 1 \in 0 .. top /\ i - 1 # top /\ i - 1 + 1 = i /\ s[i] = 1
    BY <1>1, <1>3, <2>1
  <2>3. Lfsr(s)[i - 1] = IF i - 1 \in Taps THEN (s[i] + s[0]) % 2 ELSE s[i]
    BY <2>2 DEF Lfsr
  <2>4. Lfsr(s)[i - 1] # 0
    BY <1>3, <2>2, <2>3
  <2> QED BY <2>2, <2>4
<1> QED BY <1>1, <1>2, <1>3

\* So the seed keeps one.
LEMMA SeedNext == SeedInv /\ AccessInv /\ [Next]_vars => SeedInv'
<1> SUFFICES ASSUME SeedInv, AccessInv, [Next]_vars PROVE SeedInv'
  OBVIOUS
<1>1. seed' = seed \/ seed' = Lfsr(seed)
  BY DEF Next, vars, StrideAccess, StrideFence, RawAccess, RawFence, StrideNext,
         SizebwRand, SizebwAccess, SizebwFence, CacheWrite, CacheFlush, CacheFence,
         CacheProbe, CacheProbeFence, ImcProbe, SeqAccess
<1>2. CASE seed' = seed
  BY <1>2 DEF SeedInv
<1>3. CASE seed' = Lfsr(seed)
  <2>1. seed \in [0 .. (Width - 1) -> {0, 1}]
    BY DEF AccessInv, RegInv
  <2>2. \E i \in 0 .. (Width - 1) : Lfsr(seed)[i] # 0
    BY <2>1, LfsrFacts DEF SeedInv
  <2> QED BY <1>3, <2>2 DEF SeedInv
<1> QED BY <1>1, <1>2, <1>3

\* TypeOK follows.
LEMMA TypeHolds == AccessInv /\ SeedInv /\ CallsFit => TypeOK
<1> SUFFICES ASSUME AccessInv, SeedInv, CallsFit PROVE TypeOK
  OBVIOUS
<1>1. touched \subseteq Line /\ call \in Call
  <2>1. touched \subseteq Footprint(call) /\ call \in Call
    BY FootprintHolds DEF FootprintExact, AccessInv, RegInv
  <2> QED BY <2>1 DEF CallsFit
<1>2. pc \in {"rand", "inner", "fence", "inner2", "fence2", "flush", "next", "done"}
  BY KernelKinds DEF AccessInv, KernelInv, StrideInv, SizebwInv, CacheInv, CacheProbeInv,
                     ImcProbeInv, SeqInv
<1>3. \A l \in Line : mem.per[l] <= mem.ver[l]
  BY DEF AccessInv, MemInv, MemOK
<1>4. r9 \in Nat /\ r10 \in Nat /\ r11 \in Nat /\ rdx \in Nat
  BY DEF AccessInv, RegInv
<1>5. rdx \in 0 .. r9
  <2>1. CASE call.kernel = "cachefence"
    <3>1. PICK a \in Nat, c \in 0 .. FenceGroup(call) : \E d \in 0 .. c :
            r9 = 64 * (a + c) /\ rdx = 64 * (a + d)
      BY <2>1, CachePlace
    <3>2. PICK d \in 0 .. c : r9 = 64 * (a + c) /\ rdx = 64 * (a + d)
      BY <3>1
    <3>3. FenceGroup(call) \in Nat \ {0}
      BY <2>1, KernelKinds, CacheSizes
    <3>4. c \in Nat /\ d \in Nat /\ d <= c
      BY <3>3
    <3> QED BY <3>2, <3>4
  <2>2. CASE call.kernel # "cachefence"
    BY <1>4, <2>2 DEF AccessInv, RegInv
  <2> QED BY <2>1, <2>2
<1>6. r8 \in Nat
  <2>1. CASE call.kernel \in Strided
    <3>1. call.skip \in Nat /\ r11 \in Nat /\ r8 = 64 * (r11 * (call.skip \div 64))
      BY <1>4, <2>1, KernelKinds DEF AccessInv, KernelInv, StrideInv
    <3>2. call.skip \div 64 \in Nat
      BY <3>1
    <3>3. \A s, a \in Nat : 64 * (a * s) \in Nat
      BY SMT
    <3> QED BY <3>1, <3>2, <3>3, Zenon
  <2>2. CASE call.kernel \in Sizebw
    BY <2>2 DEF AccessInv, KernelInv, SizebwInv
  <2>3. CASE call.kernel = "cachefence"
    BY <2>3 DEF AccessInv, KernelInv, CacheInv
  <2>4. CASE call.kernel = "cacheprobe"
    <3> DEFINE n == Passes(call.end, call.stride)
    <3>1. call.stride \in Nat /\ \E i \in 0 .. n : r8 = 64 * (i * (call.stride \div 64))
      BY <2>4, KernelKinds DEF AccessInv, KernelInv, CacheProbeInv
    <3> HIDE DEF n
    <3>2. PICK i \in 0 .. n : r8 = 64 * (i * (call.stride \div 64))
      BY <3>1
    <3>3. i \in Nat /\ call.stride \div 64 \in Nat
      BY <3>1
    <3>4. \A s, a \in Nat : 64 * (a * s) \in Nat
      BY SMT
    <3> QED BY <3>2, <3>3, <3>4, Zenon
  <2>5. CASE call.kernel = "imcprobe"
    BY <2>5 DEF AccessInv, KernelInv, ImcProbeInv
  <2>6. CASE call.kernel \in Seq_
    BY <2>6 DEF AccessInv, KernelInv, SeqInv
  <2> QED BY <2>1, <2>2, <2>3, <2>4, <2>5, <2>6, KernelKinds
<1>7. ASSUME pc = "flush" PROVE rdx < r9
  <2>1. call.kernel = "cachefence"
    BY <1>7, KernelKinds DEF AccessInv, KernelInv, StrideInv, SizebwInv, CacheProbeInv, ImcProbeInv, SeqInv
  <2> DEFINE F == FlushLines(call)
             K == FlushCount(call)
             G == FenceGroup(call)
             H == FenceCount(call)
  <2>2. F \in Nat /\ K \in Nat /\ G \in Nat /\ H \in Nat
    BY <2>1, KernelKinds, CacheSizes
  <2>3. CacheInv
    BY <2>1 DEF AccessInv, KernelInv
  <2>4. PICK h \in 0 .. H, m \in 0 .. K, d \in 0 .. F :
          r9 = 64 * (G * h + F * m + F) /\ rdx = 64 * (G * h + F * m + d) /\ d < F
    BY <1>7, <2>3 DEF CacheInv
  <2> HIDE DEF F, K, G, H
  <2>5. h \in Nat /\ m \in Nat /\ d \in Nat
    BY <2>2
  <2> DEFINE g == G * h
             f == F * m
  <2>6. g \in Nat /\ f \in Nat
    BY <2>2, <2>5, SMT
  <2>7. r9 = 64 * (g + f + F) /\ rdx = 64 * (g + f + d)
    BY <2>4
  <2> HIDE DEF g, f
  <2> QED BY <2>2, <2>4, <2>5, <2>6, <2>7
<1> QED BY <1>1, <1>2, <1>3, <1>4, <1>5, <1>6, <1>7 DEF TypeOK, SeedInv

\* AccessInv holds in every reachable state.
THEOREM AccessInvariant == MaskBound => (Spec => []AccessInv)
<1> SUFFICES ASSUME MaskBound PROVE Spec => []AccessInv
  OBVIOUS
<1>1. Init => AccessInv
  BY AccessInit
<1>2. AccessInv /\ [Next]_vars => AccessInv'
  BY AccessNext
<1> QED BY <1>1, <1>2, PTL DEF Spec

\* Every kernel of memaccess.c touches exactly the lines its arguments
\* describe, for any buffer, stride, size and count.
THEOREM FootprintIsExact == MaskBound => (Spec => []FootprintExact)
BY AccessInvariant, FootprintHolds, PTL

\* A power failure inside a kernel that fences takes back no more lines than
\* the kernel stores between two fences, however long the call is.
THEOREM LossIsBounded == MaskBound => (Spec => []LossBounded)
BY AccessInvariant, LossHolds, PTL

\* What such a kernel stored is durable once it is past the fence of an
\* access or has returned; after a seq_ kernel or imcprobe one fence of the
\* caller does it.
THEOREM FencedIsDurable == MaskBound => (Spec => []FencedDurable)
BY AccessInvariant, DurableHolds, PTL

\* The registers stay in range, cachefence's flush behind its stores, the
\* accesses in a buffer that holds the calls, and a nonzero seed nonzero.
THEOREM TypesCorrect == MaskBound /\ CallsFit /\ SeedsSet => (Spec => []TypeOK)
<1> SUFFICES ASSUME MaskBound, CallsFit, SeedsSet PROVE Spec => []TypeOK
  OBVIOUS
<1>1. Init => AccessInv /\ SeedInv
  BY AccessInit DEF Init, SeedsSet, SeedInv
<1>2. AccessInv /\ SeedInv /\ [Next]_vars => AccessInv' /\ SeedInv'
  BY AccessNext, SeedNext
<1>3. AccessInv /\ SeedInv => TypeOK
  BY TypeHolds
<1> QED BY <1>1, <1>2, <1>3, PTL DEF Spec
=============================================================================
