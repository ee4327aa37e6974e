---------------------------- MODULE DriverProofs -----------------------------
(***************************************************************************)
(* Proofs about the two programs that lead one thread through one kernel   *)
(* after the other.  FastRwSep, for any bounds of its loops and any number *)
(* of objects: what its two ways store, where the objects they use lie,    *)
(* and when what they stream is durable.  LatencyJob, for any number of    *)
(* calls of a task: on what lines a test measures, how they are prepared,  *)
(* and what it leaves durable.                                             *)
(***************************************************************************)
EXTENDS FastRwSep, LatencyJob, PMemProofs, SequenceTheorems

\* The cursor all objects come from.
Conc == <<"conc", "nvm">>

\* The sizes doubling goes through.
Rounds ==
  CHOOSE S \in SUBSET (1 .. LastGrn) : FirstGrn \in S /\ \A g \in S : g = LastGrn \/ 2 * g \in S

\* How many objects main takes.
ObjectCount == IF times < 0 THEN 0 ELSE times

\* main's loops: a round is one of the sizes, and the passes of a test loop
\* only come to their end if all their objects exist.
LoopInv ==
  /\ argv1 \in Int /\ test_loop \in Int /\ fp \in BOOLEAN
  /\ pc \in {"init", "alloc", "fill", "mixed", "read", "stream", "measured", "report", "free",
             "mfence", "returned", "crashed", "undefined"}
  /\ t \in Nat /\ i \in Nat /\ j \in Nat
  /\ pc \in {"mixed", "read", "stream", "measured"} => 0 < test_loop
  /\ pc \in {"mixed", "read", "stream", "measured", "report"} =>
       sep_grn \in Rounds /\ sep_grn < LastGrn /\ sep_grn % 2 = 0
  /\ pc \in {"mixed", "read", "stream"} =>
       /\ j < sep_grn /\ i <= Passes
       /\ i = Passes => j = 0
  /\ pc = "stream" => i < Passes
  /\ pc \in {"read", "stream"} => j % 2 = 0
  /\ (pc \in {"read", "stream", "measured"} \/ (pc = "mixed" /\ (t > 0 \/ i > 0))) =>
       sep_grn <= argv1
  /\ pc \in {"free", "mfence", "returned"} => sep_grn = LastGrn
  /\ pc = "undefined" => argv1 < LastGrn \div 2

\* main's array, and the cursor while it is filled: as long as the first
\* region lasts, the objects lie in it one behind the other.
ArrayInv ==
  /\ a \in Seq(blocks)
  /\ DOMAIN left = FA!Cursor /\ DOMAIN curr = FA!Cursor
  /\ pc = "init" => a = << >> /\ i = 0
  /\ pc # "init" => concurrency_myallocator = "conc"
  /\ pc = "alloc" =>
       /\ i = Len(a) /\ i <= ObjectCount
       /\ 64 * i <= ConcAllocSize =>
            curr[Conc] = [reg |-> 0, off |-> 64 * i] /\ left[Conc] = ConcAllocSize - 64 * i
  /\ pc \notin {"init", "alloc"} => Len(a) = ObjectCount
  /\ \A n \in 0 .. (Len(a) - 1) : 64 * (n + 1) <= ConcAllocSize =>
       a[n + 1].reg = 0 /\ a[n + 1].off = 64 * n

\* What a test loop has stored after p passes and n objects of the next.
Profile(p, n) == [x \in Used |-> IF x < n THEN p + 1 ELSE IF x < sep_grn THEN p ELSE 0]

\* The stores of the two ways are as far as main's loops.
StoredInv ==
  /\ DOMAIN stored = {"mixed", "separated"}
  /\ pc = "mixed" => stored["mixed"] = Profile(i, j) /\ stored["separated"] = Profile(0, 0)
  /\ pc \in {"read", "stream", "measured"} => stored["mixed"] = Profile(Passes, 0)
  /\ pc = "read" => stored["separated"] = Profile(i, 0)
  /\ pc = "stream" => stored["separated"] = Profile(i, j)
  /\ pc = "measured" => stored["separated"] = Profile(Passes, 0)

\* The line of the n-th object a pass uses is durable, or on its way.
ObjectLine(n) == LineOf(a[Object(n) + 1])
DurableLine(l) == l \in Line => mem.per[l] = mem.ver[l]
SentLine(l) == l \in Line => SentIn(mem, "main", l)

\* In a round everything streamed so far is sent off, and everything when
\* the first mixed pass is over; without a test loop nothing is streamed.
MemInv ==
  /\ MemOK(mem, Line, {"main"})
  /\ \A n \in 0 .. (sep_grn - 1) :
       (pc \in {"read", "stream", "measured"} \/ (pc = "mixed" /\ (t > 0 \/ i > 0 \/ n < j)))
         => SentLine(ObjectLine(n))
  /\ pc = "read" /\ i = 0 => \A n \in 0 .. (sep_grn - 1) : DurableLine(ObjectLine(n))
  /\ pc = "report" /\ 0 < test_loop => \A n \in 0 .. (sep_grn - 1) : SentLine(ObjectLine(n))
  /\ pc \in {"free", "mfence"} /\ 0 < test_loop =>
       \A n \in 0 .. (sep_grn \div 2 - 1) : SentLine(ObjectLine(n))
  /\ pc = "returned" /\ 0 < test_loop =>
       \A n \in 0 .. (sep_grn \div 2 - 1) : DurableLine(ObjectLine(n))

RwInv == LoopInv /\ ArrayInv /\ StoredInv /\ MemInv

----------------------------------------------------------------------------
(* The loops.                                                              *)

\* Doubling stays among the sizes up to LastGrn.
LEMMA RoundFacts ==
  /\ FirstGrn \in Rounds
  /\ \A g \in Rounds : g \in 1 .. LastGrn /\ (g = LastGrn \/ 2 * g \in Rounds)
<1>1. \E S \in SUBSET (1 .. LastGrn) : FirstGrn \in S /\ \A g \in S : g = LastGrn \/ 2 * g \in S
  BY RoundAssumption
<1>2. Rounds \in SUBSET (1 .. LastGrn) /\ FirstGrn \in Rounds
      /\ \A g \in Rounds : g = LastGrn \/ 2 * g \in Rounds
  BY <1>1, Zenon DEF Rounds
<1> QED BY <1>2

\* A round has a whole number of passes, at least one, and no more objects
\* than half of LastGrn.
LEMMA RoundSizes ==
  ASSUME NEW g \in Rounds, g < LastGrn
  PROVE  g \in Nat \ {0} /\ 2 * g <= LastGrn /\ N_RW \div g \in Nat \ {0}
<1>1. g \in Nat \ {0} /\ 2 * g <= LastGrn /\ g <= N_RW
  BY RoundFacts, RoundAssumption, FastRwSepAssumption
<1>2. N_RW \div g \in Nat \ {0}
  BY <1>1, FastRwSepAssumption, SMT
<1> QED BY <1>1, <1>2

\* A round begins with its first pass, or the rounds are over.
LEMMA LoopBegin ==
  ASSUME LoopInv, NEW g \in Rounds, g % 2 = 0, BeginRound(g), UNCHANGED <<argv1, test_loop, fp>>
  PROVE  LoopInv'
<1>1. /\ sep_grn' = g /\ t' = 0 /\ i' = 0 /\ j' = 0 /\ argv1' = argv1 /\ test_loop' = test_loop /\ fp' = fp
      /\ pc' = IF g >= LastGrn THEN "free" ELSE IF 0 < test_loop THEN "mixed" ELSE "report"
  BY DEF BeginRound
<1>2. g \in 1 .. LastGrn /\ LastGrn \in Nat
  BY RoundFacts, FastRwSepAssumption
<1>3. CASE g < LastGrn
  <2>1. Passes' \in Nat \ {0}
    BY <1>1, <1>3, RoundSizes DEF Passes
  <2>2. /\ pc' = IF 0 < test_loop THEN "mixed" ELSE "report"
        /\ j' < sep_grn' /\ i' <= Passes' /\ (i' # Passes')
    BY <1>1, <1>2, <1>3, <2>1
  <2> QED BY <1>1, <1>2, <1>3, <2>2 DEF LoopInv
<1>4. CASE g = LastGrn
  BY <1>1, <1>2, <1>4 DEF LoopInv
<1> QED BY <1>2, <1>3, <1>4

\* Every step keeps main within its loops.
LEMMA LoopNext == LoopInv /\ [Next]_vars => LoopInv'
<1> SUFFICES ASSUME LoopInv, [Next]_vars PROVE LoopInv'
  OBVIOUS
<1>1. pc \in {"mixed", "read", "stream", "measured"} =>
        /\ sep_grn \in Nat \ {0} /\ 2 * sep_grn <= LastGrn /\ Passes \in Nat \ {0}
        /\ sep_grn % 2 = 0
  BY RoundSizes DEF LoopInv, Passes
<1>2. CASE UNCHANGED vars
  <2>1. Passes' = Passes
    BY <1>2 DEF vars, loops, Passes
  <2> QED BY <1>2, <2>1 DEF vars, loops, LoopInv
<1>3. CASE \/ \E o \in {"ok", "mapfail"} : InitFastAllocator(o)
           \/ AllocObject \/ AllocDone \/ FillObject \/ FillFault
  BY <1>3 DEF LoopInv, InitFastAllocator, AllocObject, AllocDone, FillObject, FillFault, loops
<1>4. CASE FillDone
  <2>1. FirstGrn \in Rounds /\ FirstGrn % 2 = 0
    BY RoundFacts, FastRwSepAssumption
  <2> QED BY <1>4, <2>1, LoopBegin DEF FillDone
<1>5. CASE MixedAccess
  <2>1. /\ pc = "mixed" /\ i < Passes /\ InRange(j) /\ NextInner(j + 1, "mixed")
        /\ argv1' = argv1 /\ test_loop' = test_loop /\ fp' = fp /\ sep_grn' = sep_grn /\ t' = t /\ Passes' = Passes
    BY <1>5 DEF MixedAccess, Passes
  <2>2. j < argv1
    BY <2>1 DEF LoopInv, InRange, Object, times
  <2> QED BY <1>1, <2>1, <2>2 DEF LoopInv, NextInner
<1>6. CASE MixedDone
  <2>1. /\ pc = "mixed" /\ i >= Passes /\ pc' = "read" /\ i' = 0 /\ j' = 0
        /\ argv1' = argv1 /\ test_loop' = test_loop /\ fp' = fp /\ sep_grn' = sep_grn /\ t' = t /\ Passes' = Passes
    BY <1>6 DEF MixedDone, Passes
  <2> QED BY <1>1, <2>1 DEF LoopInv
<1>7. CASE SeparatedRead
  <2>1. /\ pc = "read" /\ i < Passes /\ i' = i
        /\ IF j + 2 < sep_grn THEN j' = j + 2 /\ pc' = pc ELSE j' = 0 /\ pc' = "stream"
        /\ argv1' = argv1 /\ test_loop' = test_loop /\ fp' = fp /\ sep_grn' = sep_grn /\ t' = t /\ Passes' = Passes
    BY <1>7 DEF SeparatedRead, Passes
  <2> QED BY <1>1, <2>1 DEF LoopInv
<1>8. CASE SeparatedStream
  <2>1. /\ pc = "stream" /\ NextInner(j + 2, "read")
        /\ argv1' = argv1 /\ test_loop' = test_loop /\ fp' = fp /\ sep_grn' = sep_grn /\ t' = t /\ Passes' = Passes
    BY <1>8 DEF SeparatedStream, Passes
  <2> QED BY <1>1, <2>1 DEF LoopInv, NextInner
<1>9. CASE SeparatedDone \/ OutOfRange \/ ReportFault
  <2>1. OutOfRange => argv1 < LastGrn \div 2
    BY <1>1, FastRwSepAssumption DEF OutOfRange, InRange, Object, times, LoopInv
  <2> QED BY <1>9, <2>1 DEF SeparatedDone, OutOfRange, ReportFault, loops, LoopInv
<1>10. CASE NextTest
  <2>1. /\ pc = "measured" /\ t' = t + 1
        /\ (pc' = "mixed" /\ i' = 0 /\ j' = 0) \/ (pc' = "report" /\ i' = i /\ j' = j)
        /\ argv1' = argv1 /\ test_loop' = test_loop /\ fp' = fp /\ sep_grn' = sep_grn /\ Passes' = Passes
    BY <1>10 DEF NextTest, Passes
  <2> QED BY <1>1, <2>1 DEF LoopInv
<1>11. CASE NextRound
  <2>1. sep_grn \in Rounds /\ sep_grn < LastGrn
    BY <1>11 DEF NextRound, LoopInv
  <2>2. 2 * sep_grn \in Rounds /\ (2 * sep_grn) % 2 = 0
    BY <2>1, RoundFacts
  <2> QED BY <1>11, <2>2, LoopBegin DEF NextRound
<1>12. CASE FastFree \/ Return
  BY <1>12 DEF FastFree, Return, loops, LoopInv
<1> QED BY <1>2, <1>3, <1>4, <1>5, <1>6, <1>7, <1>8, <1>9, <1>10, <1>11, <1>12 DEF Next

----------------------------------------------------------------------------
(* The array of objects.                                                   *)

\* A request of 64 bytes is not rounded, and its subtraction does not wrap
\* where the block fits.
LEMMA ObjectSize ==
  /\ FA!Align64(64) = 64
  /\ \A x \in Nat : 64 <= x => FA!Sub64(x, 64) = x - 64
<1>1. Word > 64
  BY RegionAssumption, RoundAssumption, FastRwSepAssumption
<1>2. 64 \div 64 = 1 /\ 64 % 64 = 0
  OBVIOUS
<1> QED BY <1>1, <1>2 DEF FA!Align64, FA!Sub64

\* An object more: in its place of the first region, or that is full.
LEMMA ArrayAlloc ==
  ASSUME ArrayInv, LoopInv, AllocObject
  PROVE  ArrayInv'
<1>1. /\ pc = "alloc" /\ pc' = pc /\ i < times /\ i' = i + 1 /\ argv1' = argv1
      /\ concurrency_myallocator = "conc" /\ concurrency_myallocator' = "conc"
      /\ i = Len(a) /\ a \in Seq(blocks) /\ i \in Nat /\ Conc \in FA!Cursor
      /\ DOMAIN left = FA!Cursor /\ DOMAIN curr = FA!Cursor
  BY DEF AllocObject, ArrayInv, LoopInv, Conc, FA!Cursor, FA!Pool
<1>2. FA!AllocFits(Conc, 64) \/ FA!Grow(Conc, 64)
  BY <1>1 DEF AllocObject, FA!GrowNvmOnHeap, Conc
<1>3. PICK b \in blocks' \ blocks : a' = Append(a, b)
  BY DEF AllocObject
<1>4. blocks \subseteq blocks'
  BY <1>2 DEF FA!AllocFits, FA!Grow, FA!Hand
<1>5. /\ a' \in Seq(blocks') /\ Len(a') = i + 1 /\ a'[i + 1] = b
      /\ \A n \in 1 .. i : a'[n] = a[n]
  <2>1. a \in Seq(blocks')
    BY <1>1, <1>4
  <2> QED BY <1>1, <1>3, <2>1
<1>6. DOMAIN left' = FA!Cursor /\ DOMAIN curr' = FA!Cursor
  BY <1>1, <1>2 DEF FA!AllocFits, FA!Grow
<1>7. ASSUME 64 * i <= ConcAllocSize, 64 * (i + 1) <= ConcAllocSize
      PROVE  /\ b.reg = 0 /\ b.off = 64 * i
             /\ curr'[Conc] = [reg |-> 0, off |-> 64 * (i + 1)]
             /\ left'[Conc] = ConcAllocSize - 64 * (i + 1)
  <2>1. curr[Conc] = [reg |-> 0, off |-> 64 * i] /\ left[Conc] = ConcAllocSize - 64 * i
    BY <1>1, <1>7 DEF ArrayInv
  <2>2. left[Conc] \in Nat /\ 64 <= left[Conc]
    BY <1>1, <1>7, <2>1, RegionAssumption
  <2>3. FA!AllocFits(Conc, 64)
    BY <1>2, <2>2, ObjectSize DEF FA!Grow
  <2>4. /\ left' = [left EXCEPT ![Conc] = FA!Sub64(@, 64)]
        /\ curr' = [curr EXCEPT ![Conc].off = @ + 64]
        /\ FA!Hand(Conc, 64, curr[Conc].reg, curr[Conc].off)
    BY <2>3, ObjectSize DEF FA!AllocFits, FA!CurrAfter
  <2>5. b.reg = curr[Conc].reg /\ b.off = curr[Conc].off
    BY <2>4, <1>3 DEF FA!Hand
  <2>6. left'[Conc] = left[Conc] - 64
    BY <1>1, <2>2, <2>4, ObjectSize
  <2>7. curr'[Conc] = [curr[Conc] EXCEPT !.off = @ + 64]
    BY <1>1, <2>4
  <2>8. curr'[Conc] = [reg |-> 0, off |-> 64 * i + 64]
    BY <2>1, <2>7
  <2> QED BY <1>1, <2>1, <2>5, <2>6, <2>8, RegionAssumption
<1>8. ASSUME NEW n \in 0 .. (Len(a') - 1), 64 * (n + 1) <= ConcAllocSize
      PROVE  a'[n + 1].reg = 0 /\ a'[n + 1].off = 64 * n
  <2>1. CASE n = i
    BY <1>1, <1>5, <1>7, <1>8, <2>1, RegionAssumption
  <2>2. CASE n < i
    <3>1. n \in 0 .. (Len(a) - 1) /\ n + 1 \in 1 .. i
      BY <1>1, <1>5, <2>2
    <3> QED BY <1>5, <1>8, <3>1 DEF ArrayInv
  <2> QED BY <1>1, <1>5, <2>1, <2>2
<1>9. i' <= ObjectCount'
  BY <1>1 DEF ObjectCount, times, LoopInv
<1>10. 64 * i' <= ConcAllocSize =>
         curr'[Conc] = [reg |-> 0, off |-> 64 * i'] /\ left'[Conc] = ConcAllocSize - 64 * i'
  BY <1>1, <1>7, RegionAssumption
<1>11. FA!Cursor' = FA!Cursor
  BY DEF FA!Cursor, FA!Pool
<1> QED BY <1>1, <1>5, <1>6, <1>8, <1>9, <1>10, <1>11 DEF ArrayInv

\* init leaves the cursor at the start of the first region.
LEMMA ArrayInit ==
  ASSUME ArrayInv, LoopInv, NEW o, InitFastAllocator(o)
  PROVE  ArrayInv'
<1>1. /\ pc = "init" /\ pc' = "alloc" /\ a' = a /\ i' = i /\ argv1' = argv1 /\ blocks' = blocks
      /\ concurrency_myallocator' = "conc" /\ FA!FirstRegions("conc", 3, o)
  BY DEF InitFastAllocator, FA!InitConcurrency
<1>2. a = << >> /\ i = 0 /\ a \in Seq(blocks) /\ Len(a) = 0
  BY <1>1 DEF ArrayInv
<1>3. Conc \in FA!Cursor /\ Conc[1] = "conc"
  BY DEF Conc, FA!Cursor, FA!Pool
<1>4. /\ DOMAIN left' = FA!Cursor /\ DOMAIN curr' = FA!Cursor
      /\ curr'[Conc] = [reg |-> 0, off |-> 0]
      /\ left'[Conc] = ConcAllocSize
  BY <1>1, <1>3 DEF FA!FirstRegions, FA!InitLeft, FA!RegionSize
<1>5. 0 <= ObjectCount'
  BY <1>1 DEF ObjectCount, times, LoopInv
<1>6. FA!Cursor' = FA!Cursor
  BY DEF FA!Cursor, FA!Pool
<1>7. 64 * 0 = 0 /\ ConcAllocSize - 64 * 0 = ConcAllocSize
  BY RegionAssumption
<1> QED BY <1>1, <1>2, <1>4, <1>5, <1>6, <1>7 DEF ArrayInv

\* Nothing else changes the array.
LEMMA ArrayNext == ArrayInv /\ LoopInv /\ [Next]_vars => ArrayInv'
<1> SUFFICES ASSUME ArrayInv, LoopInv, [Next]_vars PROVE ArrayInv'
  OBVIOUS
<1>1. FA!Cursor' = FA!Cursor
  BY DEF FA!Cursor, FA!Pool
<1>2. CASE UNCHANGED vars
  BY <1>1, <1>2 DEF vars, fa, loops, ArrayInv, ObjectCount, times
<1>3. CASE \E o \in {"ok", "mapfail"} : InitFastAllocator(o)
  BY <1>3, ArrayInit
<1>4. CASE AllocObject
  BY <1>4, ArrayAlloc
<1>5. ASSUME a' = a, blocks' = blocks, argv1' = argv1,
             concurrency_myallocator' = concurrency_myallocator,
             pc \notin {"init", "alloc"}, pc' \notin {"init", "alloc"},
             DOMAIN left' = DOMAIN left, DOMAIN curr' = DOMAIN curr
      PROVE  ArrayInv'
  BY <1>1, <1>5 DEF ArrayInv, ObjectCount, times
<1>6. CASE AllocDone
  <2>1. Len(a) = ObjectCount
    BY <1>6 DEF AllocDone, ArrayInv, LoopInv, ObjectCount, times
  <2>2. a' = a /\ blocks' = blocks /\ argv1' = argv1 /\ left' = left /\ curr' = curr
        /\ concurrency_myallocator' = concurrency_myallocator /\ pc = "alloc" /\ pc' = "fill"
    BY <1>6 DEF AllocDone, fa
  <2> QED BY <1>1, <2>1, <2>2 DEF ArrayInv, ObjectCount, times
<1>7. CASE FillObject \/ FillFault \/ FillDone
  BY <1>5, <1>7 DEF FillObject, FillFault, FillDone, BeginRound, fa
<1>8. CASE MixedAccess \/ MixedDone
  BY <1>5, <1>8 DEF MixedAccess, MixedDone, NextInner, fa
<1>9. CASE SeparatedRead \/ SeparatedStream \/ SeparatedDone
  BY <1>5, <1>9 DEF SeparatedRead, SeparatedStream, SeparatedDone, NextInner, fa
<1>10. CASE OutOfRange \/ NextTest \/ NextRound \/ ReportFault
  BY <1>5, <1>10 DEF OutOfRange, NextTest, NextRound, ReportFault, BeginRound, fa
<1>11. CASE FastFree
  BY <1>5, <1>11 DEF FastFree, FA!FastFree, FA!Free
<1>12. CASE Return
  BY <1>5, <1>12 DEF Return, fa
<1> QED BY <1>2, <1>3, <1>4, <1>6, <1>7, <1>8, <1>9, <1>10, <1>11, <1>12 DEF Next

----------------------------------------------------------------------------
(* The stores of a test loop.                                              *)

\* One object more, two more, and a pass that is over.
LEMMA ProfileFacts ==
  ASSUME sep_grn \in Nat, NEW p \in Nat, NEW n \in Nat
  PROVE  /\ n + 1 <= sep_grn =>
              [x \in Used |-> IF x \in {n} THEN Profile(p, n)[x] + 1 ELSE Profile(p, n)[x]]
                = Profile(p, n + 1)
         /\ n + 2 <= sep_grn =>
              [x \in Used |-> IF x \in Pair(n) THEN Profile(p, n)[x] + 1 ELSE Profile(p, n)[x]]
                = Profile(p, n + 2)
         /\ Profile(p, sep_grn) = Profile(p + 1, 0)
         /\ Profile(0, 0) = [x \in Used |-> 0]
<1>1. \A x \in Used : x \in Nat
  BY FastRwSepAssumption DEF Used
<1>2. \A x \in Used : Profile(p, n)[x] = IF x < n THEN p + 1 ELSE IF x < sep_grn THEN p ELSE 0
  BY DEF Profile
<1>3. ASSUME n + 1 <= sep_grn, NEW x \in Used
      PROVE  (IF x \in {n} THEN Profile(p, n)[x] + 1 ELSE Profile(p, n)[x])
               = IF x < n + 1 THEN p + 1 ELSE IF x < sep_grn THEN p ELSE 0
  BY <1>1, <1>2, <1>3
<1>4. ASSUME n + 2 <= sep_grn, NEW x \in Used
      PROVE  (IF x \in Pair(n) THEN Profile(p, n)[x] + 1 ELSE Profile(p, n)[x])
               = IF x < n + 2 THEN p + 1 ELSE IF x < sep_grn THEN p ELSE 0
  BY <1>1, <1>2, <1>4 DEF Pair
<1>5. ASSUME NEW x \in Used
      PROVE  /\ (IF x < sep_grn THEN p + 1 ELSE IF x < sep_grn THEN p ELSE 0)
                  = IF x < 0 THEN p + 1 + 1 ELSE IF x < sep_grn THEN p + 1 ELSE 0
             /\ (IF x < 0 THEN 0 + 1 ELSE IF x < sep_grn THEN 0 ELSE 0) = 0
  BY <1>1
<1>6. n + 1 <= sep_grn =>
        [x \in Used |-> IF x \in {n} THEN Profile(p, n)[x] + 1 ELSE Profile(p, n)[x]]
          = Profile(p, n + 1)
  BY <1>3, Zenon DEF Profile
<1>7. n + 2 <= sep_grn =>
        [x \in Used |-> IF x \in Pair(n) THEN Profile(p, n)[x] + 1 ELSE Profile(p, n)[x]]
          = Profile(p, n + 2)
  BY <1>4, Zenon DEF Profile
<1>8. Profile(p, sep_grn) = Profile(p + 1, 0) /\ Profile(0, 0) = [x \in Used |-> 0]
  BY <1>5, Zenon DEF Profile
<1> QED BY <1>6, <1>7, <1>8

\* A streaming store counts in its own way only.
LEMMA StreamStored ==
  ASSUME DOMAIN stored = {"mixed", "separated"}, NEW w \in {"mixed", "separated"}, NEW S,
         Stream(w, S)
  PROVE  /\ DOMAIN stored' = {"mixed", "separated"}
         /\ stored'[w] = [x \in Used |-> IF x \in S THEN stored[w][x] + 1 ELSE stored[w][x]]
         /\ \A v \in {"mixed", "separated"} : v # w => stored'[v] = stored[v]
BY DEF Stream

\* Every step counts as the loops go.
LEMMA StoredNext == StoredInv /\ LoopInv /\ [Next]_vars => StoredInv'
<1> SUFFICES ASSUME StoredInv, LoopInv, [Next]_vars PROVE StoredInv'
  OBVIOUS
<1>1. pc \in {"mixed", "read", "stream", "measured", "report"} =>
        /\ sep_grn \in Nat \ {0} /\ 2 * sep_grn <= LastGrn /\ Passes \in Nat \ {0}
        /\ sep_grn % 2 = 0
  BY RoundSizes DEF LoopInv, Passes
<1>2. i \in Nat /\ j \in Nat
  BY DEF LoopInv
<1>4. CASE UNCHANGED vars
  <2>1. Profile(i, j)' = Profile(i, j) /\ Profile(0, 0)' = Profile(0, 0)
        /\ Profile(Passes, 0)' = Profile(Passes, 0) /\ Profile(i, 0)' = Profile(i, 0)
    BY <1>4 DEF vars, loops, Profile, Used, Passes
  <2> QED BY <1>4, <2>1 DEF vars, loops, StoredInv
<1>5. CASE pc' \notin {"mixed", "read", "stream", "measured"} /\ stored' = stored
  BY <1>5 DEF StoredInv
<1>6. ASSUME NEW g, BeginRound(g), g \in Nat PROVE StoredInv'
  <2>1. /\ sep_grn' = g /\ i' = 0 /\ j' = 0 /\ stored' = NoStores
          /\ pc' \in {"mixed", "report", "free"}
    BY <1>6 DEF BeginRound
  <2>2. Profile(0, 0)' = [x \in Used |-> 0]
    BY <1>6, <2>1, FastRwSepAssumption DEF Profile, Used
  <2>3. Profile(i, j)' = Profile(0, 0)'
    BY <2>1 DEF Profile
  <2> QED BY <2>1, <2>2, <2>3 DEF StoredInv, NoStores
<1>7. CASE \/ \E o \in {"ok", "mapfail"} : InitFastAllocator(o)
           \/ AllocObject \/ AllocDone \/ FillObject \/ FillFault
  BY <1>5, <1>7 DEF InitFastAllocator, AllocObject, AllocDone, FillObject, FillFault
<1>8. CASE FillDone
  BY <1>6, <1>8, FastRwSepAssumption DEF FillDone
<1>9. CASE MixedAccess
  <2>1. /\ pc = "mixed" /\ i < Passes /\ Stream("mixed", {j}) /\ NextInner(j + 1, "mixed")
        /\ sep_grn' = sep_grn /\ j < sep_grn
    BY <1>9 DEF MixedAccess, LoopInv
  <2>2. /\ stored'["mixed"] = Profile(i, j + 1) /\ stored'["separated"] = Profile(0, 0)
        /\ DOMAIN stored' = {"mixed", "separated"}
    <3>1. j + 1 <= sep_grn
      BY <1>1, <1>2, <2>1
    <3>2. /\ stored'["mixed"] =
               [x \in Used |-> IF x \in {j} THEN stored["mixed"][x] + 1 ELSE stored["mixed"][x]]
          /\ stored'["separated"] = stored["separated"] /\ DOMAIN stored' = {"mixed", "separated"}
      BY <2>1, StreamStored DEF StoredInv
    <3>3. stored["mixed"] = Profile(i, j) /\ stored["separated"] = Profile(0, 0)
      BY <2>1 DEF StoredInv
    <3>4. sep_grn \in Nat
      BY <1>1, <2>1
    <3>5. [x \in Used |-> IF x \in {j} THEN Profile(i, j)[x] + 1 ELSE Profile(i, j)[x]]
            = Profile(i, j + 1)
      BY <1>2, <3>1, <3>4, ProfileFacts
    <3>6. stored'["mixed"] = Profile(i, j + 1)
      BY <3>2, <3>3, <3>5, Zenon
    <3> QED BY <3>2, <3>3, <3>6
  <2>3. pc' = "mixed" /\ Profile(i, j + 1) = Profile(i', j')
    <3>1. Profile(i, sep_grn) = Profile(i + 1, 0)
      BY <1>1, <1>2, <2>1, ProfileFacts
    <3> QED BY <1>1, <1>2, <2>1, <3>1 DEF NextInner
  <2>4. Profile(i', j') = Profile(i, j)' /\ Profile(0, 0)' = Profile(0, 0)
    BY <2>1 DEF Profile, Used
  <2> QED BY <2>2, <2>3, <2>4 DEF StoredInv
<1>10. CASE MixedDone
  <2>1. /\ pc = "mixed" /\ i >= Passes /\ pc' = "read" /\ i' = 0 /\ j' = 0 /\ stored' = stored
        /\ sep_grn' = sep_grn
    BY <1>10 DEF MixedDone
  <2>2. i = Passes /\ j = 0
    BY <1>1, <1>2, <2>1 DEF LoopInv
  <2>3. Profile(i, 0)' = Profile(0, 0) /\ Profile(Passes, 0)' = Profile(Passes, 0)
    BY <2>1 DEF Profile, Used, Passes
  <2> QED BY <2>1, <2>2, <2>3 DEF StoredInv
<1>11. CASE SeparatedRead
  <2>1. /\ pc = "read" /\ pc' \in {"read", "stream"} /\ i' = i /\ stored' = stored
        /\ (pc' = "stream" => j' = 0) /\ sep_grn' = sep_grn
    BY <1>11 DEF SeparatedRead
  <2>2. Profile(i, 0)' = Profile(i, 0) /\ Profile(Passes, 0)' = Profile(Passes, 0)
    BY <2>1 DEF Profile, Used, Passes
  <2>3. pc' = "stream" => Profile(i, j)' = Profile(i, 0)
    BY <2>1 DEF Profile, Used
  <2> QED BY <2>1, <2>2, <2>3 DEF StoredInv
<1>12. CASE SeparatedStream
  <2>1. /\ pc = "stream" /\ i < Passes /\ Stream("separated", Pair(j)) /\ NextInner(j + 2, "read")
        /\ sep_grn' = sep_grn /\ j < sep_grn /\ j % 2 = 0
    BY <1>12 DEF SeparatedStream, LoopInv
  <2>2. j + 2 <= sep_grn
    BY <1>1, <1>2, <2>1
  <2>3. /\ stored'["separated"] = Profile(i, j + 2) /\ stored'["mixed"] = Profile(Passes, 0)
        /\ DOMAIN stored' = {"mixed", "separated"}
    <3>1. /\ stored'["separated"] =
               [x \in Used |-> IF x \in Pair(j) THEN stored["separated"][x] + 1
                                               ELSE stored["separated"][x]]
          /\ stored'["mixed"] = stored["mixed"] /\ DOMAIN stored' = {"mixed", "separated"}
      BY <2>1, StreamStored DEF StoredInv
    <3>2. stored["mixed"] = Profile(Passes, 0) /\ stored["separated"] = Profile(i, j)
      BY <2>1 DEF StoredInv
    <3>3. sep_grn \in Nat
      BY <1>1, <2>1
    <3>4. [x \in Used |-> IF x \in Pair(j) THEN Profile(i, j)[x] + 1 ELSE Profile(i, j)[x]]
            = Profile(i, j + 2)
      BY <1>2, <2>2, <3>3, ProfileFacts
    <3>5. stored'["separated"] = Profile(i, j + 2)
      BY <3>1, <3>2, <3>4, Zenon
    <3> QED BY <3>1, <3>2, <3>5
  <2>4. /\ pc' \in {"stream", "read"} /\ Profile(i, j + 2) = Profile(i', j')
        /\ pc' = "read" => j' = 0
    <3>1. Profile(i, sep_grn) = Profile(i + 1, 0)
      BY <1>1, <1>2, <2>1, ProfileFacts
    <3>2. CASE j + 2 < sep_grn
      BY <2>1, <3>2 DEF NextInner
    <3>3. CASE j + 2 = sep_grn
      BY <1>1, <2>1, <3>1, <3>3 DEF NextInner
    <3>4. j + 2 < sep_grn \/ j + 2 = sep_grn
      BY <1>1, <1>2, <2>1, <2>2
    <3> QED BY <3>2, <3>3, <3>4
  <2>5. Profile(i', j') = Profile(i, j)' /\ Profile(Passes, 0)' = Profile(Passes, 0)
        /\ Profile(i', 0) = Profile(i, 0)'
    BY <2>1 DEF Profile, Used, Passes
  <2> QED BY <2>3, <2>4, <2>5 DEF StoredInv
<1>13. CASE SeparatedDone
  <2>1. /\ pc = "read" /\ i >= Passes /\ pc' = "measured" /\ stored' = stored /\ sep_grn' = sep_grn
    BY <1>13 DEF SeparatedDone, loops
  <2>2. i = Passes
    BY <1>1, <1>2, <2>1 DEF LoopInv
  <2>3. Profile(Passes, 0)' = Profile(Passes, 0)
    BY <2>1 DEF Profile, Used, Passes
  <2> QED BY <2>1, <2>2, <2>3 DEF StoredInv
<1>14. CASE NextTest
  <2> SUFFICES ASSUME pc' # "report" PROVE StoredInv'
    BY <1>14 DEF NextTest, StoredInv
  <2>1. /\ pc' = "mixed" /\ i' = 0 /\ j' = 0 /\ stored' = NoStores /\ sep_grn' = sep_grn
        /\ pc = "measured"
    BY <1>14 DEF NextTest
  <2>2. Profile(0, 0) = [x \in Used |-> 0]
    BY <1>1, <2>1, ProfileFacts
  <2>3. Profile(i, j)' = Profile(0, 0) /\ Profile(0, 0)' = Profile(0, 0)
    BY <2>1 DEF Profile, Used
  <2> QED BY <2>1, <2>2, <2>3 DEF StoredInv, NoStores
<1>15. CASE NextRound
  <2>1. 2 * sep_grn \in Nat
    BY <1>1, <1>15 DEF NextRound
  <2> QED BY <1>6, <1>15, <2>1 DEF NextRound
<1>16. CASE OutOfRange \/ ReportFault \/ FastFree \/ Return
  BY <1>5, <1>16 DEF OutOfRange, ReportFault, FastFree, Return
<1> QED BY <1>4, <1>7, <1>8, <1>9, <1>10, <1>11, <1>12, <1>13, <1>14, <1>15, <1>16 DEF Next

----------------------------------------------------------------------------
(* The stores under way.                                                   *)

\* A streaming store sends its lines off, and takes back none that was.
LEMMA StreamSent ==
  ASSUME MemOK(mem, Line, {"main"}), NEW way, NEW S, Stream(way, S), a' = a
  PROVE  /\ MemOK(mem', Line, {"main"})
         /\ \A l : SentLine(l) => SentLine(l)'
         /\ \A n \in S : SentLine(ObjectLine(n))'
<1> DEFINE X == {ObjectLine(n) : n \in S}
<1>1. mem' = Clwb(Store(mem, X), "main", X)
  BY DEF Stream, NTStore, ObjectLine
<1>2. \A n \in S : ObjectLine(n)' \in X
  BY DEF ObjectLine, LineOf
<1> HIDE DEF X
<1>3. /\ MemOK(mem', Line, {"main"})
      /\ \A l \in X : SentIn(mem', "main", l)
      /\ \A l \in Line : SentIn(mem, "main", l) => SentIn(mem', "main", l)
  BY <1>1, SendLines
<1>4. \A l : SentLine(l)' <=> (l \in Line => SentIn(mem', "main", l))
  BY DEF SentLine, Line
<1>5. \A l : SentLine(l) => SentLine(l)'
  BY <1>3, <1>4 DEF SentLine
<1>6. ASSUME NEW n \in S PROVE SentLine(ObjectLine(n))'
  BY <1>2, <1>3 DEF SentLine
<1> QED BY <1>3, <1>5, <1>6

\* What has been sent off is durable behind a fence.
LEMMA FenceSent ==
  ASSUME MemOK(mem, Line, {"main"}), mem' = Fence(mem, "main")
  PROVE  /\ MemOK(mem', Line, {"main"})
         /\ \A l : SentLine(l) => DurableLine(l)' /\ SentLine(l)'
<1>1. /\ MemOK(mem', Line, {"main"})
      /\ \A l \in Line : SentIn(mem, "main", l) => mem'.per[l] = mem'.ver[l]
  BY FenceLines
<1> QED BY <1>1 DEF DurableLine, SentLine, SentIn, Line

\* What MemInv says of an object of a pass.
ObjectSent(n) == SentLine(ObjectLine(n))
ObjectDurable(n) == DurableLine(ObjectLine(n))

\* Every step sends off what it has to, or keeps what was sent off.
LEMMA MemNext == MemInv /\ LoopInv /\ [Next]_vars => MemInv'
<1> SUFFICES ASSUME MemInv, LoopInv, [Next]_vars PROVE MemInv'
  OBVIOUS
<1> DEFINE N == 0 .. (sep_grn - 1)
           H == 0 .. (sep_grn \div 2 - 1)
<1>1. MemOK(mem, Line, {"main"})
  BY DEF MemInv
<1>2. pc \in {"mixed", "read", "stream", "measured", "report"} =>
        /\ sep_grn \in Nat \ {0} /\ 2 * sep_grn <= LastGrn /\ Passes \in Nat \ {0}
        /\ sep_grn % 2 = 0
  BY RoundSizes DEF LoopInv, Passes
<1>3. i \in Nat /\ j \in Nat /\ t \in Nat
  BY DEF LoopInv
<1>4. /\ pc \in {"read", "stream", "measured"} => \A n \in N : ObjectSent(n)
      /\ pc = "mixed" => \A n \in N : (t > 0 \/ i > 0 \/ n < j) => ObjectSent(n)
      /\ pc = "read" /\ i = 0 => \A n \in N : ObjectDurable(n)
      /\ pc = "report" /\ 0 < test_loop => \A n \in N : ObjectSent(n)
      /\ pc \in {"free", "mfence"} /\ 0 < test_loop => \A n \in H : ObjectSent(n)
      /\ pc = "returned" /\ 0 < test_loop => \A n \in H : ObjectDurable(n)
  BY DEF MemInv, ObjectSent, ObjectDurable
<1>5. ASSUME MemOK(mem, Line, {"main"})',
             pc' \in {"read", "stream", "measured"} => \A n \in N' : ObjectSent(n)',
             pc' = "mixed" => \A n \in N' : (t' > 0 \/ i' > 0 \/ n < j') => ObjectSent(n)',
             pc' = "read" /\ i' = 0 => \A n \in N' : ObjectDurable(n)',
             pc' = "report" /\ 0 < test_loop' => \A n \in N' : ObjectSent(n)',
             pc' \in {"free", "mfence"} /\ 0 < test_loop' => \A n \in H' : ObjectSent(n)',
             pc' = "returned" /\ 0 < test_loop' => \A n \in H' : ObjectDurable(n)'
      PROVE  MemInv'
  BY <1>5 DEF MemInv, ObjectSent, ObjectDurable
<1>6. ASSUME mem' = mem, a' = a
      PROVE  /\ MemOK(mem, Line, {"main"})'
             /\ \A n : /\ ObjectSent(n)' <=> ObjectSent(n)
                       /\ ObjectDurable(n)' <=> ObjectDurable(n)
  BY <1>1, <1>6 DEF ObjectSent, ObjectDurable, SentLine, SentIn, DurableLine, ObjectLine,
                      LineOf, Line
<1>7. CASE UNCHANGED vars
  <2>1. /\ mem' = mem /\ a' = a /\ pc' = pc /\ i' = i /\ j' = j /\ t' = t /\ sep_grn' = sep_grn
        /\ test_loop' = test_loop
    BY <1>7 DEF vars, loops
  <2> QED BY <1>4, <1>5, <1>6, <2>1
<1>8. CASE pc' \in {"init", "alloc", "fill", "crashed", "undefined"} /\ mem' = mem
  <2>1. MemOK(mem, Line, {"main"})'
    BY <1>1, <1>8 DEF Line
  <2> QED BY <1>5, <1>8, <2>1
<1>9. CASE \/ \E o \in {"ok", "mapfail"} : InitFastAllocator(o)
           \/ AllocObject \/ AllocDone \/ FillFault \/ OutOfRange \/ ReportFault
  BY <1>8, <1>9
     DEF InitFastAllocator, AllocObject, AllocDone, FillFault, OutOfRange, ReportFault
<1>10. CASE FillObject
  <2>1. pc' = "fill" /\ mem' = Store(mem, {LineOf(a[i + 1])})
    BY <1>10 DEF FillObject
  <2>2. MemOK(mem', Line, {"main"})
    BY <1>1, <2>1, StoreFacts
  <2> QED BY <1>5, <2>1, <2>2 DEF Line
<1>11. CASE FillDone
  <2>1. /\ sep_grn' = FirstGrn /\ t' = 0 /\ i' = 0 /\ j' = 0
        /\ pc' = (IF 0 < test_loop THEN "mixed" ELSE "report") /\ test_loop' = test_loop
        /\ mem' = mem /\ a' = a
    BY <1>11, RoundAssumption, FastRwSepAssumption DEF FillDone, BeginRound
  <2>2. \A n \in N' : ~(n < j')
    BY <2>1, FastRwSepAssumption
  <2> QED BY <1>5, <1>6, <2>1, <2>2
<1>12. CASE MixedAccess
  <2>1. /\ pc = "mixed" /\ Stream("mixed", {j}) /\ NextInner(j + 1, "mixed") /\ a' = a
        /\ sep_grn' = sep_grn /\ t' = t /\ j < sep_grn
    BY <1>12 DEF MixedAccess, LoopInv
  <2>2. /\ MemOK(mem', Line, {"main"})
        /\ \A l : SentLine(l) => SentLine(l)'
        /\ \A n \in {j} : ObjectSent(n)'
    BY <1>1, <2>1, StreamSent DEF ObjectSent
  <2>3. \A n : ObjectSent(n) => ObjectSent(n)'
    BY <2>1, <2>2 DEF ObjectSent, ObjectLine, LineOf, SentLine, Line
  <2>4. ASSUME NEW n \in N', t' > 0 \/ i' > 0 \/ n < j' PROVE ObjectSent(n)'
    BY <1>2, <1>3, <1>4, <2>1, <2>2, <2>3, <2>4 DEF NextInner
  <2>5. pc' = "mixed"
    BY <2>1 DEF NextInner
  <2> QED BY <1>5, <2>2, <2>4, <2>5 DEF Line
<1>13. CASE MixedDone
  <2>1. /\ pc = "mixed" /\ i >= Passes /\ pc' = "read" /\ mem' = Fence(mem, "main") /\ a' = a
        /\ sep_grn' = sep_grn
    BY <1>13 DEF MixedDone, MixedFence
  <2>2. \A n \in N : ObjectSent(n)
    BY <1>2, <1>3, <1>4, <2>1
  <2>3. /\ MemOK(mem', Line, {"main"})
        /\ \A l : SentLine(l) => DurableLine(l)' /\ SentLine(l)'
    BY <1>1, <2>1, FenceSent
  <2>4. \A n \in N' : ObjectSent(n)' /\ ObjectDurable(n)'
    BY <2>1, <2>2, <2>3 DEF ObjectSent, ObjectDurable, ObjectLine, LineOf, SentLine, DurableLine,
                                 Line
  <2> QED BY <1>5, <2>1, <2>3, <2>4 DEF Line
<1>14. CASE SeparatedRead \/ SeparatedDone
  <2>1. /\ pc = "read" /\ pc' \in {"read", "stream", "measured"} /\ mem' = mem /\ a' = a
        /\ i' = i /\ sep_grn' = sep_grn
    BY <1>14 DEF SeparatedRead, SeparatedDone, loops
  <2> QED BY <1>4, <1>5, <1>6, <2>1
<1>15. CASE SeparatedStream
  <2>1. /\ pc = "stream" /\ Stream("separated", Pair(j)) /\ a' = a /\ sep_grn' = sep_grn
        /\ NextInner(j + 2, "read")
    BY <1>15 DEF SeparatedStream
  <2>2. pc' = "stream" \/ (pc' = "read" /\ i' # 0)
    BY <1>3, <2>1 DEF NextInner
  <2>3. /\ MemOK(mem', Line, {"main"})
        /\ \A l : SentLine(l) => SentLine(l)'
    BY <1>1, <2>1, StreamSent
  <2>4. \A n \in N' : ObjectSent(n)'
    BY <1>4, <2>1, <2>3 DEF ObjectSent, ObjectLine, LineOf, SentLine, Line
  <2> QED BY <1>5, <2>2, <2>3, <2>4 DEF Line
<1>16. CASE NextTest
  <2>1. /\ pc = "measured" /\ pc' \in {"mixed", "report"} /\ mem' = mem /\ a' = a
        /\ sep_grn' = sep_grn
    BY <1>16 DEF NextTest
  <2> QED BY <1>4, <1>5, <1>6, <2>1
<1>17. CASE NextRound
  <2>1. /\ pc = "report" /\ pc' \in {"mixed", "report", "free"} /\ mem' = mem /\ a' = a
        /\ sep_grn' = 2 * sep_grn /\ t' = 0 /\ i' = 0 /\ j' = 0 /\ test_loop' = test_loop
        /\ pc' = "report" => ~(0 < test_loop)
    BY <1>17 DEF NextRound, BeginRound
  <2>2. H' = N /\ \A n \in N' : ~(n < j')
    BY <1>2, <2>1
  <2> HIDE DEF H, N
  <2> QED BY <1>4, <1>5, <1>6, <2>1, <2>2
<1>18. CASE FastFree
  <2>1. pc = "free" /\ pc' = "mfence" /\ mem' = mem /\ a' = a /\ sep_grn' = sep_grn
        /\ test_loop' = test_loop
    BY <1>18 DEF FastFree, loops
  <2> QED BY <1>4, <1>5, <1>6, <2>1
<1>19. CASE Return
  <2>1. /\ pc = "mfence" /\ pc' = "returned" /\ mem' = Fence(mem, "main") /\ a' = a
        /\ sep_grn' = sep_grn /\ test_loop' = test_loop
    BY <1>19 DEF Return, loops
  <2>2. /\ MemOK(mem', Line, {"main"})
        /\ \A l : SentLine(l) => DurableLine(l)' /\ SentLine(l)'
    BY <1>1, <2>1, FenceSent
  <2>3. 0 < test_loop => \A n \in H' : ObjectDurable(n)'
    BY <1>4, <2>1, <2>2 DEF ObjectSent, ObjectDurable, ObjectLine, LineOf, SentLine, DurableLine,
                                 Line
  <2> QED BY <1>5, <2>1, <2>2, <2>3 DEF Line
<1> QED BY <1>7, <1>9, <1>10, <1>11, <1>12, <1>13, <1>14, <1>15, <1>16, <1>17, <1>18, <1>19 DEF Next

----------------------------------------------------------------------------
(* The invariant, and what it shows.                                       *)

\* A process begins with nothing allocated, nothing stored, and nothing
\* under way.
LEMMA RwInit == Init => RwInv
<1> SUFFICES ASSUME Init PROVE RwInv
  OBVIOUS
<1>1. LoopInv
  BY FastRwSepAssumption DEF Init, LoopInv
<1>2. ArrayInv
  <2>1. /\ pc = "init" /\ a = << >> /\ i = 0 /\ blocks = {}
        /\ DOMAIN left = FA!Cursor /\ DOMAIN curr = FA!Cursor
    BY DEF Init, FA!Init
  <2> QED BY <2>1 DEF ArrayInv
<1>3. StoredInv
  BY DEF Init, StoredInv, NoStores
<1>4. MemInv
  BY ZeroFacts DEF Init, MemInv
<1> QED BY <1>1, <1>2, <1>3, <1>4 DEF RwInv

\* The invariant holds in every reachable state.
LEMMA RwReachable == Spec => []RwInv
<1>1. RwInv /\ [Next]_vars => RwInv'
  BY LoopNext, ArrayNext, StoredNext, MemNext DEF RwInv
<1> QED BY <1>1, RwInit, PTL DEF Spec

\* The objects of a pass lie in the first region, 256 bytes apart.
LEMMA ObjectPlace ==
  ASSUME RwInv, pc \in {"mixed", "read", "stream"}, NEW n \in 0 .. (sep_grn - 1), InRange(n)
  PROVE  a[Object(n) + 1].reg = 0 /\ a[Object(n) + 1].off \div 256 = n
<1>1. sep_grn \in Nat \ {0} /\ 2 * sep_grn <= LastGrn
  BY RoundSizes DEF RwInv, LoopInv
<1>2. /\ Object(n) \in Nat /\ Object(n) = 4 * n /\ argv1 \in Int
      /\ Object(n) < times /\ Len(a) = ObjectCount
  BY DEF RwInv, LoopInv, ArrayInv, InRange, Object
<1>3. Object(n) \in 0 .. (Len(a) - 1)
  BY <1>2 DEF times, ObjectCount
<1>4. 64 * (Object(n) + 1) <= ConcAllocSize
  BY <1>1, <1>2, RegionAssumption, FastRwSepAssumption
<1>5. a[Object(n) + 1].reg = 0 /\ a[Object(n) + 1].off = 64 * Object(n)
  BY <1>3, <1>4, Zenon DEF RwInv, ArrayInv
<1> QED BY <1>2, <1>5

\* Main's loops stay within its array: only an argument too small for the
\* last round leads past its end, and then in a mixed pass.
THEOREM LoopsWithinArray == Spec => []TypeOK
<1>1. RwInv => TypeOK
  <2> SUFFICES ASSUME RwInv PROVE TypeOK
    OBVIOUS
  <2>1. pc \in {"mixed", "read", "stream"} => j \in 0 .. (sep_grn - 1) /\ sep_grn < LastGrn
    BY RoundSizes DEF RwInv, LoopInv
  <2>2. pc = "stream" => \A n \in Pair(j) : InRange(n)
    <3> SUFFICES ASSUME pc = "stream", NEW n \in Pair(j) PROVE InRange(n)
      OBVIOUS
    <3>1. /\ sep_grn \in Nat /\ sep_grn % 2 = 0 /\ j \in Nat /\ j % 2 = 0 /\ j < sep_grn
          /\ sep_grn <= argv1 /\ argv1 \in Int
      BY RoundSizes DEF RwInv, LoopInv
    <3>2. n < sep_grn /\ n \in Nat
      BY <3>1 DEF Pair
    <3> QED BY <3>1, <3>2 DEF InRange, Object, times
  <2>3. argv1 >= LastGrn \div 2 => pc # "undefined"
    BY FastRwSepAssumption DEF RwInv, LoopInv
  <2> QED BY <2>1, <2>2, <2>3 DEF RwInv, LoopInv, ArrayInv, ObjectCount, TypeOK
<1> QED BY <1>1, RwReachable, PTL

\* A test loop stores to each of its objects once per pass, in both ways.
THEOREM WaysStoreAlike == Spec => []SameWork
<1>1. RwInv => SameWork
  <2> SUFFICES ASSUME RwInv, pc = "measured", NEW w \in {"mixed", "separated"}
               PROVE  stored[w] = [n \in Used |-> IF n < sep_grn THEN Passes ELSE 0]
    BY DEF SameWork
  <2>1. stored[w] = Profile(Passes, 0)
    BY DEF RwInv, StoredInv
  <2>2. ASSUME NEW n \in Used PROVE ~(n < 0)
    BY FastRwSepAssumption DEF Used
  <2> QED BY <2>1, <2>2 DEF Profile
<1> QED BY <1>1, RwReachable, PTL

\* The objects a pass uses lie in blocks of the medium of their own.
THEOREM ObjectsOwnBlocks == Spec => []OwnBlocks
<1>1. RwInv => OwnBlocks
  BY ObjectPlace DEF OwnBlocks
<1> QED BY <1>1, RwReachable, PTL

\* The separated passes begin with nothing under way, and main returns with
\* nothing under way.
THEOREM StreamsDrained == Spec => []Drained
<1>1. RwInv => Drained
  <2> SUFFICES ASSUME RwInv, pc = "returned" \/ (pc = "read" /\ i = 0), 0 < test_loop,
                      NEW n \in 0 .. ((IF pc = "returned" THEN sep_grn \div 2 ELSE sep_grn) - 1)
               PROVE  ObjectLine(n) \notin Lost(mem)
    BY DEF Drained, ObjectLine
  <2>1. DurableLine(ObjectLine(n))
    BY DEF RwInv, MemInv
  <2>2. \A l \in Line : mem.ver[l] \in Nat /\ DOMAIN mem.ver = Line
    BY DEF RwInv, MemInv, MemOK
  <2>3. DOMAIN mem.ver = Line
    BY DEF RwInv, MemInv, MemOK
  <2> QED BY <2>1, <2>2, <2>3 DEF DurableLine, Lost
<1> QED BY <1>1, RwReachable, PTL

----------------------------------------------------------------------------
(* LatencyJob.                                                             *)

\* A test works on one, two or four lines, each with two accesses or eight,
\* and a write-back.
TestOK(r) ==
  \/ /\ r.kind \in Warm \cup Cold /\ r.size \in {64, 128, 256}
  \/ r.kind = "baseline" /\ r.size = 0

\* Three sequences one behind the other.
LEMMA JoinThree ==
  ASSUME NEW S, NEW x \in Seq(S), NEW y \in Seq(S), NEW z \in Seq(S)
  PROVE  x \o y \o z \in Seq(S) /\ Len(x \o y \o z) = Len(x) + Len(y) + Len(z)
<1>1. x \o y \in Seq(S) /\ Len(x \o y) = Len(x) + Len(y)
  BY ConcatProperties
<1> QED BY <1>1, ConcatProperties

\* A table made of three blocks and a last row.
Table(x, y, z, e) == x \o y \o z \o <<e>>

\* Its row m, if each block has l.
Row(l, x, y, z, e, m) ==
  IF m <= l THEN x[m]
  ELSE IF m <= l + l THEN y[m - l]
  ELSE IF m <= l + l + l THEN z[m - (l + l)] ELSE e

LEMMA TableRows ==
  ASSUME NEW S, NEW l \in Nat, NEW x, NEW y, NEW z, NEW e \in S,
         x \in Seq(S) /\ Len(x) = l, y \in Seq(S) /\ Len(y) = l, z \in Seq(S) /\ Len(z) = l
  PROVE  \A m \in 1 .. l + l + l + 1 :
           Table(x, y, z, e)[m] = Row(l, x, y, z, e, m)
<1>1. \A u, v \in Seq(S) :
        /\ u \o v \in Seq(S) /\ Len(u \o v) = Len(u) + Len(v)
        /\ \A m \in 1 .. Len(u) + Len(v) :
             (u \o v)[m] = IF m <= Len(u) THEN u[m] ELSE v[m - Len(u)]
  BY ConcatProperties
<1> DEFINE xy == x \o y
           b == xy \o z
           f == <<e>>
<1>2. f \in Seq(S) /\ Len(f) = 1 /\ f[1] = e
  OBVIOUS
<1> HIDE DEF f
<1>3. /\ xy \in Seq(S) /\ Len(xy) = l + l
      /\ \A m \in 1 .. l + l : xy[m] = IF m <= l THEN x[m] ELSE y[m - l]
  <2>1. /\ xy \in Seq(S) /\ Len(xy) = Len(x) + Len(y)
        /\ \A m \in 1 .. Len(x) + Len(y) : xy[m] = IF m <= Len(x) THEN x[m] ELSE y[m - Len(x)]
    BY <1>1, Zenon DEF xy
  <2> QED BY <2>1, Zenon
<1> HIDE DEF xy
<1>4. /\ b \in Seq(S) /\ Len(b) = l + l + l
      /\ \A m \in 1 .. l + l + l : b[m] = IF m <= l + l THEN xy[m] ELSE z[m - (l + l)]
  <2>1. /\ b \in Seq(S) /\ Len(b) = Len(xy) + Len(z)
        /\ \A m \in 1 .. Len(xy) + Len(z) : b[m] = IF m <= Len(xy) THEN xy[m] ELSE z[m - Len(xy)]
    BY <1>1, <1>3, Zenon DEF b
  <2> QED BY <1>3, <2>1, Zenon
<1> HIDE DEF b
<1>5. \A m \in 1 .. l + l + l + 1 :
        (b \o f)[m] = IF m <= l + l + l THEN b[m] ELSE f[m - (l + l + l)]
  <2>1. \A m \in 1 .. Len(b) + Len(f) : (b \o f)[m] = IF m <= Len(b) THEN b[m] ELSE f[m - Len(b)]
    BY <1>1, <1>2, <1>4, Zenon
  <2> QED BY <1>2, <1>4, <2>1, Zenon
<1> DEFINE c == b \o f
<1>6. \A m \in 1 .. l + l + l + 1 : c[m] = IF m <= l + l + l THEN b[m] ELSE f[m - (l + l + l)]
  BY <1>5
<1> HIDE DEF c
<1>7. ASSUME NEW m \in 1 .. l + l + l + 1
      PROVE  c[m] = IF m <= l THEN x[m]
                    ELSE IF m <= l + l THEN y[m - l]
                    ELSE IF m <= l + l + l THEN z[m - (l + l)] ELSE e
  <2>1. CASE m <= l
    <3>1. m \in 1 .. l + l /\ m \in 1 .. l + l + l /\ m <= l + l /\ m <= l + l + l
      BY <2>1
    <3> QED BY <1>3, <1>4, <1>6, <2>1, <3>1, Zenon
  <2>2. CASE m > l /\ m <= l + l
    <3>1. m \in 1 .. l + l /\ m \in 1 .. l + l + l /\ ~(m <= l) /\ m <= l + l + l
      BY <2>2
    <3> QED BY <1>3, <1>4, <1>6, <2>2, <3>1, Zenon
  <2>3. CASE m > l + l /\ m <= l + l + l
    <3>1. m \in 1 .. l + l + l /\ ~(m <= l) /\ ~(m <= l + l)
      BY <2>3
    <3> QED BY <1>4, <1>6, <2>3, <3>1, Zenon
  <2>4. CASE m > l + l + l
    <3>1. m - (l + l + l) = 1 /\ ~(m <= l) /\ ~(m <= l + l) /\ ~(m <= l + l + l)
      BY <2>4
    <3> QED BY <1>2, <1>6, <3>1, Zenon
  <2> QED BY <2>1, <2>2, <2>3, <2>4
<1> QED BY <1>7 DEF xy, b, c, f, Row, Table

\* All of the BASIC_OPS_TASK_COUNT tasks are in the table of either build, and
\* the other table steps by the size that the task's function works on.
LEMMA TaskTable ==
  ASSUME NEW with_aep \in BOOLEAN, NEW n \in 1 .. 25
  PROVE  TestOK(Tests(with_aep)[n]) /\ Skips(with_aep)[n] = Tests(with_aep)[n].size
<1> DEFINE K == Warm \cup Cold
           E == [kind : K, size : {64, 128, 256}]
           kinds == Kinds(with_aep)
           block(size) == [x \in DOMAIN kinds |-> Test(kinds[x], size)]
           l == IF with_aep THEN 10 ELSE 8
<1>1. kinds \in Seq(K) /\ Len(kinds) = l
  <2> DEFINE first == <<"load_fence", "ntload_fence", "store_fence", "store_clflush">>
             aeps == IF with_aep THEN <<"store_clwb", "store_clflushopt">> ELSE << >>
             last == <<"nstore_fence", "store_fence_movq", "store_clflush_movq", "load_fence_movq">>
  <2>1. first \in Seq(K) /\ Len(first) = 4 /\ last \in Seq(K) /\ Len(last) = 4
    BY DEF Warm, Cold
  <2>2. aeps \in Seq(K) /\ Len(aeps) = IF with_aep THEN 2 ELSE 0
    <3>1. "store_clwb" \in K /\ "store_clflushopt" \in K
      BY DEF Warm
    <3> HIDE DEF K
    <3>2. CASE with_aep
      BY <3>1, <3>2
    <3>3. CASE ~with_aep
      BY <3>3
    <3> QED BY <3>2, <3>3
  <2>3. kinds = (first \o aeps) \o last
    BY DEF Kinds
  <2> HIDE DEF first, aeps, last, K
  <2>4. first \o aeps \o last \in Seq(K)
        /\ Len(first \o aeps \o last) = Len(first) + Len(aeps) + Len(last)
    <3>1. \A x, y, z \in Seq(K) :
            x \o y \o z \in Seq(K) /\ Len(x \o y \o z) = Len(x) + Len(y) + Len(z)
      BY JoinThree
    <3> QED BY <2>1, <2>2, <3>1, Zenon
  <2>5. kinds \in Seq(K) /\ Len(kinds) = 4 + Len(aeps) + 4
    BY <2>1, <2>3, <2>4, Zenon
  <2> QED BY <2>2, <2>5
<1>2. l \in {8, 10} /\ l \in Nat
  OBVIOUS
<1> HIDE DEF K, kinds, l
<1>3. ASSUME NEW size \in {64, 128, 256}
      PROVE  /\ block(size) \in Seq(E) /\ Len(block(size)) = l
             /\ \A x \in 1 .. l : block(size)[x] \in E /\ block(size)[x].size = size
  <2>1. DOMAIN kinds = 1 .. l
    BY <1>1, <1>2
  <2>2. \A x \in 1 .. l : Test(kinds[x], size) \in E /\ Test(kinds[x], size).size = size
    BY <1>1, <2>1 DEF Test
  <2>3. block(size) \in [1 .. l -> E]
    BY <2>1, <2>2
  <2>4. \A x \in 1 .. l : block(size)[x] = Test(kinds[x], size)
    BY <2>1
  <2>5. \A x \in 1 .. l : block(size)[x] \in E /\ block(size)[x].size = size
    <3> HIDE DEF block, E
    <3> QED BY <2>2, <2>4
  <2> HIDE DEF block, E
  <2> QED BY <1>2, <2>3, <2>5
<1> DEFINE base == Test("baseline", 0)
           F == E \cup {base}
           size(m) == IF m <= l THEN 64 ELSE IF m <= l + l THEN 128
                      ELSE IF m <= l + l + l THEN 256 ELSE 0
<1>4. n \in 1 .. l + l + l + 1
  BY <1>2
<1>5. /\ n <= l + l + l => Tests(with_aep)[n] \in E
      /\ n > l + l + l => Tests(with_aep)[n] = base
      /\ Tests(with_aep)[n].size = size(n)
  <2> DEFINE u == block(64)
             v == block(128)
             w == block(256)
  <2>1. base.size = 0 /\ base \in F /\ E \subseteq F
    BY DEF Test
  <2>2. Tests(with_aep) = u \o v \o w \o <<base>>
    BY DEF Tests, kinds
  <2> HIDE DEF base, F, E
  <2>3. /\ u \in Seq(F) /\ Len(u) = l /\ v \in Seq(F) /\ Len(v) = l /\ w \in Seq(F) /\ Len(w) = l
        /\ \A x \in 1 .. l : u[x] \in E /\ u[x].size = 64
        /\ \A x \in 1 .. l : v[x] \in E /\ v[x].size = 128
        /\ \A x \in 1 .. l : w[x] \in E /\ w[x].size = 256
    <3>1. /\ u \in Seq(E) /\ v \in Seq(E) /\ w \in Seq(E)
          /\ Len(u) = l /\ Len(v) = l /\ Len(w) = l
          /\ \A x \in 1 .. l : u[x] \in E /\ u[x].size = 64
          /\ \A x \in 1 .. l : v[x] \in E /\ v[x].size = 128
          /\ \A x \in 1 .. l : w[x] \in E /\ w[x].size = 256
      BY <1>3
    <3> HIDE DEF u, v, w
    <3>2. \A q \in Seq(E) : q \in Seq(F)
      BY <2>1
    <3> QED BY <3>1, <3>2
  <2> HIDE DEF u, v, w
  <2>4. Tests(with_aep)[n] =
          IF n <= l THEN u[n] ELSE IF n <= l + l THEN v[n - l]
          ELSE IF n <= l + l + l THEN w[n - (l + l)] ELSE base
    <3>1. \A m \in 1 .. l + l + l + 1 : Table(u, v, w, base)[m] = Row(l, u, v, w, base, m)
      <4>1. base \in F /\ l \in Nat
        BY <1>2, <2>1
      <4>2. /\ u \in Seq(F) /\ Len(u) = l /\ v \in Seq(F) /\ Len(v) = l
            /\ w \in Seq(F) /\ Len(w) = l
        BY <2>3
      <4> QED BY <4>1, <4>2, TableRows
    <3>2. Tests(with_aep)[n] = Row(l, u, v, w, base, n)
      BY <1>4, <2>2, <3>1, Zenon DEF Table
    <3> QED BY <3>2 DEF Row
  <2>5. CASE n <= l
    <3>1. n \in 1 .. l /\ ~(n > l + l + l) /\ size(n) = 64
      BY <1>2, <1>4, <2>5
    <3>2. Tests(with_aep)[n] = u[n]
      BY <2>4, <2>5, Zenon
    <3> HIDE DEF size
    <3>3. Tests(with_aep)[n] \in E /\ Tests(with_aep)[n].size = 64
      <4>1. u[n] \in E /\ u[n].size = 64
        BY <2>3, <3>1
      <4> QED BY <3>2, <4>1, Zenon
    <3> QED BY <3>1, <3>3, Zenon
  <2>6. CASE n > l /\ n <= l + l
    <3>1. n - l \in 1 .. l /\ ~(n <= l) /\ ~(n > l + l + l) /\ size(n) = 128
      BY <1>2, <2>6
    <3>2. Tests(with_aep)[n] = v[n - l]
      BY <2>4, <2>6, <3>1, Zenon
    <3> HIDE DEF size
    <3>3. Tests(with_aep)[n] \in E /\ Tests(with_aep)[n].size = 128
      <4>1. v[n - l] \in E /\ v[n - l].size = 128
        BY <2>3, <3>1
      <4> QED BY <3>2, <4>1, Zenon
    <3> QED BY <3>1, <3>3, Zenon
  <2>7. CASE n > l + l /\ n <= l + l + l
    <3>1. n - (l + l) \in 1 .. l /\ ~(n <= l) /\ ~(n <= l + l) /\ ~(n > l + l + l) /\ size(n) = 256
      BY <1>2, <2>7
    <3>2. Tests(with_aep)[n] = w[n - (l + l)]
      BY <2>4, <2>7, <3>1, Zenon
    <3> HIDE DEF size
    <3>3. Tests(with_aep)[n] \in E /\ Tests(with_aep)[n].size = 256
      <4>1. w[n - (l + l)] \in E /\ w[n - (l + l)].size = 256
        BY <2>3, <3>1
      <4> QED BY <3>2, <4>1, Zenon
    <3> QED BY <3>1, <3>3, Zenon
  <2>8. CASE n > l + l + l
    <3>1. ~(n <= l) /\ ~(n <= l + l) /\ ~(n <= l + l + l) /\ size(n) = 0
      BY <1>2, <2>8
    <3>2. Tests(with_aep)[n] = base
      BY <2>4, <3>1, Zenon
    <3> HIDE DEF size
    <3> QED BY <2>1, <3>1, <3>2, Zenon
  <2>9. n <= l \/ (n > l /\ n <= l + l) \/ (n > l + l /\ n <= l + l + l) \/ n > l + l + l
    BY <1>2
  <2> QED BY <2>5, <2>6, <2>7, <2>8, <2>9, Zenon
<1>6. Skips(with_aep)[n] = size(n)
  <2> DEFINE rows(skip) == [x \in 1 .. l |-> skip]
             u == rows(64)
             v == rows(128)
             w == rows(256)
  <2>1. Skips(with_aep) = u \o v \o w \o <<0>>
    BY DEF Skips, l
  <2>2. /\ u \in Seq(Nat) /\ Len(u) = l /\ v \in Seq(Nat) /\ Len(v) = l
        /\ w \in Seq(Nat) /\ Len(w) = l
        /\ \A x \in 1 .. l : u[x] = 64 /\ v[x] = 128 /\ w[x] = 256
    BY <1>2
  <2> HIDE DEF u, v, w
  <2>3. Skips(with_aep)[n] =
          IF n <= l THEN u[n] ELSE IF n <= l + l THEN v[n - l]
          ELSE IF n <= l + l + l THEN w[n - (l + l)] ELSE 0
    <3> DEFINE zero == 0
    <3>1. zero \in Nat /\ Skips(with_aep) = u \o v \o w \o <<zero>>
      BY <2>1
    <3> HIDE DEF zero
    <3>2. \A m \in 1 .. l + l + l + 1 : Table(u, v, w, zero)[m] = Row(l, u, v, w, zero, m)
      <4>1. zero \in Nat /\ l \in Nat
        BY <1>2, <3>1
      <4>2. /\ u \in Seq(Nat) /\ Len(u) = l /\ v \in Seq(Nat) /\ Len(v) = l
            /\ w \in Seq(Nat) /\ Len(w) = l
        BY <2>2
      <4> QED BY <4>1, <4>2, TableRows
    <3>3. Skips(with_aep)[n] = Row(l, u, v, w, zero, n)
      BY <1>4, <3>1, <3>2, Zenon DEF Table
    <3> QED BY <3>3 DEF Row, zero
  <2>4. /\ n <= l => n \in 1 .. l
        /\ n > l /\ n <= l + l => n - l \in 1 .. l
        /\ n > l + l /\ n <= l + l + l => n - (l + l) \in 1 .. l
    BY <1>2
  <2> QED BY <1>2, <2>2, <2>3, <2>4
<1>7. TestOK(Tests(with_aep)[n])
  <2>1. CASE n <= l + l + l
    <3>1. Tests(with_aep)[n] \in E
      BY <1>5, <2>1
    <3> QED BY <3>1 DEF TestOK, K
  <2>2. CASE n > l + l + l
    <3>1. Tests(with_aep)[n] = base /\ base.kind = "baseline" /\ base.size = 0
      BY <1>5, <2>2 DEF Test
    <3> QED BY <3>1 DEF TestOK
  <2> QED BY <1>2, <2>1, <2>2
<1> QED BY <1>5, <1>6, <1>7

\* Where the call is: its buffer, and how far it has come.
JobBounds ==
  /\ aep \in BOOLEAN /\ task \in 0 .. 25 /\ op \in 0 .. (LATENCY_OPS_COUNT - 1)
  /\ buf \in Nat /\ k \in Nat
  /\ at \in {"call", "prepare", "timed", "return", "done"}
  /\ at # "done" => task < 25 /\ 64 * buf = op * test.size /\ k <= Length
  /\ at \in {"call", "prepare"} => k = 0
  /\ at = "prepare" => test.kind # "baseline"
  /\ at = "return" => k = Length
  /\ cached \subseteq Nat
  /\ MemOK(pm, Buffer, {0})

\* The lines of the call that a store has reached end here.
Reached == buf + ((k + PerLine(test.kind) - 1) \div PerLine(test.kind))

\* What the measured instructions have done to the lines they are through
\* with, and left of what the preparation did to the others.
JobProgress ==
  (Calling /\ at = "timed") =>
    /\ test.kind \in Cold => \A l \in Own : SentIn(pm, 0, l)
    /\ test.kind \in Flushing => \A l \in buf .. (Target - 1) : SentIn(pm, 0, l)
    /\ test.kind \in Warm \ Flushing =>
         pm.pend[0] = {} /\ \A l \in buf .. (Reached - 1) : pm.per[l] < pm.ver[l]

JobInv == JobBounds /\ JobProgress /\ PreparedAsNamed /\ DurableAsNamed

\* The instructions of the lines before, and of the line under way.
LEMMA LineSteps ==
  ASSUME NEW p \in {2, 3, 8, 9}, NEW w \in {1, 2, 4}, NEW n \in Nat
  PROVE  /\ 0 \div p = 0 /\ (0 + p - 1) \div p = 0 /\ (w * p) \div p = w
         /\ (w * p + p - 1) \div p = w /\ w * p \in Nat
         /\ n < w * p => n \div p \in 0 .. (w - 1)
         /\ n \div p \in Nat
         /\ (n + 1) \div p = IF n % p = p - 1 THEN n \div p + 1 ELSE n \div p
         /\ (n + 1 + p - 1) \div p = n \div p + 1
         /\ (n + p - 1) \div p \in Nat /\ n \div p <= (n + p - 1) \div p
<1>1. CASE p = 2
  BY <1>1
<1>2. CASE p = 3
  BY <1>2
<1>3. CASE p = 8
  BY <1>3
<1>4. CASE p = 9
  BY <1>4
<1> QED BY <1>1, <1>2, <1>3, <1>4

\* The test of a task, and the lines of a call of it, which its preparation
\* covers.
LEMMA TestFacts ==
  ASSUME JobBounds, at # "done"
  PROVE  /\ test.kind = "baseline" => test.size = 0 /\ Length = 0
         /\ test.kind # "baseline" =>
              /\ test.kind \in Warm \cup Cold
              /\ PerLine(test.kind) \in {2, 3, 8, 9}
              /\ test.size \div 64 \in {1, 2, 4}
              /\ test.size \in {64, 128, 256}
              /\ Window \subseteq Buffer
              /\ Own \subseteq Window
<1> DEFINE T == test
<1>1. TestOK(T)
  <2>1. task + 1 \in 1 .. 25 /\ aep \in BOOLEAN
    BY DEF JobBounds
  <2> QED BY <2>1, TaskTable DEF test, bench_func
<1>2. PerLine(T.kind) \in {2, 3, 8, 9}
  BY DEF PerLine, Accesses
<1>3. CASE T.kind = "baseline"
  <2>1. T.size = 0
    BY <1>1, <1>3 DEF TestOK, Warm, Cold
  <2>2. Length = (0 \div 64) * PerLine(T.kind)
    BY <2>1 DEF Length
  <2> HIDE DEF T
  <2>3. Length = 0
    BY <1>2, <2>2
  <2> QED BY <1>3, <2>1, <2>3 DEF T
<1>4. CASE T.kind # "baseline"
  <2>1. T.kind \in Warm \cup Cold /\ T.size \in {64, 128, 256}
    BY <1>1, <1>4 DEF TestOK
  <2>2. T.size \div 64 \in {1, 2, 4}
    BY <2>1
  <2>3. /\ LATENCY_OPS_COUNT \in Nat \ {0} /\ op \in 0 .. (LATENCY_OPS_COUNT - 1)
        /\ 64 * buf = op * T.size /\ buf \in Nat
    BY LatencyAssumption DEF JobBounds
  <2>4. buf + 3 <= 4 * LATENCY_OPS_COUNT - 1
    <3> HIDE DEF T
    <3>1. CASE T.size = 64
      BY <2>3, <3>1
    <3>2. CASE T.size = 128
      BY <2>3, <3>2
    <3>3. CASE T.size = 256
      BY <2>3, <3>3
    <3> QED BY <2>1, <3>1, <3>2, <3>3
  <2>5. Window \subseteq Buffer /\ Own \subseteq Window
    BY <2>2, <2>3, <2>4 DEF Window, Buffer, Own
  <2> QED BY <1>2, <1>4, <2>1, <2>2, <2>5
<1> QED BY <1>3, <1>4

\* What a test has to leave in memory when it returns.
JobReturned(m) ==
  Lost(m) \cap Own = IF test.kind \in Warm \ Flushing THEN Own ELSE {}

\* A step within a call keeps the invariant if it does what the call's test
\* is there for.
LEMMA WithinCall ==
  ASSUME JobBounds, aep' = aep, task' = task, op' = op, buf' = buf, at # "done",
         at' \in {"prepare", "timed", "return"},
         k' \in Nat, k' <= Length,
         at' = "prepare" => k' = 0 /\ test.kind # "baseline",
         at' = "return" => k' = Length,
         cached' \subseteq Nat, MemOK(pm', Buffer, {0}),
         (at' = "timed" /\ test.kind # "baseline") =>
           LET p == PerLine(test.kind)
           IN  /\ test.kind \in Cold => \A l \in Own : SentIn(pm', 0, l)
               /\ test.kind \in Flushing =>
                    \A l \in buf .. ((buf + (k' \div p)) - 1) : SentIn(pm', 0, l)
               /\ test.kind \in Warm \ Flushing =>
                    /\ pm'.pend[0] = {}
                    /\ \A l \in buf .. ((buf + ((k' + p - 1) \div p)) - 1) :
                         pm'.per[l] < pm'.ver[l],
         (at' = "timed" /\ k' = 0 /\ test.kind # "baseline") =>
           /\ test.kind \in Warm => Own \subseteq cached'
           /\ test.kind \in Cold => Own \cap cached' = {}
           /\ pm'.pend[0] = {},
         (at' = "return" /\ test.kind # "baseline") => JobReturned(pm')
  PROVE  JobInv'
<1>1. test' = test
  BY DEF test, bench_func
<1>2. Length' = Length /\ Own' = Own /\ Buffer' = Buffer
  BY <1>1 DEF Length, Own, Buffer
<1>3. /\ Calling' <=> (at' # "done" /\ test.kind # "baseline")
      /\ Target' = buf + (k' \div PerLine(test.kind))
      /\ Reached' = buf + ((k' + PerLine(test.kind) - 1) \div PerLine(test.kind))
  BY <1>1 DEF Calling, Target, Reached
<1>4. JobBounds'
  BY <1>1, <1>2 DEF JobBounds
<1>5. JobProgress'
  <2> SUFFICES ASSUME Calling', at' = "timed"
               PROVE  /\ test.kind \in Cold => \A l \in Own : SentIn(pm', 0, l)
                      /\ test.kind \in Flushing =>
                           \A l \in buf .. (Target' - 1) : SentIn(pm', 0, l)
                      /\ test.kind \in Warm \ Flushing =>
                           /\ pm'.pend[0] = {}
                           /\ \A l \in buf .. (Reached' - 1) : pm'.per[l] < pm'.ver[l]
    BY <1>1, <1>2, Zenon DEF JobProgress, Cold, Flushing, Warm
  <2>1. test.kind # "baseline"
    BY <1>3
  <2> QED BY <1>3, <2>1, Zenon
<1>6. PreparedAsNamed'
  BY <1>1, <1>2, <1>3 DEF PreparedAsNamed, Self
<1>7. DurableAsNamed'
  BY <1>1, <1>2, <1>3 DEF DurableAsNamed, JobReturned, Lost
<1> QED BY <1>4, <1>5, <1>6, <1>7 DEF JobInv

\* The address is loaded, and the fence waits for what is under way.
LEMMA JobLoadAddr == ASSUME JobInv, LoadAddr PROVE JobInv'
<1>1. /\ at = "call" /\ k = 0 /\ JobBounds /\ MemOK(pm, Buffer, {0}) /\ cached \subseteq Nat
      /\ aep' = aep /\ task' = task /\ op' = op /\ buf' = buf /\ k' = k /\ cached' = cached
  BY DEF JobInv, JobBounds, LoadAddr
<1>3. CASE test.kind = "baseline"
  <2>1. at' = "timed" /\ pm' = pm
    BY <1>3 DEF LoadAddr
  <2>2. k' <= Length /\ k' \in Nat
    BY <1>1 DEF JobBounds
  <2> QED BY <1>1, <1>3, <2>1, <2>2, WithinCall
<1>4. CASE test.kind # "baseline"
  <2>1. at' = "prepare" /\ pm' = Fence(pm, 0)
    BY <1>4 DEF LoadAddr, Self
  <2>2. MemOK(pm', Buffer, {0})
    BY <1>1, <2>1, FenceLines
  <2>3. k' <= Length /\ k' \in Nat
    BY <1>1 DEF JobBounds
  <2> QED BY <1>1, <1>4, <2>1, <2>2, <2>3, WithinCall
<1> QED BY <1>3, <1>4

\* The tests that prepare with LOAD_CACHE_LINE and with FLUSH_CACHE_LINE.
LEMMA Preparations ==
  /\ Warm \cap Cold = {} /\ Flushing \subseteq Warm
  /\ "baseline" \notin Warm \cup Cold
BY DEF Warm, Cold, Flushing

\* The lines of a store test are brought into the cache.
LEMMA JobLoadCacheLine == ASSUME JobInv, LoadCacheLine PROVE JobInv'
<1>1. /\ at = "prepare" /\ k = 0 /\ JobBounds /\ MemOK(pm, Buffer, {0}) /\ cached \subseteq Nat
      /\ aep' = aep /\ task' = task /\ op' = op /\ buf' = buf /\ k' = k /\ at' = "timed"
      /\ cached' = cached \cup Window /\ test.kind \in Warm
      /\ test.kind # "baseline" /\ k' <= Length /\ buf \in Nat
  BY DEF JobInv, JobBounds, LoadCacheLine
<1>2. pm' = Fence(pm, 0)
  BY DEF LoadCacheLine, Self
<1>3. MemOK(pm', Buffer, {0}) /\ pm'.pend[0] = {}
  BY <1>1, <1>2, FenceLines
<1>4. Own \subseteq cached' /\ cached' \subseteq Nat
  BY <1>1, TestFacts DEF Window
<1> DEFINE p == PerLine(test.kind)
<1>5. p \in {2, 3, 8, 9}
  BY <1>1, TestFacts
<1>6. k' \div p = 0 /\ (k' + p - 1) \div p = 0
  <2> HIDE DEF p
  <2> QED BY <1>1, <1>5, LineSteps
<1>7. /\ buf .. ((buf + (k' \div p)) - 1) = {}
      /\ buf .. ((buf + ((k' + p - 1) \div p)) - 1) = {}
  BY <1>1, <1>6
<1>8. test.kind \notin Cold
  BY <1>1, Preparations
<1> QED BY <1>1, <1>3, <1>4, <1>7, <1>8, WithinCall

\* The lines of a load test are thrown out of it, and with them what was
\* dirty.
LEMMA JobFlushCacheLine == ASSUME JobInv, FlushCacheLine PROVE JobInv'
<1>1. /\ at = "prepare" /\ k = 0 /\ JobBounds /\ MemOK(pm, Buffer, {0}) /\ cached \subseteq Nat
      /\ aep' = aep /\ task' = task /\ op' = op /\ buf' = buf /\ k' = k /\ at' = "timed"
      /\ cached' = cached \ Window /\ test.kind \in Cold
      /\ test.kind # "baseline" /\ k' <= Length /\ k' \in Nat
  BY DEF JobInv, JobBounds, FlushCacheLine, Flushed
<1> DEFINE c == Clwb(pm, 0, Window)
<1>2. pm' = Fence(c, 0)
  BY DEF FlushCacheLine, Self, Flushed
<1>3. MemOK(c, Buffer, {0}) /\ \A l \in Window : SentIn(c, 0, l)
  BY <1>1, SendLines
<1> HIDE DEF c
<1>4. /\ MemOK(pm', Buffer, {0}) /\ pm'.pend[0] = {}
      /\ \A l \in Buffer : SentIn(c, 0, l) => pm'.per[l] = pm'.ver[l]
  BY <1>2, <1>3, FenceLines
<1>5. Own \subseteq Window /\ Window \subseteq Buffer
  BY <1>1, TestFacts
<1>6. \A l \in Own : SentIn(pm', 0, l)
  BY <1>3, <1>4, <1>5 DEF SentIn
<1>7. Own \cap cached' = {} /\ cached' \subseteq Nat
  BY <1>1, <1>5
<1>8. test.kind \notin Warm /\ test.kind \notin Flushing
  BY <1>1, Preparations
<1> QED BY <1>1, <1>4, <1>6, <1>7, <1>8, WithinCall

\* What holds of a measured instruction: the line it works on is one of the
\* call's own, and the lines it is through with end where LineSteps says.
LEMMA MeasuredFacts ==
  ASSUME JobInv, Measured, Advance
  PROVE  LET p == PerLine(test.kind)
         IN  /\ JobBounds /\ at # "done" /\ MemOK(pm, Buffer, {0}) /\ cached \subseteq Nat
             /\ at = "timed" /\ at' = "timed"
             /\ aep' = aep /\ task' = task /\ op' = op /\ buf' = buf /\ buf \in Nat
             /\ k' = k + 1 /\ k' \in Nat /\ k \in Nat /\ k' # 0 /\ k' <= Length
             /\ test.kind # "baseline" /\ p \in {2, 3, 8, 9}
             /\ Target \in Nat /\ Target \in Own /\ Own \subseteq Buffer
             /\ Target = buf + (k \div p)
             /\ buf + (k' \div p) = IF k % p = p - 1 THEN Target + 1 ELSE Target
             /\ buf + ((k' + p - 1) \div p) = Target + 1
             /\ Reached \in Nat /\ Target <= Reached
             /\ \A l \in buf .. Target : l \in Own
<1> DEFINE T == test
           p == PerLine(T.kind)
           w == T.size \div 64
<1>1. /\ at = "timed" /\ k < Length /\ k \in Nat /\ buf \in Nat /\ JobBounds
      /\ MemOK(pm, Buffer, {0}) /\ cached \subseteq Nat
      /\ k' = k + 1 /\ at' = at /\ aep' = aep /\ task' = task /\ op' = op /\ buf' = buf
  BY DEF Measured, Advance, JobInv, JobBounds
<1>2. T.kind # "baseline"
  <2> SUFFICES ASSUME T.kind = "baseline" PROVE FALSE
    OBVIOUS
  <2>1. Length = 0
    BY <1>1, TestFacts
  <2> QED BY <1>1, <2>1
<1>3. p \in {2, 3, 8, 9} /\ w \in {1, 2, 4} /\ Own \subseteq Buffer
  BY <1>1, <1>2, TestFacts
<1>4. Length = w * p /\ Target = buf + (k \div p) /\ Reached = buf + ((k + p - 1) \div p)
      /\ Own = buf .. (buf + w - 1)
  BY DEF Length, Target, Reached, Own
<1> HIDE DEF T, p, w
<1>5. /\ w * p \in Nat /\ k \div p \in 0 .. (w - 1)
      /\ (k + 1) \div p = IF k % p = p - 1 THEN k \div p + 1 ELSE k \div p
      /\ (k + 1 + p - 1) \div p = k \div p + 1
      /\ (k + p - 1) \div p \in Nat /\ k \div p <= (k + p - 1) \div p
  BY <1>1, <1>3, <1>4, LineSteps
<1>6. /\ Target \in Nat /\ Target \in Own
      /\ buf + (k' \div p) = IF k % p = p - 1 THEN Target + 1 ELSE Target
      /\ buf + ((k' + p - 1) \div p) = Target + 1
      /\ Reached \in Nat /\ Target <= Reached
      /\ \A l \in buf .. Target : l \in Own
  BY <1>1, <1>3, <1>4, <1>5
<1>7. k' \in Nat /\ k' # 0 /\ k' <= Length
  BY <1>1, <1>4, <1>5
<1> QED BY <1>1, <1>2, <1>3, <1>4, <1>6, <1>7, Zenon DEF p, T

\* A store makes its line dirty and leaves the others alone.
LEMMA JobTimedStore == ASSUME JobInv, TimedStore PROVE JobInv'
<1> DEFINE p == PerLine(test.kind)
<1>1. Measured /\ Advance /\ test.kind \in Warm /\ ~AtFlush
      /\ cached' = cached \cup {Target} /\ pm' = Store(pm, {Target})
  BY DEF TimedStore
<1>2. /\ JobBounds /\ at # "done" /\ at = "timed" /\ at' = "timed" /\ test.kind # "baseline"
      /\ aep' = aep /\ task' = task /\ op' = op /\ buf' = buf /\ buf \in Nat
      /\ k' \in Nat /\ k' # 0 /\ k' <= Length
      /\ MemOK(pm, Buffer, {0}) /\ cached \subseteq Nat /\ Target \in Nat
      /\ Target \in Buffer /\ Own \subseteq Buffer
  BY <1>1, MeasuredFacts
<1>3. /\ buf + (k' \div p) = IF k % p = p - 1 THEN Target + 1 ELSE Target
      /\ buf + ((k' + p - 1) \div p) = Target + 1
      /\ Reached \in Nat /\ Target <= Reached
      /\ \A l \in buf .. Target : l \in Buffer
  <2>1. \A l \in buf .. Target : l \in Own
    BY <1>1, MeasuredFacts
  <2> QED BY <1>1, <1>2, <2>1, MeasuredFacts
<1>4. /\ MemOK(pm', Buffer, {0}) /\ pm'.per = pm.per /\ pm'.pend = pm.pend
      /\ \A l \in Buffer : pm'.ver[l] = IF l \in {Target} THEN pm.ver[l] + 1 ELSE pm.ver[l]
  BY <1>1, <1>2, StoreFacts
<1>5. Calling
  BY <1>2 DEF Calling
<1>6. ASSUME test.kind \in Flushing, NEW l \in buf .. ((buf + (k' \div p)) - 1)
      PROVE  SentIn(pm', 0, l)
  <2>1. p = Accesses(test.kind) + 1 /\ Accesses(test.kind) \in {2, 8}
    BY <1>6 DEF PerLine, Accesses
  <2>2. k % p # p - 1
    BY <1>1, <1>6, <2>1 DEF AtFlush
  <2> HIDE DEF p
  <2>3. l \in buf .. (Target - 1) /\ l # Target /\ l \in Buffer
    BY <1>2, <1>3, <1>6, <2>2
  <2>4. SentIn(pm, 0, l)
    BY <1>2, <1>5, <1>6, <2>3 DEF JobInv, JobProgress
  <2> QED BY <1>4, <2>3, <2>4 DEF SentIn
<1>7. ASSUME test.kind \in Warm \ Flushing
      PROVE  /\ pm'.pend[0] = {}
             /\ \A l \in buf .. ((buf + ((k' + p - 1) \div p)) - 1) : pm'.per[l] < pm'.ver[l]
  <2>1. pm.pend[0] = {} /\ \A l \in buf .. (Reached - 1) : pm.per[l] < pm.ver[l]
    BY <1>2, <1>5, <1>7 DEF JobInv, JobProgress
  <2> SUFFICES ASSUME NEW l \in buf .. ((buf + ((k' + p - 1) \div p)) - 1)
               PROVE  pm'.per[l] < pm'.ver[l]
    BY <1>4, <2>1
  <2> HIDE DEF p
  <2>2. l \in buf .. Target /\ l \in Buffer
    BY <1>2, <1>3
  <2>3. pm.per[l] \in Nat /\ pm.ver[l] \in Nat /\ pm.per[l] <= pm.ver[l]
    BY <1>2, <2>2 DEF MemOK
  <2>4. CASE l = Target
    BY <1>4, <2>2, <2>3, <2>4
  <2>5. CASE l # Target
    <3>1. l \in buf .. (Reached - 1)
      BY <1>2, <1>3, <2>2, <2>5
    <3> QED BY <1>4, <2>1, <2>2, <2>5, <3>1
  <2> QED BY <2>4, <2>5
<1>8. test.kind \notin Cold
  BY <1>1, Preparations
<1>9. cached' \subseteq Nat
  BY <1>1, <1>2
<1> QED BY <1>2, <1>4, <1>6, <1>7, <1>8, <1>9, WithinCall

\* The write-back behind a line's stores sends them off.
LEMMA JobTimedFlush == ASSUME JobInv, TimedFlush PROVE JobInv'
<1> DEFINE p == PerLine(test.kind)
<1>1. Measured /\ Advance /\ AtFlush /\ pm' = Clwb(pm, 0, {Target})
      /\ cached' \subseteq cached
  BY DEF TimedFlush, Self
<1>2. /\ JobBounds /\ at # "done" /\ at = "timed" /\ at' = "timed" /\ test.kind # "baseline"
      /\ aep' = aep /\ task' = task /\ op' = op /\ buf' = buf /\ buf \in Nat
      /\ k' \in Nat /\ k' # 0 /\ k' <= Length
      /\ MemOK(pm, Buffer, {0}) /\ cached \subseteq Nat /\ Target \in Nat
  BY <1>1, MeasuredFacts
<1>3. /\ buf + (k' \div p) \in {Target, Target + 1}
      /\ \A l \in buf .. Target : l \in Buffer
  <2>1. \A l \in buf .. Target : l \in Own
    BY <1>1, MeasuredFacts
  <2> QED BY <1>1, <1>2, <2>1, MeasuredFacts
<1>4. /\ MemOK(pm', Buffer, {0})
      /\ \A l \in {Target} : SentIn(pm', 0, l)
      /\ \A l \in Buffer : SentIn(pm, 0, l) => SentIn(pm', 0, l)
  BY <1>1, <1>2, SendLines
<1>5. Calling /\ test.kind \in Flushing
  BY <1>1, <1>2 DEF Calling, AtFlush
<1>6. ASSUME NEW l \in buf .. ((buf + (k' \div p)) - 1)
      PROVE  SentIn(pm', 0, l)
  <2> HIDE DEF p
  <2>1. l \in buf .. Target /\ l \in Buffer
    BY <1>2, <1>3
  <2>2. CASE l = Target
    BY <1>4, <2>2
  <2>3. CASE l # Target
    <3>1. l \in buf .. (Target - 1)
      BY <1>2, <2>1, <2>3
    <3>2. SentIn(pm, 0, l)
      BY <1>2, <1>5, <3>1 DEF JobInv, JobProgress
    <3> QED BY <1>4, <2>1, <3>2
  <2> QED BY <2>2, <2>3
<1>7. test.kind \notin Cold
  BY <1>5, Preparations
<1>8. cached' \subseteq Nat
  BY <1>1, <1>2
<1> QED BY <1>2, <1>4, <1>5, <1>6, <1>7, <1>8, WithinCall

\* A store past the cache sends off what it stores, and a load stores
\* nothing.
LEMMA JobTimedCold ==
  ASSUME JobInv, TimedNtStore \/ TimedLoad
  PROVE  JobInv'
<1>1. /\ Measured /\ Advance /\ test.kind \in Cold
      /\ pm' = Clwb(Store(pm, {Target}), 0, {Target}) \/ pm' = pm
      /\ cached' \subseteq cached \cup {Target}
  BY DEF TimedNtStore, TimedLoad, NTStore, Self, Cold
<1>2. /\ JobBounds /\ at # "done" /\ at = "timed" /\ at' = "timed" /\ test.kind # "baseline"
      /\ aep' = aep /\ task' = task /\ op' = op /\ buf' = buf /\ buf \in Nat
      /\ k' \in Nat /\ k' # 0 /\ k' <= Length
      /\ MemOK(pm, Buffer, {0}) /\ cached \subseteq Nat /\ Target \in Nat
      /\ Own \subseteq Buffer
  BY <1>1, MeasuredFacts
<1>3. \A l \in Own : SentIn(pm, 0, l)
  BY <1>1, <1>2 DEF JobInv, JobProgress, Calling
<1>4. MemOK(pm', Buffer, {0}) /\ \A l \in Own : SentIn(pm', 0, l)
  <2>1. CASE pm' = pm
    BY <1>2, <1>3, <2>1
  <2>2. CASE pm' = Clwb(Store(pm, {Target}), 0, {Target})
    <3>1. /\ MemOK(pm', Buffer, {0})
          /\ \A l \in Buffer : SentIn(pm, 0, l) => SentIn(pm', 0, l)
      BY <1>2, <2>2, SendLines
    <3> QED BY <1>2, <1>3, <3>1
  <2> QED BY <1>1, <2>1, <2>2
<1>5. test.kind \notin Warm /\ test.kind \notin Flushing
  BY <1>1, Preparations
<1>6. cached' \subseteq Nat
  BY <1>1, <1>2
<1> QED BY <1>2, <1>4, <1>5, <1>6, WithinCall

\* The fence in front of the last time stamp makes durable what was sent
\* off.
LEMMA JobTimingEnd == ASSUME JobInv, TimingEnd PROVE JobInv'
<1> DEFINE T == test
           p == PerLine(T.kind)
           w == T.size \div 64
<1>1. /\ at = "timed" /\ k = Length /\ at' = "return" /\ JobBounds /\ k \in Nat /\ buf \in Nat
      /\ aep' = aep /\ task' = task /\ op' = op /\ buf' = buf /\ k' = k /\ cached' = cached
      /\ MemOK(pm, Buffer, {0}) /\ cached \subseteq Nat
  BY DEF TimingEnd, JobInv, JobBounds
<1>2. pm' = Fence(pm, 0)
  BY DEF TimingEnd, Self
<1>3. /\ MemOK(pm', Buffer, {0})
      /\ \A l \in Buffer : SentIn(pm, 0, l) => pm'.per[l] = pm'.ver[l]
      /\ pm.pend[0] = {} => \A l \in Buffer : pm'.per[l] = pm.per[l] /\ pm'.ver[l] = pm.ver[l]
  BY <1>1, <1>2, FenceLines
<1>4. ASSUME T.kind # "baseline" PROVE JobReturned(pm')
  <2>1. /\ Calling /\ p \in {2, 3, 8, 9} /\ w \in {1, 2, 4} /\ Own \subseteq Buffer
        /\ T.kind \in Warm \cup Cold
    BY <1>1, <1>4, TestFacts DEF Calling
  <2>2. k = w * p /\ Target = buf + (k \div p) /\ Reached = buf + ((k + p - 1) \div p)
        /\ Own = buf .. (buf + w - 1)
    BY <1>1 DEF Length, Target, Reached, Own
  <2>3. /\ T.kind \in Cold => \A l \in Own : SentIn(pm, 0, l)
        /\ T.kind \in Flushing => \A l \in buf .. (Target - 1) : SentIn(pm, 0, l)
        /\ T.kind \in Warm \ Flushing =>
             pm.pend[0] = {} /\ \A l \in buf .. (Reached - 1) : pm.per[l] < pm.ver[l]
    BY <1>1, <2>1 DEF JobInv, JobProgress
  <2> HIDE DEF p, w
  <2>4. (w * p) \div p = w /\ (w * p + p - 1) \div p = w
    BY <2>1, LineSteps
  <2>5. Target = buf + w /\ Reached = buf + w
    BY <2>2, <2>4
  <2>6. \A l \in Own : l \in buf .. (Target - 1) /\ l \in buf .. (Reached - 1)
    BY <1>1, <2>1, <2>2, <2>5
  <2>7. /\ DOMAIN pm'.ver = Buffer
        /\ \A l \in Buffer : pm'.ver[l] \in Nat /\ pm'.per[l] \in Nat
    BY <1>3 DEF MemOK
  <2>8. CASE T.kind \in Warm \ Flushing
    <3>1. \A l \in Own : pm'.per[l] < pm'.ver[l]
      BY <1>3, <2>1, <2>3, <2>6, <2>8
    <3>2. Own \subseteq Lost(pm')
      BY <2>1, <2>7, <3>1 DEF Lost
    <3> QED BY <2>8, <3>2 DEF JobReturned
  <2>9. CASE T.kind \notin Warm \ Flushing
    <3>1. \A l \in Own : SentIn(pm, 0, l)
      BY <2>1, <2>3, <2>6, <2>9
    <3>2. \A l \in Own : pm'.per[l] = pm'.ver[l]
      BY <1>3, <2>1, <3>1
    <3>3. Lost(pm') \cap Own = {}
      BY <2>1, <2>7, <3>2 DEF Lost
    <3> QED BY <2>9, <3>3 DEF JobReturned
  <2> QED BY <2>8, <2>9
<1>5. k' <= Length /\ k' = Length
  BY <1>1
<1> QED BY <1>1, <1>3, <1>4, <1>5, WithinCall

\* A task before the last one is one of the tables.
LEMMA TaskNumber == \A n \in 0 .. 25 : n < 25 => n + 1 \in 1 .. 25
OBVIOUS

\* The next call gets the next piece of the buffer, and the next task the
\* buffer from its beginning.
LEMMA JobNextCall == ASSUME JobInv, NextCall PROVE JobInv'
<1>1. /\ at = "return" /\ k' = 0 /\ aep' = aep /\ pm' = pm /\ cached' = cached
      /\ JobBounds /\ task \in 0 .. 24 /\ op \in 0 .. (LATENCY_OPS_COUNT - 1) /\ buf \in Nat
      /\ LATENCY_OPS_COUNT \in Nat \ {0} /\ 64 * buf = op * test.size
      /\ aep \in BOOLEAN /\ cached \subseteq Nat /\ MemOK(pm, Buffer, {0})
  BY LatencyAssumption DEF NextCall, JobInv, JobBounds
<1>2. /\ task' \in 0 .. 25 /\ op' \in 0 .. (LATENCY_OPS_COUNT - 1) /\ at' \in {"call", "done"}
      /\ at' # "done" => task' < 25
  BY <1>1 DEF NextCall, BASIC_OPS_TASK_COUNT
<1>3. test.size \in {0, 64, 128, 256}
  BY <1>1, TestFacts
<1>4. at' # "done" => TestOK(test')
  <2> SUFFICES ASSUME at' # "done" PROVE TestOK(test')
    OBVIOUS
  <2>1. task' + 1 \in 1 .. 25
    BY <1>2, TaskNumber
  <2>2. test' = Tests(aep)[task' + 1]
    BY <1>1 DEF test, bench_func
  <2> QED BY <1>1, <2>1, <2>2, TaskTable
<1>5. at' # "done" => buf' \in Nat /\ 64 * buf' = op' * test'.size
  <2> SUFFICES ASSUME at' # "done"
               PROVE  buf' \in Nat /\ 64 * buf' = op' * test'.size
    OBVIOUS
  <2>1. CASE op + 1 < LATENCY_OPS_COUNT
    <3>1. op' = op + 1 /\ task' = task /\ buf' = buf + latency_tasks_skip(task) \div 64
      BY <2>1 DEF NextCall
    <3>2. test' = test /\ latency_tasks_skip(task) = test.size
      <4>1. task + 1 \in 1 .. 25
        BY <1>1, TaskNumber
      <4>2. Skips(aep)[task + 1] = Tests(aep)[task + 1].size
        BY <1>1, <4>1, TaskTable
      <4> QED BY <1>1, <3>1, <4>2 DEF test, bench_func, latency_tasks_skip
    <3> DEFINE size == test.size
    <3>3. /\ op' = op + 1 /\ buf' = buf + size \div 64 /\ test'.size = size
          /\ size \in {0, 64, 128, 256} /\ 64 * buf = op * size
      BY <1>1, <1>3, <3>1, <3>2
    <3> HIDE DEF size
    <3>4. CASE size = 0
      BY <1>1, <3>3, <3>4
    <3>5. CASE size = 64
      BY <1>1, <3>3, <3>5
    <3>6. CASE size = 128
      BY <1>1, <3>3, <3>6
    <3>7. CASE size = 256
      BY <1>1, <3>3, <3>7
    <3> QED BY <3>3, <3>4, <3>5, <3>6, <3>7
  <2>2. CASE ~(op + 1 < LATENCY_OPS_COUNT)
    <3>1. op' = 0 /\ buf' = 0
      BY <2>2 DEF NextCall
    <3>2. test'.size \in {0, 64, 128, 256}
      BY <1>4 DEF TestOK
    <3> QED BY <3>1, <3>2
  <2> QED BY <2>1, <2>2
<1>6. buf' \in Nat
  <2>1. CASE at' = "done"
    BY <1>1, <2>1 DEF NextCall
  <2> QED BY <1>5, <2>1
<1>7. at' # "done" => k' <= Length'
  <2> SUFFICES ASSUME at' # "done" PROVE 0 <= Length'
    BY <1>1
  <2> DEFINE size == test'.size
             p == PerLine(test'.kind)
  <2>1. Length' = (size \div 64) * p
    BY DEF Length
  <2>2. size \in {0, 64, 128, 256} /\ p \in {2, 3, 8, 9}
    BY <1>4 DEF TestOK, PerLine, Accesses
  <2> HIDE DEF size, p
  <2>3. size \div 64 \in {0, 1, 2, 4}
    BY <2>2
  <2> QED BY <2>1, <2>2, <2>3
<1>8. JobBounds'
  BY <1>1, <1>2, <1>5, <1>6, <1>7 DEF JobBounds, Buffer
<1>9. JobProgress' /\ PreparedAsNamed' /\ DurableAsNamed'
  BY <1>2 DEF JobProgress, PreparedAsNamed, DurableAsNamed
<1> QED BY <1>8, <1>9 DEF JobInv

\* A build begins with an untouched buffer and nothing in the cache.
LEMMA JobStarts == ASSUME JobInit PROVE JobInv
<1>1. /\ aep \in BOOLEAN /\ task = 0 /\ op = 0 /\ buf = 0 /\ k = 0 /\ at = "call" /\ cached = {}
      /\ LATENCY_OPS_COUNT \in Nat \ {0}
  BY LatencyAssumption DEF JobInit
<1>2. MemOK(pm, Buffer, {0})
  <2>1. pm = PMemZero(Buffer, {0})
    BY DEF JobInit, Self
  <2> QED BY <2>1, ZeroFacts
<1>3. TestOK(test)
  <2>1. test = Tests(aep)[1]
    BY <1>1 DEF test, bench_func
  <2> QED BY <1>1, <2>1, TaskTable
<1>4. 64 * buf = op * test.size /\ k <= Length
  <2> DEFINE size == test.size
             p == PerLine(test.kind)
  <2>1. Length = (size \div 64) * p
    BY DEF Length
  <2>2. size \in {0, 64, 128, 256} /\ p \in {2, 3, 8, 9}
    BY <1>3 DEF TestOK, PerLine, Accesses
  <2> HIDE DEF size, p
  <2>3. size \div 64 \in {0, 1, 2, 4}
    BY <2>2
  <2>4. 64 * buf = op * size /\ k <= Length
    BY <1>1, <2>1, <2>2, <2>3
  <2> QED BY <2>4 DEF size
<1>5. JobBounds
  BY <1>1, <1>2, <1>4 DEF JobBounds
<1>6. JobProgress /\ PreparedAsNamed /\ DurableAsNamed
  BY <1>1 DEF JobProgress, PreparedAsNamed, DurableAsNamed
<1> QED BY <1>5, <1>6 DEF JobInv

\* The invariant holds in every reachable state.
LEMMA JobReachable == JobSpec => []JobInv
<1>1. JobInit => JobInv
  BY JobStarts
<1>2. JobInv /\ [JobNext]_jobVars => JobInv'
  <2> SUFFICES ASSUME JobInv, [JobNext]_jobVars PROVE JobInv'
    OBVIOUS
  <2>1. CASE UNCHANGED jobVars
    <3>1. aep' = aep /\ task' = task /\ op' = op /\ buf' = buf /\ at' = at /\ k' = k /\ pm' = pm
          /\ cached' = cached
      BY <2>1 DEF jobVars
    <3>2. test' = test
      BY <3>1 DEF test, bench_func
    <3>3. /\ Length' = Length /\ Own' = Own /\ Buffer' = Buffer
          /\ (Calling' <=> Calling) /\ Target' = Target /\ Reached' = Reached
      BY <3>1, <3>2 DEF Length, Own, Buffer, Calling, Target, Reached
    <3>4. JobBounds'
      BY <3>1, <3>2, <3>3 DEF JobInv, JobBounds
    <3>5. JobProgress'
      BY <3>1, <3>2, <3>3 DEF JobInv, JobProgress, SentIn
    <3>6. PreparedAsNamed' /\ DurableAsNamed'
      BY <3>1, <3>2, <3>3 DEF JobInv, PreparedAsNamed, DurableAsNamed, Lost
    <3> QED BY <3>4, <3>5, <3>6 DEF JobInv
  <2>2. CASE JobNext
    BY <2>2, JobLoadAddr, JobLoadCacheLine, JobFlushCacheLine, JobTimedStore, JobTimedFlush,
       JobTimedCold, JobTimingEnd, JobNextCall DEF JobNext
  <2> QED BY <2>1, <2>2
<1> QED BY <1>1, <1>2, PTL DEF JobSpec

\* Every measured instruction exists, and no line of the buffer is durable
\* in a version it does not have.
THEOREM JobTypes == JobSpec => []JobTypeOK
<1>1. JobInv => JobTypeOK
  <2> SUFFICES ASSUME JobInv PROVE JobTypeOK
    OBVIOUS
  <2>1. \A l \in Buffer : pm.per[l] <= pm.ver[l]
    BY DEF JobInv, JobBounds, MemOK
  <2>2. at # "done" => k \in 0 .. Length
    <3> SUFFICES ASSUME at # "done" PROVE k \in 0 .. Length
      OBVIOUS
    <3>1. k \in Nat /\ k <= Length
      BY DEF JobInv, JobBounds
    <3> DEFINE w == test.size \div 64
               p == PerLine(test.kind)
    <3>2. Length = w * p
      BY DEF Length
    <3>3. Length \in Int
      <4>1. CASE test.kind = "baseline"
        <5>1. Length = 0
          BY <4>1, TestFacts DEF JobInv
        <5> QED BY <5>1
      <4>2. CASE test.kind # "baseline"
        <5>1. w \in {1, 2, 4} /\ p \in {2, 3, 8, 9}
          BY <4>2, TestFacts DEF JobInv
        <5> HIDE DEF w, p
        <5> QED BY <3>2, <5>1
      <4> QED BY <4>1, <4>2
    <3> QED BY <3>1, <3>3
  <2> QED BY <2>1, <2>2 DEF JobInv, JobBounds, JobTypeOK, BASIC_OPS_TASK_COUNT
<1> QED BY <1>1, JobReachable, PTL

\* Every test starts its clock on lines prepared as its name says, with
\* nothing under way.
THEOREM JobPrepares == JobSpec => []PreparedAsNamed
<1>1. JobInv => PreparedAsNamed
  BY DEF JobInv
<1> QED BY <1>1, JobReachable, PTL

\* Every test that writes back or stores past the cache returns with all of
\* its lines durable, and a store test without a write-back with none.
THEOREM JobDurable == JobSpec => []DurableAsNamed
<1>1. JobInv => DurableAsNamed
  BY DEF JobInv
<1> QED BY <1>1, JobReachable, PTL

\* Every call works on the piece of the buffer that is its own, and its
\* preparation does not leave the buffer.
THEOREM JobOwnLines == JobSpec => []OwnLines
<1>1. JobInv => OwnLines
  BY TestFacts DEF JobInv, JobBounds, OwnLines, Calling
<1> QED BY <1>1, JobReachable, PTL

=============================================================================
