-------------------------- MODULE FastAllocProofs --------------------------
(***************************************************************************)
(* Proofs about FastAlloc for any number of allocators, any region sizes   *)
(* that are multiples of 64, any table length and any requests: first      *)
(* about the blocks, then about the heap and the files that lie behind     *)
(* them.                                                                   *)
(***************************************************************************)
EXTENDS FastAlloc, FiniteSetTheorems, TLAPS

\* What the rounding of alloc computes: it never leaves uint64_t, and below
\* a region's size it rounds up to lines without leaving the region.
LEMMA AlignFacts ==
  ASSUME NEW n \in 0 .. (Word - 1)
  PROVE  /\ Align64(n) \in 0 .. (Word - 1)
         /\ Align64(n) % 64 = 0
         /\ n <= AllocSize => n <= Align64(n) /\ Align64(n) <= AllocSize
  BY SizeAssumption, SMT DEF Align64

\* A wrapping subtraction stays in uint64_t, and is exact when it does not
\* wrap.
LEMMA SubFacts ==
  ASSUME NEW x \in 0 .. (Word - 1), NEW y \in 0 .. (Word - 1)
  PROVE  /\ Sub64(x, y) \in 0 .. (Word - 1)
         /\ y <= x => Sub64(x, y) = x - y
  BY SizeAssumption, SMT DEF Sub64

\* A region is not empty, consists of whole lines and is at most ALLOC_SIZE long.
LEMMA RegionSizeFacts ==
  ASSUME NEW k, NEW i
  PROVE  /\ RegionSize(k, i) \in 1 .. (Word - 1)
         /\ RegionSize(k, i) % 64 = 0
         /\ RegionSize(k, i) <= AllocSize
  BY SizeAssumption, SMT DEF RegionSize

----------------------------------------------------------------------------
(* Type correctness.  TypeOK is not inductive: a block gets its place from *)
(* curr, and only a live allocator's pointer is not NULL.                  *)

PointerInv ==
  \A k \in Cursor : Live(k) => curr[k].reg \in Nat /\ curr[k].off \in Nat

\* The fields of objects not yet created have their types.
LEMMA TypeInit == Init => TypeOK /\ PointerInv
<1> SUFFICES ASSUME Init PROVE TypeOK /\ PointerInv
  OBVIOUS
<1>1. TypeOK
  <2>1. left \in [Cursor -> 0 .. (Word - 1)]
    BY SizeAssumption, SMT DEF Init
  <2>2. curr \in [Cursor -> Pointer] /\ cnt \in [Cursor -> Nat]
    BY SMT DEF Init, Pointer, NULL
  <2>3. phase \in [Allocator -> {"unborn", "live", "deleted"}]
    BY SMT DEF Init
  <2>4. channel \in [Allocator -> Int]
    BY SMT DEF Init
  <2>5. /\ heap \subseteq Cursor \X Nat /\ exited \in BOOLEAN
        /\ blocks \subseteq Block /\ IsFiniteSet(blocks)
    BY FS_EmptySet DEF Init
  <2> QED BY <2>1, <2>2, <2>3, <2>4, <2>5 DEF TypeOK
<1>2. PointerInv
  BY SMT DEF Init, PointerInv, Live, Cursor
<1> QED BY <1>1, <1>2

\* Both init methods keep the types.
LEMMA TypeFirstRegions ==
  ASSUME TypeOK, PointerInv, NEW a \in Allocator, NEW ch, NEW o,
         FirstRegions(a, ch, o), phase' = [phase EXCEPT ![a] = "live"],
         channel' \in [Allocator -> Int], UNCHANGED <<blocks, exited>>
  PROVE  TypeOK' /\ PointerInv'
<1>1. \A k \in Cursor : InitLeft(k) \in 0 .. (Word - 1)
  BY RegionSizeFacts, SizeAssumption, SMT DEF InitLeft
<1>2. left' \in [Cursor -> 0 .. (Word - 1)]
  BY <1>1, SMT DEF TypeOK, FirstRegions
<1>3. heap' \subseteq Cursor \X Nat
  BY SMT DEF TypeOK, FirstRegions, Cursor
<1>4. cnt' \in [Cursor -> Nat] /\ curr' \in [Cursor -> Pointer]
  BY SMT DEF TypeOK, FirstRegions, Pointer
<1>5. phase' \in [Allocator -> {"unborn", "live", "deleted"}]
  BY SMT DEF TypeOK
<1>6. TypeOK'
  BY <1>2, <1>3, <1>4, <1>5 DEF TypeOK
<1>7. PointerInv'
  BY SMT DEF TypeOK, PointerInv, FirstRegions, Live, Cursor
<1> QED BY <1>6, <1>7

\* Handing out a block of natural offset adds one block to finitely many.
LEMMA TypeHand ==
  ASSUME TypeOK, NEW k \in Cursor, NEW req \in Request, NEW reg \in Nat, NEW off \in Nat,
         Hand(k, req, reg, off)
  PROVE  blocks' \subseteq Block /\ IsFiniteSet(blocks')
<1>1. req \in Nat /\ Align64(req) \in Nat
  BY SizeAssumption, AlignFacts, SMT
<1>2. Given(k) \in Nat
  BY FS_Subset, FS_CardinalityType DEF TypeOK, Given
<1>3. IsFiniteSet(blocks')
  BY FS_AddElement DEF TypeOK, Hand
<1>4. blocks' \subseteq Block
  BY <1>1, <1>2, SMT DEF TypeOK, Hand, Block
<1> QED BY <1>3, <1>4

\* alloc without a new region keeps the types.
LEMMA TypeAllocFits ==
  ASSUME TypeOK, PointerInv, NEW k \in Cursor, NEW req \in Request,
         AllocFits(k, req)
  PROVE  TypeOK' /\ PointerInv'
<1> DEFINE size == Align64(req)
<1>1. req \in 0 .. (Word - 1) /\ req \in Nat /\ size \in 0 .. (Word - 1) /\ size \in Nat
  BY SizeAssumption, AlignFacts, SMT
<1>2. curr[k].reg \in Nat /\ curr[k].off \in Nat
  BY SMT DEF PointerInv, AllocFits, Live
<1> HIDE DEF size
<1>3. left' \in [Cursor -> 0 .. (Word - 1)]
  BY <1>1, SubFacts, SMT DEF TypeOK, AllocFits, size
<1>4. blocks' \subseteq Block /\ IsFiniteSet(blocks')
  BY <1>1, <1>2, TypeHand DEF AllocFits
<1>5. curr' \in [Cursor -> Pointer]
  BY <1>1, <1>2, SMT DEF CurrAfter, TypeOK, AllocFits, Pointer, size
<1>6. TypeOK'
  BY <1>3, <1>4, <1>5 DEF TypeOK, AllocFits
<1>7. PointerInv'
  BY <1>1, <1>2, SMT DEF CurrAfter, TypeOK, PointerInv, AllocFits, Live, Pointer, size
<1> QED BY <1>6, <1>7

\* alloc with a new region keeps the types, also when nvm_left wraps.
LEMMA TypeGrow ==
  ASSUME TypeOK, PointerInv, NEW k \in Cursor, NEW req \in Request,
         Grow(k, req)
  PROVE  TypeOK' /\ PointerInv'
<1> DEFINE size == Align64(req)
<1>1. req \in 0 .. (Word - 1) /\ req \in Nat /\ size \in 0 .. (Word - 1) /\ size \in Nat
  BY SizeAssumption, AlignFacts, SMT
<1> HIDE DEF size
<1>2. LeftAfterGrow(size) \in 0 .. (Word - 1)
  <2>1. AllocSize \in 0 .. (Word - 1)
    BY SizeAssumption, SMT
  <2> QED BY <1>1, <2>1, SubFacts DEF LeftAfterGrow
<1>3. left' \in [Cursor -> 0 .. (Word - 1)]
  BY <1>2, SMT DEF TypeOK, Grow, size
<1>4. blocks' \subseteq Block /\ IsFiniteSet(blocks')
  <2>1. cnt[k] \in Nat
    BY DEF TypeOK
  <2> QED BY <2>1, TypeHand DEF Grow
<1>5. curr' \in [Cursor -> Pointer] /\ cnt' \in [Cursor -> Nat]
  BY <1>1, SMT DEF CurrAfter, TypeOK, Grow, Pointer, size
<1>6. heap' \subseteq Cursor \X Nat
  BY SMT DEF TypeOK, Grow
<1>7. TypeOK'
  BY <1>3, <1>4, <1>5, <1>6 DEF TypeOK, Grow
<1>8. PointerInv'
  BY <1>1, SMT DEF CurrAfter, TypeOK, PointerInv, Grow, Live, Pointer, size
<1> QED BY <1>7, <1>8

\* fast_free keeps the types; NULL is a pointer.
LEMMA TypeFree ==
  ASSUME TypeOK, PointerInv, NEW a \in Allocator, FastFree(a)
  PROVE  TypeOK' /\ PointerInv'
<1>1. TypeOK'
  <2>0. /\ left' = [left EXCEPT ![<<a, "dram">>] = 0]
        /\ curr' = [curr EXCEPT ![<<a, "dram">>] = NULL]
    BY DEF FastFree, Free
  <2>1. left' \in [Cursor -> 0 .. (Word - 1)]
    <3>1. 0 \in 0 .. (Word - 1)
      BY SizeAssumption, SMT
    <3> QED BY <2>0, <3>1 DEF TypeOK
  <2>2. curr' \in [Cursor -> Pointer]
    <3>1. NULL \in Pointer
      BY SMT DEF NULL, Pointer
    <3> QED BY <2>0, <3>1 DEF TypeOK
  <2>3. phase' \in [Allocator -> {"unborn", "live", "deleted"}]
    BY SMT DEF TypeOK, FastFree
  <2>4. heap' \subseteq Cursor \X Nat
    BY DEF TypeOK, FastFree, Free
  <2> QED BY <2>1, <2>2, <2>3, <2>4 DEF TypeOK, FastFree, Free
<1>2. PointerInv'
  BY SMT DEF TypeOK, PointerInv, FastFree, Free, Live, Cursor
<1> QED BY <1>1, <1>2

\* Every step keeps the types.
LEMMA TypeNext ==
  ASSUME TypeOK, PointerInv, [Next]_vars
  PROVE  TypeOK' /\ PointerInv'
<1>1. ASSUME NEW a \in Allocator, NEW ch \in ChannelArg, NEW o \in Outcome,
             InitFastAllocator(a, ch, o)
      PROVE  TypeOK' /\ PointerInv'
  <2>1. channel' \in [Allocator -> Int]
    BY <1>1, TableAssumption, SMT DEF TypeOK, InitFastAllocator
  <2> QED BY <1>1, <2>1, TypeFirstRegions DEF InitFastAllocator
<1>2. ASSUME NEW a \in Allocator, NEW ch \in ChannelArg, InitBadChannel(a, ch)
      PROVE  TypeOK' /\ PointerInv'
  <2>1. channel' \in [Allocator -> Int]
    BY <1>2, TableAssumption, SMT DEF TypeOK, InitBadChannel
  <2> QED BY <1>2, <2>1 DEF TypeOK, PointerInv, Live, InitBadChannel
<1>3. ASSUME NEW a \in Allocator, NEW ch \in ChannelArg, NEW o \in Outcome,
             InitConcurrency(a, ch, o)
      PROVE  TypeOK' /\ PointerInv'
  <2>1. channel' \in [Allocator -> Int]
    BY <1>3 DEF TypeOK, InitConcurrency
  <2> QED BY <1>3, <2>1, TypeFirstRegions DEF InitConcurrency
<1>4. ASSUME NEW k \in Cursor, NEW req \in Request, AllocFits(k, req)
      PROVE  TypeOK' /\ PointerInv'
  BY <1>4, TypeAllocFits
<1>5. ASSUME NEW k \in Cursor, NEW req \in Request, Grow(k, req)
      PROVE  TypeOK' /\ PointerInv'
  BY <1>5, TypeGrow
<1>6. ASSUME NEW a \in Allocator, FastFree(a)
      PROVE  TypeOK' /\ PointerInv'
  BY <1>6, TypeFree
<1>7. CASE UNCHANGED vars
  BY <1>7 DEF vars, TypeOK, PointerInv, Live
<1>8. \A a \in Allocator : <<a, "nvm">> \in Cursor /\ <<a, "dram">> \in Cursor
  BY DEF Cursor, Pool
<1> QED
  BY <1>1, <1>2, <1>3, <1>4, <1>5, <1>6, <1>7, <1>8
  DEF Next, GrowNvm, GrowNvmOnHeap, GrowDram

\* The fields of every allocator keep their types; in particular nvm_left and
\* dram_left stay within uint64_t whatever is asked of alloc.
THEOREM TypeCorrect == Spec => []TypeOK
<1>1. TypeOK /\ PointerInv /\ [Next]_vars => (TypeOK /\ PointerInv)'
  BY TypeNext
<1> QED BY <1>1, TypeInit, PTL DEF Spec

----------------------------------------------------------------------------
(* Memory safety.  NoOverlap and Contained are not inductive: that a block *)
(* cut at curr is free and fits rests on where curr stands.  CursorInv     *)
(* says that curr and left describe the tail of the newest region, and     *)
(* BlockInv that the blocks of that region lie before curr.                *)

\* Blocks come only from allocators that were created.
FreshInv == \A b \in blocks : phase[b.cur[1]] # "unborn"

CursorInv ==
  \A k \in Cursor : (Live(k) /\ Sound(k)) =>
    /\ curr[k].reg = cnt[k] - 1
    /\ curr[k].off % 64 = 0
    /\ curr[k].off + left[k] = RegionSize(k, cnt[k] - 1)

BlockInv ==
  \A b \in blocks : Sound(b.cur) =>
    /\ b.reg < cnt[b.cur]
    /\ b.off % 64 = 0
    /\ b.req <= b.size
    /\ b.off + b.size <= RegionSize(b.cur, b.reg)
    /\ (Live(b.cur) /\ b.reg = cnt[b.cur] - 1) => b.off + b.size <= curr[b.cur].off

SafetyInv == TypeOK /\ PointerInv /\ FreshInv /\ CursorInv /\ BlockInv /\ NoOverlap

\* The block Hand adds when alloc cuts [off, off + size) of region reg.
NewBlock(k, req, reg, off) ==
  [cur |-> k, nth |-> Given(k), reg |-> reg, off |-> off, req |-> req, size |-> Align64(req)]

\* A cursor whose requests all fit did so before its last request, and a
\* request made of one cursor says nothing about the others.
LEMMA SoundHand ==
  ASSUME NEW k \in Cursor, NEW req, NEW reg, NEW off, Hand(k, req, reg, off)
  PROVE  /\ \A j \in Cursor : Sound(j)' => Sound(j)
         /\ Sound(k)' => req <= AllocSize
         /\ NewBlock(k, req, reg, off) \in blocks'
         /\ blocks' = blocks \cup {NewBlock(k, req, reg, off)}
<1>1. blocks' = blocks \cup {NewBlock(k, req, reg, off)}
  BY DEF Hand, NewBlock
<1>2. NewBlock(k, req, reg, off).cur = k /\ NewBlock(k, req, reg, off).req = req
  BY DEF NewBlock
<1> QED BY <1>1, <1>2 DEF Sound

\* Both branches of alloc: the new block starts where the region is free,
\* and the cursor moves behind it.
LEMMA HandSafe ==
  ASSUME SafetyInv, TypeOK', PointerInv', UNCHANGED phase,
         NEW k \in Cursor, Live(k), NEW req \in Request, NEW reg \in Nat, NEW off \in Nat,
         Hand(k, req, reg, off),
         \A j \in Cursor \ {k} :
           cnt'[j] = cnt[j] /\ curr'[j] = curr[j] /\ left'[j] = left[j],
         Sound(k) /\ req <= AllocSize =>
           /\ cnt'[k] = reg + 1 /\ cnt[k] <= cnt'[k] /\ off % 64 = 0
           /\ curr'[k] = [reg |-> reg, off |-> off + Align64(req)]
           /\ off + Align64(req) + left'[k] = RegionSize(k, reg)
           /\ \A c \in blocks : (c.cur = k /\ c.reg = reg) => c.off + c.size <= off
  PROVE  SafetyInv'
<1> DEFINE size == Align64(req)
           new == NewBlock(k, req, reg, off)
<1>1. /\ size \in Nat /\ size % 64 = 0 /\ req \in Nat
      /\ req <= AllocSize => req <= size
  BY SizeAssumption, AlignFacts, SMT
<1>2. /\ new.cur = k /\ new.reg = reg /\ new.off = off /\ new.req = req
      /\ new.size = size
  BY DEF NewBlock
<1>3. /\ \A j \in Cursor : Sound(j)' => Sound(j)
      /\ Sound(k)' => req <= AllocSize
      /\ blocks' = blocks \cup {new}
  BY SoundHand
<1>4. \A b \in blocks : b.cur \in Cursor /\ b.reg \in Nat /\ b.off \in Nat /\ b.size \in Nat
  BY DEF SafetyInv, TypeOK, Block
<1>5. ASSUME Sound(k)'
      PROVE  /\ cnt'[k] = reg + 1 /\ cnt[k] <= cnt'[k] /\ off % 64 = 0
             /\ curr'[k].reg = reg /\ curr'[k].off = off + size
             /\ off + size + left'[k] = RegionSize(k, reg)
             /\ \A c \in blocks : (c.cur = k /\ c.reg = reg) => c.off + c.size <= off
             /\ req <= size
  BY <1>1, <1>3, <1>5
<1>6. /\ left'[k] \in Nat /\ cnt[k] \in Nat /\ cnt'[k] \in Nat
      /\ \A j \in Cursor, i \in Int : RegionSize(j, i) \in Nat
  BY RegionSizeFacts, SMT DEF SafetyInv, TypeOK
<1> HIDE DEF size, new
<1>7. FreshInv'
  BY <1>2, <1>3 DEF SafetyInv, FreshInv, Live
<1>8. CursorInv'
  <2> SUFFICES ASSUME NEW j \in Cursor, Live(j)', Sound(j)'
               PROVE  /\ curr'[j].reg = cnt'[j] - 1
                      /\ curr'[j].off % 64 = 0
                      /\ curr'[j].off + left'[j] = RegionSize(j, cnt'[j] - 1)
    BY DEF CursorInv, Live, RegionSize
  <2>1. CASE j = k
    <3>1. (off + size) % 64 = 0
      BY <1>1, <1>5, <2>1, SMT
    <3>2. cnt'[k] - 1 = reg
      BY <1>5, <2>1, SMT
    <3> QED BY <1>5, <2>1, <3>1, <3>2
  <2>2. CASE j # k
    BY <1>3, <2>2 DEF SafetyInv, CursorInv, Live
  <2> QED BY <2>1, <2>2
<1>9. BlockInv'
  <2> SUFFICES ASSUME NEW b \in blocks', Sound(b.cur)'
               PROVE  /\ b.reg < cnt'[b.cur]
                      /\ b.off % 64 = 0
                      /\ b.req <= b.size
                      /\ b.off + b.size <= RegionSize(b.cur, b.reg)
                      /\ (Live(b.cur)' /\ b.reg = cnt'[b.cur] - 1)
                           => b.off + b.size <= curr'[b.cur].off
    BY DEF BlockInv, Live, RegionSize
  <2>1. CASE b = new
    <3>1. RegionSize(k, reg) \in Nat
      BY <1>6
    <3> QED BY <1>1, <1>2, <1>5, <1>6, <2>1, <3>1, SMT
  <2>2. CASE b \in blocks
    <3>1. b.cur \in Cursor /\ Sound(b.cur)
      BY <1>3, <1>4, <2>2
    <3>2. /\ b.reg < cnt[b.cur] /\ b.off % 64 = 0 /\ b.req <= b.size
          /\ b.off + b.size <= RegionSize(b.cur, b.reg)
          /\ (Live(b.cur) /\ b.reg = cnt[b.cur] - 1)
               => b.off + b.size <= curr[b.cur].off
      BY <2>2, <3>1 DEF SafetyInv, BlockInv
    <3>3. CASE b.cur = k
      <4>1. b.reg < cnt'[k]
        BY <1>4, <1>5, <1>6, <2>2, <3>2, <3>3, SMT
      <4>2. b.reg = cnt'[k] - 1 => b.off + b.size <= curr'[k].off
        BY <1>1, <1>4, <1>5, <1>6, <2>2, <3>3, SMT
      <4> QED BY <3>2, <3>3, <4>1, <4>2
    <3>4. CASE b.cur # k
      BY <3>1, <3>2, <3>4 DEF Live
    <3> QED BY <3>3, <3>4
  <2> QED BY <1>3, <2>1, <2>2
<1>10. NoOverlap'
  <2> SUFFICES ASSUME NEW b \in blocks', NEW c \in blocks',
                      b # c, b.cur = c.cur, b.reg = c.reg, Sound(b.cur)'
               PROVE  Disjoint(b, c)
    BY DEF NoOverlap, Disjoint
  <2>1. CASE b = new /\ c \in blocks
    BY <1>1, <1>2, <1>4, <1>5, <2>1, SMT DEF Disjoint
  <2>2. CASE c = new /\ b \in blocks
    BY <1>1, <1>2, <1>4, <1>5, <2>2, SMT DEF Disjoint
  <2>3. CASE b \in blocks /\ c \in blocks
    BY <1>3, <1>4, <2>3 DEF SafetyInv, NoOverlap
  <2> QED BY <1>3, <2>1, <2>2, <2>3
<1> QED BY <1>7, <1>8, <1>9, <1>10 DEF SafetyInv

\* No block is handed out at the start.
LEMMA SafetyInit == Init => SafetyInv
<1> SUFFICES ASSUME Init PROVE SafetyInv
  OBVIOUS
<1>1. FreshInv /\ BlockInv /\ NoOverlap
  BY DEF Init, FreshInv, BlockInv, NoOverlap
<1>2. CursorInv
  BY SMT DEF Init, CursorInv, Live, Cursor
<1> QED BY <1>1, <1>2, TypeInit DEF SafetyInv

\* init keeps the invariant: a fresh object has no blocks.
LEMMA SafeFirstRegions ==
  ASSUME SafetyInv, TypeOK', PointerInv', NEW a \in Allocator, NEW ch, NEW o,
         phase[a] = "unborn", FirstRegions(a, ch, o),
         phase' = [phase EXCEPT ![a] = "live"], UNCHANGED blocks
  PROVE  SafetyInv'
<1>1. \A b \in blocks : b.cur \in Cursor /\ b.cur[1] \in Allocator /\ b.cur[1] # a
  BY DEF SafetyInv, FreshInv, TypeOK, Block, Cursor
<1>2. \A k \in Cursor : k[1] # a =>
        cnt'[k] = cnt[k] /\ curr'[k] = curr[k] /\ left'[k] = left[k]
  BY DEF FirstRegions
<1>3. \A k \in Cursor : k[1] # a => (Live(k)' <=> Live(k))
  BY DEF Live, SafetyInv, TypeOK, Cursor
<1>4. FreshInv'
  BY <1>1, SMT DEF SafetyInv, FreshInv, TypeOK
<1>5. CursorInv'
  <2> SUFFICES ASSUME NEW k \in Cursor, Live(k)', Sound(k)'
               PROVE  /\ curr'[k].reg = cnt'[k] - 1
                      /\ curr'[k].off % 64 = 0
                      /\ curr'[k].off + left'[k] = RegionSize(k, cnt'[k] - 1)
    BY DEF CursorInv, Live, RegionSize
  <2>1. CASE k[1] = a
    <3>1. cnt'[k] = 1 /\ curr'[k].reg = 0 /\ curr'[k].off = 0 /\ left'[k] = RegionSize(k, 0)
      BY <2>1 DEF FirstRegions, InitLeft
    <3>2. RegionSize(k, 0) \in Nat
      BY RegionSizeFacts, SMT
    <3> QED BY <3>1, <3>2, SMT
  <2>2. CASE k[1] # a
    BY <1>2, <1>3, <2>2 DEF SafetyInv, CursorInv, Sound
  <2> QED BY <2>1, <2>2
<1>6. BlockInv'
  BY <1>1, <1>2, <1>3 DEF SafetyInv, BlockInv, Sound, RegionSize
<1>7. NoOverlap'
  BY DEF SafetyInv, NoOverlap, Sound, Disjoint
<1> QED BY <1>4, <1>5, <1>6, <1>7 DEF SafetyInv

\* alloc without a new region keeps the invariant.
LEMMA SafeAllocFits ==
  ASSUME SafetyInv, NEW k \in Cursor, NEW req \in Request, AllocFits(k, req)
  PROVE  SafetyInv'
<1> DEFINE size == Align64(req)
<1>0. TypeOK' /\ PointerInv'
  BY TypeAllocFits DEF SafetyInv
<1>1. req \in Nat /\ size \in 0 .. (Word - 1) /\ size \in Nat
  BY SizeAssumption, AlignFacts, SMT
<1>2. Live(k) /\ UNCHANGED phase /\ cnt' = cnt
  BY DEF AllocFits, Live
<1>3. curr[k].reg \in Nat /\ curr[k].off \in Nat /\ left[k] \in 0 .. (Word - 1) /\ cnt[k] \in Nat
  BY <1>2 DEF SafetyInv, PointerInv, TypeOK
<1>4. Hand(k, req, curr[k].reg, curr[k].off)
  BY DEF AllocFits
<1> HIDE DEF size
<1>5. left'[k] = left[k] - size
  <2>1. left'[k] = Sub64(left[k], size) /\ ~(size > left[k])
    BY DEF AllocFits, SafetyInv, TypeOK, size
  <2>2. size <= left[k]
    BY <1>1, <1>3, <2>1, SMT
  <2> QED BY <1>1, <1>3, <2>1, <2>2, SubFacts
<1>6. curr'[k] = [reg |-> curr[k].reg, off |-> curr[k].off + size]
  <2>1. curr' = [curr EXCEPT ![k].off = @ + size]
    BY DEF CurrAfter, AllocFits, size
  <2> QED BY <2>1, SMT DEF SafetyInv, TypeOK, Pointer
<1>7. \A j \in Cursor \ {k} :
        cnt'[j] = cnt[j] /\ curr'[j] = curr[j] /\ left'[j] = left[j]
  BY DEF AllocFits, SafetyInv, TypeOK
<1>8. ASSUME Sound(k), req <= AllocSize
      PROVE  /\ cnt'[k] = curr[k].reg + 1 /\ cnt[k] <= cnt'[k] /\ curr[k].off % 64 = 0
             /\ curr'[k] = [reg |-> curr[k].reg, off |-> curr[k].off + Align64(req)]
             /\ curr[k].off + Align64(req) + left'[k] = RegionSize(k, curr[k].reg)
             /\ \A c \in blocks : (c.cur = k /\ c.reg = curr[k].reg)
                                    => c.off + c.size <= curr[k].off
  <2>1. /\ curr[k].reg = cnt[k] - 1 /\ curr[k].off % 64 = 0
        /\ curr[k].off + left[k] = RegionSize(k, cnt[k] - 1)
    BY <1>2, <1>8 DEF SafetyInv, CursorInv
  <2>2. cnt'[k] = curr[k].reg + 1 /\ cnt[k] <= cnt'[k]
    BY <1>2, <1>3, <2>1, SMT
  <2>3. RegionSize(k, curr[k].reg) \in Nat
    BY RegionSizeFacts, SMT
  <2>4. curr[k].off + size + left'[k] = RegionSize(k, curr[k].reg)
    BY <1>1, <1>3, <1>5, <2>1, <2>3, SMT
  <2>5. \A c \in blocks : (c.cur = k /\ c.reg = curr[k].reg) => c.off + c.size <= curr[k].off
    BY <1>2, <1>8, <2>1 DEF SafetyInv, BlockInv
  <2> QED BY <1>6, <2>1, <2>2, <2>4, <2>5 DEF size
<1> QED BY <1>0, <1>2, <1>3, <1>4, <1>7, <1>8, HandSafe

\* alloc with a new region keeps the invariant.
LEMMA SafeGrow ==
  ASSUME SafetyInv, NEW k \in Cursor, NEW req \in Request, Grow(k, req)
  PROVE  SafetyInv'
<1> DEFINE size == Align64(req)
<1>0. TypeOK' /\ PointerInv'
  BY TypeGrow DEF SafetyInv
<1>1. /\ req \in Nat /\ size \in 0 .. (Word - 1) /\ size \in Nat
      /\ req <= AllocSize => size <= AllocSize
  BY SizeAssumption, AlignFacts, SMT
<1>2. Live(k) /\ UNCHANGED phase
  BY DEF Grow, Live
<1>3. cnt[k] \in Nat /\ Hand(k, req, cnt[k], 0)
  BY DEF Grow, SafetyInv, TypeOK
<1> HIDE DEF size
<1>4. /\ cnt'[k] = cnt[k] + 1
      /\ left'[k] = LeftAfterGrow(size)
      /\ curr'[k] = [reg |-> cnt[k], off |-> size]
  <2>1. CurrAfter(0, size) = size
    BY <1>1 DEF CurrAfter
  <2> QED BY <2>1 DEF Grow, SafetyInv, TypeOK, size
<1>5. \A j \in Cursor \ {k} :
        cnt'[j] = cnt[j] /\ curr'[j] = curr[j] /\ left'[j] = left[j]
  BY DEF Grow, SafetyInv, TypeOK
<1>6. ASSUME Sound(k), req <= AllocSize
      PROVE  /\ cnt'[k] = cnt[k] + 1 /\ cnt[k] <= cnt'[k] /\ 0 % 64 = 0
             /\ curr'[k] = [reg |-> cnt[k], off |-> 0 + Align64(req)]
             /\ 0 + Align64(req) + left'[k] = RegionSize(k, cnt[k])
             /\ \A c \in blocks : (c.cur = k /\ c.reg = cnt[k]) => c.off + c.size <= 0
  <2>1. cnt[k] # 0
    <3>1. curr[k].reg = cnt[k] - 1 /\ curr[k].reg \in Nat
      BY <1>2, <1>6 DEF SafetyInv, CursorInv, PointerInv
    <3> QED BY <1>3, <3>1, SMT
  <2>2. RegionSize(k, cnt[k]) = AllocSize
    BY <2>1 DEF RegionSize
  <2>3. left'[k] = AllocSize - size
    <3>1. AllocSize \in 0 .. (Word - 1)
      BY SizeAssumption, SMT
    <3> QED BY <1>1, <1>4, <1>6, <3>1, SubFacts DEF LeftAfterGrow
  <2>4. 0 + size + left'[k] = RegionSize(k, cnt[k])
    BY <1>1, <2>2, <2>3, SizeAssumption, SMT
  <2>5. \A c \in blocks : ~(c.cur = k /\ c.reg = cnt[k])
    <3>1. \A c \in blocks : c.cur = k => c.reg < cnt[k]
      BY <1>6 DEF SafetyInv, BlockInv
    <3>2. ~(cnt[k] < cnt[k])
      BY <1>3, SMT
    <3> QED BY <3>1, <3>2
  <2>6. 0 + size = size /\ 0 % 64 = 0 /\ cnt[k] <= cnt[k] + 1
    BY <1>1, <1>3, SMT
  <2> QED BY <1>4, <2>4, <2>5, <2>6 DEF size
<1>7. 0 \in Nat
  BY SMT
<1> QED BY <1>0, <1>2, <1>3, <1>5, <1>6, <1>7, HandSafe

\* fast_free keeps the invariant.
LEMMA SafeFree ==
  ASSUME SafetyInv, NEW a \in Allocator, FastFree(a)
  PROVE  SafetyInv'
<1>0. TypeOK' /\ PointerInv'
  BY TypeFree DEF SafetyInv
<1>1. /\ \A k \in Cursor : Live(k)' => Live(k) /\ k[1] # a
      /\ \A b \in blocks : b.cur \in Cursor /\ b.cur[1] \in Allocator
  BY DEF FastFree, Live, SafetyInv, TypeOK, Cursor, Block
<1>2. /\ blocks' = blocks /\ cnt' = cnt
      /\ \A k \in Cursor : k[1] # a => curr'[k] = curr[k] /\ left'[k] = left[k]
  <2>1. /\ left' = [left EXCEPT ![<<a, "dram">>] = 0]
        /\ curr' = [curr EXCEPT ![<<a, "dram">>] = NULL]
        /\ blocks' = blocks /\ cnt' = cnt
    BY DEF FastFree, Free
  <2>2. \A k \in Cursor : k[1] # a => k # <<a, "dram">>
    OBVIOUS
  <2> QED BY <2>1, <2>2 DEF SafetyInv, TypeOK
<1>3. FreshInv'
  BY <1>1, <1>2, SMT DEF SafetyInv, FreshInv, FastFree, TypeOK
<1>4. CursorInv'
  BY <1>1, <1>2 DEF SafetyInv, CursorInv, Sound
<1>5. BlockInv'
  BY <1>1, <1>2 DEF SafetyInv, BlockInv, Sound
<1>6. NoOverlap'
  BY <1>2 DEF SafetyInv, NoOverlap, Sound
<1> QED BY <1>0, <1>3, <1>4, <1>5, <1>6 DEF SafetyInv

\* Every step keeps the invariant.
LEMMA SafetyNext ==
  ASSUME SafetyInv, [Next]_vars
  PROVE  SafetyInv'
<1>0. TypeOK' /\ PointerInv'
  BY TypeNext DEF SafetyInv
<1>1. ASSUME NEW a \in Allocator, NEW ch \in ChannelArg, NEW o \in Outcome,
             InitFastAllocator(a, ch, o) \/ InitConcurrency(a, ch, o)
      PROVE  SafetyInv'
  BY <1>0, <1>1, SafeFirstRegions DEF InitFastAllocator, InitConcurrency
<1>2. ASSUME NEW a \in Allocator, NEW ch \in ChannelArg, InitBadChannel(a, ch)
      PROVE  SafetyInv'
  BY <1>0, <1>2 DEF InitBadChannel, SafetyInv, FreshInv, CursorInv, BlockInv,
                    NoOverlap, Live, Sound
<1>3. ASSUME NEW k \in Cursor, NEW req \in Request, AllocFits(k, req) \/ Grow(k, req)
      PROVE  SafetyInv'
  BY <1>3, SafeAllocFits, SafeGrow
<1>4. ASSUME NEW a \in Allocator, FastFree(a)
      PROVE  SafetyInv'
  BY <1>4, SafeFree
<1>5. CASE UNCHANGED vars
  BY <1>0, <1>5 DEF vars, SafetyInv, FreshInv, CursorInv, BlockInv, NoOverlap, Live, Sound
<1>6. \A a \in Allocator : <<a, "nvm">> \in Cursor /\ <<a, "dram">> \in Cursor
  BY DEF Cursor, Pool
<1> QED
  BY <1>1, <1>2, <1>3, <1>4, <1>5, <1>6
  DEF Next, GrowNvm, GrowNvmOnHeap, GrowDram

\* alloc never hands out a byte twice, however its calls cross regions, for
\* any allocators and sizes, as long as no request exceeds a region.
THEOREM BlocksNeverOverlap == Spec => []NoOverlap
<1>1. SafetyInv => NoOverlap
  BY DEF SafetyInv
<1>2. SafetyInv /\ [Next]_vars => SafetyInv'
  BY SafetyNext
<1> QED BY <1>1, <1>2, SafetyInit, PTL DEF Spec

\* Every block alloc returns is aligned, large enough and inside its region,
\* the smaller first region of a concurrency_fastalloc included.
THEOREM BlocksContained == Spec => []Contained
<1>1. SafetyInv => Contained
  BY DEF SafetyInv, BlockInv, Contained
<1>2. SafetyInv /\ [Next]_vars => SafetyInv'
  BY SafetyNext
<1> QED BY <1>1, <1>2, SafetyInit, PTL DEF Spec

----------------------------------------------------------------------------
(* Refinement.  When no request exceeds a region every cursor is Sound, so *)
(* SafetyInv before and after a step gives what BlockStore asks of it.     *)

\* What holds of the blocks when no request exceeds a region.
FittingInv == \A b \in blocks : b.req <= AllocSize /\ b.size % 64 = 0

\* Handing out a block is a step of the store.
LEMMA StoreHand ==
  ASSUME SafetyInv, SafetyInv', FittingInv, FittingInv', UNCHANGED phase,
         NEW k \in Cursor, Live(k), NEW req, NEW reg, NEW off, Hand(k, req, reg, off)
  PROVE  [Store!Next]_<<phase, blocks>>
<1>1. PICK new : blocks' = blocks \cup {new} /\ new \in blocks' /\ new.cur = k
  <2>1. NewBlock(k, req, reg, off).cur = k
    BY DEF NewBlock
  <2> QED BY <2>1, SoundHand
<1>2. CASE new \in blocks
  BY <1>1, <1>2
<1>3. CASE new \notin blocks
  <2>1. Sound(new.cur)'
    BY DEF Sound, FittingInv
  <2>2. /\ new.off % 64 = 0 /\ new.req <= new.size
        /\ new.off + new.size <= RegionSize(new.cur, new.reg)
    BY <1>1, <2>1 DEF SafetyInv, BlockInv, RegionSize
  <2>3. new.off \in Nat /\ new.size % 64 = 0
    BY <1>1 DEF SafetyInv, TypeOK, Block, FittingInv
  <2>4. \A c \in blocks : (c.cur = new.cur /\ c.reg = new.reg) => Store!Disjoint(new, c)
    BY <1>1, <1>3, <2>1 DEF SafetyInv, NoOverlap, Disjoint, Store!Disjoint
  <2>5. 0 <= new.off
    BY <2>3, SMT
  <2>6. Store!Give
    BY <1>1, <2>2, <2>3, <2>4, <2>5 DEF Store!Give, Live
  <2> QED BY <2>6 DEF Store!Next
<1> QED BY <1>2, <1>3

\* Every step of the allocator is one of the store, or a stutter.
LEMMA StoreNext ==
  ASSUME SafetyInv, SafetyInv', FittingInv, FittingInv', [Next]_vars
  PROVE  [Store!Next]_<<phase, blocks>>
<1>1. ASSUME NEW a \in Allocator, NEW ch \in ChannelArg, NEW o \in Outcome,
             InitFastAllocator(a, ch, o) \/ InitConcurrency(a, ch, o)
      PROVE  [Store!Next]_<<phase, blocks>>
  BY <1>1 DEF InitFastAllocator, InitConcurrency, Store!Next, Store!Create
<1>2. ASSUME NEW a \in Allocator, NEW ch \in ChannelArg, InitBadChannel(a, ch)
      PROVE  [Store!Next]_<<phase, blocks>>
  BY <1>2 DEF InitBadChannel
<1>3. ASSUME NEW k \in Cursor, NEW req \in Request, AllocFits(k, req) \/ Grow(k, req)
      PROVE  [Store!Next]_<<phase, blocks>>
  BY <1>3, StoreHand DEF AllocFits, Grow, Live
<1>4. ASSUME NEW a \in Allocator, FastFree(a)
      PROVE  [Store!Next]_<<phase, blocks>>
  BY <1>4 DEF FastFree, Store!Next, Store!Drop
<1>5. CASE UNCHANGED vars
  BY <1>5 DEF vars
<1>6. \A a \in Allocator : <<a, "nvm">> \in Cursor /\ <<a, "dram">> \in Cursor
  BY DEF Cursor, Pool
<1> QED
  BY <1>1, <1>2, <1>3, <1>4, <1>5, <1>6
  DEF Next, GrowNvm, GrowNvmOnHeap, GrowDram

\* With requests that fit a region, every behaviour of the cursors is one of
\* the abstract block store: each alloc gives out one fresh, aligned block
\* of a live allocator and nothing else does.
THEOREM StoreRefinement ==
  ASSUME Request \subseteq 0 .. AllocSize
  PROVE  Spec => ImplementsStore
<1>1. Init => FittingInv /\ Store!Init
  BY DEF Init, FittingInv, Store!Init
<1>2. SafetyInv /\ FittingInv /\ [Next]_vars => FittingInv'
  <2> SUFFICES ASSUME SafetyInv, FittingInv, [Next]_vars PROVE FittingInv'
    OBVIOUS
  <2>1. ASSUME NEW k, NEW req \in Request, NEW reg, NEW off, Hand(k, req, reg, off)
        PROVE  FittingInv'
    <3> DEFINE new == NewBlock(k, req, reg, off)
    <3>1. blocks' = blocks \cup {new}
      BY <2>1 DEF Hand, NewBlock
    <3>2. new.req <= AllocSize /\ new.size % 64 = 0
      <4>1. req \in 0 .. (Word - 1) /\ req <= AllocSize
        BY SizeAssumption, SMT
      <4> QED BY <4>1, AlignFacts DEF NewBlock
    <3> HIDE DEF new
    <3> QED BY <3>1, <3>2 DEF FittingInv
  <2>2. CASE UNCHANGED blocks
    BY <2>2 DEF FittingInv
  <2>3. \A k \in Cursor, req \in Request : AllocFits(k, req) \/ Grow(k, req) => FittingInv'
    BY <2>1 DEF AllocFits, Grow
  <2>4. \A a \in Allocator : <<a, "nvm">> \in Cursor /\ <<a, "dram">> \in Cursor
    BY DEF Cursor, Pool
  <2> QED
    BY <2>2, <2>3, <2>4
    DEF Next, vars, InitFastAllocator, InitBadChannel, InitConcurrency,
        GrowNvm, GrowNvmOnHeap, GrowDram, FastFree
<1>3. SafetyInv /\ [Next]_vars => SafetyInv'
  BY SafetyNext
<1>4. SafetyInv /\ SafetyInv' /\ FittingInv /\ FittingInv' /\ [Next]_vars
        => [Store!Next]_<<phase, blocks>>
  BY StoreNext
<1> QED BY <1>1, <1>2, <1>3, <1>4, SafetyInit, PTL DEF Spec, ImplementsStore, Store!Spec

----------------------------------------------------------------------------
(* What lies behind the blocks: the heap and the mapped files.             *)

\* The tables: no object has regions before init, a live one's pointer is in
\* a region it has, and so was every block when it was handed out.
TableInv ==
  /\ \A k \in Cursor :
       /\ cnt[k] \in 0 .. MaxRegion
       /\ phase[k[1]] = "unborn" => cnt[k] = 0
       /\ Live(k) => curr[k].reg < cnt[k]
  /\ \A b \in blocks : b.reg < cnt[b.cur]

\* A mapping belongs to an object that was created, and its file is named by
\* the object's class and the region's number; the channel of the name is
\* the object's, or the mount's.
MapInv ==
  \A m \in nvmap :
    /\ m.owner \in Allocator /\ phase[m.owner] # "unborn"
    /\ m.file = NvmFilename(m.owner, m.file[1], m.idx)
    /\ OptaneStudy => m.file[1] = channel[m.owner]

\* The copies without the argument leave the field as the class sets it.
ChannelInv == ~OptaneStudy => \A a \in Allocator : channel[a] = 0

\* OptaneStudy makes no nvm region without mapping a file for it.
NvmInv ==
  OptaneStudy => \A a \in Allocator : \A n \in 0 .. (cnt[<<a, "nvm">>] - 1) :
                   \E m \in nvmap : m.owner = a /\ m.idx = n

StorageInv == TypeOK /\ PointerInv /\ TableInv /\ HeapAccounting /\ MapInv /\ ChannelInv /\ NvmInv

\* A cursor is one of the two of its allocator.
LEMMA CursorFacts ==
  /\ \A a \in Allocator : <<a, "nvm">> \in Cursor /\ <<a, "dram">> \in Cursor
  /\ \A k \in Cursor : k[1] \in Allocator /\ k[2] \in {"nvm", "dram"} /\ k = <<k[1], k[2]>>
  /\ \A a \in Allocator : {a} \X Pool = {<<a, "nvm">>, <<a, "dram">>}
BY DEF Cursor, Pool

\* What a mapping records.
LEMMA MapFileFacts ==
  ASSUME NEW a \in Allocator, NEW ch, NEW n, NEW o
  PROVE  /\ MapFile(a, ch, n, o).owner = a /\ MapFile(a, ch, n, o).idx = n
         /\ MapFile(a, ch, n, o).file = NvmFilename(a, ch, n)
         /\ MapFile(a, ch, n, o).file[1] = ch
BY DEF MapFile, NvmFilename

\* No object and no area at the start.
LEMMA StorageInit == Init => StorageInv
<1> SUFFICES ASSUME Init PROVE StorageInv
  OBVIOUS
<1>1. TableInv
  BY CursorFacts, TableAssumption, SMT DEF Init, TableInv, Live
<1>2. HeapAccounting
  BY SMT DEF Init, HeapAccounting
<1>3. MapInv /\ ChannelInv
  BY DEF Init, MapInv, ChannelInv
<1>4. NvmInv
  <2>1. \A a \in Allocator : cnt[<<a, "nvm">>] = 0
    BY CursorFacts DEF Init
  <2>2. 0 .. (0 - 1) = {}
    BY SMT
  <2> QED BY <2>1, <2>2 DEF NvmInv
<1> QED BY <1>1, <1>2, <1>3, <1>4, TypeInit DEF StorageInv

\* Both init methods: two areas and one mapping for a fresh object.
LEMMA StorageFirstRegions ==
  ASSUME StorageInv, TypeOK', PointerInv', NEW a \in Allocator, NEW ch \in ChannelArg, NEW o,
         phase[a] = "unborn", FirstRegions(a, ch, o),
         phase' = [phase EXCEPT ![a] = "live"], UNCHANGED blocks,
         channel' = [channel EXCEPT ![a] = IF OptaneStudy THEN ch ELSE @]
  PROVE  StorageInv'
<1> USE CursorFacts
<1>1. \A k \in Cursor : IF k[1] = a THEN cnt'[k] = 1 /\ curr'[k].reg = 0 /\ cnt[k] = 0
                        ELSE cnt'[k] = cnt[k] /\ curr'[k] = curr[k]
  BY DEF FirstRegions, StorageInv, TableInv
<1>2. \A b \in Allocator : IF b = a THEN phase'[b] = "live"
                           ELSE phase'[b] = phase[b] /\ channel'[b] = channel[b]
  BY DEF StorageInv, TypeOK
<1>3. TableInv'
  <2>1. \A b \in blocks : b.cur \in Cursor /\ b.reg \in Nat
    BY DEF StorageInv, TypeOK, Block
  <2>2. \A b \in blocks : b.cur[1] # a
    BY <1>1, <2>1, SMT DEF StorageInv, TableInv
  <2>3. \A b \in blocks' : b.reg < cnt'[b.cur]
    BY <1>1, <2>1, <2>2 DEF StorageInv, TableInv
  <2>4. \A k \in Cursor : /\ cnt'[k] \in 0 .. MaxRegion
                          /\ phase'[k[1]] = "unborn" => cnt'[k] = 0
                          /\ phase'[k[1]] = "live" => curr'[k].reg < cnt'[k]
    BY <1>1, <1>2, TableAssumption, SMT DEF StorageInv, TableInv, Live
  <2> QED BY <2>3, <2>4 DEF TableInv, Live
<1>4. HeapAccounting'
  <2>1. heap' = heap \cup {<<<<a, "nvm">>, 0>>, <<<<a, "dram">>, 0>>}
    BY DEF FirstRegions
  <2>2. \A r \in Cursor \X (0 .. MaxRegion) :
          r \in heap <=> r[2] < cnt[r[1]] /\ (r[1][2] = "nvm" \/ Live(r[1]))
    BY DEF StorageInv, HeapAccounting
  <2>3. heap' \subseteq Cursor \X (0 .. MaxRegion)
    <3>1. 0 \in 0 .. MaxRegion
      BY TableAssumption, SMT
    <3>2. heap \subseteq Cursor \X (0 .. MaxRegion)
      BY DEF StorageInv, HeapAccounting
    <3>3. <<a, "nvm">> \in Cursor /\ <<a, "dram">> \in Cursor
      OBVIOUS
    <3>4. <<<<a, "nvm">>, 0>> \in Cursor \X (0 .. MaxRegion) /\ <<<<a, "dram">>, 0>> \in Cursor \X (0 .. MaxRegion)
      BY <3>1, <3>3
    <3> QED BY <2>1, <3>2, <3>4
  <2>4. ASSUME NEW r \in Cursor \X (0 .. MaxRegion)
        PROVE  r \in heap' <=> r[2] < cnt'[r[1]] /\ (r[1][2] = "nvm" \/ Live(r[1])')
    <3>1. r[1] \in Cursor /\ r[2] \in Nat /\ r = <<r[1], r[2]>>
      BY SMT
    <3>2. CASE r[1][1] = a
      <4>1. r \notin heap
        <5>1. cnt[r[1]] = 0
          BY <1>1, <3>1, <3>2
        <5>2. ~(r[2] < cnt[r[1]])
          BY <3>1, <5>1, SMT
        <5> QED BY <2>2, <5>2
      <4>2. r \in heap' <=> r[2] = 0
        BY <2>1, <3>1, <3>2, <4>1
      <4>3. Live(r[1])' /\ cnt'[r[1]] = 1
        BY <1>1, <1>2, <3>1, <3>2 DEF Live
      <4> QED BY <3>1, <4>2, <4>3, SMT
    <3>3. CASE r[1][1] # a
      <4>1. r \in heap' <=> r \in heap
        BY <2>1, <3>1, <3>3
      <4> QED BY <1>1, <1>2, <2>2, <3>1, <3>3, <4>1 DEF Live
    <3> QED BY <3>2, <3>3
  <2> QED BY <2>3, <2>4 DEF HeapAccounting, Live
<1>5. MapInv'
  <2>1. ASSUME NEW m \in nvmap PROVE m.owner # a
    BY DEF StorageInv, MapInv
  <2>2. ASSUME OptaneStudy PROVE channel'[a] = ch
    BY <2>2 DEF StorageInv, TypeOK
  <2>3. nvmap' = nvmap \cup {MapFile(a, ch, 0, o)}
    BY DEF FirstRegions
  <2> QED BY <1>2, <2>1, <2>2, <2>3, MapFileFacts DEF StorageInv, MapInv, NvmFilename
<1>6. ChannelInv'
  BY <1>2 DEF StorageInv, ChannelInv, TypeOK
<1>7. NvmInv'
  <2>1. nvmap' = nvmap \cup {MapFile(a, ch, 0, o)}
    BY DEF FirstRegions
  <2> SUFFICES ASSUME OptaneStudy, NEW b \in Allocator, NEW n \in 0 .. (cnt'[<<b, "nvm">>] - 1)
               PROVE  \E m \in nvmap' : m.owner = b /\ m.idx = n
    BY DEF NvmInv
  <2>2. CASE b = a
    <3>1. cnt'[<<a, "nvm">>] = 1
      BY <1>1
    <3>2. n = 0
      BY <2>2, <3>1, SMT
    <3> QED BY <2>1, <2>2, <3>2, MapFileFacts
  <2>3. CASE b # a
    <3>1. cnt'[<<b, "nvm">>] = cnt[<<b, "nvm">>]
      BY <1>1, <2>3
    <3>2. \E m \in nvmap : m.owner = b /\ m.idx = n
      BY <3>1 DEF StorageInv, NvmInv
    <3> QED BY <2>1, <3>2
  <2> QED BY <2>2, <2>3
<1> QED BY <1>3, <1>4, <1>5, <1>6, <1>7 DEF StorageInv

\* A new region: one area, and the count goes up.
LEMMA StorageGrow ==
  ASSUME StorageInv, TypeOK', PointerInv', NEW k \in Cursor, NEW req \in Request, Grow(k, req)
  PROVE  TableInv' /\ HeapAccounting' /\ ChannelInv'
<1> USE CursorFacts
<1>1. /\ \A j \in Cursor : cnt'[j] = IF j = k THEN cnt[k] + 1 ELSE cnt[j]
      /\ \A j \in Cursor : curr'[j].reg = IF j = k THEN cnt[k] ELSE curr[j].reg
      /\ cnt[k] \in Nat /\ cnt[k] < MaxRegion
  BY DEF Grow, StorageInv, TypeOK
<1>2. phase' = phase /\ phase[k[1]] = "live" /\ channel' = channel
  BY DEF Grow
<1>3. TableInv'
  <2>1. \A b \in blocks : b.cur \in Cursor /\ b.reg \in Nat /\ b.reg < cnt[b.cur]
    BY DEF StorageInv, TypeOK, Block, TableInv
  <2>2. PICK b : blocks' = blocks \cup {b} /\ b.cur = k /\ b.reg = cnt[k]
    <3> DEFINE b == NewBlock(k, req, cnt[k], 0)
    <3>1. blocks' = blocks \cup {b}
      BY SoundHand DEF Grow
    <3>2. b.cur = k /\ b.reg = cnt[k]
      BY DEF NewBlock
    <3> HIDE DEF b
    <3> QED BY <3>1, <3>2
  <2>3. \A c \in blocks' : c.reg < cnt'[c.cur]
    BY <1>1, <2>1, <2>2, TableAssumption, SMT
  <2>4. \A j \in Cursor : /\ cnt'[j] \in 0 .. MaxRegion
                          /\ phase'[j[1]] = "unborn" => cnt'[j] = 0
                          /\ phase'[j[1]] = "live" => curr'[j].reg < cnt'[j]
    BY <1>1, <1>2, TableAssumption, SMT DEF StorageInv, TableInv, Live
  <2> QED BY <2>3, <2>4 DEF TableInv, Live
<1>4. HeapAccounting'
  <2>1. heap' = heap \cup {<<k, cnt[k]>>} /\ cnt[k] \in 0 .. MaxRegion
    BY <1>1, TableAssumption, SMT DEF Grow
  <2>2. heap = {r \in Cursor \X (0 .. MaxRegion) :
                  r[2] < cnt[r[1]] /\ (r[1][2] = "nvm" \/ Live(r[1]))}
    BY DEF StorageInv, HeapAccounting
  <2>3. heap' \subseteq Cursor \X (0 .. MaxRegion)
    BY <2>1, <2>2
  <2>4. ASSUME NEW r \in Cursor \X (0 .. MaxRegion)
        PROVE  r \in heap' <=> r[2] < cnt'[r[1]] /\ (r[1][2] = "nvm" \/ Live(r[1])')
    <3>1. r[1] \in Cursor /\ r[2] \in Nat /\ r = <<r[1], r[2]>>
      BY SMT
    <3>2. Live(r[1])' <=> Live(r[1])
      BY <1>2 DEF Live
    <3>3. r \in heap <=> r[2] < cnt[r[1]] /\ (r[1][2] = "nvm" \/ Live(r[1]))
      BY <2>2
    <3>4. CASE r[1] = k
      <4>1. Live(r[1])
        BY <1>2, <3>4 DEF Live
      <4>2. r \in heap' <=> r[2] < cnt[k] \/ r[2] = cnt[k]
        BY <2>1, <3>1, <3>3, <3>4, <4>1
      <4> QED BY <1>1, <3>1, <3>2, <3>4, <4>1, <4>2, SMT
    <3>5. CASE r[1] # k
      BY <1>1, <2>1, <3>1, <3>2, <3>3, <3>5
    <3> QED BY <3>4, <3>5
  <2> QED BY <2>3, <2>4 DEF HeapAccounting, Live
<1>5. ChannelInv'
  BY <1>2 DEF StorageInv, ChannelInv
<1> QED BY <1>3, <1>4, <1>5

\* A new region of the nvm pool, mapped, or of either pool without a mapping.
LEMMA StorageGrowMap ==
  ASSUME StorageInv, TypeOK', PointerInv', NEW a \in Allocator, NEW req \in Request,
         \/ \E o \in Outcome : GrowNvm(a, req, o)
         \/ GrowNvmOnHeap(a, req)
         \/ GrowDram(a, req)
  PROVE  StorageInv'
<1> USE CursorFacts
<1>1. PICK p \in {"nvm", "dram"} :
        /\ Grow(<<a, p>>, req)
        /\ \/ p = "nvm" /\ \E o \in Outcome : nvmap' = nvmap \cup {MapFile(a, channel[a], cnt[<<a, p>>], o)}
           \/ (~OptaneStudy \/ p = "dram") /\ nvmap' = nvmap
  BY DEF GrowNvm, GrowNvmOnHeap, GrowDram
<1>2. phase' = phase /\ channel' = channel /\ phase[a] = "live"
  BY <1>1 DEF Grow
<1>3. TableInv' /\ HeapAccounting' /\ ChannelInv'
  BY <1>1, StorageGrow
<1>4. MapInv'
  <2>1. CASE nvmap' = nvmap
    BY <1>2, <2>1 DEF StorageInv, MapInv
  <2>2. ASSUME NEW o, nvmap' = nvmap \cup {MapFile(a, channel[a], cnt[<<a, p>>], o)} PROVE MapInv'
    BY <1>2, <2>2, MapFileFacts DEF StorageInv, MapInv, NvmFilename
  <2> QED BY <1>1, <2>1, <2>2
<1>5. NvmInv'
  <2> SUFFICES ASSUME OptaneStudy, NEW b \in Allocator, NEW n \in 0 .. (cnt'[<<b, "nvm">>] - 1)
               PROVE  \E m \in nvmap' : m.owner = b /\ m.idx = n
    BY DEF NvmInv
  <2>1. nvmap \subseteq nvmap'
    BY <1>1
  <2>2. cnt[<<b, "nvm">>] \in Nat
    BY DEF StorageInv, TypeOK
  <2>3. cnt'[<<b, "nvm">>] = IF <<b, "nvm">> = <<a, p>> THEN cnt[<<b, "nvm">>] + 1 ELSE cnt[<<b, "nvm">>]
    BY <1>1 DEF Grow, StorageInv, TypeOK
  <2>4. CASE n \in 0 .. (cnt[<<b, "nvm">>] - 1)
    BY <2>1, <2>4 DEF StorageInv, NvmInv
  <2>5. CASE n \notin 0 .. (cnt[<<b, "nvm">>] - 1)
    <3>1. b = a /\ p = "nvm" /\ n = cnt[<<a, "nvm">>]
      BY <2>2, <2>3, <2>5, SMT
    <3>2. PICK o \in Outcome : nvmap' = nvmap \cup {MapFile(a, channel[a], n, o)}
      BY <1>1, <3>1
    <3> QED BY <3>1, <3>2, MapFileFacts
  <2> QED BY <2>4, <2>5
<1> QED BY <1>3, <1>4, <1>5 DEF StorageInv

\* free deletes the dram areas of its object, all of them and no other.
LEMMA StorageFree ==
  ASSUME StorageInv, TypeOK', PointerInv', NEW a \in Allocator, FastFree(a)
  PROVE  StorageInv'
<1> USE CursorFacts
<1> DEFINE d == <<a, "dram">>
<1>1. /\ phase[a] = "live" /\ phase' = [phase EXCEPT ![a] = "deleted"]
      /\ heap' = heap \ FreedAreas(d) /\ curr' = [curr EXCEPT ![d] = NULL]
      /\ UNCHANGED <<cnt, nvmap, channel, blocks>>
  BY DEF FastFree, Free
<1>2. \A b \in Allocator : IF b = a THEN phase'[b] = "deleted" ELSE phase'[b] = phase[b]
  BY <1>1 DEF StorageInv, TypeOK
<1>3. TableInv'
  <2>1. \A k \in Cursor : k[1] # a => curr'[k] = curr[k]
    BY <1>1 DEF StorageInv, TypeOK
  <2> QED BY <1>1, <1>2, <2>1 DEF StorageInv, TableInv, Live
<1>4. HeapAccounting'
  <2>1. ASSUME NEW r \in Cursor \X (0 .. MaxRegion)
        PROVE  r \in heap' <=> r[2] < cnt'[r[1]] /\ (r[1][2] = "nvm" \/ Live(r[1])')
    <3>1. /\ r[1] \in Cursor /\ r[2] \in Nat /\ r = <<r[1], r[2]>>
          /\ cnt[r[1]] \in Nat /\ cnt[d] \in Nat
      <4>1. r[1] \in Cursor /\ r[2] \in Nat /\ r = <<r[1], r[2]>>
        BY SMT
      <4>2. d \in Cursor
        OBVIOUS
      <4> QED BY <4>1, <4>2 DEF StorageInv, TypeOK
    <3>2. r \in heap <=> r[2] < cnt[r[1]] /\ (r[1][2] = "nvm" \/ Live(r[1]))
      BY DEF StorageInv, HeapAccounting
    <3>3. r \in FreedAreas(d) <=> r[1] = d /\ r[2] \in 0 .. (cnt[d] - 1)
      BY <3>1 DEF FreedAreas
    <3>4. CASE r[1] = d
      <4>1. ~Live(r[1])' /\ r[1][2] # "nvm"
        BY <1>2, <3>4 DEF Live
      <4>2. r \in heap => r[2] \in 0 .. (cnt[d] - 1)
        BY <3>1, <3>2, <3>4, SMT
      <4> QED BY <1>1, <3>3, <3>4, <4>1, <4>2
    <3>5. CASE r[1] # d
      <4>1. r[1][2] = "nvm" \/ r[1][1] # a
        BY <3>1, <3>5
      <4> QED BY <1>1, <1>2, <3>1, <3>2, <3>3, <3>5, <4>1 DEF Live
    <3> QED BY <3>4, <3>5
  <2>2. heap' \subseteq Cursor \X (0 .. MaxRegion)
    BY <1>1 DEF StorageInv, HeapAccounting
  <2> QED BY <2>1, <2>2 DEF HeapAccounting, Live
<1>5. MapInv' /\ ChannelInv' /\ NvmInv'
  BY <1>1, <1>2 DEF StorageInv, MapInv, ChannelInv, NvmInv
<1> QED BY <1>3, <1>4, <1>5 DEF StorageInv

\* Every step keeps the invariant.
LEMMA StorageNext == StorageInv /\ [Next]_vars => StorageInv'
<1> SUFFICES ASSUME StorageInv, [Next]_vars PROVE StorageInv'
  OBVIOUS
<1>0. TypeOK' /\ PointerInv'
  BY TypeNext DEF StorageInv
<1>1. ASSUME NEW a \in Allocator, NEW ch \in ChannelArg, NEW o \in Outcome,
             InitFastAllocator(a, ch, o) \/ InitConcurrency(a, ch, o)
      PROVE  StorageInv'
  <2>1. channel' = [channel EXCEPT ![a] = IF OptaneStudy THEN ch ELSE @]
    BY <1>1 DEF InitFastAllocator, InitConcurrency, StorageInv, TypeOK
  <2> QED BY <1>0, <1>1, <2>1, StorageFirstRegions DEF InitFastAllocator, InitConcurrency
<1>2. ASSUME NEW a \in Allocator, NEW ch \in ChannelArg, InitBadChannel(a, ch)
      PROVE  StorageInv'
  <2>1. /\ OptaneStudy /\ phase[a] = "unborn"
        /\ UNCHANGED <<phase, cnt, curr, heap, nvmap, blocks>>
        /\ \A b \in Allocator : b # a => channel'[b] = channel[b]
    BY <1>2 DEF InitBadChannel, StorageInv, TypeOK
  <2>2. \A m \in nvmap : m.owner \in Allocator \ {a}
    BY <2>1 DEF StorageInv, MapInv
  <2> QED BY <1>0, <2>1, <2>2 DEF StorageInv, TableInv, HeapAccounting, MapInv, ChannelInv,
                                  NvmInv, Live
<1>3. ASSUME NEW k \in Cursor, NEW req \in Request, AllocFits(k, req)
      PROVE  StorageInv'
  <2>1. PICK b : blocks' = blocks \cup {b} /\ b.cur = k /\ b.reg = curr[k].reg
    <3> DEFINE b == NewBlock(k, req, curr[k].reg, curr[k].off)
    <3>1. blocks' = blocks \cup {b}
      BY <1>3, SoundHand DEF AllocFits
    <3>2. b.cur = k /\ b.reg = curr[k].reg
      BY DEF NewBlock
    <3> HIDE DEF b
    <3> QED BY <3>1, <3>2
  <2>2. /\ UNCHANGED <<phase, cnt, heap, nvmap, channel>> /\ Live(k)
        /\ \A j \in Cursor : curr'[j].reg = curr[j].reg
    BY <1>3 DEF AllocFits, StorageInv, TypeOK, Pointer, Live
  <2> QED BY <1>0, <2>1, <2>2 DEF StorageInv, TableInv, HeapAccounting, MapInv, ChannelInv,
                                  NvmInv, Live
<1>4. ASSUME NEW a \in Allocator, NEW req \in Request,
             \/ \E o \in Outcome : GrowNvm(a, req, o)
             \/ GrowNvmOnHeap(a, req)
             \/ GrowDram(a, req)
      PROVE  StorageInv'
  BY <1>0, <1>4, StorageGrowMap
<1>5. ASSUME NEW a \in Allocator, FastFree(a) PROVE StorageInv'
  BY <1>0, <1>5, StorageFree
<1>6. CASE UNCHANGED vars
  BY <1>0, <1>6 DEF vars, StorageInv, TableInv, HeapAccounting, MapInv, ChannelInv, NvmInv, Live
<1> QED BY <1>1, <1>2, <1>3, <1>4, <1>5, <1>6 DEF Next

----------------------------------------------------------------------------
\* free deletes each dram area once, and the nvm areas are all leaked, for
\* any sequence of calls on any objects.
THEOREM HeapAccounted == Spec => []HeapAccounting
<1>1. StorageInv => HeapAccounting
  BY DEF StorageInv
<1> QED BY <1>1, StorageInit, StorageNext, PTL DEF Spec

\* In OptaneStudy's copy every block asked for on nvm lies in a region for
\* which a file of the object's own channel was mapped.
THEOREM NvmIsOnPM == OptaneStudy => (Spec => []NvmOnPM)
<1> SUFFICES ASSUME OptaneStudy PROVE Spec => []NvmOnPM
  OBVIOUS
<1>1. StorageInv => NvmOnPM
  <2> SUFFICES ASSUME StorageInv, NEW b \in blocks, b.cur[2] = "nvm"
               PROVE  \E m \in nvmap : m.owner = b.cur[1] /\ m.idx = b.reg /\ m.file[1] = channel[m.owner]
    BY DEF NvmOnPM
  <2>1. b.cur \in Cursor /\ b.reg \in Nat /\ cnt[b.cur] \in Nat /\ b.reg < cnt[b.cur]
    BY DEF StorageInv, TypeOK, Block, TableInv
  <2>2. b.cur[1] \in Allocator /\ b.cur = <<b.cur[1], "nvm">>
    BY <2>1, CursorFacts
  <2>3. b.reg \in 0 .. (cnt[b.cur] - 1)
    BY <2>1, SMT
  <2>4. PICK m \in nvmap : m.owner = b.cur[1] /\ m.idx = b.reg
    BY <2>2, <2>3 DEF StorageInv, NvmInv
  <2> QED BY <2>4 DEF StorageInv, MapInv
<1> QED BY <1>1, StorageInit, StorageNext, PTL DEF Spec

\* No two blocks share memory, in a PM file or on the heap, unless they are of
\* two objects of one class on one channel: two mappings of one file are of one
\* region of one object, and the area of a heap block is still its own.
THEOREM StorageIsDisjoint == Spec => []StorageDisjoint
<1>1. ASSUME StorageInv, NEW b \in blocks, OnHeap(b), b.cur[2] = "nvm" \/ Live(b.cur)
      PROVE  <<b.cur, b.reg>> \in heap
  <2>1. b.cur \in Cursor /\ b.reg \in Nat /\ cnt[b.cur] \in Nat /\ b.reg < cnt[b.cur]
        /\ cnt[b.cur] <= MaxRegion
    BY <1>1 DEF StorageInv, TypeOK, Block, TableInv
  <2>2. b.reg \in 0 .. MaxRegion
    BY <2>1, TableAssumption, SMT
  <2> DEFINE r == <<b.cur, b.reg>>
  <2>3. r \in Cursor \X (0 .. MaxRegion) /\ r[1] = b.cur /\ r[2] = b.reg
    BY <2>1, <2>2
  <2> HIDE DEF r
  <2>4. r \in heap
    BY <1>1, <2>1, <2>3 DEF StorageInv, HeapAccounting
  <2> QED BY <2>4 DEF r
<1>2. ASSUME SafetyInv, StorageInv, NEW b \in blocks, NEW c \in blocks, b # c,
             SameMemory(b, c), ~Twins(b.cur[1], c.cur[1]), Sound(b.cur), Sound(c.cur)
      PROVE  Disjoint(b, c)
  <2>1. ASSUME NEW m \in MappingOf(b), NEW n \in MappingOf(c), m.file = n.file
        PROVE  b.cur = c.cur /\ b.reg = c.reg
    <3>1. /\ m \in nvmap /\ m.owner = b.cur[1] /\ m.idx = b.reg /\ b.cur[2] = "nvm"
          /\ n \in nvmap /\ n.owner = c.cur[1] /\ n.idx = c.reg /\ c.cur[2] = "nvm"
      BY DEF MappingOf
    <3>2. /\ m.owner \in Allocator /\ n.owner \in Allocator
          /\ m.file = <<m.file[1], m.owner \in Concurrency, m.idx>>
          /\ n.file = <<n.file[1], n.owner \in Concurrency, n.idx>>
          /\ OptaneStudy => m.file[1] = channel[m.owner] /\ n.file[1] = channel[n.owner]
      BY <1>2, <3>1 DEF StorageInv, MapInv, NvmFilename
    <3>3. m.idx = n.idx /\ (m.owner \in Concurrency) = (n.owner \in Concurrency)
          /\ m.file[1] = n.file[1]
      <4>1. \A p, q, r, s, t, u : <<p, q, r>> = <<s, t, u>> => p = s /\ q = t /\ r = u
        OBVIOUS
      <4> QED BY <2>1, <3>2, <4>1
    <3>4. channel[m.owner] = channel[n.owner]
      BY <1>2, <3>2, <3>3 DEF StorageInv, ChannelInv
    <3>5. m.owner = n.owner
      BY <1>2, <3>1, <3>3, <3>4 DEF Twins
    <3>6. b.cur \in Cursor /\ c.cur \in Cursor
      BY <1>2 DEF StorageInv, TypeOK, Block
    <3>7. b.cur = <<b.cur[1], b.cur[2]>> /\ c.cur = <<c.cur[1], c.cur[2]>>
      BY <3>6, CursorFacts
    <3>8. b.cur[1] = c.cur[1] /\ b.cur[2] = c.cur[2] /\ b.reg = c.reg
      BY <3>1, <3>3, <3>5
    <3> QED BY <3>7, <3>8
  <2>2. b.cur = c.cur /\ b.reg = c.reg
    BY <1>2, <2>1 DEF SameMemory
  <2> QED BY <1>2, <2>2 DEF SafetyInv, NoOverlap
<1>3. SafetyInv /\ StorageInv => StorageDisjoint
  BY <1>1, <1>2 DEF StorageDisjoint
<1>4. SafetyInv /\ [Next]_vars => SafetyInv'
  BY SafetyNext
<1> QED BY <1>3, <1>4, SafetyInit, StorageInit, StorageNext, PTL DEF Spec

============================================================================
