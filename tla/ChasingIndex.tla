---------------------------- MODULE ChasingIndex ----------------------------
(***************************************************************************)
(* The pointer-chasing tests of memaccess.c: init_chasing_index draws a    *)
(* random cycle over csize positions, chasing_storeclwb lays it out in     *)
(* persistent memory, one 64-byte line per position, and chasing_loadnt    *)
(* follows it there.  A behaviour runs the three of them in this order, as *)
(* memaccess.h groups them.                                                *)
(*                                                                         *)
(* A line holds the position it points to; mem tells what of it is         *)
(* durable.  rdrand may have no number ready (carry clear).                *)
(***************************************************************************)
EXTENDS PMem, Sequences

CONSTANTS
  Csize,     \* the values of csize
  Count,     \* the values of count
  Extra,     \* accesses beyond csize, as access size / 64 - csize
  MaxRetry   \* RDRAND_MAX_RETRY

\* csize = 0 is not a state to start from: csize - 1 wraps, and the first
\* next_pos is taken modulo 0.
ASSUME ChasingAssumption ==
  /\ Csize \subseteq Nat \ {0} /\ Count \subseteq Nat /\ Extra \subseteq Int
  /\ MaxRetry \in Nat \ {0}

VARIABLES
  csize, count, size,   \* the arguments; skip is csize * 64, block after block
  pc,
  cindex, curr_pos, i,  \* locals of init_chasing_index
  tries,                \* i of get_rand
  r8, r10, r11, r12,    \* registers of the kernels, r8 and r10 in lines
  data,                 \* the position a line holds
  mem,                  \* PMem
  stored, loaded        \* history: the lines visited, in order

args == <<csize, count, size>>
build == <<cindex, curr_pos, i, tries>>
vars == <<args, pc, build, r8, r10, r11, r12, data, mem, stored, loaded>>

Self == 0

Init ==
  /\ csize \in Csize /\ count \in Count
  /\ size \in {csize + e : e \in Extra}
  /\ pc = "test"
  /\ cindex = [p \in 0 .. (csize - 1) |-> 0]      \* memset
  /\ curr_pos = 0 /\ i = 0 /\ tries = 0
  /\ r8 = 0 /\ r10 = 0 /\ r11 = 0 /\ r12 = 0
  /\ LET Line == 0 .. (csize * (IF count > 1 THEN count ELSE 1) - 1)
     IN  /\ data = [l \in Line |-> 0]
         /\ mem = PMemZero(Line, {Self})
  /\ stored = << >> /\ loaded = << >>

----------------------------------------------------------------------------
(* init_chasing_index and get_rand.                                        *)

\* A mutant: one position too many is drawn.
MoreToDrawLate == i < csize

MoreToDraw == i < csize - 1

\* for(i = 0; i < csize-1; i++): leave, or go and draw.
ForTest ==
  /\ pc = "test"
  /\ pc' = IF MoreToDraw THEN "draw" ELSE "store"
  /\ tries' = 0
  /\ UNCHANGED <<args, cindex, curr_pos, i, r8, r10, r11, r12, data, mem, stored, loaded>>

\* A mutant: one try too many.
RetryLate(n) == n <= MaxRetry

\* for (i = 0; i < RDRAND_MAX_RETRY; i++)
Retry(n) == n < MaxRetry

\* get_rand: rdrand had no number; after MaxRetry times in a row
\* init_chasing_index gives up and returns 1.
RandFail ==
  /\ pc = "draw"
  /\ tries' = tries + 1
  /\ pc' = IF Retry(tries') THEN "draw" ELSE "failed"
  /\ UNCHANGED <<args, cindex, curr_pos, i, r8, r10, r11, r12, data, mem, stored, loaded>>

\* A mutant: the draw is not compared with the current position.
TakenOnly(next_pos) == cindex[next_pos] # 0

\* The condition of the do-while: draw again.
Taken(next_pos) == cindex[next_pos] # 0 \/ next_pos = curr_pos

\* A number that was used: the do-while draws again, with fresh tries.
DrawTaken(next_pos) ==
  /\ pc = "draw" /\ Taken(next_pos)
  /\ tries' = 0
  /\ UNCHANGED <<args, pc, cindex, curr_pos, i, r8, r10, r11, r12, data, mem, stored, loaded>>

\* A number that was not: the current position points to it, and it becomes
\* the current position.
DrawFree(next_pos) ==
  /\ pc = "draw" /\ ~Taken(next_pos)
  /\ cindex' = [cindex EXCEPT ![curr_pos] = next_pos]
  /\ curr_pos' = next_pos
  /\ i' = i + 1
  /\ pc' = "test"
  /\ UNCHANGED <<args, tries, r8, r10, r11, r12, data, mem, stored, loaded>>

----------------------------------------------------------------------------
(* chasing_storeclwb.                                                      *)

\* A mutant: the line holds the position itself, not the next one.
StoredValueSelf(p) == p

\* movq (cindex, r12, 8), xmm0: what the line of position p is to hold.
StoredValue(p) == cindex[p]

StoreOne ==
  LET l == r8 + r12 IN
  /\ pc = "store"
  /\ data' = [data EXCEPT ![l] = StoredValue(r12)]
  /\ mem' = Clwb(Store(mem, {l}), Self, {l})
  /\ r10' = r10 + 1
  /\ r12' = cindex[r12]
  /\ pc' = IF r10' < size THEN "store" ELSE "storefence"
  /\ stored' = Append(stored, l)
  /\ UNCHANGED <<args, build, r8, r11, loaded>>

\* A mutant: the fence after a block is missing.
BlockFenceNone(m) == m

\* SIZEBTST_FENCE.
BlockFence(m) == Fence(m, Self)

\* The fence, then the next block or, with all registers cleared, the loads.
StoreFence ==
  LET more == r11 + 1 < count IN
  /\ pc = "storefence"
  /\ mem' = BlockFence(mem)
  /\ r8' = IF more THEN r8 + csize ELSE 0
  /\ r11' = IF more THEN r11 + 1 ELSE 0
  /\ r10' = 0 /\ r12' = 0
  /\ pc' = IF more THEN "store" ELSE "load"
  /\ UNCHANGED <<args, build, data, stored, loaded>>

----------------------------------------------------------------------------
(* chasing_loadnt.                                                         *)

LoadOne ==
  LET l == r8 + r12 IN
  /\ pc = "load"
  /\ r12' = data[l]
  /\ r10' = r10 + 1
  /\ pc' = IF r10' < size THEN "load" ELSE "loadfence"
  /\ loaded' = Append(loaded, l)
  /\ UNCHANGED <<args, build, r8, r11, data, mem, stored>>

LoadFence ==
  LET more == r11 + 1 < count IN
  /\ pc = "loadfence"
  /\ mem' = Fence(mem, Self)
  /\ r8' = IF more THEN r8 + csize ELSE r8
  /\ r11' = r11 + 1
  /\ r10' = 0 /\ r12' = 0
  /\ pc' = IF more THEN "load" ELSE "done"
  /\ UNCHANGED <<args, build, data, stored, loaded>>

Next ==
  \/ ForTest \/ RandFail
  \/ \E next_pos \in DOMAIN cindex : DrawTaken(next_pos) \/ DrawFree(next_pos)
  \/ StoreOne \/ StoreFence \/ LoadOne \/ LoadFence

\* The thread runs on, and rdrand does not keep a free position back for
\* ever: its numbers are random.
Fairness ==
  /\ WF_vars(Next)
  /\ SF_vars(\E next_pos \in DOMAIN cindex : DrawFree(next_pos))

Spec == Init /\ [][Next]_vars /\ Fairness

----------------------------------------------------------------------------
(* Properties.                                                             *)

\* The positions stay below csize, in the index and in the lines, and get_rand
\* gives up after RDRAND_MAX_RETRY tries.
TypeOK ==
  /\ pc \in {"test", "draw", "failed", "store", "storefence", "load", "loadfence", "done"}
  /\ cindex \in [0 .. (csize - 1) -> 0 .. (csize - 1)]
  /\ curr_pos \in DOMAIN cindex /\ i \in 0 .. (csize - 1) /\ tries \in 0 .. MaxRetry
  /\ r12 \in DOMAIN cindex
  /\ data \in [DOMAIN mem.ver -> DOMAIN cindex]

\* The position reached from 0 in n steps.
Follow[n \in Nat] == IF n = 0 THEN 0 ELSE cindex[Follow[n - 1]]

\* While it is drawn, and also when rdrand gave out and 1 was returned, the
\* index is one cycle through 0 over the i + 1 positions drawn, ending at
\* curr_pos; when it is complete, it goes through all of them.
OneCycle ==
  /\ \A m, n \in 0 .. i : m # n => Follow[m] # Follow[n]
  /\ Follow[i] = curr_pos /\ Follow[i + 1] = 0
  /\ pc \notin {"test", "draw", "failed"} => i = csize - 1

\* chasing_loadnt, which does not know the index, visits the lines in the
\* order in which chasing_storeclwb wrote them, in every block.  A block
\* whose access size covers the index is written completely before, and no
\* line of it twice when it covers it exactly.
LoadsFollowStores ==
  /\ Len(loaded) <= Len(stored)
  /\ loaded = SubSeq(stored, 1, Len(loaded))
  /\ pc = "done" => loaded = stored
  /\ (pc \in {"load", "loadfence", "done"} /\ size >= csize) =>
       /\ \A l \in DOMAIN mem.ver : mem.ver[l] >= 1
       /\ size = csize => \A l \in DOMAIN mem.ver : mem.ver[l] = 1

\* When the loads begin, the chain is durable.
ChainDurable == pc \in {"load", "loadfence", "done"} => Lost(mem) = {}

\* The tests come to an end: with the loads done, or with the failure of
\* init_chasing_index reported.
Termination == <>(pc \in {"done", "failed"})
============================================================================
