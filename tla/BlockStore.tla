----------------------------- MODULE BlockStore -----------------------------
(***************************************************************************)
(* What fastalloc promises its callers, without cursors: alloc returns a   *)
(* block of 64-byte lines of some region, as long as was asked for and     *)
(* disjoint from every block the same allocator gave out before, whichever *)
(* region it lies in; an allocator that was freed gives out nothing.       *)
(***************************************************************************)
EXTENDS Integers

CONSTANTS
  Allocator,          \* the allocator objects
  Cursor,             \* an allocator and one of its two pools
  RegionSize(_, _)    \* the size of the i-th region of a cursor

VARIABLES
  phase,    \* [Allocator -> {"unborn", "live", "deleted"}]
  held      \* the blocks given out

Disjoint(b, c) == b.off + b.size <= c.off \/ c.off + c.size <= b.off

Init ==
  /\ phase = [a \in Allocator |-> "unborn"]
  /\ held = {}

\* An allocator is made, or dropped with all its blocks, once.
Create(a) ==
  /\ phase[a] = "unborn"
  /\ phase' = [phase EXCEPT ![a] = "live"]
  /\ UNCHANGED held

Drop(a) ==
  /\ phase[a] = "live"
  /\ phase' = [phase EXCEPT ![a] = "deleted"]
  /\ UNCHANGED held

\* One more block is given out.
Give ==
  /\ \E b \in held' :
       /\ held' = held \cup {b}
       /\ b.cur \in Cursor /\ phase[b.cur[1]] = "live"
       /\ b.req <= b.size /\ b.size % 64 = 0 /\ b.off % 64 = 0
       /\ 0 <= b.off /\ b.off + b.size <= RegionSize(b.cur, b.reg)
       /\ \A c \in held : (c.cur = b.cur /\ c.reg = b.reg) => Disjoint(b, c)
  /\ UNCHANGED phase

Next == Give \/ \E a \in Allocator : Create(a) \/ Drop(a)

Spec == Init /\ [][Next]_<<phase, held>>
============================================================================
