---------------------------- MODULE MCFastAlloc ----------------------------
(***************************************************************************)
(* Instances of FastAlloc for TLC.  A region is two cache lines (128       *)
(* bytes), the first region of a concurrency_fastalloc one, and uint64_t   *)
(* wraps at 256, so that a request may round up, cross a region, exceed a  *)
(* region, and round up to 0.                                              *)
(***************************************************************************)
EXTENDS FastAlloc, TLC

\* 1: rounds up to a line; 100: rounds up to a whole region; 192: more than
\* a region, left wraps; 255: rounds up past the word, to 0.
Requests == {1, 100, 192, 255}

\* Requests a region can serve.
FittingRequests == {0, 1, 64, 100, 128}

\* Channels 0 and 1 are valid, 4 is refused.
Channels == {0, 1, 4}

\* The global mount of fastallocate.
Mount == {3}

Outcomes == {"ok", "nosync"}

NoSpace == {"ok", "nospace"}

AllOutcomes == {"ok", "nosync", "nospace", "mapfail"}

\* The allocators are interchangeable when none is a concurrency_fastalloc.
Symmetry == Permutations(Allocator)
============================================================================
