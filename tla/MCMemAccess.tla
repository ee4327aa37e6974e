---------------------------- MODULE MCMemAccess -----------------------------
(***************************************************************************)
(* Calls of the kernels of MemAccess for TLC: sizes of 0, one line, part   *)
(* of a line and several lines, counts from 0, and a seed of five bits     *)
(* with its taps where those of the 64-bit one lie.                        *)
(***************************************************************************)
EXTENDS MemAccess

StrideCalls ==
  [kernel : Strided, size : {0, 64, 100, 128}, skip : {64, 128}, count : 0 .. 3]

SizebwCalls ==
  [kernel : Sizebw, size : {0, 64, 513}, mask : {{}, {0, 1}}, count : {0, 4, 5}]

CacheCalls ==
  [kernel : {"cachefence"}, size : {0, 64, 320}, cache : {0, 64, 128, 192},
   fence : {0, 64, 128, 256}]

\* Strides and sizes above 0: with 0 these kernels do not move on.
ProbeCalls ==
  [kernel : {"cacheprobe"}, end : {0, 64, 256}, stride : {64, 128}]
    \cup [kernel : {"imcprobe"}, end : {0, 64, 192}, loop : {0, 1, 2}]

SeqCalls == [kernel : Seq_, size : {64, 128}, end : {0, 64, 320}]

Calls == StrideCalls \cup SizebwCalls \cup CacheCalls \cup ProbeCalls \cup SeqCalls

\* What the proofs ask of the calls and the seeds.
ASSUME MaskBound /\ CallsFit /\ SeedsSet

SeedWidth == 5
SeedTaps == {4, 3, 1, 0}
SomeSeeds == {[i \in 0 .. 4 |-> IF i \in S THEN 1 ELSE 0] : S \in {{0, 2}, {4}, 0 .. 4}}
============================================================================
