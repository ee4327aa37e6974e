---------------------------- MODULE MCLatencyJob ----------------------------
(***************************************************************************)
(* LatencyJob for TLC: both builds and three calls of each task, so that   *)
(* the windows of neighbouring calls overlap and the last call of a        *)
(* 256-byte task ends at the end of the buffer.                            *)
(***************************************************************************)
EXTENDS LatencyJob

Builds == BOOLEAN
============================================================================
