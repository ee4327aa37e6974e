------------------------- MODULE MCRwSepMultithread -------------------------
(***************************************************************************)
(* RwSepMultithread for TLC: two thread pairs, buffers of two lines, and   *)
(* regions that hold one buffer, so that each allocator grows in init as   *)
(* it does with eight buffers of 1 GB in regions of 4 GB.                  *)
(***************************************************************************)
EXTENDS RwSepMultithread

\* The first of main's four jobs; they differ in the channels only, and the
\* three tasks of one job already reuse each other's files.
OneJob == <<<<0, 1>>>>
============================================================================
