--------------------------- MODULE MCChasingIndex ---------------------------
(***************************************************************************)
(* ChasingIndex for TLC: up to five positions (24 cycles), one and two     *)
(* blocks, access sizes one below, equal to and one above the index.       *)
(***************************************************************************)
EXTENDS ChasingIndex

Sizes == 1 .. 5
Counts == 0 .. 2
Extras == {-1, 0, 1}
============================================================================
