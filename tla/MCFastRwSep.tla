---------------------------- MODULE MCFastRwSep -----------------------------
(***************************************************************************)
(* FastRwSep for TLC: rounds of two and four objects, N_RW no multiple of  *)
(* either, as 100000 is none of 64 .. 512.  Five is to the rounds what the *)
(* default 513 is to those of main; four is just enough, three and less    *)
(* are not.  The last of the default's objects does not fit the region.    *)
(***************************************************************************)
EXTENDS FastRwSep

Arguments == {0, 1, 3, 4}
============================================================================
