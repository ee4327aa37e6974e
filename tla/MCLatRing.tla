----------------------------- MODULE MCLatRing ------------------------------
(***************************************************************************)
(* LatRing for TLC: two and three threads with two units each, one thread  *)
(* with three, parts that do not divide the working set, a part of less    *)
(* than a unit, and two runs on the same memory, the first of which clears *)
(* the pointers.                                                           *)
(***************************************************************************)
EXTENDS LatRing

Test(op, units, its, seq, threads, trav) ==
  [op |-> op, wss |-> 256 * units, iter |-> its, seq |-> seq, threads |-> threads, trav |-> trav]

Ops == {"wr_clwb_sfence", "wr_nt_sfence", "wr_clwb", "wr_nt", "rd"}

OneThread == {<<Test(op, 3, 2, seq, 1, "CHASING_PTR")>> : op \in Ops, seq \in BOOLEAN}

TwoThreads == {<<Test(op, 5, 2, FALSE, 2, "CHASING_PTR")>> : op \in Ops}

ThreeThreads == {<<Test("wr_nt_sfence", 6, 1, TRUE, 3, "CHASING_PTR")>>}

\* The offsets first, the chase over the cleared units after it.
CalcThenChase ==
  {<<Test("wr_nt", 4, 1, seq, th, "CALC_OFFSET"), Test("wr_nt_sfence", 3, 1, FALSE, 1, "CHASING_PTR")>> :
     seq \in BOOLEAN, th \in {1, 2}}

Edges == {<<Test("rd", 1, 1, TRUE, 2, "CHASING_PTR")>>, <<Test("rd", 1, 2, TRUE, 1, "CHASING_PTR")>>,
          <<Test("rd", 7, 1, TRUE, 1, "CHASING_PTR")>>}

\* A run of one thread, and one of two.
OneThenTwo == {<<Test("wr_nt", 2, 1, TRUE, 1, "CHASING_PTR"), Test("wr_clwb", 5, 1, TRUE, 2, "CHASING_PTR")>>}

Plans == OneThread \cup TwoThreads \cup ThreeThreads \cup CalcThenChase \cup OneThenTwo \cup Edges

\* main: access_lat(addr, alloc_max), and its first loop.
alloc_max == IF 1 < 30 THEN 1 ELSE 0

MainPlan ==
  {[w \in 1 .. 19 |-> [op |-> "wr_clwb_sfence", wss |-> 2^(w + 11), iter |-> 2^(19 - w),
                       seq |-> FALSE, threads |-> 1, trav |-> "CHASING_PTR"]]}
============================================================================
