-------------------------------- MODULE PMem --------------------------------
(***************************************************************************)
(* Persistent memory as the kernels use it: 64-byte lines that are written *)
(* in a cache or a write-combining buffer and reach the medium when they   *)
(* are written back.  A line carries a version, one more for each store.   *)
(*                                                                         *)
(*   ver[l]   the version a load returns                                   *)
(*   per[l]   the version a power failure leaves                           *)
(*   pend[t]  what thread t's clwb, clflush and vmovntdq have sent off and *)
(*            no sfence or mfence of t has waited for: pairs <<l, version>>*)
(*                                                                         *)
(* The processor may write a line back earlier, on its own.  That only     *)
(* raises per, so a property that bounds what may be lost is checked in    *)
(* its worst case without it.                                              *)
(***************************************************************************)
EXTENDS Integers, FiniteSetsExt

PMemZero(Line, Thread) ==
  [ver  |-> [l \in Line |-> 0],
   per  |-> [l \in Line |-> 0],
   pend |-> [t \in Thread |-> {}]]

\* vmovdqa64 to each line of S.
Store(m, S) == [m EXCEPT !.ver = [l \in DOMAIN @ |-> IF l \in S THEN @[l] + 1 ELSE @[l]]]

\* clwb and clflush: the versions the lines have now are on their way.
Clwb(m, t, S) == [m EXCEPT !.pend[t] = @ \cup {<<l, m.ver[l]>> : l \in S}]

\* vmovntdq: a store past the cache.
NTStore(m, t, S) == Clwb(Store(m, S), t, S)

\* sfence and mfence: what the thread has sent off has arrived.
Fence(m, t) ==
  [m EXCEPT
     !.per = [l \in DOMAIN @ |-> Max({@[l]} \cup {p[2] : p \in {q \in m.pend[t] : q[1] = l}})],
     !.pend[t] = {}]

\* The lines a power failure would now set back.
Lost(m) == {l \in DOMAIN m.ver : m.per[l] < m.ver[l]}
============================================================================
