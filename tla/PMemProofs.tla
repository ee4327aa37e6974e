----------------------------- MODULE PMemProofs -----------------------------
(***************************************************************************)
(* What the operators of PMem preserve, for any set of lines and threads:  *)
(* no line is durable in a version it does not have yet, and a fence makes *)
(* durable what its thread has sent off.                                   *)
(***************************************************************************)
EXTENDS PMem, FiniteSetTheorems, WellFoundedInduction, TLAPS

\* A memory of the lines L as the threads T use it.
MemOK(m, L, T) ==
  /\ DOMAIN m = {"ver", "per", "pend"}
  /\ m.ver \in [L -> Nat] /\ m.per \in [L -> Nat] /\ DOMAIN m.pend = T
  /\ \A l \in L : m.per[l] <= m.ver[l]
  /\ \A t \in T : \A p \in m.pend[t] : p[1] \in L => p[2] \in 0 .. m.ver[p[1]]

\* A set of numbers up to a bound has a largest one.
LEMMA MaxFacts ==
  ASSUME NEW v \in Nat, NEW S \in SUBSET (0 .. v), S # {}
  PROVE  Max(S) \in S /\ \A x \in S : x <= Max(S)
<1> DEFINE Rest == {x .. v : x \in S}
           R == StrictSubsetOrdering(0 .. v)
<1>1. Rest \subseteq SUBSET (0 .. v) /\ Rest # {}
  <2>1. ASSUME NEW x \in S PROVE x .. v \in SUBSET (0 .. v)
    OBVIOUS
  <2> QED BY <2>1
<1>2. IsWellFoundedOn(R, SUBSET (0 .. v))
  <2>1. IsFiniteSet(0 .. v)
    BY FS_Interval
  <2> QED BY <2>1, FS_StrictSubsetOrderingWellFounded, FS_FiniteSubsetsOfFinite
<1>3. PICK y \in Rest : \A z \in Rest : ~(<<z, y>> \in R)
  <2> HIDE DEF Rest, R
  <2> QED BY <1>1, <1>2, WFMin
<1>4. PICK m \in S : y = m .. v
  OBVIOUS
<1>5. \A x \in S : m >= x
  <2> SUFFICES ASSUME NEW x \in S, x > m PROVE FALSE
    OBVIOUS
  <2>1. x .. v \in Rest /\ x .. v \subseteq m .. v /\ m \in m .. v /\ m \notin x .. v
    OBVIOUS
  <2> QED BY <1>1, <1>3, <1>4, <2>1 DEF StrictSubsetOrdering
<1> QED BY <1>5 DEF Max

\* The memory at the start.
LEMMA ZeroFacts ==
  ASSUME NEW L, NEW T
  PROVE  LET z == PMemZero(L, T) IN
         MemOK(z, L, T) /\ \A l \in L : z.per[l] = 0 /\ z.ver[l] = 0
BY DEF PMemZero, MemOK

\* A store raises the versions of its lines.
LEMMA StoreFacts ==
  ASSUME NEW L, NEW T, NEW m, MemOK(m, L, T), NEW S
  PROVE  /\ MemOK(Store(m, S), L, T)
         /\ Store(m, S).per = m.per /\ Store(m, S).pend = m.pend
         /\ \A l \in L : Store(m, S).ver[l] = IF l \in S THEN m.ver[l] + 1 ELSE m.ver[l]
<1> DEFINE f == [l \in L |-> IF l \in S THEN m.ver[l] + 1 ELSE m.ver[l]]
<1>1. /\ DOMAIN Store(m, S) = {"ver", "per", "pend"}
      /\ Store(m, S).ver = f /\ Store(m, S).per = m.per /\ Store(m, S).pend = m.pend
  BY DEF Store, MemOK
<1>2. f \in [L -> Nat] /\ \A l \in L : m.ver[l] <= f[l]
  BY DEF MemOK
<1>3. ASSUME NEW t \in T, NEW p \in m.pend[t], p[1] \in L PROVE p[2] \in 0 .. f[p[1]]
  BY <1>2, <1>3 DEF MemOK
<1>4. \A l \in L : m.per[l] <= f[l]
  BY <1>2 DEF MemOK
<1> HIDE DEF f
<1>5. MemOK(Store(m, S), L, T)
  BY <1>1, <1>2, <1>3, <1>4 DEF MemOK
<1> QED BY <1>1, <1>5 DEF f

\* A write-back sends off the versions its lines have.
LEMMA ClwbFacts ==
  ASSUME NEW L, NEW T, NEW m, MemOK(m, L, T), NEW t \in T, NEW S
  PROVE  /\ MemOK(Clwb(m, t, S), L, T)
         /\ Clwb(m, t, S).ver = m.ver /\ Clwb(m, t, S).per = m.per
         /\ \A u \in T \ {t} : Clwb(m, t, S).pend[u] = m.pend[u]
         /\ m.pend[t] \subseteq Clwb(m, t, S).pend[t]
         /\ \A l \in S : <<l, m.ver[l]>> \in Clwb(m, t, S).pend[t]
<1> DEFINE Q == m.pend[t] \cup {<<l, m.ver[l]>> : l \in S}
           g == [m.pend EXCEPT ![t] = Q]
<1>1. /\ DOMAIN Clwb(m, t, S) = {"ver", "per", "pend"}
      /\ Clwb(m, t, S).ver = m.ver /\ Clwb(m, t, S).per = m.per /\ Clwb(m, t, S).pend = g
  BY DEF Clwb, MemOK
<1>2. \A p \in Q : p[1] \in L => p[2] \in 0 .. m.ver[p[1]]
  BY DEF MemOK
<1>3. /\ \A l \in S : <<l, m.ver[l]>> \in Q
      /\ m.pend[t] \subseteq Q
  OBVIOUS
<1> HIDE DEF Q
<1>4. DOMAIN g = T /\ g[t] = Q /\ \A u \in T \ {t} : g[u] = m.pend[u]
  BY DEF MemOK
<1> HIDE DEF g
<1>5. MemOK(Clwb(m, t, S), L, T)
  BY <1>1, <1>2, <1>4 DEF MemOK
<1> QED BY <1>1, <1>3, <1>4, <1>5

\* A fence makes durable what its thread has sent off, and sets nothing back.
LEMMA FenceFacts ==
  ASSUME NEW L, NEW T, NEW m, MemOK(m, L, T), NEW t \in T
  PROVE  /\ MemOK(Fence(m, t), L, T)
         /\ Fence(m, t).ver = m.ver
         /\ \A u \in T \ {t} : Fence(m, t).pend[u] = m.pend[u]
         /\ \A l \in L : m.per[l] <= Fence(m, t).per[l]
         /\ \A l \in L : <<l, m.ver[l]>> \in m.pend[t] => Fence(m, t).per[l] = m.ver[l]
<1> DEFINE Q(l) == {m.per[l]} \cup {p[2] : p \in {q \in m.pend[t] : q[1] = l}}
           f == [l \in L |-> Max(Q(l))]
           g == [m.pend EXCEPT ![t] = {}]
<1>1. /\ DOMAIN Fence(m, t) = {"ver", "per", "pend"}
      /\ Fence(m, t).ver = m.ver /\ Fence(m, t).per = f /\ Fence(m, t).pend = g
  BY DEF Fence, MemOK
<1>2. ASSUME NEW l \in L
      PROVE  /\ f[l] \in 0 .. m.ver[l] /\ m.per[l] <= f[l]
             /\ <<l, m.ver[l]>> \in m.pend[t] => f[l] = m.ver[l]
  <2>1. Q(l) \in SUBSET (0 .. m.ver[l]) /\ Q(l) # {} /\ m.per[l] \in Q(l) /\ m.ver[l] \in Nat
    BY DEF MemOK
  <2>2. <<l, m.ver[l]>> \in m.pend[t] => m.ver[l] \in Q(l)
    <3> SUFFICES ASSUME <<l, m.ver[l]>> \in m.pend[t] PROVE m.ver[l] \in Q(l)
      OBVIOUS
    <3>1. <<l, m.ver[l]>> \in {q \in m.pend[t] : q[1] = l}
      OBVIOUS
    <3> QED BY <3>1
  <2> HIDE DEF Q
  <2>3. Max(Q(l)) \in Q(l) /\ \A x \in Q(l) : x <= Max(Q(l))
    BY <2>1, MaxFacts
  <2> QED BY <2>1, <2>2, <2>3
<1> HIDE DEF f, Q
<1>3. f \in [L -> Nat]
  <2>1. ASSUME NEW l \in L PROVE f[l] \in Nat
    <3>1. m.ver[l] \in Nat /\ f[l] \in 0 .. m.ver[l]
      BY <1>2 DEF MemOK
    <3> QED BY <3>1
  <2> QED BY <2>1 DEF f
<1>4. DOMAIN g = T /\ g[t] = {} /\ \A u \in T \ {t} : g[u] = m.pend[u]
  BY DEF MemOK
<1> HIDE DEF g
<1>5. MemOK(Fence(m, t), L, T)
  <2>1. ASSUME NEW l \in L PROVE f[l] <= m.ver[l]
    <3>1. m.ver[l] \in Nat /\ f[l] \in 0 .. m.ver[l]
      BY <1>2 DEF MemOK
    <3> QED BY <3>1
  <2>2. \A u \in T : \A p \in g[u] : p[1] \in L => p[2] \in 0 .. m.ver[p[1]]
    BY <1>4 DEF MemOK
  <2> QED BY <1>1, <1>3, <1>4, <2>1, <2>2 DEF MemOK
<1> QED BY <1>1, <1>2, <1>4, <1>5

\* A line is durable, or its version is on its way.
SentIn(m, th, l) == m.per[l] = m.ver[l] \/ <<l, m.ver[l]>> \in m.pend[th]

\* Storing to lines and writing them back sends them off, and others stay
\* sent off; so does writing back alone.
LEMMA SendLines ==
  ASSUME NEW L, NEW T, NEW m, MemOK(m, L, T), NEW th \in T, NEW S
  PROVE  LET c == Clwb(m, th, S)
             n == Clwb(Store(m, S), th, S)
         IN  /\ MemOK(c, L, T) /\ MemOK(n, L, T)
             /\ \A l \in S : SentIn(c, th, l) /\ SentIn(n, th, l)
             /\ \A l \in L : SentIn(m, th, l) => SentIn(c, th, l) /\ SentIn(n, th, l)
<1> DEFINE s == Store(m, S)
           c == Clwb(m, th, S)
           n == Clwb(s, th, S)
<1>1. /\ MemOK(s, L, T) /\ s.per = m.per /\ s.pend = m.pend
      /\ \A l \in L : s.ver[l] = IF l \in S THEN m.ver[l] + 1 ELSE m.ver[l]
  BY StoreFacts
<1>2. /\ MemOK(c, L, T) /\ c.ver = m.ver /\ c.per = m.per /\ m.pend[th] \subseteq c.pend[th]
      /\ \A l \in S : <<l, m.ver[l]>> \in c.pend[th]
  BY ClwbFacts
<1> HIDE DEF s
<1>3. /\ MemOK(n, L, T) /\ n.ver = s.ver /\ n.per = s.per /\ s.pend[th] \subseteq n.pend[th]
      /\ \A l \in S : <<l, s.ver[l]>> \in n.pend[th]
  BY <1>1, ClwbFacts
<1> HIDE DEF c, n
<1>4. \A l \in S : SentIn(c, th, l) /\ SentIn(n, th, l)
  BY <1>2, <1>3 DEF SentIn
<1>5. \A l \in L : SentIn(m, th, l) => SentIn(c, th, l)
  BY <1>2 DEF SentIn
<1>6. \A l \in L : l \notin S /\ SentIn(m, th, l) => SentIn(n, th, l)
  BY <1>1, <1>3 DEF SentIn
<1> QED BY <1>2, <1>3, <1>4, <1>5, <1>6 DEF c, n, s

\* A fence makes durable what was sent off, and nothing else.
LEMMA FenceLines ==
  ASSUME NEW L, NEW T, NEW m, MemOK(m, L, T), NEW th \in T
  PROVE  LET f == Fence(m, th)
         IN  /\ MemOK(f, L, T) /\ f.pend[th] = {}
             /\ \A l \in L : SentIn(m, th, l) => f.per[l] = f.ver[l]
             /\ m.pend[th] = {} => \A l \in L : f.per[l] = m.per[l] /\ f.ver[l] = m.ver[l]
<1> DEFINE f == Fence(m, th)
<1>1. /\ MemOK(f, L, T) /\ f.ver = m.ver
      /\ \A l \in L : m.per[l] <= f.per[l]
      /\ \A l \in L : <<l, m.ver[l]>> \in m.pend[th] => f.per[l] = m.ver[l]
  BY FenceFacts
<1>2. f.pend[th] = {}
  BY DEF Fence, MemOK
<1>3. ASSUME m.pend[th] = {}, NEW l \in L PROVE f.per[l] = m.per[l]
  <2>1. f.per[l] = Max({m.per[l]} \cup {p[2] : p \in {q \in m.pend[th] : q[1] = l}})
    BY DEF Fence, MemOK
  <2>2. {m.per[l]} \cup {p[2] : p \in {q \in m.pend[th] : q[1] = l}} = {m.per[l]}
    BY <1>3
  <2>3. m.per[l] \in Nat
    BY DEF MemOK
  <2>4. Max({m.per[l]}) = m.per[l]
    BY <2>3 DEF Max
  <2> QED BY <2>1, <2>2, <2>4
<1> HIDE DEF f
<1>4. ASSUME NEW l \in L, SentIn(m, th, l) PROVE f.per[l] = f.ver[l]
  <2>1. m.per[l] \in Nat /\ m.ver[l] \in Nat /\ f.per[l] \in Nat /\ f.per[l] <= f.ver[l]
    BY <1>1 DEF MemOK
  <2> QED BY <1>1, <1>4, <2>1 DEF SentIn
<1> QED BY <1>1, <1>2, <1>3, <1>4 DEF f
==============================================================================
