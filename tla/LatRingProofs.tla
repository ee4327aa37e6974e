--------------------------- MODULE LatRingProofs ---------------------------
(***************************************************************************)
(* Proofs about LatRing for any sequences of runs with any numbers of      *)
(* threads: the barrier starts the threads of a run together, their parts  *)
(* of the memory do not meet, each accesses every unit of its part once,   *)
(* and a power failure takes back what the names of the tests allow.       *)
(***************************************************************************)
EXTENDS LatRing, PMemProofs

\* The threads of the run under way.
Team == 0 .. (cur.threads - 1)

Released == Measuring \cup {"done", "joined"}

\* StartTogether is not inductive: the barrier lets go when it has counted
\* enough threads, and that these are all of them rests on who is counted
\* and on which threads run and main have left out.
BarrierInv ==
  /\ plan \in Plan /\ r \in Nat \ {0} /\ n \in Nat
  /\ pc \in [Tid -> Building \cup Released]
  /\ main \in {"run", "create", "join"}
  /\ (Alive /\ main = "run") => \A t \in Tid : pc[t] \in {"none", "joined"}
  /\ (Alive /\ main # "run") =>
       /\ n \in Team
       /\ \A t \in Tid \ Team : pc[t] = "none"
       /\ waiting = {t \in Team : pc[t] = "wait"}
       /\ (\A t \in Team : pc[t] \in Building) \/ (\A t \in Team : pc[t] \in Released)
  /\ (Alive /\ main = "create") => \A t \in Team : pc[t] = "none" <=> t >= n
  /\ (Alive /\ main = "join") =>
       \A t \in Team : pc[t] # "none" /\ (t < n => pc[t] = "joined")

\* A run under way has a thread at least, and no more than the model allows.
LEMMA RunFacts ==
  ASSUME plan \in Plan, r \in Nat \ {0}, ~Ended
  PROVE  /\ cur \in Run /\ cur.threads \in 1 .. MaxThread
         /\ Team \subseteq Tid /\ IsFiniteSet(Team) /\ Cardinality(Team) = cur.threads
<1>1. plan \in Seq(Run)
  BY LatAssumption
<1>2. r \in 1 .. Len(plan)
  <2>1. Len(plan) \in Nat
    BY <1>1
  <2> QED BY <2>1, SMT DEF Ended
<1>3. cur \in Run
  BY <1>1, <1>2, SMT DEF cur
<1>4. cur.threads \in 1 .. MaxThread
  BY <1>3 DEF Run
<1>5. MaxThread \in Nat \ {0}
  BY LatAssumption
<1>6. cur.threads \in Int /\ cur.threads - 1 \in Int
  BY <1>4, <1>5, SMT
<1>7. IsFiniteSet(Team) /\ Cardinality(Team) = cur.threads
  <2> DEFINE last == cur.threads - 1
  <2>1. last \in Nat /\ last + 1 = cur.threads
    BY <1>4, <1>5, SMT
  <2> HIDE DEF last
  <2>2. /\ IsFiniteSet(0 .. last)
        /\ Cardinality(0 .. last) = IF 0 > last THEN 0 ELSE last - 0 + 1
    BY <2>1, FS_Interval, SMT
  <2>3. Team = 0 .. last
    BY DEF Team, last
  <2> QED BY <2>1, <2>2, <2>3, SMT
<1>8. Team \subseteq Tid
  BY <1>4, <1>5, SMT DEF Team, Tid
<1> QED BY <1>3, <1>4, <1>7, <1>8

\* No thread is there at the beginning.
LEMMA BarrierInit == Init => BarrierInv
<1> SUFFICES ASSUME Init PROVE BarrierInv
  OBVIOUS
<1>1. pc \in [Tid -> Building \cup Released] /\ \A t \in Tid : pc[t] = "none"
  BY DEF Init, Building
<1> QED BY <1>1, SMT DEF Init, BarrierInv

\* run: the threads are created in turn, joined in turn, and only when the
\* last is joined does the next run begin.
LEMMA BarrierMain ==
  ASSUME BarrierInv, MainNext
  PROVE  BarrierInv'
<1>0. Alive /\ ~Ended /\ plan' = plan
  BY DEF MainNext, StartRun, Refuse, CreateThread, CreateFail, JoinThread, Alive
<1>1. /\ cur.threads \in 1 .. MaxThread /\ Team \subseteq Tid /\ MaxThread \in Nat
      /\ cur.threads \in Nat
  <2>1. cur.threads \in 1 .. MaxThread /\ Team \subseteq Tid /\ MaxThread \in Nat
    BY <1>0, RunFacts, LatAssumption DEF BarrierInv
  <2> QED BY <2>1, SMT
<1>2. CASE StartRun
  <2>1. /\ main' = "create" /\ n' = 0 /\ pc' = [t \in Tid |-> "none"] /\ waiting' = {}
        /\ UNCHANGED <<plan, r, exited>>
    BY <1>2 DEF StartRun
  <2>2. Team' = Team /\ cur' = cur /\ Alive'
    BY <1>0, <2>1 DEF Team, cur, Alive, Ended
  <2>3. n' \in Team
    BY <1>1, <2>1, SMT DEF Team
  <2>4. pc' \in [Tid -> Building \cup Released] /\ \A t \in Team : pc'[t] = "none"
    BY <1>1, <2>1 DEF Building
  <2>5. waiting' = {t \in Team : pc'[t] = "wait"} /\ \A t \in Tid \ Team : pc'[t] = "none"
    BY <2>1, <2>4
  <2>6. \A t \in Team : pc'[t] \in Building /\ t >= n'
    BY <2>1, <2>4, SMT DEF Building, Team
  <2>7. n' \in Nat
    BY <2>1
  <2> QED BY <1>0, <2>1, <2>2, <2>3, <2>4, <2>5, <2>6, <2>7 DEF BarrierInv
<1>3. CASE Refuse \/ CreateFail
  <2>1. ~Alive' /\ UNCHANGED <<plan, r, main, n, pc>>
    BY <1>3 DEF Refuse, CreateFail, Alive
  <2> QED BY <2>1 DEF BarrierInv
<1>4. CASE CreateThread
  <2>1. /\ main = "create" /\ pc' = [pc EXCEPT ![n] = "begin"]
        /\ UNCHANGED <<plan, r, exited, waiting>>
        /\ IF n + 1 < cur.threads THEN n' = n + 1 /\ main' = "create" ELSE n' = 0 /\ main' = "join"
    BY <1>4 DEF CreateThread
  <2>2. Team' = Team /\ cur' = cur /\ (Alive' <=> Alive)
    BY <2>1 DEF Team, cur, Alive, Ended
  <2>3. n \in Team /\ n \in Tid /\ pc[n] = "none" /\ n \in Nat
    BY <1>0, <1>1, <2>1, SMT DEF BarrierInv, Team
  <2>4. \A t \in Tid : pc'[t] = IF t = n THEN "begin" ELSE pc[t]
    BY <2>1, <2>3 DEF BarrierInv
  <2>5. \A t \in Team : pc[t] \in Building
    BY <1>0, <2>1, <2>3 DEF BarrierInv, Released, Measuring
  <2>6. n' \in Team
    BY <1>1, <2>1, <2>3, SMT DEF Team
  <2>7. waiting' = {t \in Team : pc'[t] = "wait"}
    BY <1>0, <1>1, <2>1, <2>3, <2>4 DEF BarrierInv
  <2>8. \A t \in Team : pc'[t] \in Building
    BY <1>1, <2>4, <2>5 DEF Building
  <2>9. main' = "create" => \A t \in Team : pc'[t] = "none" <=> t >= n'
    <3> SUFFICES ASSUME main' = "create", NEW t \in Team PROVE pc'[t] = "none" <=> t >= n'
      OBVIOUS
    <3>1. n' = n + 1 /\ t \in Int /\ t \in Tid /\ (pc[t] = "none" <=> t >= n)
      BY <1>0, <1>1, <2>1, SMT DEF Team, BarrierInv
    <3>2. t >= n' <=> t >= n /\ t # n
      BY <2>3, <3>1, SMT
    <3> QED BY <2>4, <3>1, <3>2
  <2>10. main' = "join" => \A t \in Team : pc'[t] # "none" /\ (t < n' => pc'[t] = "joined")
    <3> SUFFICES ASSUME main' = "join", NEW t \in Team
                 PROVE  pc'[t] # "none" /\ ~(t < n')
      OBVIOUS
    <3>1. n' = 0 /\ t \in Nat /\ t <= n
      BY <1>1, <2>1, <2>3, SMT DEF Team
    <3>2. CASE t = n
      BY <1>1, <2>4, <3>1, <3>2, SMT
    <3>3. CASE t # n
      <4>1. t \in Tid /\ ~(t >= n) /\ ~(t < n')
        BY <1>1, <2>3, <3>1, <3>3, SMT
      <4> QED BY <1>0, <2>1, <2>4, <3>3, <4>1 DEF BarrierInv
    <3> QED BY <3>2, <3>3
  <2>11. pc' \in [Tid -> Building \cup Released]
    BY <2>1 DEF BarrierInv, Building
  <2>12. \A t \in Tid \ Team : pc'[t] = "none"
    BY <1>0, <2>1, <2>3, <2>4 DEF BarrierInv
  <2>13. n' \in Nat /\ main' \in {"create", "join"}
    BY <2>1, <2>3, SMT
  <2> QED BY <1>0, <2>1, <2>2, <2>6, <2>7, <2>8, <2>9, <2>10, <2>11, <2>12, <2>13 DEF BarrierInv
<1>5. CASE JoinThread
  <2>1. /\ main = "join" /\ pc[n] = "done" /\ pc' = [pc EXCEPT ![n] = "joined"]
        /\ UNCHANGED <<plan, exited, waiting>>
        /\ IF n + 1 < cur.threads THEN n' = n + 1 /\ UNCHANGED <<r, main>>
                                  ELSE n' = 0 /\ r' = r + 1 /\ main' = "run"
    BY <1>5 DEF JoinThread
  <2>2. n \in Team /\ n \in Tid /\ n \in Nat
    BY <1>0, <1>1, <2>1 DEF BarrierInv
  <2>3. \A t \in Tid : pc'[t] = IF t = n THEN "joined" ELSE pc[t]
    BY <2>1, <2>2 DEF BarrierInv
  <2>4. \A t \in Team : pc[t] \in Released
    BY <1>0, <2>1, <2>2 DEF BarrierInv, Building
  <2>5. pc' \in [Tid -> Building \cup Released] /\ n' \in Nat /\ main' \in {"run", "join"}
    BY <2>1, <2>2, SMT DEF BarrierInv, Released
  <2>6. CASE n + 1 < cur.threads
    <3>1. UNCHANGED <<r, main>> /\ Team' = Team /\ cur' = cur /\ (Alive' <=> Alive) /\ n' = n + 1
      BY <2>1, <2>6 DEF Team, cur, Alive, Ended
    <3>2. n' \in Team
      BY <1>1, <2>2, <2>6, <3>1, SMT DEF Team
    <3>3. waiting' = {t \in Team : pc'[t] = "wait"}
      BY <1>0, <1>1, <2>1, <2>2, <2>3 DEF BarrierInv
    <3>4. \A t \in Team : pc'[t] \in Released
      BY <1>1, <2>3, <2>4 DEF Released
    <3>5. \A t \in Team : pc'[t] # "none" /\ (t < n' => pc'[t] = "joined")
      <4> SUFFICES ASSUME NEW t \in Team PROVE pc'[t] # "none" /\ (t < n' => pc'[t] = "joined")
        OBVIOUS
      <4>1. t \in Nat /\ t \in Tid /\ (t < n' => t < n \/ t = n)
        BY <1>1, <2>2, <3>1, SMT DEF Team
      <4> QED BY <1>0, <2>1, <2>3, <4>1 DEF BarrierInv
    <3>6. \A t \in Tid \ Team : pc'[t] = "none"
      BY <1>0, <2>1, <2>2, <2>3 DEF BarrierInv
    <3> QED BY <2>1, <2>5, <3>1, <3>2, <3>3, <3>4, <3>5, <3>6 DEF BarrierInv
  <2>7. CASE ~(n + 1 < cur.threads)
    <3>1. n' = 0 /\ r' = r + 1 /\ main' = "run" /\ r' \in Nat \ {0}
      BY <2>1, <2>7, SMT DEF BarrierInv
    <3>2. ASSUME NEW t \in Tid PROVE pc'[t] \in {"none", "joined"}
      <4>1. CASE t \notin Team
        BY <1>0, <2>1, <2>2, <2>3, <4>1 DEF BarrierInv
      <4>2. CASE t \in Team
        <5>1. t = n \/ t < n
          BY <1>1, <2>2, <2>7, <4>2, SMT DEF Team
        <5> QED BY <1>0, <2>1, <2>3, <4>2, <5>1 DEF BarrierInv
      <4> QED BY <4>1, <4>2
    <3> QED BY <1>0, <2>5, <3>1, <3>2 DEF BarrierInv
  <2> QED BY <2>6, <2>7
<1> QED BY <1>2, <1>3, <1>4, <1>5 DEF MainNext

\* A thread that goes on alone stays on its side of the barrier.
LEMMA BarrierAlone ==
  ASSUME BarrierInv, Alive, NEW t \in Tid, NEW x, pc[t] # "none", pc[t] # "joined", pc[t] # "wait",
         x \notin {"none", "joined", "wait"},
         x \in Building <=> pc[t] \in Building, x \in Building \cup Released,
         pc' = [pc EXCEPT ![t] = x], UNCHANGED <<mvars, waiting>>
  PROVE  BarrierInv'
<1>1. UNCHANGED <<plan, r, main, n, exited>>
  BY DEF mvars
<1>2. Team' = Team /\ cur' = cur /\ Alive'
  BY <1>1 DEF Team, cur, Alive, Ended
<1>3. \A u \in Tid : pc'[u] = IF u = t THEN x ELSE pc[u]
  BY DEF BarrierInv
<1>4. main # "run" /\ t \in Team
  BY DEF BarrierInv
<1>5. Team \subseteq Tid
  BY RunFacts DEF BarrierInv, Alive
<1>6. pc' \in [Tid -> Building \cup Released]
  BY DEF BarrierInv
<1>7. waiting' = {u \in Team : pc'[u] = "wait"}
  BY <1>3, <1>4, <1>5 DEF BarrierInv
<1>8. (\A u \in Team : pc'[u] \in Building) \/ (\A u \in Team : pc'[u] \in Released)
  <2>1. Building \cap Released = {}
    BY DEF Building, Released, Measuring
  <2> QED BY <1>3, <1>4, <1>5, <2>1 DEF BarrierInv
<1>9. \A u \in Team : /\ pc'[u] = "none" <=> pc[u] = "none"
                      /\ pc[u] = "joined" => pc'[u] = "joined"
  BY <1>3, <1>5
<1>10. \A u \in Tid \ Team : pc'[u] = "none"
  BY <1>3, <1>4 DEF BarrierInv
<1> QED BY <1>1, <1>2, <1>4, <1>6, <1>7, <1>8, <1>9, <1>10 DEF BarrierInv

\* One more thread waits.
LEMMA BarrierBlocks ==
  ASSUME BarrierInv, NEW t \in Tid, BarrierBlock(t)
  PROVE  BarrierInv'
<1>1. /\ Alive /\ pc[t] = "link" /\ waiting' = waiting \cup {t} /\ pc' = [pc EXCEPT ![t] = "wait"]
      /\ UNCHANGED <<plan, r, main, n, exited>>
  BY DEF BarrierBlock, At, mvars
<1>2. Team' = Team /\ cur' = cur /\ Alive'
  BY <1>1 DEF Team, cur, Alive, Ended
<1>3. \A u \in Tid : pc'[u] = IF u = t THEN "wait" ELSE pc[u]
  BY <1>1 DEF BarrierInv
<1>4. main # "run" /\ t \in Team /\ Team \subseteq Tid
  BY <1>1, RunFacts DEF BarrierInv, Alive
<1>5. pc' \in [Tid -> Building \cup Released]
  BY <1>1 DEF BarrierInv, Building
<1>6. waiting' = {u \in Team : pc'[u] = "wait"}
  BY <1>1, <1>3, <1>4 DEF BarrierInv
<1>7. \A u \in Team : pc'[u] \in Building
  <2>1. "link" \notin Released /\ "wait" \in Building
    BY DEF Building, Released, Measuring
  <2> QED BY <1>1, <1>3, <1>4, <2>1 DEF BarrierInv
<1>8. \A u \in Team : /\ pc'[u] = "none" <=> pc[u] = "none"
                      /\ pc[u] = "joined" => pc'[u] = "joined"
  BY <1>1, <1>3, <1>4
<1>9. \A u \in Tid \ Team : pc'[u] = "none"
  BY <1>1, <1>3, <1>4 DEF BarrierInv
<1> QED BY <1>1, <1>2, <1>4, <1>5, <1>6, <1>7, <1>8, <1>9 DEF BarrierInv

\* The barrier counts as many threads as the run has: they are all there.
LEMMA BarrierReleases ==
  ASSUME BarrierInv, NEW t \in Tid, BarrierRelease(t)
  PROVE  BarrierInv'
<1>1. /\ Alive /\ pc[t] = "link" /\ waiting' = {}
      /\ pc' = [u \in Tid |-> IF u \in waiting \cup {t} THEN "go" ELSE pc[u]]
      /\ Cardinality(waiting) + 1 >= cur.threads
      /\ UNCHANGED <<plan, r, main, n, exited>>
  BY DEF BarrierRelease, At, mvars, BarrierCount
<1>2. Team' = Team /\ cur' = cur /\ Alive'
  BY <1>1 DEF Team, cur, Alive, Ended
<1>3. /\ main # "run" /\ t \in Team /\ Team \subseteq Tid
      /\ IsFiniteSet(Team) /\ Cardinality(Team) = cur.threads
  BY <1>1, RunFacts DEF BarrierInv, Alive
<1>4. waiting = {u \in Team : pc[u] = "wait"}
  BY <1>1, <1>3 DEF BarrierInv
<1>5. waiting \cup {t} = Team
  <2>1. waiting \cup {t} \in SUBSET Team /\ waiting \in SUBSET Team /\ t \notin waiting
    BY <1>1, <1>3, <1>4
  <2>2. IsFiniteSet(waiting) /\ Cardinality(waiting \cup {t}) = Cardinality(waiting) + 1
    <3>1. IsFiniteSet(waiting)
      BY <1>3, <2>1, FS_Subset
    <3> QED BY <2>1, <3>1, FS_AddElement
  <2>3. Cardinality(waiting \cup {t}) <= Cardinality(Team)
    BY <1>3, <2>1, FS_Subset
  <2>4. Cardinality(waiting) \in Nat /\ cur.threads \in Nat
    BY <1>3, <2>2, FS_CardinalityType
  <2>5. Cardinality(waiting \cup {t}) = Cardinality(Team)
    BY <1>1, <1>3, <2>2, <2>3, <2>4, SMT
  <2> QED BY <1>3, <2>1, <2>5, FS_Subset
<1>6. /\ \A u \in Team : pc'[u] = "go" /\ pc[u] \in {"link", "wait"}
      /\ \A u \in Tid \ Team : pc'[u] = pc[u]
  BY <1>1, <1>3, <1>4, <1>5
<1>7. pc' \in [Tid -> Building \cup Released]
  BY <1>1 DEF BarrierInv, Released, Measuring
<1>8. \A u \in Team : pc'[u] \in Released
  BY <1>6 DEF Released, Measuring
<1>9. waiting' = {u \in Team : pc'[u] = "wait"}
  BY <1>1, <1>6
<1>10. \A u \in Tid \ Team : pc'[u] = "none"
  BY <1>1, <1>3, <1>6 DEF BarrierInv
<1>11. main = "create" => \A u \in Team : pc'[u] = "none" <=> u >= n
  BY <1>1, <1>6 DEF BarrierInv
<1>12. main = "join" => \A u \in Team : pc'[u] # "none" /\ (u < n => pc'[u] = "joined")
  BY <1>1, <1>6 DEF BarrierInv
<1> QED BY <1>1, <1>2, <1>3, <1>7, <1>8, <1>9, <1>10, <1>11, <1>12 DEF BarrierInv

\* Every step keeps the invariant.
LEMMA BarrierNext == BarrierInv /\ [Next]_vars => BarrierInv'
<1> SUFFICES ASSUME BarrierInv, [Next]_vars PROVE BarrierInv'
  OBVIOUS
<1>1. CASE UNCHANGED vars
  <2>1. UNCHANGED <<plan, r, main, n, exited, pc, waiting>>
    BY <1>1 DEF vars, mvars
  <2> QED BY <2>1 DEF BarrierInv, Team, cur, Alive, Ended
<1>2. CASE MainNext
  BY <1>2, BarrierMain
<1>3. ASSUME NEW t \in Tid, ThreadStep(t) PROVE BarrierInv'
  <2>1. CASE BarrierBlock(t)
    BY <2>1, BarrierBlocks
  <2>2. CASE BarrierRelease(t)
    BY <2>2, BarrierReleases
  <2>3. CASE EmptyPart(t)
    <3>1. ~Alive' /\ UNCHANGED <<plan, r, main, n, pc>>
      BY <2>3 DEF EmptyPart, Alive
    <3> QED BY <3>1 DEF BarrierInv
  <2>4. CASE DrawOrder(t) \/ LinkUnit(t)
    <3>1. /\ Alive /\ pc[t] \in {"begin", "link"} /\ UNCHANGED <<mvars, waiting>>
          /\ pc' = [pc EXCEPT ![t] = "link"]
      BY <2>4 DEF DrawOrder, LinkUnit, At, BarrierInv
    <3> QED BY <3>1, BarrierAlone DEF Building
  <2>5. ASSUME \/ BeginChase(t) \/ BeginCalc(t) \/ AccessClwb(t) \/ WriteBack(t) \/ AccessNt(t)
               \/ StoreFence(t) \/ AccessRd(t) \/ EndIteration(t) \/ ThreadEnd(t)
        PROVE  BarrierInv'
    <3>1. /\ Alive /\ pc[t] \in Measuring /\ UNCHANGED <<mvars, waiting>>
          /\ \E x \in Measuring \cup {"done"} : pc' = [pc EXCEPT ![t] = x]
      BY <2>5 DEF BeginChase, BeginCalc, AccessClwb, WriteBack, AccessNt, StoreFence, AccessRd,
                  EndIteration, ThreadEnd, At, Move, Measuring
    <3> QED BY <3>1, BarrierAlone DEF Building, Released, Measuring
  <2> QED BY <1>3, <2>1, <2>2, <2>3, <2>4, <2>5 DEF ThreadStep
<1> QED BY <1>1, <1>2, <1>3 DEF Next

\* No thread of a run measures while another is still to be created or to
\* link its ring, for any number of threads.
THEOREM ThreadsStartTogether == Spec => []StartTogether
<1>1. BarrierInv => StartTogether
  <2>1. Building \cap Released = {}
    BY DEF Building, Released, Measuring
  <2> QED BY <2>1 DEF BarrierInv, StartTogether, Team, Released
<1> QED BY <1>1, BarrierInit, BarrierNext, PTL DEF Spec

----------------------------------------------------------------------------
\* A product does not shrink with its factor.
LEMMA TimesMonotone ==
  ASSUME NEW p1 \in Nat, NEW t \in Nat, NEW u \in Nat, t < u
  PROVE  t * p1 + p1 <= u * p1
<1>1. PICK m \in Nat : u = t + 1 + m
  <2>1. u - t - 1 \in Nat /\ u = t + 1 + (u - t - 1)
    BY SMT
  <2> QED BY <2>1
<1>2. u * p1 = t * p1 + p1 + m * p1
  BY <1>1, SMT
<1>3. m * p1 \in Nat /\ t * p1 \in Nat
  BY SMT
<1> QED BY <1>2, <1>3, SMT

\* A part of a working set, in units.
LEMMA PartFacts ==
  ASSUME NEW w \in Nat, NEW k \in Nat \ {0}
  PROVE  /\ (w \div k) \div UnitSize \in Nat
         /\ k * ((w \div k) \div UnitSize) <= w \div UnitSize
<1>1. w \div k \in Nat /\ k * (w \div k) <= w
  BY SMT
<1> DEFINE q == w \div k
           p1 == q \div UnitSize
<1>2. p1 \in Nat /\ UnitSize * p1 <= q
  BY <1>1, SMT DEF UnitSize
<1> HIDE DEF q, p1
<1>3. q \in Nat /\ k * q <= w
  BY <1>1 DEF q
<1>4. k * (UnitSize * p1) <= k * q
  BY <1>2, <1>3, SMT DEF UnitSize
<1>5. UnitSize * (k * p1) <= w /\ k * p1 \in Nat
  BY <1>2, <1>3, <1>4, SMT DEF UnitSize
<1> DEFINE z == k * p1
<1>6. z \in Nat /\ UnitSize * z <= w
  BY <1>5
<1> HIDE DEF z
<1>7. z <= w \div UnitSize
  BY <1>6, SMT DEF UnitSize
<1> QED BY <1>2, <1>7 DEF z, p1, q

\* The parts of threads that the working set is divided among lie in the
\* memory and do not meet.
LEMMA DividedApart ==
  ASSUME cur \in Run, cur.threads \in Nat \ {0}, cur.wss \in Nat, cur.wss < max_size
  PROVE  PartsApart
<1>1. Part \in Nat /\ cur.threads * Part <= cur.wss \div UnitSize
  BY PartFacts DEF Part
<1>2. max_size \in Nat /\ cur.wss \div UnitSize <= max_size \div UnitSize
  BY LatAssumption, SMT DEF UnitSize
<1>3. ASSUME NEW t \in Nat, NEW u \in Nat, t < u PROVE Own(t) \cap Own(u) = {}
  <2>1. t * Part + Part <= u * Part /\ t * Part \in Nat /\ u * Part \in Nat
    BY <1>1, <1>3, TimesMonotone, SMT
  <2> QED BY <1>1, <2>1, SMT DEF Own, Base
<1>4. ASSUME NEW t \in 0 .. (cur.threads - 1), NEW o \in Own(t) PROVE o \in Unit
  <2>1. t * Part + Part <= cur.threads * Part /\ t * Part \in Nat
    BY <1>1, TimesMonotone, SMT
  <2>2. o \in Nat /\ o < t * Part + Part
    BY <1>1, <2>1, SMT DEF Own, Base
  <2> DEFINE z == cur.threads * Part
             w == cur.wss \div UnitSize
             m == max_size \div UnitSize
  <2>3. z \in Nat /\ w \in Nat /\ m \in Nat /\ t * Part + Part <= z /\ z <= w /\ w <= m
    BY <1>1, <1>2, <2>1, SMT DEF UnitSize
  <2> HIDE DEF z, w, m
  <2>4. o \in 0 .. (m - 1)
    BY <2>1, <2>2, <2>3, <1>1, SMT
  <2> QED BY <2>4 DEF Unit, m
<1>5. ASSUME NEW t \in 0 .. (cur.threads - 1), NEW u \in Tid \ {t} PROVE Own(t) \cap Own(u) = {}
  <2>1. t \in Nat /\ u \in Nat /\ (t < u \/ u < t)
    BY LatAssumption, SMT DEF Tid
  <2> QED BY <1>3, <2>1
<1> QED BY <1>4, <1>5 DEF PartsApart

\* run has compared the working set with the memory before it creates a thread.
SizeInv == (Alive /\ main # "run") => cur.wss < max_size

\* A run under way keeps its working set.
LEMMA SizeNext == SizeInv /\ [Next]_vars => SizeInv'
<1> SUFFICES ASSUME SizeInv, [Next]_vars PROVE SizeInv'
  OBVIOUS
<1>1. CASE UNCHANGED <<plan, r, main, exited>>
  BY <1>1 DEF SizeInv, Alive, Ended, cur
<1>2. CASE MainNext
  BY <1>2 DEF MainNext, StartRun, Refuse, CreateThread, CreateFail, JoinThread, SizeInv, Alive, Ended, cur
<1>3. ASSUME NEW t \in Tid, ThreadStep(t) PROVE UNCHANGED <<plan, r, main, exited>> \/ ~Alive'
  BY <1>3 DEF ThreadStep, DrawOrder, EmptyPart, LinkUnit, BarrierBlock, BarrierRelease, BeginChase,
              BeginCalc, AccessClwb, WriteBack, AccessNt, StoreFence, AccessRd, EndIteration,
              ThreadEnd, mvars, Alive
<1>4. UNCHANGED vars => UNCHANGED <<plan, r, main, exited>>
  BY DEF vars, mvars
<1> QED BY <1>1, <1>2, <1>3, <1>4 DEF Next, SizeInv

\* The threads of a run never work on one another's units, nor outside of
\* the memory, whatever the working set and their number.
THEOREM ThreadsApart == Spec => []((Alive /\ main # "run") => PartsApart)
<1>1. BarrierInv /\ SizeInv => ((Alive /\ main # "run") => PartsApart)
  <2> SUFFICES ASSUME BarrierInv, SizeInv, Alive, main # "run" PROVE PartsApart
    OBVIOUS
  <2>1. cur \in Run /\ cur.threads \in 1 .. MaxThread
    BY RunFacts DEF BarrierInv, Alive
  <2>2. cur.threads \in Nat \ {0} /\ cur.wss \in Nat
    BY <2>1, LatAssumption, SMT DEF Run
  <2> QED BY <2>1, <2>2, DividedApart DEF SizeInv
<1>2. Init => SizeInv
  BY DEF Init, SizeInv
<1> QED BY <1>1, <1>2, BarrierInit, BarrierNext, SizeNext, PTL DEF Spec
----------------------------------------------------------------------------
(* The rings, and what a power failure leaves of the units.                *)

\* A thread between its order drawn and its end.
Working == {"link", "wait"} \cup Measuring

Chasing == cur.trav = "CHASING_PTR"

\* Where a step along the ring leads, for a sum of two indices.
Wrap(k) == IF k < Part THEN k ELSE k - Part

\* The first m units of the order point to the one behind them.
Linked(t, m) == \A k \in 0 .. (m - 1) : next[order[t][k]] = order[t][Wrap(k + 1)]

\* The chase that began at the unit a of the order is d steps on, and has
\* accessed the units behind e steps for each e up to m.
OnRing(t, a, d, m) ==
  /\ start[t] = order[t][a] /\ p[t] = order[t][Wrap(a + d)]
  /\ seen[t] = {order[t][Wrap(a + e)] : e \in 1 .. m}

\* What a thread has linked, and how far it is with its units.
RingInv(t) ==
  pc[t] \in Working =>
    /\ Part > 0 /\ order[t] \in Orders(t) /\ seen[t] \subseteq Own(t)
    /\ pc[t] \in {"link", "wait"} => seen[t] = {}
    /\ pc[t] = "link" => i[t] \in 1 .. (Part + 1) /\ Linked(t, i[t] - 1)
    /\ pc[t] = "wait" \/ (pc[t] \in Measuring /\ Chasing) => Linked(t, Part)
    /\ (pc[t] = "access" /\ Chasing) =>
         \E a \in 0 .. (Part - 1), d \in 1 .. Part : OnRing(t, a, d, d - 1)
    /\ pc[t] \in {"clwb", "sfence"} =>
         Chasing /\ \E a \in 0 .. (Part - 1), d \in 1 .. (Part - 1) : OnRing(t, a, d, d)
    /\ (pc[t] = "access" /\ ~Chasing) =>
         i[t] \in 0 .. Part /\ seen[t] = {order[t][k] : k \in 0 .. (i[t] - 1)}

Line == Unit \X {"head", "pad"}

\* The line of a unit that a run writes to.
LineOf(u) == <<u, IF Chasing THEN "pad" ELSE "head">>

Strict == {"wr_clwb_sfence", "wr_nt_sfence"}

\* Of the units seen all but the one at work are durable, or in a relaxed run
\* sent off by the thread itself.
PersInv(t) ==
  (pc[t] \in Measuring /\ cur.op # "rd") =>
    /\ \A u \in seen[t] :
         \/ pc[t] \in {"clwb", "sfence"} /\ u = Target(t)
         \/ mem.per[LineOf(u)] = mem.ver[LineOf(u)]
         \/ cur.op \notin Strict /\ <<LineOf(u), mem.ver[LineOf(u)]>> \in mem.pend[t]
    /\ pc[t] = "clwb" => cur.op \in {"wr_clwb", "wr_clwb_sfence"}
    /\ pc[t] = "sfence" =>
         cur.op \in Strict /\ <<TargetLine(t), mem.ver[TargetLine(t)]>> \in mem.pend[t]

\* The types, of which only the pointers and the memory are in doubt.
TypeInv ==
  /\ n \in Tid /\ waiting \subseteq Tid
  /\ exited \in {"no", "refused", "terminated"}
  /\ p \in [Tid -> Unit \cup {NULL}] /\ start \in [Tid -> Unit \cup {NULL}]
  /\ next \in [Unit -> Unit \cup {NULL}]
  /\ DOMAIN order = Tid /\ DOMAIN i = Tid /\ DOMAIN seen = Tid
  /\ MemOK(mem, Line, Tid)

RingAll == Alive => \A t \in Tid : RingInv(t) /\ PersInv(t)

\* The remainder that closes the ring.
LEMMA LastIsFirst ==
  ASSUME NEW q \in Nat, q > 0, NEW x \in 1 .. q
  PROVE  x % q = IF x < q THEN x ELSE x - q
<1>1. x \in Nat /\ x <= q
  BY SMT
<1>2. CASE x < q
  <2>1. x = q * 0 + x /\ 0 <= x
    BY <1>1, SMT
  <2> QED BY <1>1, <1>2, <2>1, SMT
<1>3. CASE x = q
  <2>1. q % q = 0
    BY SMT
  <2> QED BY <1>3, <2>1
<1> QED BY <1>1, <1>2, <1>3, SMT

\* Steps along a ring of Part units: they stay on it, add up, and before they
\* have been round they never meet.
LEMMA WrapFacts ==
  ASSUME Part \in Nat, NEW a \in 0 .. (Part - 1)
  PROVE  /\ \A d \in 0 .. Part : Wrap(a + d) \in 0 .. (Part - 1)
         /\ \A d \in 0 .. (Part - 1) : Wrap(Wrap(a + d) + 1) = Wrap(a + d + 1)
         /\ \A d \in 1 .. Part : Wrap(a + d) = a <=> d = Part
         /\ \A d, e \in 1 .. Part : Wrap(a + d) = Wrap(a + e) => d = e
         /\ \A k \in 0 .. (Part - 1) : k # a => \E d \in 1 .. (Part - 1) : Wrap(a + d) = k
<1> DEFINE q == Part
<1>1. q \in Nat /\ a \in 0 .. (q - 1)
  OBVIOUS
<1>2. \A k : Wrap(k) = IF k < q THEN k ELSE k - q
  BY DEF Wrap
<1>3. Part = q
  OBVIOUS
<1> HIDE DEF q
<1>4. \A d \in 0 .. q : Wrap(a + d) \in 0 .. (q - 1)
  BY <1>1, <1>2, SMT
<1>5. \A d \in 0 .. (q - 1) : Wrap(Wrap(a + d) + 1) = Wrap(a + d + 1)
  BY <1>1, <1>2, SMT
<1>6. \A d \in 1 .. q : Wrap(a + d) = a <=> d = q
  BY <1>1, <1>2, SMT
<1>7. \A d, e \in 1 .. q : Wrap(a + d) = Wrap(a + e) => d = e
  BY <1>1, <1>2, SMT
<1>8. ASSUME NEW k \in 0 .. (q - 1), k # a PROVE \E d \in 1 .. (q - 1) : Wrap(a + d) = k
  <2>1. CASE k > a
    <3>1. k - a \in 1 .. (q - 1) /\ Wrap(a + (k - a)) = k
      BY <1>1, <1>2, <2>1, SMT
    <3> QED BY <3>1
  <2>2. CASE k < a
    <3>1. k - a + q \in 1 .. (q - 1) /\ Wrap(a + (k - a + q)) = k
      BY <1>1, <1>2, <2>2, SMT
    <3> QED BY <3>1
  <2> QED BY <1>1, <1>8, <2>1, <2>2, SMT
<1> QED BY <1>3, <1>4, <1>5, <1>6, <1>7, <1>8

\* An order drawn goes through each unit of the part exactly once.
LEMMA OrderFacts ==
  ASSUME Part \in Nat, Part > 0, NEW t \in Nat, NEW o \in Orders(t)
  PROVE  /\ o \in [0 .. (Part - 1) -> Own(t)]
         /\ \A x, y \in 0 .. (Part - 1) : o[x] = o[y] => x = y
         /\ \A u \in Own(t) : \E k \in 0 .. (Part - 1) : o[k] = u
<1>0. Base(t) \in Nat
  BY SMT DEF Base
<1>1. o \in [0 .. (Part - 1) -> Own(t)] /\ \A x, y \in 0 .. (Part - 1) : o[x] = o[y] => x = y
  <2>1. CASE cur.seq
    <3>1. o = [x \in 0 .. (Part - 1) |-> Base(t) + x]
      BY <2>1 DEF Orders
    <3> QED BY <1>0, <3>1 DEF Own
  <2>2. CASE ~cur.seq
    BY <2>2 DEF Orders
  <2> QED BY <2>1, <2>2
<1> DEFINE S == 0 .. (Part - 1)
<1>2. IsFiniteSet(S) /\ Cardinality(S) = Part
  <2>1. Part - 1 \in Int /\ 0 <= Part - 1 /\ Part - 1 - 0 + 1 = Part
    BY SMT
  <2> QED BY <2>1, FS_Interval, SMT
<1>3. IsFiniteSet(Own(t)) /\ Cardinality(Own(t)) = Part
  <2>1. Base(t) + Part - 1 \in Int /\ Base(t) <= Base(t) + Part - 1
        /\ Base(t) + Part - 1 - Base(t) + 1 = Part
    BY <1>0, SMT
  <2> QED BY <1>0, <2>1, FS_Interval, SMT DEF Own
<1>4. o \in Injection(S, Own(t))
  BY <1>1 DEF Injection, IsInjective
<1> HIDE DEF S
<1>5. o \in Surjection(S, Own(t))
  BY <1>2, <1>3, <1>4, FS_Injection
<1>6. \A u \in Own(t) : \E k \in S : o[k] = u
  BY <1>5 DEF Surjection
<1> QED BY <1>1, <1>6 DEF S

\* What the invariants say together.
RingReady == BarrierInv /\ SizeInv /\ TypeInv /\ RingAll

\* A thread at work is one of the run's, and its part lies in the memory.
LEMMA AtWork ==
  ASSUME BarrierInv, SizeInv, Alive, NEW t \in Tid, pc[t] \notin {"none", "joined"}
  PROVE  /\ main # "run" /\ t \in Team /\ t \in Nat /\ cur \in Run /\ Part \in Nat
         /\ Own(t) \subseteq Unit
         /\ \A u \in Tid \ {t} : Own(t) \cap Own(u) = {}
<1>1. main # "run" /\ t \in Team
  BY DEF BarrierInv
<1>2. cur \in Run /\ cur.threads \in 1 .. MaxThread
  BY RunFacts DEF BarrierInv, Alive
<1>3. cur.threads \in Nat \ {0} /\ cur.wss \in Nat
  BY <1>2, LatAssumption, SMT DEF Run
<1>4. PartsApart
  BY <1>1, <1>2, <1>3, DividedApart DEF SizeInv
<1>5. Part \in Nat
  BY <1>3, PartFacts DEF Part
<1>6. t \in Nat
  BY DEF Tid
<1> QED BY <1>1, <1>2, <1>4, <1>5, <1>6 DEF PartsApart, Team

\* A unit the thread is at is one of its own, and in a chase one it has not
\* accessed before.
LEMMA TargetFacts ==
  ASSUME Part \in Nat, NEW t \in Nat, RingInv(t),
         pc[t] \in {"clwb", "sfence"} \/ (pc[t] = "access" /\ MoreUnits(t))
  PROVE  Target(t) \in Own(t) /\ (pc[t] = "access" => Target(t) \notin seen[t])
<1> DEFINE o == order[t]
           S == 0 .. (Part - 1)
<1>1. /\ o \in [S -> Own(t)] /\ \A x, y \in S : o[x] = o[y] => x = y
      /\ Part > 0
  <2>1. Part > 0 /\ o \in Orders(t)
    BY DEF RingInv, Working, Measuring
  <2> QED BY <2>1, OrderFacts
<1>2. CASE pc[t] = "access" /\ Chasing
  <2>1. PICK a \in S, d \in 1 .. Part : OnRing(t, a, d, d - 1)
    BY <1>2 DEF RingInv, Working, Measuring
  <2>2. Wrap(a + d) # a
    BY <1>1, <1>2, <2>1 DEF OnRing, MoreUnits, Chasing
  <2>3. d \in 1 .. (Part - 1) /\ d \in 0 .. Part
    BY <2>2, WrapFacts
  <2>4. Wrap(a + d) \in S
    BY <2>3, WrapFacts
  <2>5. ASSUME NEW e \in 1 .. (d - 1) PROVE o[Wrap(a + e)] # o[Wrap(a + d)]
    <3>1. e \in 0 .. Part /\ e \in 1 .. Part /\ e # d /\ d \in 1 .. Part
      BY <2>3
    <3>2. Wrap(a + e) \in S /\ Wrap(a + e) # Wrap(a + d)
      BY <3>1, WrapFacts
    <3> QED BY <1>1, <2>4, <3>2
  <2> QED BY <1>1, <1>2, <2>1, <2>4, <2>5 DEF OnRing, Target, Chasing
<1>3. CASE pc[t] = "access" /\ ~Chasing
  <2>1. i[t] \in S /\ seen[t] = {o[k] : k \in 0 .. (i[t] - 1)}
    BY <1>3 DEF RingInv, Working, Measuring, MoreUnits, Chasing
  <2>2. \A k \in 0 .. (i[t] - 1) : k \in S /\ k # i[t]
    BY <2>1
  <2>3. o[i[t]] \in Own(t) /\ o[i[t]] \notin seen[t]
    BY <1>1, <2>1, <2>2
  <2> QED BY <1>3, <2>3 DEF Target, Chasing
<1>4. CASE pc[t] \in {"clwb", "sfence"}
  <2>1. PICK a \in S, d \in 1 .. (Part - 1) : OnRing(t, a, d, d) /\ Chasing
    BY <1>4 DEF RingInv, Working, Measuring
  <2>2. Wrap(a + d) \in S
    <3>1. d \in 0 .. Part
      OBVIOUS
    <3> QED BY <3>1, WrapFacts
  <2> QED BY <1>1, <1>4, <2>1, <2>2 DEF OnRing, Target, Chasing
<1> QED BY <1>2, <1>3, <1>4

\* What a thread has linked and seen does not change while nothing of its own
\* does.
LEMMA RingElse ==
  ASSUME Part \in Nat, NEW u \in Nat, RingInv(u), UNCHANGED <<plan, r>>,
         pc'[u] = pc[u], order'[u] = order[u], i'[u] = i[u], start'[u] = start[u],
         p'[u] = p[u], seen'[u] = seen[u],
         \A x \in Own(u) : next'[x] = next[x]
  PROVE  RingInv(u)'
<1>1. cur' = cur
  BY DEF cur
<1>2. Part' = Part /\ Chasing' = Chasing
  BY <1>1 DEF Part, Chasing
<1>3. Own(u)' = Own(u) /\ Orders(u)' = Orders(u) /\ \A k : Wrap(k)' = Wrap(k)
  BY <1>1, <1>2 DEF Own, Base, Orders, Wrap
<1>4. ASSUME pc[u] \in Working, NEW m \in Int, m <= Part, Linked(u, m) PROVE Linked(u, m)'
  <2>1. order[u] \in [0 .. (Part - 1) -> Own(u)]
    BY <1>4, OrderFacts DEF RingInv
  <2>2. \A k \in 0 .. (m - 1) : k \in 0 .. (Part - 1)
    BY <1>4
  <2>3. \A k \in 0 .. (m - 1) : order[u][k] \in Own(u)
    BY <2>1, <2>2
  <2> QED BY <1>3, <1>4, <2>3 DEF Linked
<1>5. \A a, d, m : OnRing(u, a, d, m) => OnRing(u, a, d, m)'
  BY <1>3 DEF OnRing
<1>6. CASE pc[u] \in Working
  <2>1. /\ Part > 0 /\ order[u] \in Orders(u) /\ seen[u] \subseteq Own(u)
        /\ pc[u] \in {"link", "wait"} => seen[u] = {}
    BY <1>6 DEF RingInv
  <2>2. pc[u] = "link" => i[u] \in 1 .. (Part + 1) /\ Linked(u, i[u] - 1)'
    <3>1. pc[u] = "link" => i[u] \in 1 .. (Part + 1) /\ Linked(u, i[u] - 1)
      BY <1>6 DEF RingInv
    <3>2. pc[u] = "link" => i[u] - 1 \in Int /\ i[u] - 1 <= Part
      BY <3>1
    <3>3. pc[u] = "link" => Linked(u, i[u] - 1)' = (\A k \in 0 .. (i[u] - 1 - 1) : next'[order'[u][k]] = order'[u][Wrap(k + 1)'])
      BY DEF Linked
    <3>4. ASSUME pc[u] = "link" PROVE Linked(u, i[u] - 1)'
      BY <1>4, <1>6, <3>1, <3>2, <3>4
    <3> QED BY <3>1, <3>4
  <2>3. pc[u] = "wait" \/ (pc[u] \in Measuring /\ Chasing) => Linked(u, Part)'
    <3> SUFFICES ASSUME pc[u] = "wait" \/ (pc[u] \in Measuring /\ Chasing) PROVE Linked(u, Part)'
      OBVIOUS
    <3>1. Linked(u, Part) /\ Part \in Int /\ Part <= Part
      BY <1>6 DEF RingInv
    <3> QED BY <1>2, <1>4, <1>6, <3>1
  <2>4. (pc[u] = "access" /\ Chasing) =>
          \E a \in 0 .. (Part - 1), d \in 1 .. Part : OnRing(u, a, d, d - 1)'
    BY <1>5, <1>6 DEF RingInv
  <2>5. pc[u] \in {"clwb", "sfence"} =>
          Chasing /\ \E a \in 0 .. (Part - 1), d \in 1 .. (Part - 1) : OnRing(u, a, d, d)'
    BY <1>5, <1>6 DEF RingInv
  <2>6. (pc[u] = "access" /\ ~Chasing) =>
          i[u] \in 0 .. Part /\ seen[u] = {order[u][k] : k \in 0 .. (i[u] - 1)}
    BY <1>6 DEF RingInv
  <2> QED BY <1>2, <1>3, <2>1, <2>2, <2>3, <2>4, <2>5, <2>6 DEF RingInv
<1>7. CASE pc[u] \notin Working
  BY <1>7 DEF RingInv
<1> QED BY <1>6, <1>7

\* Nor does what a power failure leaves of its units, while no other thread
\* stores to them.
LEMMA PersElse ==
  ASSUME Part \in Nat, NEW u \in Tid, Own(u) \subseteq Unit, RingInv(u), PersInv(u),
         UNCHANGED <<plan, r>>,
         pc'[u] = pc[u], order'[u] = order[u], i'[u] = i[u], p'[u] = p[u], seen'[u] = seen[u],
         MemOK(mem, Line, Tid), MemOK(mem', Line, Tid),
         \A l \in Line : mem.per[l] <= mem'.per[l],
         \A x \in Own(u), s \in {"head", "pad"} : mem'.ver[<<x, s>>] = mem.ver[<<x, s>>],
         mem'.pend[u] = mem.pend[u]
  PROVE  PersInv(u)'
<1>1. cur' = cur /\ Chasing' = Chasing /\ Target(u)' = Target(u) /\ TargetLine(u)' = TargetLine(u)
      /\ \A x : LineOf(x)' = LineOf(x)
  BY DEF cur, Chasing, Target, TargetLine, LineOf
<1>2. \A x \in Own(u) : LineOf(x) \in Line /\ mem'.ver[LineOf(x)] = mem.ver[LineOf(x)]
  BY DEF LineOf, Line
<1>3. \A x \in Own(u) : mem.per[LineOf(x)] = mem.ver[LineOf(x)] => mem'.per[LineOf(x)] = mem'.ver[LineOf(x)]
  <2> SUFFICES ASSUME NEW x \in Own(u), mem.per[LineOf(x)] = mem.ver[LineOf(x)]
               PROVE  mem'.per[LineOf(x)] = mem'.ver[LineOf(x)]
    OBVIOUS
  <2> DEFINE l == LineOf(x)
  <2>1. l \in Line /\ mem'.ver[l] = mem.ver[l] /\ mem.per[l] = mem.ver[l]
    BY <1>2
  <2> HIDE DEF l
  <2>2. mem'.per[l] <= mem'.ver[l] /\ mem.per[l] <= mem'.per[l]
    BY <2>1 DEF MemOK
  <2>3. mem.ver[l] \in Nat /\ mem'.per[l] \in Nat
    BY <2>1 DEF MemOK
  <2>4. mem'.per[l] = mem'.ver[l]
    BY <2>1, <2>2, <2>3, SMT
  <2> QED BY <2>4 DEF l
<1>4. CASE pc[u] \in Measuring /\ cur.op # "rd"
  <2>1. seen[u] \subseteq Own(u)
    BY <1>4 DEF RingInv, Working
  <2>2. pc[u] = "sfence" => TargetLine(u) = LineOf(Target(u)) /\ Target(u) \in Own(u)
    <3>1. pc[u] = "sfence" => TargetLine(u) = LineOf(Target(u))
      BY DEF TargetLine, LineOf, Chasing
    <3>2. u \in Nat
      BY DEF Tid
    <3> QED BY <3>1, <3>2, TargetFacts
  <2>3. /\ \A x \in seen[u] :
             \/ pc[u] \in {"clwb", "sfence"} /\ x = Target(u)
             \/ mem.per[LineOf(x)] = mem.ver[LineOf(x)]
             \/ cur.op \notin Strict /\ <<LineOf(x), mem.ver[LineOf(x)]>> \in mem.pend[u]
        /\ pc[u] = "clwb" => cur.op \in {"wr_clwb", "wr_clwb_sfence"}
        /\ pc[u] = "sfence" =>
             cur.op \in Strict /\ <<TargetLine(u), mem.ver[TargetLine(u)]>> \in mem.pend[u]
    BY <1>4 DEF PersInv
  <2>4. \A x \in seen[u] :
             \/ pc[u] \in {"clwb", "sfence"} /\ x = Target(u)
             \/ mem'.per[LineOf(x)] = mem'.ver[LineOf(x)]
             \/ cur.op \notin Strict /\ <<LineOf(x), mem'.ver[LineOf(x)]>> \in mem'.pend[u]
    BY <1>2, <1>3, <2>1, <2>3
  <2>5. pc[u] = "sfence" =>
             cur.op \in Strict /\ <<TargetLine(u), mem'.ver[TargetLine(u)]>> \in mem'.pend[u]
    BY <1>2, <2>2, <2>3
  <2> QED BY <1>1, <2>3, <2>4, <2>5 DEF PersInv
<1>5. CASE ~(pc[u] \in Measuring /\ cur.op # "rd")
  BY <1>1, <1>5 DEF PersInv
<1> QED BY <1>4, <1>5

\* A step of one thread on its own units leaves what holds of the others.
LEMMA OthersKeep ==
  ASSUME RingReady, Alive, NEW t \in Tid, pc[t] \notin {"none", "joined"}, UNCHANGED <<plan, r>>,
         \A u \in Tid \ {t} :
           /\ pc'[u] = pc[u] /\ order'[u] = order[u] /\ i'[u] = i[u] /\ start'[u] = start[u]
           /\ p'[u] = p[u] /\ seen'[u] = seen[u] /\ mem'.pend[u] = mem.pend[u],
         \A x \in Unit \ Own(t) :
           next'[x] = next[x] /\ \A s \in {"head", "pad"} : mem'.ver[<<x, s>>] = mem.ver[<<x, s>>],
         MemOK(mem', Line, Tid), \A l \in Line : mem.per[l] <= mem'.per[l]
  PROVE  \A u \in Tid \ {t} : RingInv(u)' /\ PersInv(u)'
<1> SUFFICES ASSUME NEW u \in Tid \ {t} PROVE RingInv(u)' /\ PersInv(u)'
  OBVIOUS
<1>1. BarrierInv /\ SizeInv /\ MemOK(mem, Line, Tid) /\ RingInv(u) /\ PersInv(u)
  BY DEF RingReady, TypeInv, RingAll
<1>2. /\ pc'[u] = pc[u] /\ order'[u] = order[u] /\ i'[u] = i[u] /\ start'[u] = start[u]
      /\ p'[u] = p[u] /\ seen'[u] = seen[u] /\ mem'.pend[u] = mem.pend[u]
  OBVIOUS
<1>3. CASE pc[u] \in {"none", "joined"}
  <2>1. pc'[u] \notin Working /\ pc'[u] \notin Measuring
    BY <1>2, <1>3 DEF Working, Measuring
  <2> QED BY <2>1 DEF RingInv, PersInv
<1>4. CASE pc[u] \notin {"none", "joined"}
  <2>1. u \in Nat /\ Part \in Nat /\ Own(u) \subseteq Unit /\ Own(u) \cap Own(t) = {}
    BY <1>1, <1>4, AtWork
  <2>2. \A x \in Own(u) :
           next'[x] = next[x] /\ \A s \in {"head", "pad"} : mem'.ver[<<x, s>>] = mem.ver[<<x, s>>]
    BY <2>1
  <2>3. RingInv(u)'
    BY <1>1, <1>2, <2>1, <2>2, RingElse
  <2>4. PersInv(u)'
    BY <1>1, <1>2, <2>1, <2>2, PersElse
  <2> QED BY <2>3, <2>4
<1> QED BY <1>3, <1>4

\* Nothing of a thread's names depends on what a step of a thread changes.
LEMMA SameRun ==
  ASSUME UNCHANGED <<plan, r>>
  PROVE  /\ cur' = cur /\ Part' = Part /\ (Chasing' <=> Chasing)
         /\ \A t : Own(t)' = Own(t) /\ Orders(t)' = Orders(t)
         /\ \A k : Wrap(k)' = Wrap(k)
         /\ \A x : LineOf(x)' = LineOf(x)
<1>1. cur' = cur
  BY DEF cur
<1>2. Part' = Part /\ (Chasing' <=> Chasing)
  BY <1>1 DEF Part, Chasing
<1> QED BY <1>1, <1>2 DEF Own, Base, Orders, Wrap, LineOf

\* An access adds the unit to those seen.
LEMMA SeeFacts ==
  ASSUME Part \in Nat, NEW t \in Nat, RingInv(t), pc[t] = "access", MoreUnits(t),
         DOMAIN seen = Tid, t \in Tid, See(t)
  PROVE  /\ seen'[t] = seen[t] \cup {Target(t)} /\ seen'[t] \subseteq Own(t)
         /\ \A u \in Tid \ {t} : seen'[u] = seen[u]
         /\ Chasing => \E a \in 0 .. (Part - 1), d \in 1 .. (Part - 1) :
              /\ start[t] = order[t][a] /\ p[t] = order[t][Wrap(a + d)]
              /\ seen'[t] = {order[t][Wrap(a + e)] : e \in 1 .. d}
         /\ ~Chasing => i[t] \in 0 .. (Part - 1) /\ seen'[t] = {order[t][k] : k \in 0 .. i[t]}
<1>1. seen'[t] = seen[t] \cup {Target(t)} /\ \A u \in Tid \ {t} : seen'[u] = seen[u]
  BY DEF See
<1>2. seen'[t] \subseteq Own(t)
  <2>1. seen[t] \subseteq Own(t)
    BY DEF RingInv, Working, Measuring
  <2> QED BY <1>1, <2>1, TargetFacts
<1>3. ASSUME Chasing
      PROVE  \E a \in 0 .. (Part - 1), d \in 1 .. (Part - 1) :
              /\ start[t] = order[t][a] /\ p[t] = order[t][Wrap(a + d)]
              /\ seen'[t] = {order[t][Wrap(a + e)] : e \in 1 .. d}
  <2>1. PICK a \in 0 .. (Part - 1), d \in 1 .. Part : OnRing(t, a, d, d - 1)
    BY <1>3 DEF RingInv, Working, Measuring
  <2>2. Wrap(a + d) # a
    BY <1>3, <2>1 DEF OnRing, MoreUnits, Chasing
  <2>3. d \in 1 .. (Part - 1)
    BY <2>2, WrapFacts
  <2>4. Target(t) = order[t][Wrap(a + d)]
    BY <1>3, <2>1 DEF OnRing, Target, Chasing
  <2>5. 1 .. d = (1 .. (d - 1)) \cup {d}
    BY <2>3, SMT
  <2>6. seen'[t] = {order[t][Wrap(a + e)] : e \in 1 .. d}
    BY <1>1, <2>1, <2>4, <2>5 DEF OnRing
  <2> QED BY <2>1, <2>3, <2>6 DEF OnRing
<1>4. ASSUME ~Chasing
      PROVE  i[t] \in 0 .. (Part - 1) /\ seen'[t] = {order[t][k] : k \in 0 .. i[t]}
  <2>1. i[t] \in 0 .. (Part - 1) /\ seen[t] = {order[t][k] : k \in 0 .. (i[t] - 1)}
    BY <1>4 DEF RingInv, Working, Measuring, MoreUnits, Chasing
  <2>2. 0 .. i[t] = (0 .. (i[t] - 1)) \cup {i[t]}
    BY <2>1, SMT
  <2>3. Target(t) = order[t][i[t]]
    BY <1>4 DEF Target, Chasing
  <2> QED BY <1>1, <2>1, <2>2, <2>3
<1> QED BY <1>1, <1>2, <1>3, <1>4

\* On to the next unit: along the ring that is the next one of the order.
LEMMA MoveFacts ==
  ASSUME Part \in Nat, Part > 0, NEW t \in Nat, t \in Tid, order[t] \in Orders(t),
         UNCHANGED <<plan, r>>, Move(t),
         order'[t] = order[t], start'[t] = start[t], seen'[t] \subseteq Own(t),
         pc \in [Tid -> Building \cup Released], DOMAIN p = Tid, DOMAIN i = Tid,
         Chasing =>
           /\ Linked(t, Part) /\ next' = next
           /\ \E a \in 0 .. (Part - 1), d \in 1 .. (Part - 1) :
                /\ start[t] = order[t][a] /\ p[t] = order[t][Wrap(a + d)]
                /\ seen'[t] = {order[t][Wrap(a + e)] : e \in 1 .. d},
         ~Chasing => i[t] \in 0 .. (Part - 1) /\ seen'[t] = {order[t][k] : k \in 0 .. i[t]}
  PROVE  /\ RingInv(t)' /\ pc'[t] = "access"
         /\ \A u \in Tid \ {t} : pc'[u] = pc[u] /\ p'[u] = p[u] /\ i'[u] = i[u]
<1>1. pc'[t] = "access" /\ \A u \in Tid \ {t} : pc'[u] = pc[u] /\ p'[u] = p[u] /\ i'[u] = i[u]
  BY DEF Move
<1>2. /\ Part' = Part /\ (Chasing' <=> Chasing) /\ Own(t)' = Own(t) /\ Orders(t)' = Orders(t)
      /\ \A k : Wrap(k)' = Wrap(k)
  BY SameRun
<1>3. CASE Chasing
  <2>1. PICK a \in 0 .. (Part - 1), d \in 1 .. (Part - 1) :
                /\ start[t] = order[t][a] /\ p[t] = order[t][Wrap(a + d)]
                /\ seen'[t] = {order[t][Wrap(a + e)] : e \in 1 .. d}
    BY <1>3
  <2>2. p'[t] = next[p[t]]
    BY <1>3 DEF Move, Chasing
  <2>3. Wrap(a + d) \in 0 .. (Part - 1) /\ Wrap(Wrap(a + d) + 1) = Wrap(a + d + 1)
    <3>1. d \in 0 .. Part /\ d \in 0 .. (Part - 1)
      OBVIOUS
    <3> QED BY <3>1, WrapFacts
  <2>4. p'[t] = order[t][Wrap(a + (d + 1))]
    <3>1. next[order[t][Wrap(a + d)]] = order[t][Wrap(Wrap(a + d) + 1)]
      BY <1>3, <2>3 DEF Linked
    <3>2. a + d + 1 = a + (d + 1)
      OBVIOUS
    <3> QED BY <2>1, <2>2, <2>3, <3>1, <3>2
  <2>5. d + 1 \in 1 .. Part /\ (d + 1) - 1 = d
    OBVIOUS
  <2>6. OnRing(t, a, d + 1, (d + 1) - 1)'
    BY <1>2, <2>1, <2>4, <2>5 DEF OnRing
  <2>7. \E b \in 0 .. (Part - 1), e \in 1 .. Part : OnRing(t, b, e, e - 1)'
    BY <2>5, <2>6
  <2>8. Linked(t, Part)'
    BY <1>2, <1>3 DEF Linked
  <2> QED BY <1>1, <1>2, <1>3, <2>7, <2>8 DEF RingInv, Measuring
<1>4. CASE ~Chasing
  <2>1. i'[t] = i[t] + 1
    BY <1>4 DEF Move, Chasing
  <2>2. i'[t] \in 0 .. Part /\ i'[t] - 1 = i[t]
    BY <1>4, <2>1
  <2>3. seen'[t] = {order'[t][k] : k \in 0 .. (i'[t] - 1)}
    BY <1>4, <2>2
  <2> QED BY <1>1, <1>2, <1>4, <2>2, <2>3 DEF RingInv
<1> QED BY <1>1, <1>3, <1>4

\* What a step of the thread t starts from.
LEMMA StepFacts ==
  ASSUME RingReady, Alive, NEW t \in Tid, pc[t] \in {"begin"} \cup Working
  PROVE  /\ pc[t] \notin {"none", "joined"} /\ t \in Nat /\ cur \in Run /\ Part \in Nat
         /\ Own(t) \subseteq Unit
         /\ RingInv(t) /\ PersInv(t) /\ MemOK(mem, Line, Tid)
         /\ pc \in [Tid -> Building \cup Released]
         /\ DOMAIN order = Tid /\ DOMAIN i = Tid /\ DOMAIN seen = Tid
         /\ p \in [Tid -> Unit \cup {NULL}] /\ start \in [Tid -> Unit \cup {NULL}]
         /\ next \in [Unit -> Unit \cup {NULL}]
         /\ pc[t] \in Working => Part > 0 /\ order[t] \in Orders(t) /\ seen[t] \subseteq Own(t)
<1>1. pc[t] \notin {"none", "joined"}
  BY DEF Working, Measuring
<1>2. t \in Nat /\ cur \in Run /\ Part \in Nat /\ Own(t) \subseteq Unit
  BY <1>1, AtWork DEF RingReady
<1>3. RingInv(t) /\ PersInv(t)
  BY DEF RingReady, RingAll
<1> QED BY <1>1, <1>2, <1>3 DEF RingReady, TypeInv, BarrierInv, RingInv

\* The parts of TypeInv that a step of a thread leaves to be shown.
LEMMA TypeStep ==
  ASSUME RingReady, n' = n, exited' = exited, waiting' \subseteq Tid,
         DOMAIN order' = Tid, DOMAIN i' = Tid, DOMAIN seen' = Tid,
         p' \in [Tid -> Unit \cup {NULL}], start' \in [Tid -> Unit \cup {NULL}],
         next' \in [Unit -> Unit \cup {NULL}], MemOK(mem', Line, Tid)
  PROVE  TypeInv'
BY DEF RingReady, TypeInv

\* A memory that a step leaves alone.
LEMMA MemKept ==
  ASSUME MemOK(mem, Line, Tid), mem' = mem
  PROVE  MemOK(mem', Line, Tid) /\ \A l \in Line : mem.per[l] <= mem'.per[l]
<1>1. \A l \in Line : mem.per[l] \in Nat
  BY DEF MemOK
<1> QED BY <1>1

\* The order is drawn, and nothing is linked yet.
LEMMA RingDraw ==
  ASSUME RingReady, NEW t \in Tid, DrawOrder(t)
  PROVE  TypeInv' /\ RingAll'
<1>1. /\ Alive /\ pc[t] = "begin" /\ Part > 0
      /\ UNCHANGED <<plan, r, n, exited, waiting, start, p, next, mem>>
      /\ i' = [i EXCEPT ![t] = 1] /\ seen' = [seen EXCEPT ![t] = {}] /\ pc' = [pc EXCEPT ![t] = "link"]
  BY DEF DrawOrder, At, mvars
<1>2. PICK o \in Orders(t) : order' = [order EXCEPT ![t] = o]
  BY DEF DrawOrder
<1>3. /\ pc[t] \notin {"none", "joined"} /\ MemOK(mem, Line, Tid) /\ pc \in [Tid -> Building \cup Released]
      /\ DOMAIN order = Tid /\ DOMAIN i = Tid /\ DOMAIN seen = Tid /\ Part \in Nat
  BY <1>1, StepFacts
<1>4. /\ pc'[t] = "link" /\ i'[t] = 1 /\ seen'[t] = {} /\ order'[t] = o
      /\ \A u \in Tid \ {t} : pc'[u] = pc[u] /\ order'[u] = order[u] /\ i'[u] = i[u] /\ seen'[u] = seen[u]
  BY <1>1, <1>2, <1>3
<1>5. \A u \in Tid \ {t} : RingInv(u)' /\ PersInv(u)'
  BY <1>1, <1>3, <1>4, MemKept, OthersKeep
<1>6. RingInv(t)' /\ PersInv(t)'
  <2>1. Part' = Part /\ Orders(t)' = Orders(t)
    BY <1>1, SameRun
  <2>2. 1 \in 1 .. (Part' + 1) /\ Linked(t, i[t] - 1)'
    BY <1>3, <1>4, <2>1 DEF Linked
  <2> QED BY <1>1, <1>4, <2>1, <2>2 DEF RingInv, PersInv, Measuring
<1>7. TypeInv'
  <2>1. TypeInv
    BY DEF RingReady
  <2> QED BY <1>1, <1>2, <1>3, <2>1, MemKept DEF TypeInv
<1> QED BY <1>5, <1>6, <1>7 DEF RingAll

\* One more unit points to the one behind it.
LEMMA RingLink ==
  ASSUME RingReady, NEW t \in Tid, LinkUnit(t)
  PROVE  TypeInv' /\ RingAll'
<1> DEFINE u0 == order[t][i[t] - 1]
           x0 == order[t][i[t] % Part]
<1>1. /\ Alive /\ pc[t] = "link" /\ i[t] <= Part
      /\ UNCHANGED <<plan, r, n, exited, waiting, pc, order, start, p, seen>>
      /\ next' = [next EXCEPT ![u0] = x0] /\ mem' = Store(mem, {<<u0, "head">>})
      /\ i' = [i EXCEPT ![t] = @ + 1]
  BY DEF LinkUnit, LastLink, At, mvars
<1>2. /\ pc[t] \notin {"none", "joined"} /\ MemOK(mem, Line, Tid) /\ pc \in [Tid -> Building \cup Released]
      /\ DOMAIN i = Tid /\ Part \in Nat /\ Part > 0 /\ t \in Nat
      /\ order[t] \in Orders(t) /\ RingInv(t) /\ Own(t) \subseteq Unit
      /\ next \in [Unit -> Unit \cup {NULL}]
  BY <1>1, StepFacts DEF Working
<1>3. i[t] \in 1 .. Part /\ Linked(t, i[t] - 1) /\ seen[t] = {}
  BY <1>1, <1>2 DEF RingInv, Working
<1>4. /\ order[t] \in [0 .. (Part - 1) -> Own(t)]
      /\ \A x, y \in 0 .. (Part - 1) : order[t][x] = order[t][y] => x = y
  BY <1>2, OrderFacts
<1>5. x0 = order[t][Wrap(i[t])] /\ Wrap(i[t]) \in 0 .. (Part - 1) /\ i[t] - 1 \in 0 .. (Part - 1)
  <2>1. i[t] % Part = Wrap(i[t])
    BY <1>2, <1>3, LastIsFirst DEF Wrap
  <2>2. Wrap(i[t]) \in 0 .. (Part - 1)
    BY <1>2, <1>3, SMT DEF Wrap
  <2>3. i[t] - 1 \in 0 .. (Part - 1)
    BY <1>2, <1>3
  <2>4. x0 = order[t][Wrap(i[t])]
    BY <2>1, Zenon
  <2> HIDE DEF x0
  <2> QED BY <2>2, <2>3, <2>4
<1>6. u0 \in Own(t) /\ x0 \in Own(t) /\ u0 \in Unit /\ x0 \in Unit
  BY <1>2, <1>4, <1>5
<1>7. /\ MemOK(mem', Line, Tid) /\ mem'.per = mem.per /\ mem'.pend = mem.pend
      /\ \A l \in Line : mem'.ver[l] = IF l \in {<<u0, "head">>} THEN mem.ver[l] + 1 ELSE mem.ver[l]
  BY <1>1, <1>2, StoreFacts
<1>8. \A l \in Line : mem.per[l] <= mem'.per[l]
  <2>1. \A l \in Line : mem.per[l] \in Nat
    BY <1>2 DEF MemOK
  <2> QED BY <1>7, <2>1
<1>9. \A x \in Unit \ Own(t) :
         next'[x] = next[x] /\ \A s \in {"head", "pad"} : mem'.ver[<<x, s>>] = mem.ver[<<x, s>>]
  <2> SUFFICES ASSUME NEW x \in Unit \ Own(t)
               PROVE  next'[x] = next[x] /\ \A s \in {"head", "pad"} : mem'.ver[<<x, s>>] = mem.ver[<<x, s>>]
    OBVIOUS
  <2>1. x # u0
    BY <1>6
  <2> HIDE DEF u0, x0
  <2>2. \A s \in {"head", "pad"} : <<x, s>> \in Line /\ <<x, s>> # <<u0, "head">>
    BY <2>1 DEF Line
  <2> QED BY <1>1, <1>2, <1>7, <2>1, <2>2
<1>10. i'[t] = i[t] + 1 /\ \A u \in Tid \ {t} : i'[u] = i[u]
  BY <1>1, <1>2
<1>11. \A u \in Tid \ {t} : RingInv(u)' /\ PersInv(u)'
  BY <1>1, <1>2, <1>7, <1>8, <1>9, <1>10, OthersKeep
<1>12. RingInv(t)' /\ PersInv(t)'
  <2>1. Part' = Part /\ Orders(t)' = Orders(t) /\ Own(t)' = Own(t) /\ \A k : Wrap(k)' = Wrap(k)
    BY <1>1, SameRun
  <2>2. ASSUME NEW k \in 0 .. (i[t] - 1) PROVE next'[order[t][k]] = order[t][Wrap(k + 1)]
    <3>1. k \in 0 .. (Part - 1) /\ order[t][k] \in Unit
      BY <1>2, <1>3, <1>4
    <3>2. CASE k = i[t] - 1
      <4>1. k + 1 = i[t]
        BY <1>3, <3>2
      <4> QED BY <1>1, <1>2, <1>5, <1>6, <3>2, <4>1
    <3>3. CASE k # i[t] - 1
      <4>1. order[t][k] # u0
        BY <1>4, <1>5, <3>1, <3>3
      <4>2. k \in 0 .. (i[t] - 1 - 1)
        BY <1>3, <3>3
      <4>3. next[order[t][k]] = order[t][Wrap(k + 1)]
        BY <1>3, <4>2 DEF Linked
      <4> QED BY <1>1, <1>2, <3>1, <4>1, <4>3
    <3> QED BY <3>2, <3>3
  <2>3. i'[t] - 1 - 1 = i[t] - 1 /\ i'[t] \in 1 .. (Part + 1)
    BY <1>2, <1>3, <1>10
  <2>4. Linked(t, i[t] - 1)'
    BY <1>1, <2>1, <2>2, <2>3 DEF Linked
  <2> QED BY <1>1, <1>2, <1>3, <2>1, <2>3, <2>4 DEF RingInv, PersInv, Measuring
<1>13. TypeInv'
  <2>1. TypeInv
    BY DEF RingReady
  <2>2. next' \in [Unit -> Unit \cup {NULL}] /\ DOMAIN i' = Tid
    BY <1>1, <1>2, <1>6
  <2> QED BY <1>1, <1>7, <2>1, <2>2 DEF TypeInv
<1> QED BY <1>11, <1>12, <1>13 DEF RingAll

\* A thread that waits has linked its ring.
LEMMA RingBlock ==
  ASSUME RingReady, NEW t \in Tid, BarrierBlock(t)
  PROVE  TypeInv' /\ RingAll'
<1>1. /\ Alive /\ pc[t] = "link" /\ i[t] > Part /\ waiting' = waiting \cup {t}
      /\ UNCHANGED <<plan, r, n, exited, order, i, start, p, seen, next, mem>>
      /\ pc' = [pc EXCEPT ![t] = "wait"]
  BY DEF BarrierBlock, LastLink, At, mvars, tvars
<1>2. /\ pc[t] \notin {"none", "joined"} /\ MemOK(mem, Line, Tid) /\ pc \in [Tid -> Building \cup Released]
      /\ Part \in Nat /\ Part > 0 /\ order[t] \in Orders(t) /\ RingInv(t)
  BY <1>1, StepFacts DEF Working
<1>3. pc'[t] = "wait" /\ \A u \in Tid \ {t} : pc'[u] = pc[u]
  BY <1>1, <1>2
<1>4. \A u \in Tid \ {t} : RingInv(u)' /\ PersInv(u)'
  BY <1>1, <1>2, <1>3, MemKept, OthersKeep
<1>5. RingInv(t)' /\ PersInv(t)'
  <2>1. Part' = Part /\ Orders(t)' = Orders(t) /\ Own(t)' = Own(t) /\ \A k : Wrap(k)' = Wrap(k)
    BY <1>1, SameRun
  <2>2. i[t] - 1 = Part /\ Linked(t, i[t] - 1) /\ seen[t] = {}
    BY <1>1, <1>2 DEF RingInv, Working
  <2>3. Linked(t, Part)'
    BY <1>1, <2>1, <2>2 DEF Linked
  <2> QED BY <1>1, <1>2, <1>3, <2>1, <2>2, <2>3 DEF RingInv, PersInv, Measuring
<1>6. TypeInv'
  <2>1. TypeInv
    BY DEF RingReady
  <2> QED BY <1>1, <2>1, <1>2, MemKept DEF TypeInv
<1> QED BY <1>4, <1>5, <1>6 DEF RingAll

\* All have linked when the barrier lets go.
LEMMA RingRelease ==
  ASSUME RingReady, NEW t \in Tid, BarrierRelease(t)
  PROVE  TypeInv' /\ RingAll'
<1>1. /\ Alive /\ pc[t] = "link" /\ i[t] > Part /\ waiting' = {}
      /\ pc' = [u \in Tid |-> IF u \in waiting \cup {t} THEN "go" ELSE pc[u]]
      /\ UNCHANGED <<plan, r, n, exited, order, i, start, p, seen, next, mem>>
  BY DEF BarrierRelease, LastLink, At, mvars, tvars
<1>2. /\ MemOK(mem, Line, Tid) /\ pc \in [Tid -> Building \cup Released] /\ BarrierInv /\ SizeInv
      /\ Part \in Nat /\ pc[t] \notin {"none", "joined"}
  BY <1>1, StepFacts DEF RingReady, Working
<1>3. waiting = {u \in Team : pc[u] = "wait"} /\ main # "run" /\ Team \subseteq Tid
  <2>1. main # "run"
    BY <1>1, <1>2, AtWork
  <2>2. Team \subseteq Tid
    BY <1>1, <1>2, RunFacts DEF BarrierInv, Alive
  <2> QED BY <1>1, <1>2, <2>1, <2>2 DEF BarrierInv
<1>4. \A u \in Tid : RingInv(u) /\ PersInv(u)
  BY <1>1 DEF RingReady, RingAll
<1>5. Part' = Part /\ (Chasing' <=> Chasing) /\ \A k : Wrap(k)' = Wrap(k)
  BY <1>1, SameRun
<1>6. \A u : Own(u)' = Own(u) /\ Orders(u)' = Orders(u)
  BY <1>1, SameRun
<1>7. ASSUME NEW u \in waiting \cup {t} PROVE RingInv(u)' /\ PersInv(u)'
  <2>1. u \in Tid /\ pc'[u] = "go" /\ pc[u] \in {"link", "wait"} /\ RingInv(u)
    BY <1>1, <1>3, <1>4
  <2>2. Part > 0 /\ order[u] \in Orders(u) /\ seen[u] = {}
    BY <2>1 DEF RingInv, Working
  <2>3. Linked(u, Part)
    <3>1. CASE pc[u] = "wait"
      BY <2>1, <3>1 DEF RingInv, Working
    <3>2. CASE pc[u] = "link"
      <4>1. u = t
        BY <1>3, <3>2
      <4>2. i[u] - 1 = Part /\ Linked(u, i[u] - 1)
        BY <1>1, <1>2, <2>1, <3>2, <4>1 DEF RingInv, Working
      <4> QED BY <4>2
    <3> QED BY <2>1, <3>1, <3>2
  <2>4. Linked(u, Part)'
    BY <1>1, <1>5, <2>3 DEF Linked
  <2>5. RingInv(u)'
    BY <1>1, <1>5, <1>6, <2>1, <2>2, <2>4 DEF RingInv, Measuring
  <2>6. PersInv(u)'
    BY <1>1, <2>1, <2>2 DEF PersInv
  <2> QED BY <2>5, <2>6
<1>8. ASSUME NEW u \in Tid, u \notin waiting \cup {t} PROVE RingInv(u)' /\ PersInv(u)'
  <2>1. pc'[u] = pc[u] /\ RingInv(u) /\ PersInv(u)
    BY <1>1, <1>4, <1>8
  <2>2. CASE pc[u] \in {"none", "joined"}
    <3>1. pc'[u] \notin Working /\ pc'[u] \notin Measuring
      BY <2>1, <2>2 DEF Working, Measuring
    <3> QED BY <3>1 DEF RingInv, PersInv
  <2>3. CASE pc[u] \notin {"none", "joined"}
    <3>1. u \in Nat /\ Own(u) \subseteq Unit
      BY <1>1, <1>2, <2>3, AtWork
    <3>2. RingInv(u)'
      BY <1>1, <1>2, <2>1, <3>1, RingElse
    <3>3. PersInv(u)'
      BY <1>1, <1>2, <2>1, <3>1, MemKept, PersElse
    <3> QED BY <3>2, <3>3
  <2> QED BY <2>2, <2>3
<1>9. TypeInv'
  <2>1. TypeInv
    BY DEF RingReady
  <2> QED BY <1>1, <2>1, <1>2, MemKept DEF TypeInv
<1> QED BY <1>7, <1>8, <1>9 DEF RingAll

\* A chase begins at any unit of the part, which the order goes through.
LEMMA RingChase ==
  ASSUME RingReady, NEW t \in Tid, BeginChase(t)
  PROVE  TypeInv' /\ RingAll'
<1>1. /\ Alive /\ pc[t] = "go" /\ Chasing
      /\ UNCHANGED <<plan, r, n, exited, waiting, order, i, next, mem>>
      /\ seen' = [seen EXCEPT ![t] = {}] /\ pc' = [pc EXCEPT ![t] = "access"]
  BY DEF BeginChase, At, mvars, Chasing
<1>2. PICK s \in Own(t) : start' = [start EXCEPT ![t] = s] /\ p' = [p EXCEPT ![t] = next[s]]
  BY DEF BeginChase
<1>3. /\ pc[t] \notin {"none", "joined"} /\ MemOK(mem, Line, Tid) /\ pc \in [Tid -> Building \cup Released]
      /\ DOMAIN seen = Tid /\ Part \in Nat /\ Part > 0 /\ t \in Nat
      /\ order[t] \in Orders(t) /\ RingInv(t) /\ Own(t) \subseteq Unit
      /\ next \in [Unit -> Unit \cup {NULL}]
      /\ p \in [Tid -> Unit \cup {NULL}] /\ start \in [Tid -> Unit \cup {NULL}]
  BY <1>1, StepFacts DEF Working, Measuring
<1>4. /\ pc'[t] = "access" /\ seen'[t] = {} /\ start'[t] = s /\ p'[t] = next[s]
      /\ \A u \in Tid \ {t} : pc'[u] = pc[u] /\ start'[u] = start[u] /\ p'[u] = p[u] /\ seen'[u] = seen[u]
  BY <1>1, <1>2, <1>3
<1>5. \A u \in Tid \ {t} : RingInv(u)' /\ PersInv(u)'
  BY <1>1, <1>3, <1>4, MemKept, OthersKeep
<1>6. RingInv(t)' /\ PersInv(t)'
  <2>1. Part' = Part /\ Orders(t)' = Orders(t) /\ Own(t)' = Own(t) /\ (Chasing' <=> Chasing)
        /\ \A k : Wrap(k)' = Wrap(k)
    BY <1>1, SameRun
  <2>2. Linked(t, Part)
    BY <1>1, <1>3 DEF RingInv, Working, Measuring
  <2>3. Linked(t, Part)'
    BY <1>1, <2>1, <2>2 DEF Linked
  <2>4. PICK a \in 0 .. (Part - 1) : order[t][a] = s
    BY <1>3, OrderFacts
  <2>5. next[s] = order[t][Wrap(a + 1)]
    BY <1>3, <2>2, <2>4 DEF Linked
  <2>6. OnRing(t, a, 1, 1 - 1)'
    <3>1. {order'[t][Wrap(a + e)] : e \in 1 .. (1 - 1)} = {}
      OBVIOUS
    <3> QED BY <1>1, <1>4, <2>1, <2>4, <2>5, <3>1 DEF OnRing
  <2>7. \E b \in 0 .. (Part - 1), d \in 1 .. Part : OnRing(t, b, d, d - 1)'
    <3>1. 1 \in 1 .. Part
      BY <1>3
    <3> QED BY <2>6, <3>1
  <2> QED BY <1>1, <1>3, <1>4, <2>1, <2>3, <2>7 DEF RingInv, PersInv
<1>7. TypeInv'
  <2>1. TypeInv
    BY DEF RingReady
  <2>2. s \in Unit /\ next[s] \in Unit \cup {NULL}
    BY <1>3
  <2> QED BY <1>1, <1>2, <1>3, <2>1, <2>2, MemKept DEF TypeInv
<1> QED BY <1>5, <1>6, <1>7 DEF RingAll

\* Calculated offsets begin at the first unit.
LEMMA RingCalc ==
  ASSUME RingReady, NEW t \in Tid, BeginCalc(t)
  PROVE  TypeInv' /\ RingAll'
<1>1. /\ Alive /\ pc[t] = "go" /\ ~Chasing
      /\ UNCHANGED <<plan, r, n, exited, waiting, order, start, p, next, mem>>
      /\ i' = [i EXCEPT ![t] = 0]
      /\ seen' = [seen EXCEPT ![t] = {}] /\ pc' = [pc EXCEPT ![t] = "access"]
  BY DEF BeginCalc, At, mvars, Chasing
<1>2. /\ pc[t] \notin {"none", "joined"} /\ MemOK(mem, Line, Tid) /\ pc \in [Tid -> Building \cup Released]
      /\ DOMAIN seen = Tid /\ DOMAIN i = Tid /\ Part \in Nat /\ Part > 0
      /\ order[t] \in Orders(t)
  BY <1>1, StepFacts DEF Working, Measuring
<1>3. /\ pc'[t] = "access" /\ seen'[t] = {} /\ i'[t] = 0
      /\ \A u \in Tid \ {t} : pc'[u] = pc[u] /\ i'[u] = i[u] /\ seen'[u] = seen[u]
  BY <1>1, <1>2
<1>4. \A u \in Tid \ {t} : RingInv(u)' /\ PersInv(u)'
  BY <1>1, <1>2, <1>3, MemKept, OthersKeep
<1>5. RingInv(t)' /\ PersInv(t)'
  <2>1. Part' = Part /\ Orders(t)' = Orders(t) /\ Own(t)' = Own(t) /\ (Chasing' <=> Chasing)
    BY <1>1, SameRun
  <2>2. 0 \in 0 .. Part /\ {order'[t][k] : k \in 0 .. (0 - 1)} = {}
    BY <1>2
  <2> QED BY <1>1, <1>2, <1>3, <2>1, <2>2 DEF RingInv, PersInv, Measuring
<1>6. TypeInv'
  <2>1. TypeInv
    BY DEF RingReady
  <2> QED BY <1>1, <1>2, <2>1, MemKept DEF TypeInv
<1> QED BY <1>4, <1>5, <1>6 DEF RingAll

\* The end of an iteration, and of the thread.
LEMMA RingEnd ==
  ASSUME RingReady, NEW t \in Tid, EndIteration(t) \/ ThreadEnd(t)
  PROVE  TypeInv' /\ RingAll'
<1>1. /\ Alive /\ UNCHANGED <<plan, r, n, exited, waiting, order, i, start, p, seen, next, mem>>
      /\ \/ pc[t] = "access" /\ pc' = [pc EXCEPT ![t] = "go"]
         \/ pc[t] = "go" /\ pc' = [pc EXCEPT ![t] = "done"]
  BY DEF EndIteration, ThreadEnd, At, mvars, tvars
<1>2. /\ pc[t] \notin {"none", "joined"} /\ MemOK(mem, Line, Tid) /\ pc \in [Tid -> Building \cup Released]
      /\ RingInv(t) /\ PersInv(t)
  BY <1>1, StepFacts DEF Working, Measuring
<1>3. \A u \in Tid \ {t} : pc'[u] = pc[u]
  BY <1>1, <1>2
<1>4. \A u \in Tid \ {t} : RingInv(u)' /\ PersInv(u)'
  BY <1>1, <1>2, <1>3, MemKept, OthersKeep
<1>5. RingInv(t)' /\ PersInv(t)'
  <2>1. CASE pc[t] = "go"
    <3>1. pc'[t] = "done"
      BY <1>1, <1>2, <2>1
    <3> QED BY <3>1 DEF RingInv, PersInv, Working, Measuring
  <2>2. CASE pc[t] = "access"
    <3>1. pc'[t] = "go"
      BY <1>1, <1>2, <2>2
    <3>2. /\ Part' = Part /\ Orders(t)' = Orders(t) /\ Own(t)' = Own(t) /\ (Chasing' <=> Chasing)
          /\ cur' = cur
          /\ \A k : Wrap(k)' = Wrap(k)
      BY <1>1, SameRun
    <3>3. \A x : LineOf(x)' = LineOf(x)
      BY <1>1, SameRun
    <3>4. Chasing => Linked(t, Part)'
      <4>1. Chasing => Linked(t, Part)
        BY <1>2, <2>2 DEF RingInv, Working, Measuring
      <4> QED BY <1>1, <3>2, <4>1 DEF Linked
    <3>5. RingInv(t)'
      BY <1>1, <1>2, <2>2, <3>1, <3>2, <3>4 DEF RingInv, Working, Measuring
    <3>6. PersInv(t)'
      BY <1>1, <1>2, <2>2, <3>1, <3>2, <3>3 DEF PersInv, Measuring
    <3> QED BY <3>5, <3>6
  <2> QED BY <1>1, <2>1, <2>2
<1>6. TypeInv'
  <2>1. TypeInv
    BY DEF RingReady
  <2> QED BY <1>1, <1>2, <2>1, MemKept DEF TypeInv
<1> QED BY <1>4, <1>5, <1>6 DEF RingAll

\* The line a thread is at is that of the unit it is at.
LEMMA LineFacts ==
  ASSUME NEW t
  PROVE  /\ TargetLine(t) = LineOf(Target(t))
         /\ \A x, y : LineOf(x) = LineOf(y) => x = y
         /\ \A x \in Unit : LineOf(x) \in Line
         /\ \A x, s : <<x, s>> = TargetLine(t) => x = Target(t)
BY DEF TargetLine, LineOf, Chasing, Line

\* Only wr_nt runs with calculated offsets.
LEMMA PlanFacts ==
  ASSUME BarrierInv, Alive
  PROVE  ~Chasing => cur.op = "wr_nt"
<1>1. plan \in Plan /\ plan \in Seq(Run)
  BY LatAssumption DEF BarrierInv
<1>2. r \in 1 .. Len(plan)
  <2>1. Len(plan) \in Nat
    BY <1>1
  <2> QED BY <2>1, SMT DEF BarrierInv, Alive, Ended
<1>3. cur \in Run
  BY <1>1, <1>2 DEF cur
<1>4. cur.trav \in {"CHASING_PTR", "CALC_OFFSET"}
  BY <1>3 DEF Run
<1>5. cur.trav = "CALC_OFFSET" => cur.op = "wr_nt"
  BY <1>1, <1>2, LatAssumption DEF cur
<1> QED BY <1>4, <1>5 DEF Chasing

\* Moving on keeps the types.
LEMMA MoveTypes ==
  ASSUME NEW t \in Tid, Move(t), DOMAIN i = Tid, p \in [Tid -> Unit \cup {NULL}],
         next \in [Unit -> Unit \cup {NULL}], Chasing => p[t] \in Unit
  PROVE  DOMAIN i' = Tid /\ p' \in [Tid -> Unit \cup {NULL}]
<1>1. CASE Chasing
  <2>1. p' = [p EXCEPT ![t] = next[p[t]]] /\ i' = i
    BY <1>1 DEF Move, Chasing
  <2>2. next[p[t]] \in Unit \cup {NULL}
    BY <1>1
  <2> QED BY <2>1, <2>2
<1>2. CASE ~Chasing
  <2>1. DOMAIN i' = DOMAIN i /\ p' = p
    BY <1>2 DEF Move, Chasing
  <2> QED BY <2>1
<1> QED BY <1>1, <1>2

\* The store of a chase or of calculated offsets, its write-back to come.
LEMMA RingStore ==
  ASSUME RingReady, NEW t \in Tid, AccessClwb(t)
  PROVE  TypeInv' /\ RingAll'
<1> DEFINE l0 == TargetLine(t)
<1>1. /\ Alive /\ pc[t] = "access" /\ MoreUnits(t) /\ cur.op \in {"wr_clwb", "wr_clwb_sfence"}
      /\ UNCHANGED <<plan, r, n, exited, waiting, order, i, start, p, next>>
      /\ See(t) /\ mem' = Store(mem, {l0}) /\ pc' = [pc EXCEPT ![t] = "clwb"]
  BY DEF AccessClwb, At, mvars
<1>2. /\ pc[t] \notin {"none", "joined"} /\ MemOK(mem, Line, Tid) /\ pc \in [Tid -> Building \cup Released]
      /\ DOMAIN seen = Tid /\ Part \in Nat /\ Part > 0 /\ t \in Nat /\ cur \in Run
      /\ order[t] \in Orders(t) /\ RingInv(t) /\ PersInv(t) /\ Own(t) \subseteq Unit
  BY <1>1, StepFacts DEF Working, Measuring
<1>3. Target(t) \in Own(t) /\ Target(t) \notin seen[t] /\ Target(t) \in Unit
  BY <1>1, <1>2, TargetFacts
<1>4. /\ l0 = LineOf(Target(t)) /\ l0 \in Line
      /\ \A x, y : LineOf(x) = LineOf(y) => x = y
      /\ \A x \in Unit : LineOf(x) \in Line
      /\ \A x, s : <<x, s>> = l0 => x = Target(t)
  BY <1>3, LineFacts
<1>5. /\ seen'[t] = seen[t] \cup {Target(t)} /\ seen'[t] \subseteq Own(t)
      /\ \A u \in Tid \ {t} : seen'[u] = seen[u]
  BY <1>1, <1>2, SeeFacts
<1> HIDE DEF l0
<1>6. /\ MemOK(mem', Line, Tid) /\ mem'.per = mem.per /\ mem'.pend = mem.pend
      /\ \A l \in Line : mem'.ver[l] = IF l \in {l0} THEN mem.ver[l] + 1 ELSE mem.ver[l]
  BY <1>1, <1>2, StoreFacts
<1>7. \A l \in Line : mem.per[l] <= mem'.per[l]
  <2>1. \A l \in Line : mem.per[l] \in Nat
    BY <1>2 DEF MemOK
  <2> QED BY <1>6, <2>1
<1>8. \A x \in Unit \ Own(t) : \A s \in {"head", "pad"} : mem'.ver[<<x, s>>] = mem.ver[<<x, s>>]
  <2> SUFFICES ASSUME NEW x \in Unit \ Own(t), NEW s \in {"head", "pad"}
               PROVE  mem'.ver[<<x, s>>] = mem.ver[<<x, s>>]
    OBVIOUS
  <2>1. <<x, s>> \in Line /\ <<x, s>> # l0
    BY <1>3, <1>4 DEF Line
  <2> QED BY <1>6, <2>1
<1>9. pc'[t] = "clwb" /\ \A u \in Tid \ {t} : pc'[u] = pc[u]
  BY <1>1, <1>2
<1>10. \A u \in Tid \ {t} : RingInv(u)' /\ PersInv(u)'
  BY <1>1, <1>2, <1>5, <1>6, <1>7, <1>8, <1>9, OthersKeep
<1>11. /\ Part' = Part /\ Orders(t)' = Orders(t) /\ Own(t)' = Own(t) /\ (Chasing' <=> Chasing)
       /\ cur' = cur
       /\ \A k : Wrap(k)' = Wrap(k)
  BY <1>1, SameRun
<1>12. Chasing
  BY <1>1, <1>2, PlanFacts DEF RingReady
<1>13. RingInv(t)'
  <2>1. PICK a \in 0 .. (Part - 1), d \in 1 .. (Part - 1) :
              /\ start[t] = order[t][a] /\ p[t] = order[t][Wrap(a + d)]
              /\ seen'[t] = {order[t][Wrap(a + e)] : e \in 1 .. d}
    BY <1>1, <1>2, <1>12, SeeFacts
  <2>2. OnRing(t, a, d, d)'
    BY <1>1, <1>11, <2>1 DEF OnRing
  <2>3. Linked(t, Part)'
    <3>1. Linked(t, Part)
      BY <1>1, <1>2, <1>12 DEF RingInv, Working, Measuring
    <3> QED BY <1>1, <1>11, <3>1 DEF Linked
  <2> QED BY <1>1, <1>2, <1>5, <1>9, <1>11, <1>12, <2>2, <2>3 DEF RingInv
<1>14. PersInv(t)'
  <2>1. \A x : LineOf(x)' = LineOf(x)
    BY <1>1, SameRun
  <2>2. Target(t)' = Target(t)
    BY <1>1, <1>11 DEF Target
  <2>3. \A x \in seen[t] : LineOf(x) \in Line /\ LineOf(x) # l0
    BY <1>2, <1>3, <1>4, <1>5
  <2>4. \A x \in seen[t] :
          \/ mem.per[LineOf(x)] = mem.ver[LineOf(x)]
          \/ cur.op \notin Strict /\ <<LineOf(x), mem.ver[LineOf(x)]>> \in mem.pend[t]
    BY <1>1, <1>2 DEF PersInv, Measuring
  <2>5. \A x \in seen[t] :
          \/ mem'.per[LineOf(x)] = mem'.ver[LineOf(x)]
          \/ cur.op \notin Strict /\ <<LineOf(x), mem'.ver[LineOf(x)]>> \in mem'.pend[t]
    BY <1>6, <2>3, <2>4
  <2> QED BY <1>1, <1>5, <1>9, <1>11, <2>1, <2>2, <2>5 DEF PersInv
<1>15. TypeInv'
  <2>1. TypeInv
    BY DEF RingReady
  <2>2. DOMAIN seen' = Tid
    BY <1>1, <1>2 DEF See
  <2> QED BY <1>1, <1>6, <2>1, <2>2 DEF TypeInv
<1> QED BY <1>10, <1>13, <1>14, <1>15 DEF RingAll

\* The write-back: a strict run waits for it, a relaxed one goes on.
LEMMA RingWriteBack ==
  ASSUME RingReady, NEW t \in Tid, WriteBack(t)
  PROVE  TypeInv' /\ RingAll'
<1> DEFINE l0 == TargetLine(t)
<1>1. /\ Alive /\ pc[t] = "clwb"
      /\ UNCHANGED <<plan, r, n, exited, waiting, order, iter, start, next, seen>>
      /\ mem' = Clwb(mem, t, {l0})
      /\ IF cur.op = "wr_clwb" THEN Move(t) ELSE pc' = [pc EXCEPT ![t] = "sfence"] /\ UNCHANGED <<i, p>>
  BY DEF WriteBack, At, mvars
<1>2. /\ pc[t] \notin {"none", "joined"} /\ MemOK(mem, Line, Tid) /\ pc \in [Tid -> Building \cup Released]
      /\ DOMAIN i = Tid /\ Part \in Nat /\ Part > 0 /\ t \in Nat
      /\ order[t] \in Orders(t) /\ RingInv(t) /\ PersInv(t) /\ Own(t) \subseteq Unit
      /\ seen[t] \subseteq Own(t)
      /\ next \in [Unit -> Unit \cup {NULL}] /\ p \in [Tid -> Unit \cup {NULL}]
  BY <1>1, StepFacts DEF Working, Measuring
<1>3. Target(t) \in Own(t) /\ Target(t) \in Unit
  BY <1>1, <1>2, TargetFacts
<1>4. /\ l0 = LineOf(Target(t)) /\ l0 \in Line
      /\ \A x \in Unit : LineOf(x) \in Line
  BY <1>3, LineFacts
<1>5. /\ MemOK(mem', Line, Tid) /\ mem'.ver = mem.ver /\ mem'.per = mem.per
      /\ \A u \in Tid \ {t} : mem'.pend[u] = mem.pend[u]
      /\ mem.pend[t] \subseteq mem'.pend[t]
      /\ <<l0, mem'.ver[l0]>> \in mem'.pend[t]
  BY <1>1, <1>2, ClwbFacts
<1>6. \A l \in Line : mem.per[l] <= mem'.per[l]
  <2>1. \A l \in Line : mem.per[l] \in Nat
    BY <1>2 DEF MemOK
  <2> QED BY <1>5, <2>1
<1>7. PICK a \in 0 .. (Part - 1), d \in 1 .. (Part - 1) : OnRing(t, a, d, d) /\ Chasing
  BY <1>1, <1>2 DEF RingInv, Working, Measuring
<1>8. Linked(t, Part)
  BY <1>1, <1>2, <1>7 DEF RingInv, Working, Measuring
<1>9. /\ Part' = Part /\ Orders(t)' = Orders(t) /\ Own(t)' = Own(t) /\ (Chasing' <=> Chasing)
      /\ cur' = cur
      /\ \A k : Wrap(k)' = Wrap(k)
  BY <1>1, SameRun
<1>10. \A x : LineOf(x)' = LineOf(x)
  BY <1>1, SameRun
<1>11. ASSUME cur.op # "rd"
       PROVE  /\ \A x \in seen[t] :
                   \/ x = Target(t)
                   \/ mem'.per[LineOf(x)] = mem'.ver[LineOf(x)]
                   \/ cur.op \notin Strict /\ <<LineOf(x), mem'.ver[LineOf(x)]>> \in mem'.pend[t]
              /\ cur.op \in {"wr_clwb", "wr_clwb_sfence"}
  <2>1. /\ \A x \in seen[t] :
            \/ x = Target(t)
            \/ mem.per[LineOf(x)] = mem.ver[LineOf(x)]
            \/ cur.op \notin Strict /\ <<LineOf(x), mem.ver[LineOf(x)]>> \in mem.pend[t]
        /\ cur.op \in {"wr_clwb", "wr_clwb_sfence"}
    BY <1>1, <1>2, <1>11 DEF PersInv, Measuring
  <2> QED BY <1>5, <2>1
<1>12. CASE cur.op = "wr_clwb"
  <2>1. Move(t)
    BY <1>1, <1>12
  <2>2. /\ RingInv(t)' /\ pc'[t] = "access"
        /\ \A u \in Tid \ {t} : pc'[u] = pc[u] /\ p'[u] = p[u] /\ i'[u] = i[u]
    BY <1>1, <1>2, <1>7, <1>8, <2>1, MoveFacts DEF OnRing
  <2>3. PersInv(t)'
    <3>1. cur.op \notin Strict /\ cur.op # "rd"
      BY <1>12 DEF Strict
    <3> QED BY <1>1, <1>4, <1>5, <1>9, <1>10, <1>11, <2>2, <3>1 DEF PersInv
  <2>4. \A u \in Tid \ {t} : RingInv(u)' /\ PersInv(u)'
    BY <1>1, <1>2, <1>5, <1>6, <2>2, OthersKeep
  <2>5. DOMAIN i' = Tid /\ p' \in [Tid -> Unit \cup {NULL}]
    BY <1>2, <1>3, <1>7, <2>1, MoveTypes DEF Target, Chasing
  <2>6. TypeInv'
    <3>1. TypeInv
      BY DEF RingReady
    <3> QED BY <1>1, <1>5, <2>5, <3>1 DEF TypeInv
  <2> QED BY <2>2, <2>3, <2>4, <2>6 DEF RingAll
<1>13. CASE cur.op # "wr_clwb"
  <2>1. UNCHANGED <<i, p>> /\ pc'[t] = "sfence" /\ \A u \in Tid \ {t} : pc'[u] = pc[u]
    BY <1>1, <1>2, <1>13
  <2>2. RingInv(t)'
    <3>1. OnRing(t, a, d, d)'
      BY <1>1, <1>7, <1>9, <2>1 DEF OnRing
    <3>2. Linked(t, Part)'
      BY <1>1, <1>8, <1>9 DEF Linked
    <3> QED BY <1>1, <1>2, <1>7, <1>9, <2>1, <3>1, <3>2 DEF RingInv
  <2>3. PersInv(t)'
    <3>1. Target(t)' = Target(t) /\ TargetLine(t)' = l0
      BY <1>1, <1>9, <2>1 DEF Target, TargetLine
    <3>2. cur.op # "rd" => cur.op \in Strict
      BY <1>11, <1>13 DEF Strict
    <3> HIDE DEF l0
    <3> QED BY <1>1, <1>5, <1>9, <1>10, <1>11, <2>1, <3>1, <3>2 DEF PersInv
  <2>4. \A u \in Tid \ {t} : RingInv(u)' /\ PersInv(u)'
    BY <1>1, <1>2, <1>5, <1>6, <2>1, OthersKeep
  <2>5. TypeInv'
    <3>1. TypeInv
      BY DEF RingReady
    <3> QED BY <1>1, <1>5, <2>1, <3>1 DEF TypeInv
  <2> QED BY <2>2, <2>3, <2>4, <2>5 DEF RingAll
<1> QED BY <1>12, <1>13

\* The fence makes durable what a strict run has just sent off.
LEMMA RingFence ==
  ASSUME RingReady, NEW t \in Tid, StoreFence(t)
  PROVE  TypeInv' /\ RingAll'
<1> DEFINE l0 == TargetLine(t)
<1>1. /\ Alive /\ pc[t] = "sfence" /\ Move(t) /\ mem' = Fence(mem, t)
      /\ UNCHANGED <<plan, r, n, exited, waiting, order, iter, start, next, seen>>
  BY DEF StoreFence, FenceOp, At, mvars
<1>2. /\ pc[t] \notin {"none", "joined"} /\ MemOK(mem, Line, Tid) /\ pc \in [Tid -> Building \cup Released]
      /\ DOMAIN i = Tid /\ Part \in Nat /\ Part > 0 /\ t \in Nat
      /\ order[t] \in Orders(t) /\ RingInv(t) /\ PersInv(t) /\ Own(t) \subseteq Unit
      /\ seen[t] \subseteq Own(t)
      /\ next \in [Unit -> Unit \cup {NULL}] /\ p \in [Tid -> Unit \cup {NULL}]
  BY <1>1, StepFacts DEF Working, Measuring
<1>3. Target(t) \in Own(t) /\ Target(t) \in Unit
  BY <1>1, <1>2, TargetFacts
<1>4. /\ l0 = LineOf(Target(t)) /\ l0 \in Line
      /\ \A x \in Unit : LineOf(x) \in Line
  BY <1>3, LineFacts
<1>5. /\ MemOK(mem', Line, Tid) /\ mem'.ver = mem.ver
      /\ \A u \in Tid \ {t} : mem'.pend[u] = mem.pend[u]
      /\ \A l \in Line : mem.per[l] <= mem'.per[l]
      /\ \A l \in Line : <<l, mem.ver[l]>> \in mem.pend[t] => mem'.per[l] = mem.ver[l]
  BY <1>1, <1>2, FenceFacts
<1>6. PICK a \in 0 .. (Part - 1), d \in 1 .. (Part - 1) : OnRing(t, a, d, d) /\ Chasing
  BY <1>1, <1>2 DEF RingInv, Working, Measuring
<1>7. Linked(t, Part)
  BY <1>1, <1>2, <1>6 DEF RingInv, Working, Measuring
<1>8. cur' = cur
  BY <1>1, SameRun
<1>9. \A x : LineOf(x)' = LineOf(x)
  BY <1>1, SameRun
<1>10. /\ RingInv(t)' /\ pc'[t] = "access"
       /\ \A u \in Tid \ {t} : pc'[u] = pc[u] /\ p'[u] = p[u] /\ i'[u] = i[u]
  BY <1>1, <1>2, <1>6, <1>7, MoveFacts DEF OnRing
<1>11. ASSUME cur.op # "rd", NEW x \in seen[t]
       PROVE  mem'.per[LineOf(x)] = mem'.ver[LineOf(x)]
  <2>1. /\ \/ x = Target(t)
           \/ mem.per[LineOf(x)] = mem.ver[LineOf(x)]
        /\ <<l0, mem.ver[l0]>> \in mem.pend[t]
    BY <1>1, <1>2, <1>11 DEF PersInv, Measuring
  <2>2. LineOf(x) \in Line
    BY <1>2, <1>4
  <2>3. CASE x = Target(t)
    BY <1>4, <1>5, <2>1, <2>3
  <2>4. CASE mem.per[LineOf(x)] = mem.ver[LineOf(x)]
    <3> DEFINE l == LineOf(x)
    <3>1. l \in Line /\ mem.per[l] = mem.ver[l]
      BY <2>2, <2>4
    <3> HIDE DEF l
    <3>2. mem.per[l] <= mem'.per[l] /\ mem'.per[l] <= mem'.ver[l] /\ mem'.ver[l] = mem.ver[l]
      BY <1>5, <3>1 DEF MemOK
    <3>3. mem.ver[l] \in Nat /\ mem'.per[l] \in Nat
      BY <1>2, <1>5, <3>1 DEF MemOK
    <3>4. mem'.per[l] = mem'.ver[l]
      BY <3>1, <3>2, <3>3, SMT
    <3> QED BY <3>4 DEF l
  <2> QED BY <2>1, <2>3, <2>4
<1>12. PersInv(t)'
  BY <1>1, <1>8, <1>9, <1>10, <1>11 DEF PersInv
<1>13. \A u \in Tid \ {t} : RingInv(u)' /\ PersInv(u)'
  BY <1>1, <1>2, <1>5, <1>10, OthersKeep
<1>14. DOMAIN i' = Tid /\ p' \in [Tid -> Unit \cup {NULL}]
  BY <1>1, <1>2, <1>3, <1>6, MoveTypes DEF Target, Chasing
<1>15. TypeInv'
  <2>1. TypeInv
    BY DEF RingReady
  <2> QED BY <1>1, <1>5, <1>14, <2>1 DEF TypeInv
<1> QED BY <1>10, <1>12, <1>13, <1>15 DEF RingAll

\* A streaming store is sent off at once; with calculated offsets it clears
\* the pointer of a unit of the thread's own.
LEMMA RingStream ==
  ASSUME RingReady, NEW t \in Tid, AccessNt(t)
  PROVE  TypeInv' /\ RingAll'
<1> DEFINE l0 == TargetLine(t)
           m1 == Store(mem, {l0})
<1>1. /\ Alive /\ pc[t] = "access" /\ MoreUnits(t) /\ cur.op \in {"wr_nt", "wr_nt_sfence"}
      /\ UNCHANGED <<plan, r, n, exited, waiting, order, iter, start>>
      /\ See(t) /\ mem' = Clwb(m1, t, {l0})
      /\ next' = IF Chasing THEN next ELSE [next EXCEPT ![Target(t)] = NULL]
      /\ IF cur.op = "wr_nt" THEN Move(t) ELSE pc' = [pc EXCEPT ![t] = "sfence"] /\ UNCHANGED <<i, p>>
  <2>1. cur.trav = "CALC_OFFSET" <=> ~Chasing
    <3>1. Alive /\ BarrierInv
      BY DEF RingReady, AccessNt, At
    <3>2. cur \in Run
      BY <3>1, RunFacts DEF BarrierInv, Alive
    <3> QED BY <3>2 DEF Run, Chasing
  <2> QED BY <2>1 DEF AccessNt, NTStore, At, mvars
<1>2. /\ pc[t] \notin {"none", "joined"} /\ MemOK(mem, Line, Tid) /\ pc \in [Tid -> Building \cup Released]
      /\ DOMAIN seen = Tid /\ DOMAIN i = Tid /\ Part \in Nat /\ Part > 0 /\ t \in Nat
      /\ order[t] \in Orders(t) /\ RingInv(t) /\ PersInv(t) /\ Own(t) \subseteq Unit
      /\ next \in [Unit -> Unit \cup {NULL}] /\ p \in [Tid -> Unit \cup {NULL}]
  BY <1>1, StepFacts DEF Working, Measuring
<1>3. Target(t) \in Own(t) /\ Target(t) \notin seen[t] /\ Target(t) \in Unit
  BY <1>1, <1>2, TargetFacts
<1>4. /\ l0 = LineOf(Target(t)) /\ l0 \in Line
      /\ \A x, y : LineOf(x) = LineOf(y) => x = y
      /\ \A x \in Unit : LineOf(x) \in Line
      /\ \A x, s : <<x, s>> = l0 => x = Target(t)
  BY <1>3, LineFacts
<1>5. /\ seen'[t] = seen[t] \cup {Target(t)} /\ seen'[t] \subseteq Own(t)
      /\ \A u \in Tid \ {t} : seen'[u] = seen[u]
  BY <1>1, <1>2, SeeFacts
<1> HIDE DEF l0
<1>6. /\ MemOK(m1, Line, Tid) /\ m1.per = mem.per /\ m1.pend = mem.pend
      /\ \A l \in Line : m1.ver[l] = IF l \in {l0} THEN mem.ver[l] + 1 ELSE mem.ver[l]
  BY <1>2, StoreFacts
<1> HIDE DEF m1
<1>7. /\ MemOK(mem', Line, Tid) /\ mem'.ver = m1.ver /\ mem'.per = mem.per
      /\ \A u \in Tid \ {t} : mem'.pend[u] = mem.pend[u]
      /\ mem.pend[t] \subseteq mem'.pend[t]
      /\ <<l0, mem'.ver[l0]>> \in mem'.pend[t]
  BY <1>1, <1>6, ClwbFacts
<1>8. \A l \in Line : mem.per[l] <= mem'.per[l]
  <2>1. \A l \in Line : mem.per[l] \in Nat
    BY <1>2 DEF MemOK
  <2> QED BY <1>7, <2>1
<1>9. \A x \in Unit \ Own(t) :
        next'[x] = next[x] /\ \A s \in {"head", "pad"} : mem'.ver[<<x, s>>] = mem.ver[<<x, s>>]
  <2> SUFFICES ASSUME NEW x \in Unit \ Own(t)
               PROVE  next'[x] = next[x] /\ \A s \in {"head", "pad"} : mem'.ver[<<x, s>>] = mem.ver[<<x, s>>]
    OBVIOUS
  <2>1. \A s \in {"head", "pad"} : <<x, s>> \in Line /\ <<x, s>> # l0
    BY <1>3, <1>4 DEF Line
  <2>2. \A s \in {"head", "pad"} : mem'.ver[<<x, s>>] = mem.ver[<<x, s>>]
    BY <1>6, <1>7, <2>1
  <2>3. next'[x] = next[x]
    <3>1. x # Target(t)
      BY <1>3
    <3> QED BY <1>1, <1>2, <3>1
  <2> QED BY <2>2, <2>3
<1>10. /\ Part' = Part /\ Orders(t)' = Orders(t) /\ Own(t)' = Own(t) /\ (Chasing' <=> Chasing)
       /\ cur' = cur
       /\ \A k : Wrap(k)' = Wrap(k)
  BY <1>1, SameRun
<1>11. \A x : LineOf(x)' = LineOf(x)
  BY <1>1, SameRun
<1>12. ~Chasing => cur.op = "wr_nt"
  BY <1>1, PlanFacts DEF RingReady
<1>13. Chasing => Linked(t, Part) /\ next' = next
  BY <1>1, <1>2 DEF RingInv, Working, Measuring
<1>14. \A x \in seen[t] :
          \/ mem'.per[LineOf(x)] = mem'.ver[LineOf(x)]
          \/ cur.op \notin Strict /\ <<LineOf(x), mem'.ver[LineOf(x)]>> \in mem'.pend[t]
  <2>1. \A x \in seen[t] : LineOf(x) \in Line /\ LineOf(x) # l0
    BY <1>2, <1>3, <1>4, <1>5
  <2>2. \A x \in seen[t] :
          \/ mem.per[LineOf(x)] = mem.ver[LineOf(x)]
          \/ cur.op \notin Strict /\ <<LineOf(x), mem.ver[LineOf(x)]>> \in mem.pend[t]
    BY <1>1, <1>2 DEF PersInv, Measuring
  <2> QED BY <1>6, <1>7, <2>1, <2>2
<1>15. next' \in [Unit -> Unit \cup {NULL}] /\ DOMAIN seen' = Tid
  BY <1>1, <1>2 DEF See
<1>16. TypeInv
  BY DEF RingReady
<1>17. CASE cur.op = "wr_nt"
  <2>1. Move(t)
    BY <1>1, <1>17
  <2>2. /\ RingInv(t)' /\ pc'[t] = "access"
        /\ \A u \in Tid \ {t} : pc'[u] = pc[u] /\ p'[u] = p[u] /\ i'[u] = i[u]
    <3>1. Chasing => \E a \in 0 .. (Part - 1), d \in 1 .. (Part - 1) :
                /\ start[t] = order[t][a] /\ p[t] = order[t][Wrap(a + d)]
                /\ seen'[t] = {order[t][Wrap(a + e)] : e \in 1 .. d}
      BY <1>1, <1>2, SeeFacts
    <3>2. ~Chasing => i[t] \in 0 .. (Part - 1) /\ seen'[t] = {order[t][k] : k \in 0 .. i[t]}
      BY <1>1, <1>2, SeeFacts
    <3>3. order'[t] = order[t] /\ start'[t] = start[t] /\ UNCHANGED <<plan, r>> /\ DOMAIN p = Tid
      BY <1>1, <1>2
    <3> QED BY <1>2, <1>5, <1>13, <2>1, <3>1, <3>2, <3>3, MoveFacts
  <2>3. PersInv(t)'
    <3>1. cur.op \notin Strict /\ cur.op # "rd"
      BY <1>17 DEF Strict
    <3>2. \A x \in seen'[t] :
             \/ mem'.per[LineOf(x)] = mem'.ver[LineOf(x)]
             \/ <<LineOf(x), mem'.ver[LineOf(x)]>> \in mem'.pend[t]
      BY <1>4, <1>5, <1>7, <1>14
    <3> QED BY <1>10, <1>11, <2>2, <3>1, <3>2 DEF PersInv
  <2>4. \A u \in Tid \ {t} : RingInv(u)' /\ PersInv(u)'
    BY <1>1, <1>2, <1>5, <1>7, <1>8, <1>9, <2>2, OthersKeep
  <2>5. DOMAIN i' = Tid /\ p' \in [Tid -> Unit \cup {NULL}]
    BY <1>2, <1>3, <2>1, MoveTypes DEF Target, Chasing
  <2>6. TypeInv'
    BY <1>1, <1>7, <1>15, <1>16, <2>5 DEF TypeInv
  <2> QED BY <2>2, <2>3, <2>4, <2>6 DEF RingAll
<1>18. CASE cur.op # "wr_nt"
  <2>1. UNCHANGED <<i, p>> /\ pc'[t] = "sfence" /\ Chasing /\ \A u \in Tid \ {t} : pc'[u] = pc[u]
    BY <1>1, <1>2, <1>12, <1>18
  <2>2. RingInv(t)'
    <3>1. PICK a \in 0 .. (Part - 1), d \in 1 .. (Part - 1) :
                /\ start[t] = order[t][a] /\ p[t] = order[t][Wrap(a + d)]
                /\ seen'[t] = {order[t][Wrap(a + e)] : e \in 1 .. d}
      BY <1>1, <1>2, <2>1, SeeFacts
    <3>2. OnRing(t, a, d, d)'
      BY <1>1, <1>10, <2>1, <3>1 DEF OnRing
    <3>3. Linked(t, Part)'
      BY <1>1, <1>10, <1>13, <2>1 DEF Linked
    <3> QED BY <1>1, <1>2, <1>5, <1>10, <2>1, <3>2, <3>3 DEF RingInv
  <2>3. PersInv(t)'
    <3>1. Target(t)' = Target(t) /\ TargetLine(t)' = l0
      BY <1>1, <1>10, <2>1 DEF Target, TargetLine, l0
    <3>2. cur.op \in Strict
      BY <1>1, <1>18 DEF Strict
    <3> QED BY <1>5, <1>7, <1>10, <1>11, <1>14, <2>1, <3>1, <3>2 DEF PersInv
  <2>4. \A u \in Tid \ {t} : RingInv(u)' /\ PersInv(u)'
    BY <1>1, <1>2, <1>5, <1>7, <1>8, <1>9, <2>1, OthersKeep
  <2>5. TypeInv'
    BY <1>1, <1>2, <1>7, <1>15, <1>16, <2>1 DEF TypeInv
  <2> QED BY <2>2, <2>3, <2>4, <2>5 DEF RingAll
<1> QED BY <1>17, <1>18

\* A run that only reads goes along the ring.
LEMMA RingRead ==
  ASSUME RingReady, NEW t \in Tid, AccessRd(t)
  PROVE  TypeInv' /\ RingAll'
<1>1. /\ Alive /\ pc[t] = "access" /\ MoreUnits(t) /\ cur.op = "rd"
      /\ UNCHANGED <<plan, r, n, exited, waiting, order, iter, start, next, mem>>
      /\ See(t) /\ Move(t)
  BY DEF AccessRd, At, mvars
<1>2. /\ pc[t] \notin {"none", "joined"} /\ MemOK(mem, Line, Tid) /\ pc \in [Tid -> Building \cup Released]
      /\ DOMAIN seen = Tid /\ DOMAIN i = Tid /\ Part \in Nat /\ Part > 0 /\ t \in Nat
      /\ order[t] \in Orders(t) /\ RingInv(t) /\ Own(t) \subseteq Unit
      /\ next \in [Unit -> Unit \cup {NULL}] /\ p \in [Tid -> Unit \cup {NULL}]
  BY <1>1, StepFacts DEF Working, Measuring
<1>3. Target(t) \in Own(t) /\ Target(t) \in Unit
  BY <1>1, <1>2, TargetFacts
<1>4. seen'[t] \subseteq Own(t) /\ \A u \in Tid \ {t} : seen'[u] = seen[u]
  BY <1>1, <1>2, SeeFacts
<1>5. Chasing => Linked(t, Part)
  BY <1>1, <1>2 DEF RingInv, Working, Measuring
<1>6. /\ RingInv(t)' /\ pc'[t] = "access"
      /\ \A u \in Tid \ {t} : pc'[u] = pc[u] /\ p'[u] = p[u] /\ i'[u] = i[u]
  <2>1. Chasing => \E a \in 0 .. (Part - 1), d \in 1 .. (Part - 1) :
                /\ start[t] = order[t][a] /\ p[t] = order[t][Wrap(a + d)]
                /\ seen'[t] = {order[t][Wrap(a + e)] : e \in 1 .. d}
    BY <1>1, <1>2, SeeFacts
  <2>2. ~Chasing => i[t] \in 0 .. (Part - 1) /\ seen'[t] = {order[t][k] : k \in 0 .. i[t]}
    BY <1>1, <1>2, SeeFacts
  <2> QED BY <1>1, <1>2, <1>4, <1>5, <2>1, <2>2, MoveFacts
<1>7. PersInv(t)'
  <2>1. cur' = cur
    BY <1>1, SameRun
  <2> QED BY <1>1, <2>1 DEF PersInv
<1>8. \A u \in Tid \ {t} : RingInv(u)' /\ PersInv(u)'
  BY <1>1, <1>2, <1>4, <1>6, MemKept, OthersKeep
<1>9. DOMAIN i' = Tid /\ p' \in [Tid -> Unit \cup {NULL}]
  BY <1>1, <1>2, <1>3, MoveTypes DEF Target, Chasing
<1>10. TypeInv'
  <2>1. TypeInv
    BY DEF RingReady
  <2>2. DOMAIN seen' = Tid
    BY <1>1, <1>2 DEF See
  <2> QED BY <1>1, <1>2, <1>9, <2>1, <2>2, MemKept DEF TypeInv
<1> QED BY <1>6, <1>7, <1>8, <1>10 DEF RingAll

\* A new thread has sent nothing off.
LEMMA NoneSent ==
  ASSUME MemOK(mem, Line, Tid), NEW t \in Tid, mem' = [mem EXCEPT !.pend[t] = {}]
  PROVE  MemOK(mem', Line, Tid)
<1> DEFINE g == [mem.pend EXCEPT ![t] = {}]
<1>1. /\ DOMAIN mem' = {"ver", "per", "pend"} /\ mem'.ver = mem.ver /\ mem'.per = mem.per
      /\ mem'.pend = g
  BY DEF MemOK
<1>2. DOMAIN g = Tid /\ g[t] = {} /\ \A u \in Tid \ {t} : g[u] = mem.pend[u]
  BY DEF MemOK
<1> HIDE DEF g
<1> QED BY <1>1, <1>2 DEF MemOK

\* run: while a thread is at work no step of main touches what it works on.
LEMMA RingMain ==
  ASSUME RingReady, MainNext
  PROVE  TypeInv' /\ RingAll'
<1>0. Alive /\ TypeInv /\ RingAll /\ BarrierInv /\ MemOK(mem, Line, Tid)
  BY DEF MainNext, StartRun, Refuse, CreateThread, CreateFail, JoinThread, RingReady, TypeInv
<1>1. UNCHANGED <<plan, order, i, start, p, seen, next>>
  BY DEF MainNext, StartRun, Refuse, CreateThread, CreateFail, JoinThread, tvars
<1>2. Team \subseteq Tid /\ cur.threads \in Nat \ {0} /\ MaxThread \in Nat \ {0}
  <2>1. Team \subseteq Tid /\ cur.threads \in 1 .. MaxThread /\ MaxThread \in Nat \ {0}
    BY <1>0, RunFacts, LatAssumption DEF BarrierInv, Alive
  <2> QED BY <2>1
<1>3. ASSUME NEW u \in Tid, pc'[u] \notin Working PROVE RingInv(u)' /\ PersInv(u)'
  BY <1>3 DEF RingInv, PersInv, Working
<1>4. {"none", "begin", "joined"} \cap Working = {}
  BY DEF Working, Measuring
<1>5. CASE StartRun
  <2>1. /\ n' = 0 /\ waiting' = {} /\ pc' = [t \in Tid |-> "none"] /\ UNCHANGED <<exited, mem>>
    BY <1>5 DEF StartRun
  <2>2. \A u \in Tid : RingInv(u)' /\ PersInv(u)'
    BY <1>3, <1>4, <2>1
  <2>3. n' \in Tid
    BY <1>2, <2>1 DEF Tid
  <2> QED BY <1>0, <1>1, <2>1, <2>2, <2>3 DEF TypeInv, RingAll
<1>6. CASE Refuse \/ CreateFail
  <2>1. /\ exited' \in {"refused", "terminated"} /\ UNCHANGED <<n, waiting, mem>>
    BY <1>6 DEF Refuse, CreateFail
  <2> QED BY <1>0, <1>1, <2>1 DEF TypeInv, RingAll, Alive
<1>7. CASE CreateThread
  <2>1. /\ main = "create" /\ pc' = [pc EXCEPT ![n] = "begin"] /\ mem' = [mem EXCEPT !.pend[n] = {}]
        /\ UNCHANGED <<r, exited, waiting>>
        /\ n' = IF n + 1 < cur.threads THEN n + 1 ELSE 0
    BY <1>7 DEF CreateThread
  <2>2. n \in Team /\ n \in Tid /\ pc \in [Tid -> Building \cup Released]
    BY <1>0, <1>2, <2>1 DEF BarrierInv
  <2>3. \A u \in Team : pc[u] \in Building
    <3>1. pc[n] = "none"
      BY <1>0, <2>1, <2>2 DEF BarrierInv, Team
    <3>2. "none" \notin Released
      BY DEF Released, Measuring
    <3> QED BY <1>0, <2>1, <2>2, <3>1, <3>2 DEF BarrierInv
  <2>4. ASSUME NEW u \in Tid PROVE RingInv(u)' /\ PersInv(u)'
    <3>1. CASE u = n
      <4>1. pc'[u] = "begin"
        BY <2>1, <2>2, <3>1
      <4> QED BY <1>3, <1>4, <4>1
    <3>2. CASE u # n
      <4>1. pc'[u] = pc[u] /\ pc[u] \notin Measuring /\ RingInv(u)
        <5>1. pc'[u] = pc[u] /\ RingInv(u)
          BY <1>0, <2>1, <2>2, <3>2 DEF RingAll
        <5>2. pc[u] \in Building
          <6>1. u \notin Team => pc[u] = "none"
            BY <1>0, <2>1 DEF BarrierInv
          <6> QED BY <2>3, <6>1 DEF Building
        <5> QED BY <5>1, <5>2 DEF Building, Measuring
      <4>2. PersInv(u)'
        BY <4>1 DEF PersInv
      <4>3. CASE pc[u] \in {"none", "joined"}
        BY <1>3, <1>4, <4>1, <4>3
      <4>4. CASE pc[u] \notin {"none", "joined"}
        <5>1. u \in Nat /\ Part \in Nat
          BY <1>0, <4>4, AtWork DEF RingReady
        <5>2. RingInv(u)'
          BY <1>1, <2>1, <4>1, <5>1, RingElse
        <5> QED BY <4>2, <5>2
      <4> QED BY <4>3, <4>4
    <3> QED BY <3>1, <3>2
  <2>5. n' \in Tid
    <3>1. n' \in Team
      BY <1>2, <2>1, <2>2, SMT DEF Team
    <3> QED BY <1>2, <3>1
  <2>6. MemOK(mem', Line, Tid)
    BY <1>0, <2>1, <2>2, NoneSent
  <2> QED BY <1>0, <1>1, <2>1, <2>4, <2>5, <2>6 DEF TypeInv, RingAll
<1>8. CASE JoinThread
  <2>1. /\ main = "join" /\ pc' = [pc EXCEPT ![n] = "joined"] /\ UNCHANGED <<exited, waiting, mem>>
        /\ n' = IF n + 1 < cur.threads THEN n + 1 ELSE 0
        /\ pc[n] = "done" /\ (n + 1 < cur.threads => r' = r /\ main' = "join")
        /\ (~(n + 1 < cur.threads) => main' = "run")
    BY <1>8 DEF JoinThread
  <2>2. n \in Team /\ n \in Tid /\ pc \in [Tid -> Building \cup Released]
    BY <1>0, <1>2, <2>1 DEF BarrierInv
  <2>3. n' \in Tid
    <3>1. n' \in Team
      BY <1>2, <2>1, <2>2, SMT DEF Team
    <3> QED BY <1>2, <3>1
  <2>4. TypeInv'
    BY <1>0, <1>1, <2>1, <2>3 DEF TypeInv
  <2>5. pc'[n] = "joined" /\ \A u \in Tid \ {n} : pc'[u] = pc[u]
    BY <2>1, <2>2
  <2>6. CASE n + 1 < cur.threads
    <3>1. r' = r
      BY <2>1, <2>6
    <3>2. \A u \in Tid \ {n} : RingInv(u)' /\ PersInv(u)'
      <4>1. pc[n] \notin {"none", "joined"}
        BY <2>1
      <4> QED BY <1>0, <1>1, <2>1, <2>2, <2>5, <3>1, <4>1, MemKept, OthersKeep
    <3>3. \A u \in Tid : RingInv(u)' /\ PersInv(u)'
      BY <3>2, <1>3, <1>4, <2>5
    <3> QED BY <2>4, <3>3 DEF RingAll
  <2>7. CASE ~(n + 1 < cur.threads)
    <3>1. BarrierInv' /\ main' = "run"
      BY <1>0, <2>1, <2>7, BarrierMain
    <3>2. Alive' => \A u \in Tid : pc'[u] \in {"none", "joined"}
      BY <3>1 DEF BarrierInv
    <3>3. Alive' => \A u \in Tid : RingInv(u)' /\ PersInv(u)'
      BY <1>3, <1>4, <3>2
    <3> QED BY <2>4, <3>3 DEF RingAll
  <2> QED BY <2>6, <2>7
<1> QED BY <1>5, <1>6, <1>7, <1>8 DEF MainNext

\* At the beginning no thread works and nothing is written.
LEMMA RingInit == Init => RingReady
<1> SUFFICES ASSUME Init PROVE RingReady
  OBVIOUS
<1>1. BarrierInv /\ SizeInv
  BY BarrierInit DEF Init, SizeInv
<1>2. MemOK(mem, Line, Tid)
  BY ZeroFacts DEF Init, Line
<1>3. n \in Tid
  BY LatAssumption DEF Init, Tid
<1>4. TypeInv
  BY <1>2, <1>3 DEF Init, TypeInv
<1>5. RingAll
  BY DEF Init, RingAll, RingInv, PersInv, Working, Measuring
<1> QED BY <1>1, <1>4, <1>5 DEF RingReady

\* Every step keeps them.
LEMMA RingNext == RingReady /\ [Next]_vars => RingReady'
<1> SUFFICES ASSUME RingReady, [Next]_vars PROVE RingReady'
  OBVIOUS
<1>1. BarrierInv' /\ SizeInv'
  BY BarrierNext, SizeNext DEF RingReady
<1>2. CASE UNCHANGED vars
  <2>1. /\ UNCHANGED <<plan, r, main, n, exited, pc, waiting, order, i, start, p, next, mem, seen>>
    BY <1>2 DEF vars, mvars, tvars
  <2>2. TypeInv'
    BY <2>1 DEF RingReady, TypeInv
  <2>3. ASSUME Alive', NEW u \in Tid PROVE RingInv(u)' /\ PersInv(u)'
    <3>1. Alive /\ BarrierInv /\ SizeInv /\ RingInv(u) /\ PersInv(u) /\ MemOK(mem, Line, Tid)
      BY <2>1, <2>3 DEF RingReady, RingAll, TypeInv, Alive, Ended
    <3>2. CASE pc[u] \in {"none", "joined"}
      BY <2>1, <3>2 DEF RingInv, PersInv, Working, Measuring
    <3>3. CASE pc[u] \notin {"none", "joined"}
      <4>1. u \in Nat /\ Part \in Nat /\ Own(u) \subseteq Unit
        BY <3>1, <3>3, AtWork
      <4>2. RingInv(u)'
        BY <2>1, <3>1, <4>1, RingElse
      <4>3. PersInv(u)'
        BY <2>1, <3>1, <4>1, MemKept, PersElse
      <4> QED BY <4>2, <4>3
    <3> QED BY <3>2, <3>3
  <2> QED BY <1>1, <2>2, <2>3 DEF RingReady, RingAll
<1>3. CASE MainNext
  BY <1>1, <1>3, RingMain DEF RingReady
<1>4. ASSUME NEW t \in Tid, ThreadStep(t) PROVE TypeInv' /\ RingAll'
  <2>1. CASE EmptyPart(t)
    <3>1. ~Alive' /\ exited' = "terminated" /\ UNCHANGED <<n, waiting, order, i, start, p, next, mem, seen>>
      BY <2>1 DEF EmptyPart, Alive, tvars
    <3> QED BY <3>1 DEF RingReady, TypeInv, RingAll
  <2>2. CASE DrawOrder(t) \/ LinkUnit(t) \/ BarrierBlock(t) \/ BarrierRelease(t)
    BY <2>2, RingDraw, RingLink, RingBlock, RingRelease
  <2>3. CASE BeginChase(t) \/ BeginCalc(t) \/ EndIteration(t) \/ ThreadEnd(t)
    BY <2>3, RingChase, RingCalc, RingEnd
  <2>4. CASE AccessClwb(t) \/ WriteBack(t) \/ AccessNt(t) \/ StoreFence(t) \/ AccessRd(t)
    BY <2>4, RingStore, RingWriteBack, RingStream, RingFence, RingRead
  <2> QED BY <1>4, <2>1, <2>2, <2>3, <2>4 DEF ThreadStep
<1> QED BY <1>1, <1>2, <1>3, <1>4 DEF Next, RingReady

\* The pointers of a chase stay on units, and no line is durable before it is
\* written, for any runs.
THEOREM TypesCorrect == Spec => []TypeOK
<1>1. RingReady => TypeOK
  <2> SUFFICES ASSUME RingReady PROVE TypeOK
    OBVIOUS
  <2>1. DOMAIN mem.ver = Line /\ \A l \in Line : mem.per[l] <= mem.ver[l]
    BY DEF RingReady, TypeInv, MemOK
  <2> QED BY <2>1 DEF RingReady, TypeInv, BarrierInv, TypeOK, Released, Tid
<1> QED BY <1>1, RingInit, RingNext, PTL DEF Spec

\* In one iteration a thread accesses each unit of its part once, all but the
\* one where a chase starts, and no unit of another thread: for any number of
\* threads, any working sets and any order drawn, also over pointers that an
\* earlier run has cleared.
THEOREM UnitsOnce == Spec => []EachUnitOnce
<1>1. RingReady => EachUnitOnce
  <2> SUFFICES ASSUME RingReady, Alive, main # "run"
               PROVE  PartsApart /\ \A t \in 0 .. (cur.threads - 1) :
                        /\ pc[t] \in Measuring => seen[t] \subseteq Own(t)
                        /\ (pc[t] = "access" /\ MoreUnits(t)) => Target(t) \in Own(t) \ seen[t]
                        /\ (pc[t] = "access" /\ ~MoreUnits(t)) =>
                             seen[t] = IF cur.trav = "CHASING_PTR" THEN Own(t) \ {start[t]} ELSE Own(t)
    BY DEF EachUnitOnce
  <2>1. /\ cur \in Run /\ Team \subseteq Tid /\ cur.threads \in Nat \ {0} /\ cur.wss \in Nat
    <3>1. cur \in Run /\ Team \subseteq Tid /\ cur.threads \in 1 .. MaxThread
      BY RunFacts DEF RingReady, BarrierInv, Alive
    <3> QED BY <3>1, LatAssumption DEF Run
  <2>2. PartsApart
    BY <2>1, DividedApart DEF RingReady, SizeInv
  <2>3. Part \in Nat
    BY <2>1, PartFacts DEF Part
  <2>4. ASSUME NEW t \in Team
        PROVE  /\ pc[t] \in Measuring => seen[t] \subseteq Own(t)
               /\ (pc[t] = "access" /\ MoreUnits(t)) => Target(t) \in Own(t) \ seen[t]
               /\ (pc[t] = "access" /\ ~MoreUnits(t)) =>
                    seen[t] = IF Chasing THEN Own(t) \ {start[t]} ELSE Own(t)
    <3>1. t \in Tid /\ t \in Nat /\ RingInv(t)
      BY <2>1 DEF RingReady, RingAll, Tid
    <3>2. pc[t] \in Measuring => seen[t] \subseteq Own(t)
      BY <3>1 DEF RingInv, Working
    <3>3. (pc[t] = "access" /\ MoreUnits(t)) => Target(t) \in Own(t) \ seen[t]
      BY <2>3, <3>1, TargetFacts
    <3>4. ASSUME pc[t] = "access", ~MoreUnits(t)
          PROVE  seen[t] = IF Chasing THEN Own(t) \ {start[t]} ELSE Own(t)
      <4> DEFINE o == order[t]
                 S == 0 .. (Part - 1)
      <4>1. /\ o \in [S -> Own(t)] /\ \A x, y \in S : o[x] = o[y] => x = y
            /\ \A u \in Own(t) : \E k \in S : o[k] = u
        <5>1. Part > 0 /\ o \in Orders(t)
          BY <3>1, <3>4 DEF RingInv, Working, Measuring
        <5> QED BY <2>3, <3>1, <5>1, OrderFacts
      <4>2. CASE Chasing
        <5>1. PICK a \in S, d \in 1 .. Part : OnRing(t, a, d, d - 1)
          BY <3>1, <3>4, <4>2 DEF RingInv, Working, Measuring
        <5>2. Wrap(a + d) \in S
          <6>1. d \in 0 .. Part
            BY <2>3
          <6> QED BY <2>3, <6>1, WrapFacts
        <5>3. Wrap(a + d) = a
          BY <3>4, <4>1, <4>2, <5>1, <5>2 DEF OnRing, MoreUnits, Chasing
        <5>4. d = Part
          BY <2>3, <5>3, WrapFacts
        <5>5. seen[t] = {o[Wrap(a + e)] : e \in 1 .. (Part - 1)} /\ start[t] = o[a]
          BY <5>1, <5>4 DEF OnRing
        <5>6. ASSUME NEW e \in 1 .. (Part - 1) PROVE o[Wrap(a + e)] \in Own(t) \ {o[a]}
          <6>1. e \in 0 .. Part /\ e \in 1 .. Part /\ e # Part
            BY <2>3
          <6>2. Wrap(a + e) \in S /\ Wrap(a + e) # a
            BY <2>3, <6>1, WrapFacts
          <6> QED BY <4>1, <6>2
        <5>7. ASSUME NEW u \in Own(t) \ {o[a]} PROVE \E e \in 1 .. (Part - 1) : o[Wrap(a + e)] = u
          <6>1. PICK k \in S : o[k] = u
            BY <4>1
          <6>2. k # a
            BY <6>1
          <6>3. PICK e \in 1 .. (Part - 1) : Wrap(a + e) = k
            <7>1. a \in 0 .. (Part - 1) /\ k \in 0 .. (Part - 1)
              OBVIOUS
            <7>2. \A j \in 0 .. (Part - 1) : j # a => \E e \in 1 .. (Part - 1) : Wrap(a + e) = j
              BY ONLY <2>3, <7>1, WrapFacts
            <7> QED BY ONLY <6>2, <7>1, <7>2
          <6> QED BY <6>1, <6>3
        <5> QED BY <4>2, <5>5, <5>6, <5>7
      <4>3. CASE ~Chasing
        <5>1. i[t] \in 0 .. Part /\ ~(i[t] < Part) /\ seen[t] = {o[k] : k \in 0 .. (i[t] - 1)}
          BY <3>1, <3>4, <4>3 DEF RingInv, Working, Measuring, MoreUnits, Chasing
        <5>2. i[t] = Part
          BY <2>3, <5>1
        <5>3. seen[t] = {o[k] : k \in S}
          BY <5>1, <5>2
        <5> HIDE DEF S, o
        <5>4. Own(t) = {o[k] : k \in S}
          BY ONLY <4>1
        <5> QED BY <4>3, <5>3, <5>4
      <4> QED BY <4>2, <4>3
    <3> QED BY <3>2, <3>3, <3>4
  <2> QED BY <2>2, <2>4 DEF Team, Chasing
<1> QED BY <1>1, RingInit, RingNext, PTL DEF Spec

\* Strict persistency leaves at most the line at work to a power failure,
\* relaxed persistency at most what one sfence of the thread makes durable,
\* for any number of threads that store and fence side by side.
THEOREM PersistencyHolds == Spec => []PersistencyAsNamed
<1>1. RingReady => PersistencyAsNamed
  <2> SUFFICES ASSUME RingReady, Alive, NEW t \in 0 .. (cur.threads - 1),
                      pc[t] \in Measuring, cur.op # "rd"
               PROVE  LET part == IF cur.trav = "CHASING_PTR" THEN "pad" ELSE "head"
                          done == {<<u, part>> : u \in seen[t]} \ (IF pc[t] \in {"clwb", "sfence"} THEN {TargetLine(t)} ELSE {})
                      IN  IF cur.op \in {"wr_clwb_sfence", "wr_nt_sfence"} THEN Lost(mem) \cap done = {}
                          ELSE Lost(Fence(mem, t)) \cap done = {}
    BY DEF PersistencyAsNamed
  <2>1. t \in Tid
    BY RunFacts DEF RingReady, BarrierInv, Alive, Team
  <2>2. /\ t \in Nat /\ MemOK(mem, Line, Tid) /\ PersInv(t) /\ seen[t] \subseteq Own(t) /\ Own(t) \subseteq Unit
    BY <2>1, StepFacts DEF Working
  <2>3. /\ \A x \in Unit : LineOf(x) \in Line
        /\ TargetLine(t) = LineOf(Target(t))
    BY LineFacts
  <2> DEFINE done == {LineOf(u) : u \in seen[t]} \ (IF pc[t] \in {"clwb", "sfence"} THEN {TargetLine(t)} ELSE {})
  <2>4. ASSUME NEW l \in done
        PROVE  /\ l \in Line
               /\ \/ mem.per[l] = mem.ver[l]
                  \/ cur.op \notin Strict /\ <<l, mem.ver[l]>> \in mem.pend[t]
    <3>1. PICK x \in seen[t] : l = LineOf(x) /\ ~(pc[t] \in {"clwb", "sfence"} /\ x = Target(t))
      BY <2>3
    <3>2. \/ mem.per[LineOf(x)] = mem.ver[LineOf(x)]
          \/ cur.op \notin Strict /\ <<LineOf(x), mem.ver[LineOf(x)]>> \in mem.pend[t]
      BY <2>2, <3>1 DEF PersInv
    <3> QED BY <2>2, <2>3, <3>1, <3>2
  <2> HIDE DEF done
  <2>5. /\ MemOK(Fence(mem, t), Line, Tid) /\ Fence(mem, t).ver = mem.ver
        /\ \A l \in Line : mem.per[l] <= Fence(mem, t).per[l]
        /\ \A l \in Line : <<l, mem.ver[l]>> \in mem.pend[t] => Fence(mem, t).per[l] = mem.ver[l]
    BY <2>1, <2>2, FenceFacts
  <2>6. ASSUME cur.op \in Strict PROVE Lost(mem) \cap done = {}
    <3> SUFFICES ASSUME NEW l \in done, mem.per[l] < mem.ver[l] PROVE FALSE
      BY DEF Lost
    <3>1. mem.per[l] = mem.ver[l] /\ mem.ver[l] \in Nat
      BY <2>2, <2>4, <2>6 DEF MemOK
    <3> QED BY <3>1
  <2>7. Lost(Fence(mem, t)) \cap done = {}
    <3> DEFINE f == Fence(mem, t)
    <3> HIDE DEF f
    <3> SUFFICES ASSUME NEW l \in done, f.per[l] < f.ver[l] PROVE FALSE
      BY DEF Lost, f
    <3>1. /\ l \in Line /\ MemOK(f, Line, Tid) /\ f.ver = mem.ver /\ mem.per[l] <= f.per[l]
          /\ <<l, mem.ver[l]>> \in mem.pend[t] => f.per[l] = mem.ver[l]
      BY <2>4, <2>5 DEF f
    <3>2. f.per[l] \in Nat /\ f.ver[l] \in Nat /\ mem.per[l] \in Nat
      BY <2>2, <3>1 DEF MemOK
    <3>3. mem.per[l] = f.ver[l] \/ f.per[l] = f.ver[l]
      BY <2>4, <3>1
    <3>4. mem.per[l] <= f.per[l]
      BY <3>1
    <3> QED BY <3>2, <3>3, <3>4, SMT
  <2> QED BY <2>6, <2>7 DEF done, LineOf, Strict, Chasing
<1> QED BY <1>1, RingInit, RingNext, PTL DEF Spec
=============================================================================
