--------------------------- MODULE ChasingProofs ---------------------------
(***************************************************************************)
(* Proofs about ChasingIndex for any size of the index, any number of      *)
(* blocks and any access size: what is drawn is one cycle at every step,   *)
(* the kernels follow it, and the chain is durable before it is loaded.    *)
(***************************************************************************)
EXTENDS ChasingIndex, PMemProofs

Storing == {"store", "storefence"}
Loading == {"load", "loadfence", "done"}

\* The blocks of the memory, and the accesses to each: both loops test at
\* their end.
Blocks == IF count > 1 THEN count ELSE 1
Steps == IF size > 1 THEN size ELSE 1
Position == 0 .. (csize - 1)
Line == 0 .. (csize * Blocks - 1)

\* d lists the positions drawn: each points to the one behind it, the last
\* one back to 0.
Chain(d) ==
  /\ d \in [0 .. i -> Position] /\ d[0] = 0 /\ d[i] = curr_pos
  /\ \A m, n \in 0 .. i : d[m] = d[n] => m = n
  /\ \A k \in 0 .. (i - 1) : cindex[d[k]] = d[k + 1]
  /\ cindex[curr_pos] = 0

\* The arguments, and the cycle as it grows.
CycleInv ==
  /\ csize \in Nat \ {0} /\ count \in Nat /\ size \in Int
  /\ pc \in {"test", "draw", "failed"} \cup Storing \cup Loading
  /\ cindex \in [Position -> Position] /\ i \in Position
  /\ tries \in 0 .. MaxRetry /\ (pc = "draw" => tries < MaxRetry)
  /\ pc = "draw" => i < csize - 1
  /\ pc \in Storing \cup Loading => i = csize - 1
  /\ \E d \in [0 .. i -> Position] : Chain(d)

\* Remainders as one counts on.
LEMMA ModNext ==
  ASSUME NEW m \in Nat \ {0}, NEW k \in Nat
  PROVE  /\ k % m \in 0 .. (m - 1)
         /\ (k + 1) % m = IF k % m = m - 1 THEN 0 ELSE (k % m) + 1
<1> DEFINE q == k \div m
           x == k % m
           y == (k + 1) \div m
           z == (k + 1) % m
<1>1. /\ q \in Nat /\ x \in 0 .. (m - 1) /\ k = q * m + x
      /\ y \in Nat /\ z \in 0 .. (m - 1) /\ k + 1 = y * m + z
  BY SMT
<1> HIDE DEF q, x, y, z
<1>2. ASSUME NEW e \in Nat, NEW f \in Nat, e < f PROVE e * m + m <= f * m
  <2>1. PICK c \in Nat : f = e + 1 + c
    <3>1. f - e - 1 \in Nat /\ f = e + 1 + (f - e - 1)
      BY <1>2
    <3> QED BY <3>1
  <2>2. f * m = e * m + m + c * m /\ c * m \in Nat /\ e * m \in Nat
    BY <2>1, SMT
  <2> QED BY <2>2, SMT
<1>3. ASSUME NEW e \in Nat, NEW c \in 0 .. (m - 1), k + 1 = e * m + c PROVE z = c
  <2>1. e * m \in Nat /\ y * m \in Nat
    BY <1>1, SMT
  <2>2. CASE e = y
    BY <1>1, <1>3, <2>1, <2>2, SMT
  <2>3. CASE e < y
    <3>1. e * m + m <= y * m
      BY <1>1, <1>2, <2>3
    <3> QED BY <1>1, <1>3, <2>1, <3>1, SMT
  <2>4. CASE y < e
    <3>1. y * m + m <= e * m
      BY <1>1, <1>2, <2>4
    <3> QED BY <1>1, <1>3, <2>1, <3>1, SMT
  <2> QED BY <1>1, <2>2, <2>3, <2>4, SMT
<1>4. CASE x = m - 1
  <2>1. k + 1 = (q + 1) * m + 0
    <3>1. (q + 1) * m = q * m + m /\ q * m \in Nat
      BY <1>1, SMT
    <3> QED BY <1>1, <1>4, <3>1, SMT
  <2>2. q + 1 \in Nat /\ 0 \in 0 .. (m - 1)
    BY <1>1
  <2>3. z = 0
    BY <1>3, <2>1, <2>2
  <2> QED BY <1>1, <1>4, <2>3 DEF x, z
<1>5. CASE x # m - 1
  <2>1. x + 1 \in 0 .. (m - 1)
    BY <1>1, <1>5
  <2>2. k + 1 = q * m + (x + 1)
    <3>1. q * m \in Nat
      BY <1>1, SMT
    <3> QED BY <1>1, <3>1, SMT
  <2>3. z = x + 1
    BY <1>1, <1>3, <2>1, <2>2
  <2> QED BY <1>1, <1>5, <2>3 DEF x, z
<1> QED BY <1>4, <1>5

\* Small numbers are their own remainders.
LEMMA ModSmall ==
  ASSUME NEW m \in Nat \ {0}, NEW k \in 0 .. (m - 1)
  PROVE  k % m = k
BY SMT

\* A set of numbers that holds 0, and with each number the next, up to a
\* bound, holds all up to the bound.
LEMMA CountUp ==
  ASSUME NEW S, NEW v \in Nat, 0 \in S, \A k \in 0 .. (v - 1) : k \in S => k + 1 \in S
  PROVE  0 .. v \subseteq S
<1> DEFINE T == {k \in 0 .. v : \E x \in (0 .. v) \ S : x = v - k}
<1>1. SUFFICES ASSUME T # {} PROVE FALSE
  <2>1. ASSUME NEW x \in (0 .. v) \ S PROVE v - x \in T
    <3>1. v - x \in 0 .. v /\ x = v - (v - x)
      BY SMT
    <3> QED BY <3>1
  <2> QED BY <1>1, <2>1
<1>2. T \in SUBSET (0 .. v)
  OBVIOUS
<1> DEFINE h == Max(T)
<1>3. h \in T /\ \A y \in T : y <= h
  <2> HIDE DEF T
  <2> QED BY <1>1, <1>2, MaxFacts
<1> HIDE DEF h
<1>4. PICK x \in (0 .. v) \ S : x = v - h
  BY <1>3
<1>5. x # 0 /\ h \in 0 .. v /\ x \in 0 .. v
  BY <1>3
<1>6. x - 1 \in 0 .. (v - 1) /\ (x - 1) + 1 = x /\ h + 1 \in 0 .. v /\ x - 1 = v - (h + 1)
  BY <1>4, <1>5, SMT
<1>7. x - 1 \notin S
  BY <1>4, <1>6
<1>8. h + 1 \in T
  <2>1. x - 1 \in (0 .. v) \ S
    BY <1>5, <1>6, <1>7, SMT
  <2> QED BY <1>6, <2>1
<1>9. h + 1 <= h
  BY <1>3, <1>8
<1> QED BY <1>5, <1>9

\* The positions reached from 0 are those of the chain, round after round.
LEMMA FollowFacts ==
  ASSUME csize \in Nat \ {0}, i \in Position, cindex \in [Position -> Position],
         NEW d \in [0 .. i -> Position], Chain(d)
  PROVE  /\ Follow \in [Nat -> Position] /\ Follow[0] = 0
         /\ \A k \in Nat : Follow[k + 1] = cindex[Follow[k]]
         /\ \A k \in 0 .. i : Follow[k] = d[k]
         /\ Follow[i + 1] = 0
<1> DEFINE m == i + 1
           g == [k \in Nat |-> d[k % m]]
<1>1. m \in Nat \ {0} /\ i \in Nat /\ m - 1 = i
  BY DEF Position
<1> HIDE DEF m
<1>2. \A k \in Nat : k % m \in 0 .. i /\ (k + 1) % m = IF k % m = i THEN 0 ELSE (k % m) + 1
  BY <1>1, ModNext
<1>3. \A k \in 0 .. i : k % m = k
  BY <1>1, ModSmall
<1>4. g \in [Nat -> Position] /\ g[0] = 0
  <2>1. 0 % m = 0
    BY <1>1, <1>3
  <2> QED BY <1>2, <2>1 DEF Chain
<1>5. ASSUME NEW k \in Nat PROVE g[k + 1] = cindex[g[k]]
  <2> DEFINE x == k % m
             z == (k + 1) % m
  <2>1. g[k + 1] = d[z] /\ g[k] = d[x]
    <3>1. k + 1 \in Nat
      OBVIOUS
    <3> QED BY <3>1, Zenon
  <2>2. x \in 0 .. i /\ z = IF x = i THEN 0 ELSE x + 1
    BY <1>2
  <2> HIDE DEF x, z, g
  <2>3. CASE x = i
    BY <2>1, <2>2, <2>3 DEF Chain
  <2>4. CASE x # i
    <3>1. x \in 0 .. (i - 1) /\ z = x + 1
      BY <1>1, <2>2, <2>4
    <3> QED BY <2>1, <3>1 DEF Chain
  <2> QED BY <2>3, <2>4
<1> HIDE DEF g
<1>6. g = [k \in Nat |-> IF k = 0 THEN 0 ELSE cindex[g[k - 1]]]
  <2>1. ASSUME NEW k \in Nat PROVE g[k] = IF k = 0 THEN 0 ELSE cindex[g[k - 1]]
    <3>1. CASE k = 0
      BY <1>4, <3>1
    <3>2. CASE k # 0
      <4>1. k - 1 \in Nat /\ (k - 1) + 1 = k
        BY <3>2
      <4> QED BY <1>5, <3>2, <4>1
    <3> QED BY <3>1, <3>2
  <2> QED BY <1>4, <2>1
<1>7. Follow = [k \in Nat |-> IF k = 0 THEN 0 ELSE cindex[Follow[k - 1]]]
  BY <1>6 DEF Follow
<1>8. ASSUME NEW k \in Nat PROVE Follow[k] = g[k]
  <2> DEFINE S == {j \in Nat : Follow[j] = g[j]}
  <2>1. 0 \in S
    BY <1>4, <1>7
  <2>2. \A j \in 0 .. (k - 1) : j \in S => j + 1 \in S
    <3> SUFFICES ASSUME NEW j \in 0 .. (k - 1), j \in S PROVE j + 1 \in S
      OBVIOUS
    <3>1. j \in Nat /\ j + 1 \in Nat /\ j + 1 # 0 /\ (j + 1) - 1 = j
      OBVIOUS
    <3>2. Follow[j + 1] = cindex[Follow[j]]
      BY <1>7, <3>1
    <3> QED BY <1>5, <3>1, <3>2
  <2>3. 0 .. k \subseteq S
    <3> HIDE DEF S
    <3> QED BY <2>1, <2>2, CountUp
  <2> QED BY <2>3
<1>9. Follow = g
  BY <1>4, <1>7, <1>8
<1>10. g[i + 1] = 0 /\ \A k \in 0 .. i : g[k] = d[k]
  <2>1. \A k \in 0 .. i : g[k] = d[k]
    BY <1>3 DEF g
  <2>2. i \in 0 .. i
    BY <1>1
  <2>3. g[i + 1] = cindex[d[i]]
    BY <1>1, <1>5, <2>1, <2>2
  <2> QED BY <2>1, <2>3 DEF Chain
<1> QED BY <1>4, <1>5, <1>9, <1>10

\* At the start the cycle is position 0 alone.
LEMMA CycleInit == Init => CycleInv
<1> SUFFICES ASSUME Init PROVE CycleInv
  OBVIOUS
<1>1. /\ csize \in Nat \ {0} /\ count \in Nat /\ size \in Int /\ MaxRetry \in Nat \ {0}
      /\ i = 0 /\ curr_pos = 0 /\ tries = 0 /\ pc = "test" /\ cindex = [p \in 0 .. (csize - 1) |-> 0]
  BY ChasingAssumption DEF Init
<1>2. 0 \in Position /\ 0 .. i = {0} /\ 0 .. (i - 1) = {}
  BY <1>1 DEF Position
<1>3. cindex \in [Position -> Position] /\ cindex[0] = 0
  BY <1>1, <1>2 DEF Position
<1> DEFINE d == [k \in 0 .. i |-> 0]
<1>4. d \in [0 .. i -> Position] /\ Chain(d)
  BY <1>1, <1>2, <1>3 DEF Chain
<1>5. \E e \in [0 .. i -> Position] : Chain(e)
  BY <1>4
<1> HIDE DEF d
<1> QED BY <1>1, <1>2, <1>3, <1>5 DEF CycleInv, Storing, Loading

\* A position that was not used is behind the last one in the chain, and
\* points back to 0.
LEMMA CycleGrows ==
  ASSUME CycleInv, NEW next_pos \in DOMAIN cindex, DrawFree(next_pos)
  PROVE  CycleInv'
<1>1. /\ pc = "draw" /\ cindex[next_pos] = 0 /\ next_pos # curr_pos
      /\ cindex' = [cindex EXCEPT ![curr_pos] = next_pos] /\ curr_pos' = next_pos /\ i' = i + 1
      /\ pc' = "test" /\ UNCHANGED <<csize, count, size, tries>>
  BY DEF DrawFree, Taken, args
<1>2. /\ csize \in Nat \ {0} /\ i \in Position /\ i < csize - 1 /\ cindex \in [Position -> Position]
      /\ next_pos \in Position /\ Position' = Position
  BY <1>1 DEF CycleInv, Position
<1>3. i \in Nat /\ i + 1 \in Position
  BY <1>2 DEF Position
<1>4. PICK d \in [0 .. i -> Position] : Chain(d)
  BY DEF CycleInv
<1>5. /\ d[0] = 0 /\ d[i] = curr_pos /\ cindex[curr_pos] = 0
      /\ \A x, y \in 0 .. i : d[x] = d[y] => x = y
      /\ \A k \in 0 .. (i - 1) : cindex[d[k]] = d[k + 1]
  BY <1>4 DEF Chain
<1>6. curr_pos \in Position
  <2>1. i \in 0 .. i
    BY <1>3
  <2> QED BY <1>4, <1>5, <2>1
<1>7. cindex' \in [Position -> Position]
  BY <1>1, <1>2
<1>8. ASSUME NEW k \in 0 .. i PROVE d[k] # next_pos
  <2>1. CASE k = i
    BY <1>1, <1>5, <2>1
  <2>2. CASE k # i
    <3>1. k \in 0 .. (i - 1) /\ k + 1 \in 0 .. i /\ 0 \in 0 .. i /\ k + 1 # 0
      BY <1>3, <2>2
    <3>2. d[k + 1] # 0
      BY <1>5, <3>1
    <3> QED BY <1>1, <1>5, <3>1, <3>2
  <2> QED BY <2>1, <2>2
<1>9. PICK e \in [0 .. (i + 1) -> Position] : e[i + 1] = next_pos /\ \A k \in 0 .. i : e[k] = d[k]
  <2> DEFINE f == [k \in 0 .. (i + 1) |-> IF k = i + 1 THEN next_pos ELSE d[k]]
  <2>1. \A k \in 0 .. (i + 1) : k # i + 1 => k \in 0 .. i
    BY <1>3
  <2>2. i + 1 \in 0 .. (i + 1) /\ \A k \in 0 .. i : k \in 0 .. (i + 1) /\ k # i + 1
    BY <1>3
  <2>3. f \in [0 .. (i + 1) -> Position] /\ f[i + 1] = next_pos /\ \A k \in 0 .. i : f[k] = d[k]
    BY <1>2, <1>4, <2>1, <2>2
  <2> QED BY <2>3
<1>10. \A x, y \in 0 .. (i + 1) : e[x] = e[y] => x = y
  <2>1. \A x \in 0 .. (i + 1) : x = i + 1 \/ x \in 0 .. i
    BY <1>3
  <2> QED BY <1>5, <1>8, <1>9, <2>1
<1>11. ASSUME NEW k \in 0 .. i PROVE cindex'[e[k]] = e[k + 1]
  <2>1. CASE k = i
    <3>1. e[k] = curr_pos /\ e[k + 1] = next_pos
      BY <1>5, <1>9, <2>1
    <3> QED BY <1>1, <1>2, <1>6, <3>1
  <2>2. CASE k # i
    <3>1. k \in 0 .. (i - 1) /\ k + 1 \in 0 .. i /\ i \in 0 .. i
      BY <1>3, <2>2
    <3>2. e[k] = d[k] /\ e[k + 1] = d[k + 1] /\ d[k] # curr_pos /\ d[k] \in Position
      BY <1>4, <1>5, <1>9, <2>2, <3>1
    <3> QED BY <1>1, <1>2, <1>5, <3>1, <3>2
  <2> QED BY <2>1, <2>2
<1>12. cindex'[next_pos] = 0 /\ e[0] = 0
  <2>1. 0 \in 0 .. i
    BY <1>3
  <2> QED BY <1>1, <1>2, <1>5, <1>9, <2>1
<1>13. Chain(e)'
  <2>1. (i + 1) - 1 = i
    BY <1>3
  <2>2. e \in [0 .. i' -> Position'] /\ e[0] = 0 /\ e[i'] = curr_pos' /\ cindex'[curr_pos'] = 0
    BY <1>1, <1>2, <1>9, <1>12
  <2>3. \A x, y \in 0 .. i' : e[x] = e[y] => x = y
    BY <1>1, <1>10
  <2>4. \A k \in 0 .. (i' - 1) : cindex'[e[k]] = e[k + 1]
    BY <1>1, <1>11, <2>1
  <2> QED BY <2>2, <2>3, <2>4 DEF Chain
<1>14. \E f \in [0 .. i' -> Position'] : Chain(f)'
  BY <1>1, <1>2, <1>13
<1>15. tries' \in 0 .. MaxRetry /\ count' \in Nat /\ size' \in Int /\ csize' \in Nat \ {0}
  BY <1>1 DEF CycleInv
<1>16. i' \in Position' /\ cindex' \in [Position' -> Position']
  BY <1>1, <1>2, <1>3, <1>7
<1> QED BY <1>1, <1>14, <1>15, <1>16 DEF CycleInv, Storing, Loading

\* Every step keeps the cycle.
LEMMA CycleNext == CycleInv /\ [Next]_vars => CycleInv'
<1> SUFFICES ASSUME CycleInv, [Next]_vars PROVE CycleInv'
  OBVIOUS
<1>1. ASSUME UNCHANGED <<args, cindex, curr_pos, i>>
      PROVE  /\ UNCHANGED <<csize, count, size, Position>> /\ (\E d \in [0 .. i' -> Position'] : Chain(d)')
  <2>1. UNCHANGED <<csize, count, size, Position>>
    BY <1>1 DEF args, Position
  <2>2. PICK d \in [0 .. i -> Position] : Chain(d)
    BY DEF CycleInv
  <2>3. Chain(d)'
    BY <1>1, <2>1, <2>2 DEF Chain
  <2> QED BY <1>1, <2>1, <2>3
<1>2. MaxRetry \in Nat \ {0} /\ csize \in Nat \ {0} /\ i \in 0 .. (csize - 1) /\ tries \in 0 .. MaxRetry
  BY ChasingAssumption DEF CycleInv, Position
<1>3. CASE ForTest
  <2>1. /\ UNCHANGED <<args, cindex, curr_pos, i>> /\ tries' = 0 /\ pc = "test"
        /\ pc' = IF i < csize - 1 THEN "draw" ELSE "store"
    BY <1>3 DEF ForTest, MoreToDraw
  <2>2. 0 \in 0 .. MaxRetry /\ 0 < MaxRetry /\ (~(i < csize - 1) => i = csize - 1)
    BY <1>2
  <2> QED BY <1>1, <2>1, <2>2 DEF CycleInv, Storing, Loading
<1>4. CASE RandFail
  <2>1. /\ UNCHANGED <<args, cindex, curr_pos, i>> /\ tries' = tries + 1 /\ pc = "draw"
        /\ pc' = IF tries' < MaxRetry THEN "draw" ELSE "failed"
    BY <1>4 DEF RandFail, Retry
  <2>2. tries < MaxRetry
    BY <2>1 DEF CycleInv
  <2>3. tries' \in 0 .. MaxRetry
    BY <1>2, <2>1, <2>2
  <2> QED BY <1>1, <2>1, <2>3 DEF CycleInv, Storing, Loading
<1>5. ASSUME NEW next_pos \in DOMAIN cindex, DrawTaken(next_pos) PROVE CycleInv'
  <2>1. UNCHANGED <<args, cindex, curr_pos, i, pc>> /\ tries' = 0
    BY <1>5 DEF DrawTaken
  <2>2. 0 \in 0 .. MaxRetry /\ 0 < MaxRetry
    BY <1>2
  <2> QED BY <1>1, <2>1, <2>2 DEF CycleInv
<1>6. ASSUME NEW next_pos \in DOMAIN cindex, DrawFree(next_pos) PROVE CycleInv'
  BY <1>6, CycleGrows
<1>7. CASE StoreOne \/ StoreFence \/ LoadOne \/ LoadFence
  <2>1. /\ UNCHANGED <<args, cindex, curr_pos, i, tries>>
        /\ pc \in Storing \cup Loading /\ pc' \in Storing \cup Loading
    BY <1>7 DEF StoreOne, StoreFence, LoadOne, LoadFence, build, Storing, Loading
  <2>2. pc' # "draw"
    BY <2>1 DEF Storing, Loading
  <2> QED BY <1>1, <2>1, <2>2 DEF CycleInv
<1>8. CASE UNCHANGED vars
  <2>1. UNCHANGED <<args, cindex, curr_pos, i, tries, pc>>
    BY <1>8 DEF vars, build
  <2> QED BY <1>1, <2>1 DEF CycleInv
<1> QED BY <1>3, <1>4, <1>5, <1>6, <1>7, <1>8 DEF Next

\* What the cycle says of the steps along it.
LEMMA CycleFacts ==
  ASSUME CycleInv
  PROVE  /\ csize \in Nat \ {0} /\ i \in Position /\ cindex \in [Position -> Position]
         /\ curr_pos \in Position /\ 0 \in Position
         /\ Follow \in [Nat -> Position] /\ Follow[0] = 0
         /\ \A k \in Nat : Follow[k + 1] = cindex[Follow[k]]
         /\ \A x, y \in 0 .. i : Follow[x] = Follow[y] => x = y
         /\ Follow[i] = curr_pos /\ Follow[i + 1] = 0
<1>1. PICK d \in [0 .. i -> Position] : Chain(d)
  BY DEF CycleInv
<1>2. csize \in Nat \ {0} /\ i \in Position /\ cindex \in [Position -> Position]
      /\ i \in Nat
  <2>1. csize \in Nat \ {0} /\ i \in Position /\ cindex \in [Position -> Position]
    BY DEF CycleInv
  <2>2. i \in Nat
    BY <2>1 DEF Position
  <2> QED BY <2>1, <2>2
<1>3. /\ Follow \in [Nat -> Position] /\ Follow[0] = 0
      /\ \A k \in Nat : Follow[k + 1] = cindex[Follow[k]]
      /\ \A k \in 0 .. i : Follow[k] = d[k]
      /\ Follow[i + 1] = 0
  BY <1>1, <1>2, FollowFacts
<1>4. \A x, y \in 0 .. i : Follow[x] = Follow[y] => x = y
  BY <1>1, <1>3 DEF Chain
<1>5. i \in 0 .. i /\ 0 \in Position
  BY <1>2 DEF Position
<1> QED BY <1>1, <1>2, <1>3, <1>4, <1>5 DEF Chain

\* What is drawn is one cycle through 0 at every step, also when rdrand gives
\* out, and through all positions when it is complete: for any csize.
THEOREM IndexIsOneCycle == Spec => []OneCycle
<1>1. CycleInv => OneCycle
  <2> SUFFICES ASSUME CycleInv PROVE OneCycle
    OBVIOUS
  <2>1. pc \notin {"test", "draw", "failed"} => i = csize - 1
    BY DEF CycleInv
  <2>2. \A x, y \in 0 .. i : x # y => Follow[x] # Follow[y]
    BY CycleFacts
  <2> QED BY <2>1, <2>2, CycleFacts DEF OneCycle
<1> QED BY <1>1, CycleInit, CycleNext, PTL DEF Spec
\* Step j in block b, and whether it has been stored.
Pos(b, j) == csize * b + Follow[j]
StoredAt(b, j) ==
  pc \in Loading \/ (pc \in Storing /\ (b < r11 \/ (b = r11 /\ j < r10)))

\* Where the kernels are.
WalkInv ==
  /\ pc \in {"test", "draw", "failed"} => r8 = 0 /\ r10 = 0 /\ r11 = 0 /\ r12 = 0
  /\ pc = "done" => r11 = Blocks /\ r12 = 0
  /\ pc \in {"store", "storefence", "load", "loadfence"} =>
       r11 \in 0 .. (Blocks - 1) /\ r8 = csize * r11 /\ r10 \in 0 .. Steps /\ r12 = Follow[r10]
  /\ pc \in {"store", "load"} => r10 < Steps
  /\ pc \in {"storefence", "loadfence"} => r10 = Steps

\* Of the lines nothing is lost but what the block's fence will wait for.
MemInv ==
  /\ MemOK(mem, Line, {Self})
  /\ \A l \in Line :
       \/ mem.per[l] = mem.ver[l]
       \/ pc \in Storing /\ <<l, mem.ver[l]>> \in mem.pend[Self]
  /\ pc \in {"test", "draw", "failed"} => \A l \in Line : mem.ver[l] = 0

\* What the lines hold that have been stored, in any block, and the order of
\* the stores.
LinesInv ==
  /\ data \in [Line -> Position]
  /\ \A b \in 0 .. (Blocks - 1), j \in 0 .. (Steps - 1) : StoredAt(b, j) =>
       /\ stored[b * Steps + j + 1] = Pos(b, j)
       /\ data[Pos(b, j)] = cindex[Follow[j]]
       /\ mem.ver[Pos(b, j)] >= 1
  /\ size = csize => \A b \in 0 .. (Blocks - 1), j \in 0 .. (Steps - 1) :
       mem.ver[Pos(b, j)] = IF StoredAt(b, j) THEN 1 ELSE 0

\* How many have been stored and loaded.
OrderInv ==
  /\ stored \in Seq(Int)
  /\ pc \in {"test", "draw", "failed"} => stored = << >>
  /\ pc \in Storing => Len(stored) = r11 * Steps + r10
  /\ pc \in Loading => Len(stored) = Blocks * Steps
  /\ pc \notin Loading => loaded = << >>
  /\ pc \in {"load", "loadfence"} => loaded = SubSeq(stored, 1, r11 * Steps + r10)
  /\ pc = "done" => loaded = stored

\* A product does not shrink with its factor.
LEMMA TimesMonotone ==
  ASSUME NEW m \in Nat, NEW e \in Nat, NEW f \in Nat, e < f
  PROVE  e * m + m <= f * m
<1>1. PICK c \in Nat : f = e + 1 + c
  <2>1. f - e - 1 \in Nat /\ f = e + 1 + (f - e - 1)
    OBVIOUS
  <2> QED BY <2>1
<1>2. f * m = e * m + m + c * m /\ c * m \in Nat /\ e * m \in Nat
  BY <1>1, SMT
<1> QED BY <1>2, SMT

\* Rows of m places each, one behind the other, do not meet.
LEMMA RowFacts ==
  ASSUME NEW m \in Nat \ {0}, NEW b \in Nat, NEW j \in 0 .. (m - 1)
  PROVE  /\ b * m + j \in Nat
         /\ \A c \in Nat, k \in 0 .. m : (b < c \/ (b = c /\ j < k)) => b * m + j + 1 <= c * m + k
         /\ \A c \in Nat, k \in 0 .. (m - 1) : b * m + j = c * m + k => b = c /\ j = k
<1>1. b * m \in Nat
  BY SMT
<1>2. ASSUME NEW c \in Nat, NEW k \in 0 .. m, b < c \/ (b = c /\ j < k)
      PROVE  b * m + j + 1 <= c * m + k
  <2>1. CASE b < c
    <3>1. b * m + m <= c * m /\ c * m \in Nat
      BY <2>1, TimesMonotone, SMT
    <3> QED BY <1>1, <3>1, SMT
  <2>2. CASE b = c /\ j < k
    BY <1>1, <2>2, SMT
  <2> QED BY <1>2, <2>1, <2>2
<1>3. ASSUME NEW c \in Nat, NEW k \in 0 .. (m - 1), b * m + j = c * m + k
      PROVE  b = c /\ j = k
  <2>1. c * m \in Nat
    BY SMT
  <2>2. CASE b = c
    BY <1>1, <1>3, <2>1, <2>2, SMT
  <2>3. CASE b < c
    <3>1. b * m + m <= c * m
      BY <2>3, TimesMonotone
    <3> QED BY <1>1, <1>3, <2>1, <3>1, SMT
  <2>4. CASE c < b
    <3>1. c * m + m <= b * m
      BY <2>4, TimesMonotone
    <3> QED BY <1>1, <1>3, <2>1, <3>1, SMT
  <2> QED BY <2>2, <2>3, <2>4, SMT
<1>4. b * m + j \in Nat
  BY <1>1, SMT
<1> QED BY <1>2, <1>3, <1>4

\* The steps lie in the memory, and two of them are at the same line only in
\* the same block and at the same position.
LEMMA PosFacts ==
  ASSUME CycleInv
  PROVE  /\ Steps \in Nat \ {0} /\ Blocks \in Nat \ {0}
         /\ \A b \in 0 .. (Blocks - 1), j \in Nat : Pos(b, j) \in Line /\ Pos(b, j) \in Nat
         /\ \A b, c \in 0 .. (Blocks - 1), j, k \in Nat :
              Pos(b, j) = Pos(c, k) => b = c /\ Follow[j] = Follow[k]
<1>1. csize \in Nat \ {0} /\ count \in Nat /\ size \in Int
  BY DEF CycleInv
<1>2. Steps \in Nat \ {0} /\ Blocks \in Nat \ {0}
  BY <1>1, SMT DEF Steps, Blocks
<1>3. \A j \in Nat : Follow[j] \in 0 .. (csize - 1)
  <2>1. Follow \in [Nat -> Position]
    BY CycleFacts
  <2> QED BY <2>1 DEF Position
<1>4. ASSUME NEW b \in 0 .. (Blocks - 1), NEW j \in Nat
      PROVE  /\ Pos(b, j) = b * csize + Follow[j] /\ Pos(b, j) \in Line /\ Pos(b, j) \in Nat
  <2> DEFINE q == csize
             x == Follow[j]
             w == Blocks
  <2>1. q \in Nat \ {0} /\ b \in Nat /\ x \in 0 .. (q - 1) /\ b < w /\ w \in Nat
    BY <1>1, <1>2, <1>3
  <2>2. Pos(b, j) = q * b + x /\ Line = 0 .. (q * w - 1)
    BY DEF Pos, Line
  <2> HIDE DEF q, x, w
  <2>3. q * b = b * q /\ q * w = w * q /\ w * q \in Nat
    BY <2>1, SMT
  <2>4. b * q + x \in Nat /\ b * q + x + 1 <= w * q + 0
    <3>1. 0 \in 0 .. q
      BY <2>1
    <3> QED BY <2>1, <3>1, RowFacts
  <2>5. b * q + x \in 0 .. (w * q - 1)
    <3> DEFINE y == b * q + x
               z == w * q
    <3>1. y \in Nat /\ z \in Nat /\ y + 1 <= z + 0
      BY <2>3, <2>4
    <3> HIDE DEF y, z
    <3>2. y \in 0 .. (z - 1)
      BY <3>1
    <3> QED BY <3>2 DEF y, z
  <2>6. Pos(b, j) = b * q + x /\ Line = 0 .. (w * q - 1)
    BY <2>2, <2>3
  <2> QED BY <2>4, <2>5, <2>6 DEF q, x
<1>5. ASSUME NEW b \in 0 .. (Blocks - 1), NEW c \in 0 .. (Blocks - 1), NEW j \in Nat, NEW k \in Nat,
             Pos(b, j) = Pos(c, k)
      PROVE  b = c /\ Follow[j] = Follow[k]
  <2>1. b * csize + Follow[j] = c * csize + Follow[k]
    BY <1>4, <1>5
  <2>2. b \in Nat /\ c \in Nat
    BY <1>2
  <2> QED BY <1>1, <1>3, <2>1, <2>2, RowFacts
<1> QED BY <1>2, <1>4, <1>5

\* While the kernels run the index stays what it is.
LEMMA IndexKept ==
  ASSUME CycleInv, UNCHANGED <<args, build>>
  PROVE  /\ Steps' = Steps /\ Blocks' = Blocks /\ Line' = Line /\ Position' = Position
         /\ Follow' = Follow /\ \A b, j : Pos(b, j)' = Pos(b, j)
<1>1. UNCHANGED <<csize, count, size, cindex, curr_pos, i>>
  BY DEF args, build
<1>2. Follow' = Follow
  BY <1>1 DEF Follow
<1> QED BY <1>1, <1>2 DEF Steps, Blocks, Line, Position, Pos

ChainReady == CycleInv /\ WalkInv /\ MemInv /\ LinesInv /\ OrderInv

\* At the start nothing is stored.
LEMMA ChainInit == Init => ChainReady
<1> SUFFICES ASSUME Init PROVE ChainReady
  OBVIOUS
<1>1. CycleInv
  BY CycleInit
<1>2. /\ pc = "test" /\ r8 = 0 /\ r10 = 0 /\ r11 = 0 /\ r12 = 0 /\ stored = << >> /\ loaded = << >>
      /\ data = [l \in Line |-> 0] /\ mem = PMemZero(Line, {Self})
  BY DEF Init, Line, Blocks
<1>3. MemOK(mem, Line, {Self}) /\ \A l \in Line : mem.per[l] = 0 /\ mem.ver[l] = 0
  BY <1>2, ZeroFacts
<1>4. 0 \in Position /\ \A b \in 0 .. (Blocks - 1), j \in 0 .. (Steps - 1) : Pos(b, j) \in Line
  <2>1. \A j \in 0 .. (Steps - 1) : j \in Nat
    OBVIOUS
  <2> QED BY <1>1, <2>1, CycleFacts, PosFacts
<1>5. \A b, j : ~StoredAt(b, j)
  BY <1>2 DEF StoredAt, Storing, Loading
<1>6. WalkInv
  BY <1>2 DEF WalkInv
<1>7. MemInv
  BY <1>3 DEF MemInv
<1>8. LinesInv
  BY <1>2, <1>3, <1>4, <1>5 DEF LinesInv
<1>9. OrderInv
  BY <1>2 DEF OrderInv, Storing, Loading
<1> QED BY <1>1, <1>6, <1>7, <1>8, <1>9 DEF ChainReady

\* The walk begins at position 0, and no step of it leaves the memory.
LEMMA WalkStart ==
  CycleInv => Follow[0] = 0 /\ \A b \in 0 .. (Blocks - 1), j \in Nat : Pos(b, j) \in Line
BY CycleFacts, PosFacts

\* While the index is drawn, nothing is stored.
LEMMA ChainDraws ==
  ASSUME ChainReady, CycleInv',
         ForTest \/ RandFail \/ \E next_pos \in DOMAIN cindex : DrawTaken(next_pos) \/ DrawFree(next_pos)
  PROVE  ChainReady'
<1>1. /\ pc \in {"test", "draw"} /\ pc' \in {"test", "draw", "failed", "store"}
      /\ UNCHANGED <<csize, count, size, r8, r10, r11, r12, data, mem, stored, loaded>>
  <2>1. CASE ForTest
    BY <2>1 DEF ForTest, args
  <2>2. CASE RandFail
    BY <2>2 DEF RandFail, args
  <2>3. ASSUME NEW next_pos \in DOMAIN cindex, DrawTaken(next_pos) \/ DrawFree(next_pos)
        PROVE  /\ pc \in {"test", "draw"} /\ pc' \in {"test", "draw", "failed", "store"}
               /\ UNCHANGED <<csize, count, size, r8, r10, r11, r12, data, mem, stored, loaded>>
    BY <2>3 DEF DrawTaken, DrawFree, args
  <2> QED BY <2>1, <2>2, <2>3
<1>2. r8 = 0 /\ r10 = 0 /\ r11 = 0 /\ r12 = 0 /\ stored = << >> /\ loaded = << >>
  BY <1>1 DEF ChainReady, WalkInv, OrderInv, Loading
<1>3. Steps \in Nat \ {0} /\ Blocks \in Nat \ {0}
  BY PosFacts DEF ChainReady
<1>4. Steps' = Steps /\ Blocks' = Blocks /\ Line' = Line /\ Position' = Position
  BY <1>1 DEF Steps, Blocks, Line, Position
<1>5. (Follow[0] = 0)' /\ (\A b \in 0 .. (Blocks - 1), j \in Nat : Pos(b, j) \in Line)'
  BY WalkStart, PTL
<1>6. \A b \in 0 .. (Blocks - 1), j \in 0 .. (Steps - 1) : ~StoredAt(b, j) /\ ~StoredAt(b, j)'
  BY <1>1, <1>2, <1>3 DEF StoredAt, Storing, Loading
<1>7. WalkInv'
  <2>1. csize \in Nat
    BY DEF ChainReady, CycleInv
  <2>2. r8' = 0 /\ r10' = 0 /\ r11' = 0 /\ r12' = 0 /\ csize' = csize
    BY <1>1, <1>2
  <2>3. 0 \in 0 .. (Blocks - 1) /\ 0 = csize * 0 /\ 0 \in 0 .. Steps /\ 0 < Steps
    BY <1>3, <2>1
  <2> QED BY <1>1, <1>4, <1>5, <2>2, <2>3 DEF WalkInv
<1>8. MemInv'
  BY <1>1, <1>4 DEF ChainReady, MemInv, Storing
<1>9. OrderInv'
  <2>1. Len(<< >>) = 0 * Steps + 0
    BY <1>3
  <2>2. << >> \in Seq(Int)
    OBVIOUS
  <2>3. stored' = << >> /\ loaded' = << >> /\ r11' = 0 /\ r10' = 0 /\ pc' \notin Loading
    BY <1>1, <1>2 DEF Loading
  <2> QED BY <1>1, <1>4, <2>1, <2>2, <2>3 DEF OrderInv, Loading
<1>10. LinesInv'
  <2>1. data' \in [Line' -> Position']
    BY <1>1, <1>4 DEF ChainReady, LinesInv
  <2>2. \A l \in Line' : mem'.ver[l] = 0
    BY <1>1, <1>4 DEF ChainReady, MemInv
  <2>3. \A j \in 0 .. (Steps' - 1) : j \in Nat
    BY <1>3, <1>4
  <2>4. \A b \in 0 .. (Blocks' - 1), j \in 0 .. (Steps' - 1) : Pos(b, j)' \in Line'
    BY <1>5, <2>3
  <2>5. \A b \in 0 .. (Blocks' - 1), j \in 0 .. (Steps' - 1) : mem'.ver[Pos(b, j)'] = 0
    BY <2>2, <2>4
  <2> QED BY <1>4, <1>6, <2>1, <2>5 DEF LinesInv
<1> QED BY <1>7, <1>8, <1>9, <1>10 DEF ChainReady

\* One more line is stored and sent off: the next step of the walk.
LEMMA ChainStores ==
  ASSUME ChainReady, CycleInv', StoreOne
  PROVE  ChainReady'
<1> DEFINE l0 == r8 + r12
           m1 == Store(mem, {l0})
<1>1. /\ pc = "store" /\ data' = [data EXCEPT ![l0] = cindex[r12]] /\ mem' = Clwb(m1, Self, {l0})
      /\ r10' = r10 + 1 /\ r12' = cindex[r12] /\ pc' = IF r10' < size THEN "store" ELSE "storefence"
      /\ stored' = Append(stored, l0) /\ UNCHANGED <<args, build, r8, r11, loaded>>
  BY DEF StoreOne, StoredValue
<1>2. /\ Steps' = Steps /\ Blocks' = Blocks /\ Line' = Line /\ Position' = Position
      /\ Follow' = Follow /\ \A b, j : Pos(b, j)' = Pos(b, j)
  BY <1>1, IndexKept DEF ChainReady
<1>3. csize' = csize /\ size' = size /\ cindex' = cindex
  BY <1>1 DEF args, build
<1>4. /\ Steps \in Nat \ {0} /\ Blocks \in Nat \ {0}
      /\ \A b \in 0 .. (Blocks - 1), j \in Nat : Pos(b, j) \in Line /\ Pos(b, j) \in Nat
      /\ \A b, c \in 0 .. (Blocks - 1), j, k \in Nat :
            Pos(b, j) = Pos(c, k) => b = c /\ Follow[j] = Follow[k]
  BY PosFacts DEF ChainReady
<1>5. r11 \in 0 .. (Blocks - 1) /\ r8 = csize * r11 /\ r10 \in 0 .. (Steps - 1) /\ r12 = Follow[r10]
  <2>1. r11 \in 0 .. (Blocks - 1) /\ r8 = csize * r11 /\ r10 \in 0 .. Steps /\ r12 = Follow[r10] /\ r10 < Steps
    BY <1>1 DEF ChainReady, WalkInv
  <2> QED BY <1>4, <2>1
<1>6. l0 = Pos(r11, r10) /\ l0 \in Line /\ l0 \in Nat
  <2>1. r10 \in Nat
    BY <1>5
  <2> QED BY <1>4, <1>5, <2>1 DEF Pos
<1>7. MemOK(mem, Line, {Self}) /\ data \in [Line -> Position] /\ size \in Int
  BY DEF ChainReady, MemInv, LinesInv, CycleInv
<1>8. cindex[Follow[r10]] \in Position /\ Follow[r10 + 1] = cindex[Follow[r10]] /\ r10 \in Nat
  <2>1. r10 \in Nat
    BY <1>5
  <2>2. Follow[r10] \in Position
    BY <2>1, CycleFacts DEF ChainReady
  <2> QED BY <2>1, <2>2, CycleFacts DEF ChainReady
<1>9. /\ MemOK(m1, Line, {Self}) /\ m1.per = mem.per /\ m1.pend = mem.pend
      /\ \A l \in Line : m1.ver[l] = IF l \in {l0} THEN mem.ver[l] + 1 ELSE mem.ver[l]
  BY <1>7, StoreFacts
<1> HIDE DEF l0, m1
<1>10. /\ MemOK(mem', Line, {Self}) /\ mem'.ver = m1.ver /\ mem'.per = mem.per
       /\ mem.pend[Self] \subseteq mem'.pend[Self]
       /\ <<l0, mem'.ver[l0]>> \in mem'.pend[Self]
  BY <1>1, <1>9, ClwbFacts
<1>11. /\ pc' = IF r10 + 1 < Steps THEN "store" ELSE "storefence"
       /\ (~(r10 + 1 < Steps) => r10 + 1 = Steps)
  <2>1. r10 + 1 < size <=> r10 + 1 < Steps
    BY <1>5, <1>7, <1>8, SMT DEF Steps
  <2>2. pc' = IF r10 + 1 < size THEN "store" ELSE "storefence"
    BY <1>1
  <2>3. ~(r10 + 1 < Steps) => r10 + 1 = Steps
    BY <1>4, <1>5
  <2> QED BY <2>1, <2>2, <2>3
<1>12. WalkInv'
  <2>1. r10' \in 0 .. Steps
    BY <1>1, <1>4, <1>5
  <2>2. r12' = Follow[r10']
    BY <1>1, <1>5, <1>8
  <2>3. pc' \in {"store", "storefence"} /\ (pc' = "store" => r10' < Steps) /\ (pc' = "storefence" => r10' = Steps)
    BY <1>1, <1>11
  <2>4. r11' = r11 /\ r8' = r8
    BY <1>1
  <2> QED BY <1>2, <1>3, <1>5, <2>1, <2>2, <2>3, <2>4 DEF WalkInv
<1>13. pc' \in Storing /\ pc' \notin Loading /\ pc' \notin {"test", "draw", "failed"} /\ pc \in Storing /\ pc \notin Loading
  BY <1>1, <1>11 DEF Storing, Loading
<1>14. MemInv'
  <2>1. ASSUME NEW l \in Line
        PROVE  mem'.per[l] = mem'.ver[l] \/ <<l, mem'.ver[l]>> \in mem'.pend[Self]
    <3>1. CASE l = l0
      BY <1>10, <3>1
    <3>2. CASE l # l0
      <4>1. mem'.ver[l] = mem.ver[l]
        BY <1>9, <1>10, <3>2
      <4>2. mem.per[l] = mem.ver[l] \/ <<l, mem.ver[l]>> \in mem.pend[Self]
        BY DEF ChainReady, MemInv
      <4> QED BY <1>10, <4>1, <4>2
    <3> QED BY <3>1, <3>2
  <2> QED BY <1>2, <1>10, <1>13, <2>1 DEF MemInv
<1> DEFINE n0 == r11 * Steps + r10
<1>15. stored \in Seq(Int) /\ Len(stored) = n0 /\ loaded = << >> /\ n0 \in Nat
  <2>1. r11 \in Nat
    BY <1>4, <1>5
  <2>2. n0 \in Nat
    BY <1>4, <1>5, <2>1, RowFacts
  <2> QED BY <1>13, <2>2 DEF ChainReady, OrderInv
<1>16. stored' \in Seq(Int) /\ Len(stored') = n0 + 1 /\ stored'[n0 + 1] = l0
       /\ \A x \in 1 .. n0 : stored'[x] = stored[x]
  <2> HIDE DEF n0
  <2>1. l0 \in Int
    BY <1>6
  <2> QED BY <1>1, <1>15, <2>1
<1>17. OrderInv'
  <2>1. n0 + 1 = r11' * Steps' + r10'
    <3>1. r11 * Steps \in Nat
      BY <1>4, <1>5, SMT
    <3> QED BY <1>1, <1>2, <1>5, <3>1
  <2>2. loaded' = << >>
    BY <1>1, <1>15
  <2> QED BY <1>13, <1>16, <2>1, <2>2 DEF OrderInv, Loading, Storing
<1>18. \A b \in 0 .. (Blocks - 1), j \in 0 .. (Steps - 1) :
         /\ b \in Nat /\ j \in Nat /\ Pos(b, j) \in Line
         /\ StoredAt(b, j)' <=> StoredAt(b, j) \/ (b = r11 /\ j = r10)
         /\ StoredAt(b, j) <=> b < r11 \/ (b = r11 /\ j < r10)
         /\ StoredAt(b, j) => b * Steps + j + 1 \in 1 .. n0
  <2> SUFFICES ASSUME NEW b \in 0 .. (Blocks - 1), NEW j \in 0 .. (Steps - 1)
               PROVE  /\ b \in Nat /\ j \in Nat /\ Pos(b, j) \in Line
                      /\ StoredAt(b, j)' <=> StoredAt(b, j) \/ (b = r11 /\ j = r10)
                      /\ StoredAt(b, j) <=> b < r11 \/ (b = r11 /\ j < r10)
                      /\ StoredAt(b, j) => b * Steps + j + 1 \in 1 .. n0
    OBVIOUS
  <2>1. b \in Nat /\ j \in Nat
    BY <1>4
  <2>2. StoredAt(b, j) <=> b < r11 \/ (b = r11 /\ j < r10)
    BY <1>13 DEF StoredAt
  <2>3. StoredAt(b, j)' <=> b < r11 \/ (b = r11 /\ j < r10 + 1)
    BY <1>1, <1>13 DEF StoredAt
  <2>4. j < r10 + 1 <=> j < r10 \/ j = r10
    BY <1>5, <1>8, <2>1
  <2>5. StoredAt(b, j) => b * Steps + j + 1 \in 1 .. n0
    <3>1. r11 \in Nat /\ r10 \in 0 .. Steps
      BY <1>4, <1>5
    <3>2. b * Steps + j \in Nat
      BY <1>4, <2>1, RowFacts
    <3>3. StoredAt(b, j) => b * Steps + j + 1 <= n0
      BY <1>4, <2>1, <2>2, <3>1, RowFacts
    <3> DEFINE y == b * Steps + j
    <3> HIDE DEF y, n0
    <3>4. StoredAt(b, j) => y + 1 \in 1 .. n0
      BY <1>15, <3>2, <3>3 DEF y
    <3> QED BY <3>4 DEF y
  <2> QED BY <1>4, <2>1, <2>2, <2>3, <2>4, <2>5
<1> HIDE DEF n0
<1>19. data' \in [Line -> Position] /\ data'[l0] = cindex[Follow[r10]]
       /\ \A l \in Line : l # l0 => data'[l] = data[l]
  BY <1>1, <1>5, <1>6, <1>7, <1>8
<1>20. ASSUME NEW b \in 0 .. (Blocks - 1), NEW j \in 0 .. (Steps - 1), StoredAt(b, j)'
       PROVE  /\ stored'[b * Steps + j + 1] = Pos(b, j)
              /\ data'[Pos(b, j)] = cindex[Follow[j]]
              /\ mem'.ver[Pos(b, j)] >= 1
  <2>1. data'[Pos(b, j)] = cindex[Follow[j]]
    <3>1. CASE Pos(b, j) = l0
      <4>1. Follow[j] = Follow[r10]
        BY <1>4, <1>5, <1>6, <1>8, <1>18, <3>1
      <4> QED BY <1>19, <3>1, <4>1
    <3>2. CASE Pos(b, j) # l0
      <4>1. StoredAt(b, j)
        BY <1>6, <1>18, <1>20, <3>2
      <4>2. data[Pos(b, j)] = cindex[Follow[j]]
        BY <4>1 DEF ChainReady, LinesInv
      <4> QED BY <1>18, <1>19, <3>2, <4>2
    <3> QED BY <3>1, <3>2
  <2>2. CASE StoredAt(b, j)
    <3>1. stored[b * Steps + j + 1] = Pos(b, j) /\ mem.ver[Pos(b, j)] >= 1
      BY <2>2 DEF ChainReady, LinesInv
    <3>2. stored'[b * Steps + j + 1] = Pos(b, j)
      BY <1>16, <1>18, <2>2, <3>1
    <3>3. mem.ver[Pos(b, j)] \in Nat
      BY <1>7, <1>18 DEF MemOK
    <3>4. mem'.ver[Pos(b, j)] \in {mem.ver[Pos(b, j)], mem.ver[Pos(b, j)] + 1}
      BY <1>9, <1>10, <1>18
    <3>5. mem'.ver[Pos(b, j)] >= 1
      BY <3>1, <3>3, <3>4
    <3> QED BY <2>1, <3>2, <3>5
  <2>3. CASE ~StoredAt(b, j)
    <3>1. b = r11 /\ j = r10
      BY <1>18, <1>20, <2>3
    <3>2. Pos(b, j) = l0 /\ stored'[b * Steps + j + 1] = l0
      BY <1>6, <1>16, <3>1 DEF n0
    <3>3. mem.ver[l0] \in Nat /\ mem'.ver[l0] = mem.ver[l0] + 1
      BY <1>6, <1>7, <1>9, <1>10 DEF MemOK
    <3>4. mem'.ver[l0] >= 1
      BY <3>3
    <3> QED BY <2>1, <3>2, <3>4
  <2> QED BY <2>2, <2>3
<1>21. ASSUME size = csize, NEW b \in 0 .. (Blocks - 1), NEW j \in 0 .. (Steps - 1)
       PROVE  mem'.ver[Pos(b, j)] = IF StoredAt(b, j)' THEN 1 ELSE 0
  <2>1. mem.ver[Pos(b, j)] = IF StoredAt(b, j) THEN 1 ELSE 0
    BY <1>21 DEF ChainReady, LinesInv
  <2>2. CASE Pos(b, j) = l0
    <3>1. Follow[j] = Follow[r10] /\ b = r11
      BY <1>4, <1>5, <1>6, <1>8, <1>18, <2>2
    <3>2. j \in 0 .. i /\ r10 \in 0 .. i
      <4>1. i = csize - 1 /\ csize \in Nat \ {0}
        BY <1>13 DEF ChainReady, CycleInv
      <4>2. Steps = csize
        BY <1>21, <4>1 DEF Steps
      <4> QED BY <1>5, <4>1, <4>2
    <3>3. j = r10
      BY <3>1, <3>2, CycleFacts DEF ChainReady
    <3>4. ~StoredAt(b, j) /\ StoredAt(b, j)'
      <4>1. r11 \in Nat /\ r10 \in Nat
        BY <1>4, <1>5
      <4>2. ~(b < r11 \/ (b = r11 /\ j < r10))
        BY <3>1, <3>3, <4>1
      <4> QED BY <1>18, <3>1, <3>3, <4>2
    <3>5. mem'.ver[l0] = mem.ver[l0] + 1
      BY <1>6, <1>9, <1>10
    <3> QED BY <2>1, <2>2, <3>4, <3>5
  <2>3. CASE Pos(b, j) # l0
    <3>1. mem'.ver[Pos(b, j)] = mem.ver[Pos(b, j)]
      BY <1>9, <1>10, <1>18, <2>3
    <3>2. ~(b = r11 /\ j = r10)
      BY <1>6, <2>3
    <3> QED BY <1>18, <2>1, <3>1, <3>2
  <2> QED BY <2>2, <2>3
<1>22. LinesInv'
  BY <1>2, <1>3, <1>19, <1>20, <1>21 DEF LinesInv
<1> QED BY <1>12, <1>14, <1>17, <1>22 DEF ChainReady

\* What a step that stores nothing leaves of the lines.
LEMMA LinesKept ==
  ASSUME ChainReady, UNCHANGED <<args, build, data, stored>>, mem'.ver = mem.ver,
         \A b \in 0 .. (Blocks - 1), j \in 0 .. (Steps - 1) : StoredAt(b, j)' <=> StoredAt(b, j)
  PROVE  LinesInv'
<1>1. /\ Steps' = Steps /\ Blocks' = Blocks /\ Line' = Line /\ Position' = Position
      /\ Follow' = Follow /\ \A b, j : Pos(b, j)' = Pos(b, j)
  BY IndexKept DEF ChainReady
<1>2. csize' = csize /\ size' = size /\ cindex' = cindex
  BY DEF args, build
<1>3. LinesInv
  BY DEF ChainReady
<1> QED BY <1>1, <1>2, <1>3 DEF LinesInv

\* Where a fence leaves the kernels: at the next block, or behind the last.
LEMMA NextBlock ==
  ASSUME ChainReady, r11 \in 0 .. (Blocks - 1)
  PROVE  /\ Steps \in Nat \ {0} /\ Blocks \in Nat \ {0} /\ csize \in Nat \ {0} /\ r11 \in Nat
         /\ r11 + 1 < count => r11 + 1 \in 0 .. (Blocks - 1)
         /\ ~(r11 + 1 < count) => r11 + 1 = Blocks
         /\ csize * r11 + csize = csize * (r11 + 1)
         /\ r11 * Steps + Steps = (r11 + 1) * Steps /\ (r11 + 1) * Steps \in Nat
         /\ Follow[0] = 0
<1>1. Steps \in Nat \ {0} /\ Blocks \in Nat \ {0} /\ csize \in Nat \ {0} /\ count \in Nat /\ Follow[0] = 0
  BY PosFacts, CycleFacts DEF ChainReady, CycleInv
<1>2. r11 \in Nat
  BY <1>1
<1>3. /\ r11 + 1 < count => r11 + 1 \in 0 .. (Blocks - 1)
      /\ ~(r11 + 1 < count) => r11 + 1 = Blocks
  BY <1>1, <1>2, SMT DEF Blocks
<1>4. \A x, y \in Nat : x * y + x = x * (y + 1) /\ y * x + x = (y + 1) * x /\ (y + 1) * x \in Nat
  BY SMT
<1> QED BY <1>1, <1>2, <1>3, <1>4

\* The fence behind a block makes it durable.
LEMMA ChainFence ==
  ASSUME ChainReady, CycleInv', StoreFence
  PROVE  ChainReady'
<1>1. /\ pc = "storefence" /\ mem' = Fence(mem, Self)
      /\ r8' = IF r11 + 1 < count THEN r8 + csize ELSE 0
      /\ r11' = IF r11 + 1 < count THEN r11 + 1 ELSE 0
      /\ r10' = 0 /\ r12' = 0 /\ pc' = IF r11 + 1 < count THEN "store" ELSE "load"
      /\ UNCHANGED <<args, build, data, stored, loaded>>
  BY DEF StoreFence, BlockFence
<1>2. /\ Steps' = Steps /\ Blocks' = Blocks /\ Line' = Line /\ Position' = Position /\ Follow' = Follow
  BY <1>1, IndexKept DEF ChainReady
<1>3. csize' = csize
  BY <1>1 DEF args
<1>4. r11 \in 0 .. (Blocks - 1) /\ r8 = csize * r11 /\ r10 = Steps
  BY <1>1 DEF ChainReady, WalkInv
<1>5. /\ Steps \in Nat \ {0} /\ Blocks \in Nat \ {0} /\ csize \in Nat \ {0} /\ r11 \in Nat
      /\ r11 + 1 < count => r11 + 1 \in 0 .. (Blocks - 1)
      /\ ~(r11 + 1 < count) => r11 + 1 = Blocks
      /\ csize * r11 + csize = csize * (r11 + 1)
      /\ r11 * Steps + Steps = (r11 + 1) * Steps /\ (r11 + 1) * Steps \in Nat
      /\ Follow[0] = 0
  BY <1>4, NextBlock
<1>6. MemOK(mem, Line, {Self}) /\ pc \in Storing /\ pc \notin Loading
  BY <1>1 DEF ChainReady, MemInv, Storing, Loading
<1>7. /\ MemOK(mem', Line, {Self}) /\ mem'.ver = mem.ver
      /\ \A l \in Line : mem.per[l] <= mem'.per[l]
      /\ \A l \in Line : <<l, mem.ver[l]>> \in mem.pend[Self] => mem'.per[l] = mem.ver[l]
  BY <1>1, <1>6, FenceFacts
<1>8. ASSUME NEW l \in Line PROVE mem'.per[l] = mem'.ver[l]
  <2>1. mem.per[l] = mem.ver[l] \/ <<l, mem.ver[l]>> \in mem.pend[Self]
    BY DEF ChainReady, MemInv
  <2>2. mem'.per[l] <= mem'.ver[l] /\ mem'.per[l] \in Nat /\ mem'.ver[l] \in Nat
    BY <1>7 DEF MemOK
  <2> QED BY <1>7, <2>1, <2>2
<1>9. stored \in Seq(Int) /\ Len(stored) = r11 * Steps + Steps /\ loaded = << >>
  BY <1>4, <1>6 DEF ChainReady, OrderInv
<1>10. CASE r11 + 1 < count
  <2>1. pc' = "store" /\ r11' = r11 + 1 /\ r8' = csize * (r11 + 1) /\ r10' = 0 /\ r12' = 0
    BY <1>1, <1>4, <1>5, <1>10
  <2>2. WalkInv'
    <3>1. 0 \in 0 .. Steps /\ 0 < Steps
      BY <1>5
    <3> QED BY <1>2, <1>3, <1>5, <1>10, <2>1, <3>1 DEF WalkInv
  <2>3. MemInv'
    BY <1>2, <1>7, <1>8, <2>1 DEF MemInv
  <2>4. OrderInv'
    <3>1. Len(stored) = (r11 + 1) * Steps + 0
      BY <1>5, <1>9
    <3> QED BY <1>1, <1>2, <1>9, <2>1, <3>1 DEF OrderInv, Storing, Loading
  <2>5. ASSUME NEW b \in 0 .. (Blocks - 1), NEW j \in 0 .. (Steps - 1)
        PROVE  StoredAt(b, j)' <=> StoredAt(b, j)
    <3>1. StoredAt(b, j) <=> b < r11 \/ (b = r11 /\ j < Steps)
      BY <1>4, <1>6 DEF StoredAt
    <3>2. StoredAt(b, j)' <=> b < r11 + 1 \/ (b = r11 + 1 /\ j < 0)
      BY <2>1 DEF StoredAt, Storing, Loading
    <3>3. (b < r11 \/ (b = r11 /\ j < Steps)) <=> (b < r11 + 1 \/ (b = r11 + 1 /\ j < 0))
      BY <1>5
    <3> QED BY <3>1, <3>2, <3>3
  <2>6. LinesInv'
    BY <1>1, <1>7, <2>5, LinesKept
  <2> QED BY <2>2, <2>3, <2>4, <2>6 DEF ChainReady
<1>11. CASE ~(r11 + 1 < count)
  <2>1. pc' = "load" /\ r11' = 0 /\ r8' = 0 /\ r10' = 0 /\ r12' = 0 /\ r11 + 1 = Blocks
    BY <1>1, <1>5, <1>11
  <2>2. WalkInv'
    <3>1. 0 \in 0 .. Steps /\ 0 < Steps /\ 0 \in 0 .. (Blocks - 1) /\ 0 = csize * 0
      BY <1>5
    <3> QED BY <1>2, <1>3, <1>5, <2>1, <3>1 DEF WalkInv
  <2>3. MemInv'
    BY <1>2, <1>7, <1>8, <2>1 DEF MemInv
  <2>4. OrderInv'
    <3>1. Len(stored) = Blocks * Steps /\ 0 * Steps + 0 = 0
      BY <1>5, <1>9, <2>1
    <3>2. << >> = SubSeq(stored, 1, 0)
      BY <1>9
    <3>3. UNCHANGED <<stored, loaded>> /\ r11' * Steps' + r10' = 0
      BY <1>1, <1>2, <2>1, <3>1
    <3>4. pc' \in Loading /\ pc' \notin Storing
      BY <2>1 DEF Storing, Loading
    <3> QED BY <1>2, <1>9, <2>1, <3>1, <3>2, <3>3, <3>4 DEF OrderInv
  <2>5. ASSUME NEW b \in 0 .. (Blocks - 1), NEW j \in 0 .. (Steps - 1)
        PROVE  StoredAt(b, j)' <=> StoredAt(b, j)
    <3>1. StoredAt(b, j) <=> b < r11 \/ (b = r11 /\ j < Steps)
      BY <1>4, <1>6 DEF StoredAt
    <3>2. StoredAt(b, j)'
      BY <2>1 DEF StoredAt, Loading
    <3>3. b < r11 \/ (b = r11 /\ j < Steps)
      BY <1>5, <2>1
    <3> QED BY <3>1, <3>2, <3>3
  <2>6. LinesInv'
    BY <1>1, <1>7, <2>5, LinesKept
  <2> QED BY <2>2, <2>3, <2>4, <2>6 DEF ChainReady
<1> QED BY <1>10, <1>11

\* A load finds in its line the position that was stored there, and so goes
\* where the stores went.
LEMMA ChainLoads ==
  ASSUME ChainReady, CycleInv', LoadOne
  PROVE  ChainReady'
<1> DEFINE l0 == r8 + r12
           n0 == r11 * Steps + r10
<1>1. /\ pc = "load" /\ r12' = data[l0] /\ r10' = r10 + 1
      /\ pc' = IF r10' < size THEN "load" ELSE "loadfence"
      /\ loaded' = Append(loaded, l0) /\ UNCHANGED <<args, build, r8, r11, data, mem, stored>>
  BY DEF LoadOne
<1>2. /\ Steps' = Steps /\ Blocks' = Blocks /\ Line' = Line /\ Position' = Position /\ Follow' = Follow
  BY <1>1, IndexKept DEF ChainReady
<1>3. csize' = csize /\ size \in Int
  BY <1>1 DEF args, ChainReady, CycleInv
<1>4. /\ Steps \in Nat \ {0} /\ Blocks \in Nat \ {0}
  BY PosFacts DEF ChainReady
<1>5. r11 \in 0 .. (Blocks - 1) /\ r8 = csize * r11 /\ r10 \in 0 .. (Steps - 1) /\ r12 = Follow[r10]
      /\ r10 \in Nat /\ r11 \in Nat
  <2>1. r11 \in 0 .. (Blocks - 1) /\ r8 = csize * r11 /\ r10 \in 0 .. Steps /\ r12 = Follow[r10] /\ r10 < Steps
    BY <1>1 DEF ChainReady, WalkInv
  <2> QED BY <1>4, <2>1
<1>6. l0 = Pos(r11, r10)
  BY <1>5 DEF Pos
<1>7. StoredAt(r11, r10) /\ pc \in Loading /\ pc \notin Storing
  BY <1>1 DEF StoredAt, Loading, Storing
<1>8. data[l0] = cindex[Follow[r10]] /\ stored[n0 + 1] = l0
  <2>1. n0 + 1 = r11 * Steps + r10 + 1
    OBVIOUS
  <2> QED BY <1>5, <1>6, <1>7, <2>1 DEF ChainReady, LinesInv
<1>9. r12' = Follow[r10 + 1]
  BY <1>1, <1>5, <1>8, CycleFacts DEF ChainReady
<1>10. /\ pc' = IF r10 + 1 < Steps THEN "load" ELSE "loadfence"
       /\ (~(r10 + 1 < Steps) => r10 + 1 = Steps)
  <2>1. r10 + 1 < size <=> r10 + 1 < Steps
    BY <1>3, <1>5, SMT DEF Steps
  <2>2. pc' = IF r10 + 1 < size THEN "load" ELSE "loadfence"
    BY <1>1
  <2>3. ~(r10 + 1 < Steps) => r10 + 1 = Steps
    BY <1>4, <1>5
  <2> QED BY <2>1, <2>2, <2>3
<1>11. pc' \in Loading /\ pc' \notin Storing /\ pc' \in {"load", "loadfence"}
  BY <1>10 DEF Loading, Storing
<1>12. WalkInv'
  <2>1. r10' \in 0 .. Steps /\ r11' = r11 /\ r8' = r8 /\ r10' = r10 + 1
    BY <1>1, <1>4, <1>5
  <2> QED BY <1>2, <1>3, <1>5, <1>9, <1>10, <2>1 DEF WalkInv
<1>13. MemInv'
  BY <1>1, <1>2, <1>7, <1>11 DEF ChainReady, MemInv
<1>14. LinesInv'
  <2>1. \A b, j : StoredAt(b, j)' /\ StoredAt(b, j)
    BY <1>7, <1>11 DEF StoredAt
  <2> QED BY <1>1, <2>1, LinesKept
<1>15. OrderInv'
  <2>1. /\ stored \in Seq(Int) /\ Len(stored) = Blocks * Steps /\ loaded = SubSeq(stored, 1, n0)
    BY <1>1, <1>7 DEF ChainReady, OrderInv
  <2>2. n0 \in Nat /\ n0 + 1 <= Blocks * Steps + 0
    <3>1. 0 \in 0 .. Steps /\ r11 < Blocks
      BY <1>4, <1>5
    <3> QED BY <1>4, <1>5, <3>1, RowFacts
  <2>3. n0 + 1 = r11' * Steps' + r10'
    <3>1. r11 * Steps \in Nat
      BY <1>4, <1>5, SMT
    <3> QED BY <1>1, <1>2, <1>5, <3>1
  <2> HIDE DEF n0, l0
  <2>4. n0 + 1 <= Len(stored)
    <3> DEFINE w == Blocks * Steps
    <3>1. w \in Nat /\ n0 + 1 <= w + 0 /\ Len(stored) = w
      BY <1>4, <2>1, <2>2, SMT
    <3> HIDE DEF w
    <3> QED BY <3>1
  <2>5. Append(SubSeq(stored, 1, n0), stored[n0 + 1]) = SubSeq(stored, 1, n0 + 1)
    BY ONLY <2>1, <2>2, <2>4
  <2>6. loaded' = SubSeq(stored, 1, n0 + 1)
    BY <1>1, <1>8, <2>1, <2>5
  <2>7. stored' = stored
    BY <1>1
  <2> QED BY <1>2, <1>11, <2>1, <2>3, <2>6, <2>7 DEF OrderInv
<1> QED BY <1>12, <1>13, <1>14, <1>15 DEF ChainReady

\* On to the next block of loads, or done.
LEMMA ChainLoadFence ==
  ASSUME ChainReady, CycleInv', LoadFence
  PROVE  ChainReady'
<1>1. /\ pc = "loadfence" /\ mem' = Fence(mem, Self)
      /\ r8' = IF r11 + 1 < count THEN r8 + csize ELSE r8
      /\ r11' = r11 + 1
      /\ r10' = 0 /\ r12' = 0 /\ pc' = IF r11 + 1 < count THEN "load" ELSE "done"
      /\ UNCHANGED <<args, build, data, stored, loaded>>
  BY DEF LoadFence
<1>2. /\ Steps' = Steps /\ Blocks' = Blocks /\ Line' = Line /\ Position' = Position /\ Follow' = Follow
  BY <1>1, IndexKept DEF ChainReady
<1>3. csize' = csize
  BY <1>1 DEF args
<1>4. r11 \in 0 .. (Blocks - 1) /\ r8 = csize * r11 /\ r10 = Steps
  BY <1>1 DEF ChainReady, WalkInv
<1>5. /\ Steps \in Nat \ {0} /\ Blocks \in Nat \ {0} /\ csize \in Nat \ {0} /\ r11 \in Nat
      /\ r11 + 1 < count => r11 + 1 \in 0 .. (Blocks - 1)
      /\ ~(r11 + 1 < count) => r11 + 1 = Blocks
      /\ csize * r11 + csize = csize * (r11 + 1)
      /\ r11 * Steps + Steps = (r11 + 1) * Steps /\ (r11 + 1) * Steps \in Nat
      /\ Follow[0] = 0
  BY <1>4, NextBlock
<1>6. MemOK(mem, Line, {Self}) /\ pc \notin Storing /\ pc \in Loading
  BY <1>1 DEF ChainReady, MemInv, Storing, Loading
<1>7. /\ MemOK(mem', Line, {Self}) /\ mem'.ver = mem.ver
      /\ \A l \in Line : mem.per[l] <= mem'.per[l]
  BY <1>1, <1>6, FenceFacts
<1>8. pc' \in Loading /\ pc' \notin Storing /\ pc' \notin {"test", "draw", "failed"}
  BY <1>1 DEF Storing, Loading
<1>9. MemInv'
  <2>1. ASSUME NEW l \in Line PROVE mem'.per[l] = mem'.ver[l]
    <3>1. mem.per[l] = mem.ver[l]
      BY <1>6 DEF ChainReady, MemInv
    <3>2. mem'.per[l] <= mem'.ver[l] /\ mem'.per[l] \in Nat /\ mem'.ver[l] \in Nat
      BY <1>7 DEF MemOK
    <3> QED BY <1>7, <3>1, <3>2
  <2> QED BY <1>2, <1>7, <1>8, <2>1 DEF MemInv
<1>10. LinesInv'
  <2>1. \A b, j : StoredAt(b, j)' /\ StoredAt(b, j)
    BY <1>6, <1>8 DEF StoredAt
  <2> QED BY <1>1, <1>7, <2>1, LinesKept
<1>11. /\ stored \in Seq(Int) /\ Len(stored) = Blocks * Steps
       /\ loaded = SubSeq(stored, 1, (r11 + 1) * Steps)
  BY <1>1, <1>4, <1>5, <1>6 DEF ChainReady, OrderInv
<1>12. CASE r11 + 1 < count
  <2>1. pc' = "load" /\ r8' = csize * (r11 + 1)
    BY <1>1, <1>4, <1>5, <1>12
  <2>2. WalkInv'
    <3>1. 0 \in 0 .. Steps /\ 0 < Steps
      BY <1>5
    <3> QED BY <1>1, <1>2, <1>3, <1>5, <1>12, <2>1, <3>1 DEF WalkInv
  <2>3. OrderInv'
    <3>1. r11' * Steps' + r10' = (r11 + 1) * Steps
      BY <1>1, <1>2, <1>5
    <3> QED BY <1>1, <1>2, <1>8, <1>11, <2>1, <3>1 DEF OrderInv
  <2> QED BY <1>9, <1>10, <2>2, <2>3 DEF ChainReady
<1>13. CASE ~(r11 + 1 < count)
  <2>1. pc' = "done" /\ r11' = Blocks
    BY <1>1, <1>5, <1>13
  <2>2. WalkInv'
    BY <1>1, <1>2, <2>1 DEF WalkInv
  <2>3. loaded = stored
    <3>1. loaded = SubSeq(stored, 1, Len(stored))
      BY <1>1, <1>11, <2>1
    <3>2. SubSeq(stored, 1, Len(stored)) = stored
      BY ONLY <1>11
    <3> QED BY <3>1, <3>2
  <2>4. OrderInv'
    BY <1>1, <1>2, <1>8, <1>11, <2>1, <2>3 DEF OrderInv
  <2> QED BY <1>9, <1>10, <2>2, <2>4 DEF ChainReady
<1> QED BY <1>12, <1>13

\* Every step keeps all of it.
LEMMA ChainNext == ChainReady /\ [Next]_vars => ChainReady'
<1> SUFFICES ASSUME ChainReady, [Next]_vars PROVE ChainReady'
  OBVIOUS
<1>1. CycleInv'
  BY CycleNext DEF ChainReady
<1>2. CASE UNCHANGED vars
  <2>1. /\ UNCHANGED <<args, build, pc, r8, r10, r11, r12, data, mem, stored, loaded>>
    BY <1>2 DEF vars
  <2>2. /\ Steps' = Steps /\ Blocks' = Blocks /\ Line' = Line /\ Position' = Position /\ Follow' = Follow
    BY <2>1, IndexKept DEF ChainReady
  <2>3. \A b, j : StoredAt(b, j)' <=> StoredAt(b, j)
    BY <2>1 DEF StoredAt
  <2>4. LinesInv'
    BY <2>1, <2>3, LinesKept
  <2>5. csize' = csize
    BY <2>1 DEF args
  <2> QED BY <1>1, <2>1, <2>2, <2>4, <2>5 DEF ChainReady, WalkInv, MemInv, OrderInv
<1>3. CASE ForTest \/ RandFail \/ \E next_pos \in DOMAIN cindex : DrawTaken(next_pos) \/ DrawFree(next_pos)
  BY <1>1, <1>3, ChainDraws
<1>4. CASE StoreOne \/ StoreFence \/ LoadOne \/ LoadFence
  BY <1>1, <1>4, ChainStores, ChainFence, ChainLoads, ChainLoadFence
<1> QED BY <1>2, <1>3, <1>4 DEF Next

\* The positions stay below csize, in the index, in the register that walks
\* and in the lines.
THEOREM TypesCorrect == Spec => []TypeOK
<1>1. ChainReady => TypeOK
  <2> SUFFICES ASSUME ChainReady PROVE TypeOK
    OBVIOUS
  <2>1. /\ cindex \in [0 .. (csize - 1) -> 0 .. (csize - 1)] /\ DOMAIN cindex = Position
        /\ curr_pos \in Position /\ i \in 0 .. (csize - 1)
        /\ 0 \in Position /\ Follow \in [Nat -> Position]
    BY CycleFacts DEF ChainReady, Position
  <2>2. r12 \in Position
    <3>1. Steps \in Nat \ {0}
      BY PosFacts DEF ChainReady
    <3>2. CASE pc \in {"store", "storefence", "load", "loadfence"}
      <4>1. r12 = Follow[r10] /\ r10 \in 0 .. Steps
        BY <3>2 DEF ChainReady, WalkInv
      <4>2. r10 \in Nat
        BY <3>1, <4>1
      <4> QED BY <2>1, <4>1, <4>2
    <3>3. CASE pc \notin {"store", "storefence", "load", "loadfence"}
      <4>1. pc \in {"test", "draw", "failed", "done"}
        BY <3>3 DEF ChainReady, CycleInv, Storing, Loading
      <4>2. r12 = 0
        BY <4>1 DEF ChainReady, WalkInv
      <4> QED BY <2>1, <4>2
    <3> QED BY <3>2, <3>3
  <2>3. data \in [DOMAIN mem.ver -> Position]
    BY DEF ChainReady, LinesInv, MemInv, MemOK
  <2>4. tries \in 0 .. MaxRetry /\ pc \in {"test", "draw", "failed"} \cup Storing \cup Loading
    BY DEF ChainReady, CycleInv
  <2> QED BY <2>1, <2>2, <2>3, <2>4 DEF TypeOK, Storing, Loading
<1> QED BY <1>1, ChainInit, ChainNext, PTL DEF Spec

\* The chain is durable when the loads begin, for any number of blocks and
\* any access size.
THEOREM ChainIsDurable == Spec => []ChainDurable
<1>1. ChainReady => ChainDurable
  <2> SUFFICES ASSUME ChainReady, pc \in Loading, NEW l \in DOMAIN mem.ver, mem.per[l] < mem.ver[l]
               PROVE  FALSE
    BY DEF ChainDurable, Lost, Loading
  <2>1. l \in Line /\ mem.per[l] = mem.ver[l] /\ mem.ver[l] \in Nat
    <3>1. MemOK(mem, Line, {Self}) /\ pc \notin Storing
      BY DEF ChainReady, MemInv, Storing, Loading
    <3>2. l \in Line /\ mem.ver[l] \in Nat
      BY <3>1 DEF MemOK
    <3> QED BY <3>1, <3>2 DEF ChainReady, MemInv
  <2> QED BY <2>1
<1> QED BY <1>1, ChainInit, ChainNext, PTL DEF Spec

\* A walk as long as the index goes through all positions.
LEMMA WalkCovers ==
  ASSUME CycleInv, i = csize - 1, NEW x \in Position
  PROVE  \E j \in 0 .. i : Follow[j] = x
<1>1. /\ Follow \in [Nat -> Position] /\ i \in Nat /\ Position = 0 .. i
      /\ \A j, k \in 0 .. i : Follow[j] = Follow[k] => j = k
  <2>1. csize \in Nat \ {0}
    BY DEF CycleInv
  <2>2. /\ Follow \in [Nat -> Position] /\ i \in Position
        /\ \A j, k \in 0 .. i : Follow[j] = Follow[k] => j = k
    BY CycleFacts
  <2>3. i \in Nat /\ Position = 0 .. i
    BY <2>1 DEF Position
  <2> QED BY <2>2, <2>3
<1> DEFINE f == [j \in 0 .. i |-> Follow[j]]
<1>2. f \in Injection(0 .. i, Position)
  <2>1. \A j \in 0 .. i : j \in Nat
    BY <1>1
  <2> QED BY <1>1, <2>1 DEF Injection, IsInjective
<1>3. IsFiniteSet(0 .. i)
  BY <1>1, FS_Interval
<1> HIDE DEF f
<1>4. f \in Surjection(0 .. i, Position)
  BY <1>1, <1>2, <1>3, FS_Injection
<1>5. PICK j \in 0 .. i : f[j] = x
  BY <1>4 DEF Surjection
<1> QED BY <1>5 DEF f

\* The loads visit the lines in the order of the stores, in every block, and
\* a block whose access size covers the index has been written completely,
\* for any index, any number of blocks and any access size.
THEOREM LoadsFollow == Spec => []LoadsFollowStores
<1>1. ChainReady => LoadsFollowStores
  <2> SUFFICES ASSUME ChainReady PROVE LoadsFollowStores
    OBVIOUS
  <2>1. Steps \in Nat \ {0} /\ Blocks \in Nat \ {0} /\ csize \in Nat \ {0} /\ size \in Int
    BY PosFacts DEF ChainReady, CycleInv
  <2>2. stored \in Seq(Int) /\ Len(stored) \in Nat
    BY DEF ChainReady, OrderInv
  <2>3. \E m \in 0 .. Len(stored) : loaded = SubSeq(stored, 1, m)
    <3>1. CASE pc \notin Loading
      <4>1. loaded = << >> /\ SubSeq(stored, 1, 0) = << >>
        BY <2>2, <3>1 DEF ChainReady, OrderInv
      <4> QED BY <2>2, <4>1
    <3>2. CASE pc \in {"load", "loadfence"}
      <4>1. /\ loaded = SubSeq(stored, 1, r11 * Steps + r10) /\ Len(stored) = Blocks * Steps
            /\ r11 \in 0 .. (Blocks - 1) /\ r10 \in 0 .. Steps
        BY <3>2 DEF ChainReady, OrderInv, WalkInv, Loading
      <4>2. r11 \in Nat /\ r11 < Blocks /\ r10 \in Nat
        BY <2>1, <4>1
      <4>3. r11 * Steps + Steps <= Blocks * Steps /\ r11 * Steps \in Nat
        BY <2>1, <4>2, TimesMonotone, SMT
      <4> DEFINE w == Blocks * Steps
                 v == r11 * Steps
      <4>4. w \in Nat /\ v \in Nat /\ v + Steps <= w /\ Len(stored) = w
        BY <2>2, <4>1, <4>3
      <4> HIDE DEF w, v
      <4>5. v + r10 \in 0 .. Len(stored)
        BY <2>1, <4>1, <4>2, <4>4
      <4> QED BY <4>1, <4>5 DEF v
    <3>3. CASE pc = "done"
      <4>1. loaded = stored
        BY <3>3 DEF ChainReady, OrderInv
      <4>2. SubSeq(stored, 1, Len(stored)) = stored
        BY ONLY <2>2
      <4>3. Len(stored) \in 0 .. Len(stored) /\ loaded = SubSeq(stored, 1, Len(stored))
        BY <2>2, <4>1, <4>2
      <4> QED BY <4>3
    <3> QED BY <3>1, <3>2, <3>3 DEF Loading
  <2>4. Len(loaded) <= Len(stored) /\ loaded = SubSeq(stored, 1, Len(loaded))
    <3>1. PICK m \in 0 .. Len(stored) : loaded = SubSeq(stored, 1, m)
      BY <2>3
    <3>2. Len(SubSeq(stored, 1, m)) = m
      BY ONLY <2>2, <3>1
    <3> QED BY <3>1, <3>2
  <2>5. pc = "done" => loaded = stored
    BY DEF ChainReady, OrderInv
  <2>6. ASSUME pc \in Loading, size >= csize, NEW l \in DOMAIN mem.ver
        PROVE  mem.ver[l] >= 1 /\ (size = csize => mem.ver[l] = 1)
    <3> DEFINE b == l \div csize
               x == l % csize
    <3>1. l \in 0 .. (csize * Blocks - 1)
      BY DEF ChainReady, MemInv, MemOK, Line
    <3>2. /\ b \in 0 .. (Blocks - 1) /\ x \in Position /\ l = csize * b + x
      <4> DEFINE q == csize
                 w == Blocks
                 c == l \div q
                 y == l % q
      <4>1. q \in Nat \ {0} /\ w \in Nat \ {0} /\ l \in 0 .. (q * w - 1)
        BY <2>1, <3>1
      <4> HIDE DEF q, w
      <4>2. q * w \in Nat /\ l \in Nat /\ l < q * w
        <5>1. q * w \in Nat
          BY <4>1, SMT
        <5> DEFINE z == q * w
        <5>2. z \in Nat /\ l \in 0 .. (z - 1)
          BY <4>1, <5>1
        <5> HIDE DEF z
        <5>3. l \in Nat /\ l < z
          BY <5>2
        <5> QED BY <5>1, <5>3 DEF z
      <4>3. c \in Nat /\ y \in 0 .. (q - 1) /\ l = c * q + y
        BY <4>1, <4>2, SMT
      <4> HIDE DEF c, y
      <4>4. c < w
        <5> SUFFICES ASSUME ~(c < w) PROVE FALSE
          OBVIOUS
        <5>1. w = c \/ w < c
          BY <4>1, <4>3
        <5>2. w * q <= c * q
          <6>1. w < c => w * q + q <= c * q
            BY <4>1, <4>3, TimesMonotone
          <6>2. w * q \in Nat /\ c * q \in Nat
            BY <4>1, <4>3, SMT
          <6> QED BY <4>1, <5>1, <6>1, <6>2
        <5>3. w * q = q * w /\ c * q \in Nat
          BY <4>1, <4>3, SMT
        <5> QED BY <4>2, <4>3, <5>2, <5>3, SMT
      <4>5. c * q = q * c
        BY <4>1, <4>3, SMT
      <4>6. c \in 0 .. (w - 1) /\ y \in 0 .. (q - 1) /\ l = q * c + y
        BY <4>1, <4>3, <4>4, <4>5
      <4> QED BY <4>6 DEF c, y, q, w, Position
    <3> HIDE DEF b, x
    <3>3. i = csize - 1
      BY <2>6 DEF ChainReady, CycleInv
    <3>4. PICK j \in 0 .. i : Follow[j] = x
      BY <3>2, <3>3, WalkCovers DEF ChainReady
    <3>5. j \in 0 .. (Steps - 1)
      <4>1. csize <= Steps
        BY <2>1, <2>6 DEF Steps
      <4> QED BY <2>1, <3>3, <4>1
    <3>6. Pos(b, j) = l /\ StoredAt(b, j)
      BY <2>6, <3>2, <3>4 DEF Pos, StoredAt
    <3> QED BY <3>2, <3>5, <3>6 DEF ChainReady, LinesInv
  <2> QED BY <2>4, <2>5, <2>6 DEF LoadsFollowStores, Loading
<1> QED BY <1>1, ChainInit, ChainNext, PTL DEF Spec
=============================================================================
