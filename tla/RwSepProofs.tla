---------------------------- MODULE RwSepProofs -----------------------------
(***************************************************************************)
(* Theorems about RwSepMultithread: for any number of thread pairs and     *)
(* jobs, and any failures, no allocator is freed under a running thread,   *)
(* task 3 never runs a reader beside a writer, task 2 keeps them on two    *)
(* channels, what a task has stored is durable when it frees, and no two   *)
(* threads meet on a line of PM but the pairs of task 1.                   *)
(*                                                                         *)
(* The argument: every thread has one place in a task's script where it is *)
(* created and one where it is joined, and it only runs in between.  That  *)
(* the buffers are apart comes from the theorems about FastAlloc.          *)
(***************************************************************************)
EXTENDS RwSepMultithread, PMemProofs, SequenceTheorems

\* The number of calls before the first pthread_create.
Origin == 2 * NUMTHREAD + 3

\* The number of calls of a task.
Last == 6 * NUMTHREAD + 5

\* The place in task k where a thread is created,
CreateAt(k, t) ==
  IF k = 3 THEN Origin + t[2] + (IF t[1] = "w" THEN 1 ELSE 2 * NUMTHREAD + 1)
  ELSE Origin + 2 * t[2] + (IF t[1] = "w" THEN 1 ELSE 2)

\* and where it is joined.
JoinAt(k, t) ==
  IF k = 3 THEN Origin + NUMTHREAD + t[2] + (IF t[1] = "w" THEN 1 ELSE 2 * NUMTHREAD + 1)
  ELSE Origin + 2 * NUMTHREAD + 2 * t[2] + (IF t[1] = "r" THEN 1 ELSE 2)

\* The place where the i-th buffer is taken from allocator k.
FillAt(k, i) == 2 + 2 * i + k

----------------------------------------------------------------------------
(* The script.                                                             *)

\* All calls of all scripts.
AnyCall ==
  [op : {"init", "alloc", "set_arg", "create", "join", "free"},
   arg : {0, 1, 2} \cup Thread \cup ({1, 2} \X Index)]

\* Two sequences of calls, one behind the other.
LEMMA Joined ==
  ASSUME NEW s \in Seq(AnyCall), NEW t \in Seq(AnyCall)
  PROVE  /\ s \o t \in Seq(AnyCall)
         /\ Len(s \o t) = Len(s) + Len(t)
         /\ \A i \in 1 .. Len(s) : (s \o t)[i] = s[i]
         /\ \A i \in 1 .. Len(t) : (s \o t)[i + Len(s)] = t[i]
<1>1. /\ s \o t \in Seq(AnyCall) /\ Len(s \o t) = Len(s) + Len(t)
      /\ \A i \in 1 .. Len(s) + Len(t) :
           (s \o t)[i] = IF i <= Len(s) THEN s[i] ELSE t[i - Len(s)]
  BY ConcatProperties
<1>2. Len(s) \in Nat /\ Len(t) \in Nat
  OBVIOUS
<1> QED BY <1>1, <1>2

\* A loop over one kind is a sequence of NUMTHREAD calls.
LEMMA Loop1Facts ==
  ASSUME NEW op, NEW a, \A i \in Index : Call(op, <<a, i>>) \in AnyCall
  PROVE  /\ Loop1(op, a) \in Seq(AnyCall)
         /\ Len(Loop1(op, a)) = NUMTHREAD
         /\ \A n \in 1 .. NUMTHREAD : Loop1(op, a)[n] = Call(op, <<a, n - 1>>)
<1>1. NUMTHREAD \in Nat
  BY RwSepAssumption
<1>2. \A n \in 1 .. NUMTHREAD : n - 1 \in Index
  BY <1>1 DEF Index
<1>3. Loop1(op, a) \in [1 .. NUMTHREAD -> AnyCall]
  BY <1>2 DEF Loop1
<1> QED BY <1>1, <1>3 DEF Loop1

\* A loop over two kinds is a sequence of twice as many, the kinds in turn.
LEMMA Loop2Facts ==
  ASSUME NEW op, NEW a, NEW b,
         \A i \in Index : Call(op, <<a, i>>) \in AnyCall /\ Call(op, <<b, i>>) \in AnyCall
  PROVE  /\ Loop2(op, a, b) \in Seq(AnyCall)
         /\ Len(Loop2(op, a, b)) = 2 * NUMTHREAD
         /\ \A n \in 1 .. 2 * NUMTHREAD :
              Loop2(op, a, b)[n] = Call(op, <<IF n % 2 = 1 THEN a ELSE b, (n - 1) \div 2>>)
<1>1. NUMTHREAD \in Nat
  BY RwSepAssumption
<1>2. \A n \in 1 .. 2 * NUMTHREAD : (n - 1) \div 2 \in Index
  BY <1>1 DEF Index
<1>3. Loop2(op, a, b) \in [1 .. 2 * NUMTHREAD -> AnyCall]
  BY <1>2 DEF Loop2
<1> QED BY <1>1, <1>3 DEF Loop2

\* The part of the script before the threads: each call at its place.
LEMMA PrepareFacts ==
  /\ Prepare \in Seq(AnyCall) /\ Len(Prepare) = Origin
  /\ Prepare[1] = Call("init", 1) /\ Prepare[2] = Call("init", 2)
  /\ Prepare[Origin] = Call("set_arg", 0)
  /\ \A n \in 1 .. 2 * NUMTHREAD :
       Prepare[n + 2] = Call("alloc", <<IF n % 2 = 1 THEN 1 ELSE 2, (n - 1) \div 2>>)
<1> DEFINE I == <<Call("init", 1), Call("init", 2)>>
           A == Loop2("alloc", 1, 2)
           S == <<Call("set_arg", 0)>>
<1>1. NUMTHREAD \in Nat
  BY RwSepAssumption
<1>2. I \in Seq(AnyCall) /\ Len(I) = 2 /\ I[1] = Call("init", 1) /\ I[2] = Call("init", 2)
  BY DEF AnyCall, Call
<1>3. S \in Seq(AnyCall) /\ Len(S) = 1 /\ S[1] = Call("set_arg", 0)
  BY DEF AnyCall, Call
<1>4. \A i \in Index : Call("alloc", <<1, i>>) \in AnyCall /\ Call("alloc", <<2, i>>) \in AnyCall
  BY DEF AnyCall, Call
<1>5. /\ A \in Seq(AnyCall) /\ Len(A) = 2 * NUMTHREAD
      /\ \A n \in 1 .. 2 * NUMTHREAD :
           A[n] = Call("alloc", <<IF n % 2 = 1 THEN 1 ELSE 2, (n - 1) \div 2>>)
  BY <1>4, Loop2Facts
<1> HIDE DEF I, A, S
<1>6. /\ I \o A \in Seq(AnyCall) /\ Len(I \o A) = 2 + 2 * NUMTHREAD
      /\ (I \o A)[1] = I[1] /\ (I \o A)[2] = I[2]
      /\ \A n \in 1 .. 2 * NUMTHREAD : (I \o A)[n + 2] = A[n]
  <2>1. I \in Seq(AnyCall) /\ A \in Seq(AnyCall) /\ Len(I) = 2 /\ Len(A) = 2 * NUMTHREAD
    BY ONLY <1>2, <1>5
  <2>2. /\ I \o A \in Seq(AnyCall) /\ Len(I \o A) = Len(I) + Len(A)
        /\ \A n \in 1 .. Len(I) : (I \o A)[n] = I[n]
        /\ \A n \in 1 .. Len(A) : (I \o A)[n + Len(I)] = A[n]
    BY ONLY <2>1, Joined
  <2>3. 1 \in 1 .. 2 /\ 2 \in 1 .. 2
    BY ONLY <1>1
  <2> QED BY ONLY <2>1, <2>2, <2>3
<1>7. /\ (I \o A) \o S \in Seq(AnyCall) /\ Len((I \o A) \o S) = Origin
      /\ \A n \in 1 .. (2 + 2 * NUMTHREAD) : ((I \o A) \o S)[n] = (I \o A)[n]
      /\ ((I \o A) \o S)[Origin] = S[1]
  <2>1. (I \o A) \in Seq(AnyCall) /\ S \in Seq(AnyCall) /\ Len((I \o A)) = 2 + 2 * NUMTHREAD /\ Len(S) = 1
    BY ONLY <1>3, <1>6
  <2>2. /\ (I \o A) \o S \in Seq(AnyCall) /\ Len((I \o A) \o S) = Len((I \o A)) + Len(S)
        /\ \A n \in 1 .. Len((I \o A)) : ((I \o A) \o S)[n] = (I \o A)[n]
        /\ \A n \in 1 .. Len(S) : ((I \o A) \o S)[n + Len((I \o A))] = S[n]
    BY ONLY <2>1, Joined
  <2>3. (2 + 2 * NUMTHREAD) + 1 = Origin /\ 1 + (2 + 2 * NUMTHREAD) = Origin /\ 1 \in 1 .. 1
    BY ONLY <1>1 DEF Origin
  <2> QED BY ONLY <2>1, <2>2, <2>3
<1>8. Prepare = (I \o A) \o S
  BY DEF Prepare, I, A, S
<1>9. /\ 1 \in 1 .. (2 + 2 * NUMTHREAD) /\ 2 \in 1 .. (2 + 2 * NUMTHREAD)
      /\ \A n \in 1 .. 2 * NUMTHREAD : n + 2 \in 1 .. (2 + 2 * NUMTHREAD)
  BY ONLY <1>1
<1>10. Prepare[1] = Call("init", 1) /\ Prepare[2] = Call("init", 2)
  BY ONLY <1>2, <1>6, <1>7, <1>8, <1>9
<1>11. \A n \in 1 .. 2 * NUMTHREAD : Prepare[n + 2] = A[n]
  BY ONLY <1>6, <1>7, <1>8, <1>9
<1> QED BY <1>3, <1>5, <1>7, <1>8, <1>10, <1>11

\* The calls of tasks 1 and 2 that create and join the threads.
LEMMA TogetherFacts ==
  /\ RunTogether \in Seq(AnyCall) /\ Len(RunTogether) = 4 * NUMTHREAD
  /\ \A n \in 1 .. 2 * NUMTHREAD :
       RunTogether[n] = Call("create", <<IF n % 2 = 1 THEN "w" ELSE "r", (n - 1) \div 2>>)
  /\ \A n \in 1 .. 2 * NUMTHREAD :
       RunTogether[n + 2 * NUMTHREAD] =
         Call("join", <<IF n % 2 = 1 THEN "r" ELSE "w", (n - 1) \div 2>>)
<1> DEFINE C == Loop2("create", "w", "r")
           J == Loop2("join", "r", "w")
<1>1. NUMTHREAD \in Nat
  BY RwSepAssumption
<1>2. \A i \in Index : /\ Call("create", <<"w", i>>) \in AnyCall /\ Call("create", <<"r", i>>) \in AnyCall
                       /\ Call("join", <<"w", i>>) \in AnyCall /\ Call("join", <<"r", i>>) \in AnyCall
  BY DEF AnyCall, Call, Thread
<1>3. /\ C \in Seq(AnyCall) /\ Len(C) = 2 * NUMTHREAD
      /\ \A n \in 1 .. 2 * NUMTHREAD :
           C[n] = Call("create", <<IF n % 2 = 1 THEN "w" ELSE "r", (n - 1) \div 2>>)
  BY <1>2, Loop2Facts
<1>4. /\ J \in Seq(AnyCall) /\ Len(J) = 2 * NUMTHREAD
      /\ \A n \in 1 .. 2 * NUMTHREAD :
           J[n] = Call("join", <<IF n % 2 = 1 THEN "r" ELSE "w", (n - 1) \div 2>>)
  BY <1>2, Loop2Facts
<1> HIDE DEF C, J
<1>5. /\ C \o J \in Seq(AnyCall) /\ Len(C \o J) = 4 * NUMTHREAD
      /\ \A n \in 1 .. 2 * NUMTHREAD : (C \o J)[n] = C[n]
      /\ \A n \in 1 .. 2 * NUMTHREAD : (C \o J)[n + 2 * NUMTHREAD] = J[n]
  <2>1. C \in Seq(AnyCall) /\ J \in Seq(AnyCall) /\ Len(C) = 2 * NUMTHREAD /\ Len(J) = 2 * NUMTHREAD
    BY ONLY <1>3, <1>4
  <2>2. /\ C \o J \in Seq(AnyCall) /\ Len(C \o J) = Len(C) + Len(J)
        /\ \A n \in 1 .. Len(C) : (C \o J)[n] = C[n]
        /\ \A n \in 1 .. Len(J) : (C \o J)[n + Len(C)] = J[n]
    BY ONLY <2>1, Joined
  <2>3. 2 * NUMTHREAD + 2 * NUMTHREAD = 4 * NUMTHREAD
    BY ONLY <1>1
  <2> QED BY ONLY <2>1, <2>2, <2>3
<1>6. RunTogether = C \o J
  BY DEF RunTogether, C, J
<1> QED BY <1>3, <1>4, <1>5, <1>6

\* The calls of task 3 that create and join the threads.
LEMMA SeparateFacts ==
  /\ RunSeparate \in Seq(AnyCall) /\ Len(RunSeparate) = 4 * NUMTHREAD
  /\ \A n \in 1 .. NUMTHREAD :
       /\ RunSeparate[n] = Call("create", <<"w", n - 1>>)
       /\ RunSeparate[n + NUMTHREAD] = Call("join", <<"w", n - 1>>)
       /\ RunSeparate[n + 2 * NUMTHREAD] = Call("create", <<"r", n - 1>>)
       /\ RunSeparate[n + 3 * NUMTHREAD] = Call("join", <<"r", n - 1>>)
<1> DEFINE A == Loop1("create", "w")
           B == Loop1("join", "w")
           C == Loop1("create", "r")
           D == Loop1("join", "r")
<1>1. NUMTHREAD \in Nat
  BY RwSepAssumption
<1>2. \A i \in Index : /\ Call("create", <<"w", i>>) \in AnyCall /\ Call("create", <<"r", i>>) \in AnyCall
                       /\ Call("join", <<"w", i>>) \in AnyCall /\ Call("join", <<"r", i>>) \in AnyCall
  BY DEF AnyCall, Call, Thread
<1>3. /\ A \in Seq(AnyCall) /\ Len(A) = NUMTHREAD
      /\ \A n \in 1 .. NUMTHREAD : A[n] = Call("create", <<"w", n - 1>>)
  BY <1>2, Loop1Facts
<1>4. /\ B \in Seq(AnyCall) /\ Len(B) = NUMTHREAD
      /\ \A n \in 1 .. NUMTHREAD : B[n] = Call("join", <<"w", n - 1>>)
  BY <1>2, Loop1Facts
<1>5. /\ C \in Seq(AnyCall) /\ Len(C) = NUMTHREAD
      /\ \A n \in 1 .. NUMTHREAD : C[n] = Call("create", <<"r", n - 1>>)
  BY <1>2, Loop1Facts
<1>6. /\ D \in Seq(AnyCall) /\ Len(D) = NUMTHREAD
      /\ \A n \in 1 .. NUMTHREAD : D[n] = Call("join", <<"r", n - 1>>)
  BY <1>2, Loop1Facts
<1> HIDE DEF A, B, C, D
<1>7. /\ A \o B \in Seq(AnyCall) /\ Len(A \o B) = 2 * NUMTHREAD
      /\ \A n \in 1 .. NUMTHREAD : (A \o B)[n] = A[n]
      /\ \A n \in 1 .. NUMTHREAD : (A \o B)[n + NUMTHREAD] = B[n]
  <2>1. A \in Seq(AnyCall) /\ B \in Seq(AnyCall) /\ Len(A) = NUMTHREAD /\ Len(B) = NUMTHREAD
    BY ONLY <1>3, <1>4
  <2>2. /\ A \o B \in Seq(AnyCall) /\ Len(A \o B) = Len(A) + Len(B)
        /\ \A n \in 1 .. Len(A) : (A \o B)[n] = A[n]
        /\ \A n \in 1 .. Len(B) : (A \o B)[n + Len(A)] = B[n]
    BY ONLY <2>1, Joined
  <2>3. NUMTHREAD + NUMTHREAD = 2 * NUMTHREAD
    BY ONLY <1>1
  <2> QED BY ONLY <2>1, <2>2, <2>3
<1>8. /\ (A \o B) \o C \in Seq(AnyCall) /\ Len((A \o B) \o C) = 3 * NUMTHREAD
      /\ \A n \in 1 .. 2 * NUMTHREAD : ((A \o B) \o C)[n] = (A \o B)[n]
      /\ \A n \in 1 .. NUMTHREAD : ((A \o B) \o C)[n + 2 * NUMTHREAD] = C[n]
  <2>1. (A \o B) \in Seq(AnyCall) /\ C \in Seq(AnyCall) /\ Len((A \o B)) = 2 * NUMTHREAD /\ Len(C) = NUMTHREAD
    BY ONLY <1>5, <1>7
  <2>2. /\ (A \o B) \o C \in Seq(AnyCall) /\ Len((A \o B) \o C) = Len((A \o B)) + Len(C)
        /\ \A n \in 1 .. Len((A \o B)) : ((A \o B) \o C)[n] = (A \o B)[n]
        /\ \A n \in 1 .. Len(C) : ((A \o B) \o C)[n + Len((A \o B))] = C[n]
    BY ONLY <2>1, Joined
  <2>3. 2 * NUMTHREAD + NUMTHREAD = 3 * NUMTHREAD
    BY ONLY <1>1
  <2> QED BY ONLY <2>1, <2>2, <2>3
<1>9. /\ ((A \o B) \o C) \o D \in Seq(AnyCall) /\ Len(((A \o B) \o C) \o D) = 4 * NUMTHREAD
      /\ \A n \in 1 .. 3 * NUMTHREAD : (((A \o B) \o C) \o D)[n] = ((A \o B) \o C)[n]
      /\ \A n \in 1 .. NUMTHREAD : (((A \o B) \o C) \o D)[n + 3 * NUMTHREAD] = D[n]
  <2>1. ((A \o B) \o C) \in Seq(AnyCall) /\ D \in Seq(AnyCall) /\ Len(((A \o B) \o C)) = 3 * NUMTHREAD /\ Len(D) = NUMTHREAD
    BY ONLY <1>6, <1>8
  <2>2. /\ ((A \o B) \o C) \o D \in Seq(AnyCall) /\ Len(((A \o B) \o C) \o D) = Len(((A \o B) \o C)) + Len(D)
        /\ \A n \in 1 .. Len(((A \o B) \o C)) : (((A \o B) \o C) \o D)[n] = ((A \o B) \o C)[n]
        /\ \A n \in 1 .. Len(D) : (((A \o B) \o C) \o D)[n + Len(((A \o B) \o C))] = D[n]
    BY ONLY <2>1, Joined
  <2>3. 3 * NUMTHREAD + NUMTHREAD = 4 * NUMTHREAD
    BY ONLY <1>1
  <2> QED BY ONLY <2>1, <2>2, <2>3
<1>10. RunSeparate = ((A \o B) \o C) \o D
  BY DEF RunSeparate, A, B, C, D
<1>11. ASSUME NEW n \in 1 .. NUMTHREAD
       PROVE  /\ RunSeparate[n] = A[n] /\ RunSeparate[n + NUMTHREAD] = B[n]
              /\ RunSeparate[n + 2 * NUMTHREAD] = C[n] /\ RunSeparate[n + 3 * NUMTHREAD] = D[n]
  <2>1. /\ n \in 1 .. 2 * NUMTHREAD /\ n + NUMTHREAD \in 1 .. 2 * NUMTHREAD
        /\ n \in 1 .. 3 * NUMTHREAD /\ n + NUMTHREAD \in 1 .. 3 * NUMTHREAD
        /\ n + 2 * NUMTHREAD \in 1 .. 3 * NUMTHREAD
    BY <1>1
  <2> QED BY <2>1, <1>7, <1>8, <1>9, <1>10
<1> QED BY <1>3, <1>4, <1>5, <1>6, <1>9, <1>10, <1>11

\* The calls of task k between the preparation and the frees.
Runs(k) == IF k = 3 THEN RunSeparate ELSE RunTogether

\* A script is the preparation, the threads' calls, and the two frees.
LEMMA ScriptFacts ==
  ASSUME NEW k \in 1 .. 3
  PROVE  /\ Len(Script(k)) = Last
         /\ Script(k)[1] = Call("init", 1) /\ Script(k)[2] = Call("init", 2)
         /\ \A n \in 1 .. 2 * NUMTHREAD :
              Script(k)[n + 2] = Call("alloc", <<IF n % 2 = 1 THEN 1 ELSE 2, (n - 1) \div 2>>)
         /\ Script(k)[Origin] = Call("set_arg", 0)
         /\ \A n \in 1 .. 4 * NUMTHREAD : Script(k)[n + Origin] = Runs(k)[n]
         /\ Script(k)[Last - 1] = Call("free", 1) /\ Script(k)[Last] = Call("free", 2)
<1> DEFINE F == <<Call("free", 1), Call("free", 2)>>
           R == Runs(k)
<1>1. NUMTHREAD \in Nat
  BY RwSepAssumption
<1>2. F \in Seq(AnyCall) /\ Len(F) = 2 /\ F[1] = Call("free", 1) /\ F[2] = Call("free", 2)
  BY DEF AnyCall, Call
<1>3. R \in Seq(AnyCall) /\ Len(R) = 4 * NUMTHREAD
  BY TogetherFacts, SeparateFacts DEF Runs
<1> HIDE DEF F, R
<1>4. /\ Prepare \o R \in Seq(AnyCall) /\ Len(Prepare \o R) = Origin + 4 * NUMTHREAD
      /\ \A n \in 1 .. Origin : (Prepare \o R)[n] = Prepare[n]
      /\ \A n \in 1 .. 4 * NUMTHREAD : (Prepare \o R)[n + Origin] = R[n]
  <2>1. Prepare \in Seq(AnyCall) /\ R \in Seq(AnyCall) /\ Len(Prepare) = Origin /\ Len(R) = 4 * NUMTHREAD
    BY ONLY <1>3, PrepareFacts
  <2>2. /\ Prepare \o R \in Seq(AnyCall) /\ Len(Prepare \o R) = Len(Prepare) + Len(R)
        /\ \A n \in 1 .. Len(Prepare) : (Prepare \o R)[n] = Prepare[n]
        /\ \A n \in 1 .. Len(R) : (Prepare \o R)[n + Len(Prepare)] = R[n]
    BY ONLY <2>1, Joined
  <2> QED BY ONLY <2>1, <2>2
<1>5. /\ Len((Prepare \o R) \o F) = Last
      /\ \A n \in 1 .. (Origin + 4 * NUMTHREAD) : ((Prepare \o R) \o F)[n] = (Prepare \o R)[n]
      /\ ((Prepare \o R) \o F)[Last - 1] = F[1] /\ ((Prepare \o R) \o F)[Last] = F[2]
  <2>1. (Prepare \o R) \in Seq(AnyCall) /\ F \in Seq(AnyCall) /\ Len((Prepare \o R)) = Origin + 4 * NUMTHREAD /\ Len(F) = 2
    BY ONLY <1>2, <1>4
  <2>2. /\ (Prepare \o R) \o F \in Seq(AnyCall) /\ Len((Prepare \o R) \o F) = Len((Prepare \o R)) + Len(F)
        /\ \A n \in 1 .. Len((Prepare \o R)) : ((Prepare \o R) \o F)[n] = (Prepare \o R)[n]
        /\ \A n \in 1 .. Len(F) : ((Prepare \o R) \o F)[n + Len((Prepare \o R))] = F[n]
    BY ONLY <2>1, Joined
  <2>3. /\ (Origin + 4 * NUMTHREAD) + 2 = Last /\ 1 \in 1 .. 2 /\ 2 \in 1 .. 2
        /\ 1 + (Origin + 4 * NUMTHREAD) = Last - 1 /\ 2 + (Origin + 4 * NUMTHREAD) = Last
    BY ONLY <1>1 DEF Origin, Last
  <2> QED BY ONLY <2>1, <2>2, <2>3
<1>6. Script(k) = (Prepare \o R) \o F
  BY DEF Script, R, Runs, F
<1>7. \A n \in 1 .. Origin : Script(k)[n] = Prepare[n]
  BY <1>1, <1>4, <1>5, <1>6 DEF Origin
<1>8. \A n \in 1 .. 4 * NUMTHREAD : Script(k)[n + Origin] = R[n]
  <2> SUFFICES ASSUME NEW n \in 1 .. 4 * NUMTHREAD PROVE Script(k)[n + Origin] = R[n]
    OBVIOUS
  <2>1. n + Origin \in 1 .. (Origin + 4 * NUMTHREAD)
    BY <1>1 DEF Origin
  <2> QED BY <2>1, <1>4, <1>5, <1>6
<1>9. /\ 1 \in 1 .. Origin /\ 2 \in 1 .. Origin /\ Origin \in 1 .. Origin
      /\ \A n \in 1 .. 2 * NUMTHREAD : n + 2 \in 1 .. Origin
  BY <1>1 DEF Origin
<1> QED BY <1>2, <1>5, <1>6, <1>7, <1>8, <1>9, PrepareFacts DEF R

\* Every call of the preparation stands at its place.
LEMMA PreparePlaces ==
  ASSUME NEW k \in 1 .. 3
  PROVE  /\ Len(Script(k)) = Last
         /\ Script(k)[Origin] = Call("set_arg", 0)
         /\ \A c \in {1, 2} : /\ Script(k)[c] = Call("init", c)
                              /\ Script(k)[Last - 2 + c] = Call("free", c)
         /\ \A c \in {1, 2}, i \in Index : Script(k)[FillAt(c, i)] = Call("alloc", <<c, i>>)
<1>1. NUMTHREAD \in Nat
  BY RwSepAssumption
<1>2. ASSUME NEW c \in {1, 2}, NEW i \in Index
      PROVE  Script(k)[FillAt(c, i)] = Call("alloc", <<c, i>>)
  <2> DEFINE n == 2 * i + c
  <2>1. /\ n \in 1 .. 2 * NUMTHREAD /\ FillAt(c, i) = n + 2
        /\ (IF n % 2 = 1 THEN 1 ELSE 2) = c /\ (n - 1) \div 2 = i
    BY <1>1 DEF Index, FillAt
  <2> QED BY <2>1, ScriptFacts
<1>3. Last \in Nat
  BY <1>1 DEF Last
<1> QED BY <1>2, <1>3, ScriptFacts

\* Every thread is joined at its place, behind the one where it is created.
LEMMA ThreadPlaces ==
  ASSUME NEW k \in 1 .. 3, NEW t \in Thread
  PROVE  /\ CreateAt(k, t) \in Nat /\ JoinAt(k, t) \in Nat
         /\ Origin < CreateAt(k, t) /\ CreateAt(k, t) < JoinAt(k, t) /\ JoinAt(k, t) <= Last - 2
         /\ Script(k)[JoinAt(k, t)] = Call("join", t)
<1>1. NUMTHREAD \in Nat
  BY RwSepAssumption
<1>2. PICK a \in {"w", "r"}, i \in Index : t = <<a, i>>
  BY DEF Thread
<1>3. i \in Nat /\ i < NUMTHREAD
  BY <1>1 DEF Index
<1>4. CASE k = 3 /\ a = "w"
  <2>1. PICK n \in 1 .. NUMTHREAD : n = i + 1
    BY <1>1, <1>3
  <2>2. Script(k)[n + NUMTHREAD + Origin] = Call("join", <<"w", n - 1>>)
    <3>1. n + NUMTHREAD \in 1 .. 4 * NUMTHREAD
      BY <1>1
    <3>2. RunSeparate[n + NUMTHREAD] = Call("join", <<"w", n - 1>>)
      BY SeparateFacts
    <3>3. Script(k)[n + NUMTHREAD + Origin] = Runs(k)[n + NUMTHREAD]
      BY <3>1, ScriptFacts
    <3> QED BY <3>2, <3>3, <1>4 DEF Runs
  <2>3. /\ CreateAt(k, t) = Origin + i + 1 /\ JoinAt(k, t) = Origin + NUMTHREAD + i + 1
        /\ JoinAt(k, t) = n + NUMTHREAD + Origin
    BY <1>1, <1>2, <1>3, <1>4, <2>1 DEF CreateAt, JoinAt, Origin
  <2> QED BY <1>1, <1>2, <1>3, <1>4, <2>1, <2>2, <2>3 DEF Origin, Last
<1>5. CASE k = 3 /\ a = "r"
  <2>1. PICK n \in 1 .. NUMTHREAD : n = i + 1
    BY <1>1, <1>3
  <2>2. Script(k)[n + 3 * NUMTHREAD + Origin] = Call("join", <<"r", n - 1>>)
    <3>1. n + 3 * NUMTHREAD \in 1 .. 4 * NUMTHREAD
      BY <1>1
    <3>2. RunSeparate[n + 3 * NUMTHREAD] = Call("join", <<"r", n - 1>>)
      BY SeparateFacts
    <3>3. Script(k)[n + 3 * NUMTHREAD + Origin] = Runs(k)[n + 3 * NUMTHREAD]
      BY <3>1, ScriptFacts
    <3> QED BY <3>2, <3>3, <1>5 DEF Runs
  <2>3. /\ CreateAt(k, t) = Origin + i + (2 * NUMTHREAD + 1)
        /\ JoinAt(k, t) = n + 3 * NUMTHREAD + Origin
    BY <1>1, <1>2, <1>3, <1>5, <2>1 DEF CreateAt, JoinAt, Origin
  <2> QED BY <1>1, <1>2, <1>3, <1>5, <2>1, <2>2, <2>3 DEF Origin, Last
<1>6. CASE k # 3
  <2> DEFINE c == IF a = "r" THEN 1 ELSE 2
             n == 2 * i + c
  <2>1. /\ n \in 1 .. 2 * NUMTHREAD /\ n + 2 * NUMTHREAD \in 1 .. 4 * NUMTHREAD
        /\ (IF n % 2 = 1 THEN "r" ELSE "w") = a /\ (n - 1) \div 2 = i
    BY <1>1, <1>2, <1>3
  <2>2. RunTogether[n + 2 * NUMTHREAD] = Call("join", <<a, i>>)
    BY <2>1, TogetherFacts
  <2>3. Script(k)[n + 2 * NUMTHREAD + Origin] = Call("join", <<a, i>>)
    BY <2>1, <2>2, <1>6, ScriptFacts DEF Runs
  <2>4. /\ CreateAt(k, t) = Origin + 2 * i + (IF a = "w" THEN 1 ELSE 2)
        /\ JoinAt(k, t) = n + 2 * NUMTHREAD + Origin
    BY <1>1, <1>2, <1>3, <1>6 DEF CreateAt, JoinAt, Origin
  <2> QED BY <1>1, <1>2, <1>3, <1>6, <2>3, <2>4 DEF Origin, Last
<1> QED BY <1>4, <1>5, <1>6

\* The other direction: what a call says of the place it stands at.
LEMMA CallPlaces ==
  ASSUME NEW k \in 1 .. 3, NEW s \in 1 .. Last
  PROVE  LET call == Script(k)[s] IN
         /\ call.op = "init" => call.arg \in {1, 2} /\ s = call.arg
         /\ call.op = "alloc" => \E c \in {1, 2}, i \in Index :
                                   call.arg = <<c, i>> /\ s = FillAt(c, i)
         /\ call.op = "set_arg" => s = Origin
         /\ call.op = "create" => call.arg \in Thread /\ s = CreateAt(k, call.arg)
         /\ call.op = "free" => call.arg \in {1, 2} /\ s = Last - 2 + call.arg
         /\ call.op = "join" => Origin < s /\ s <= Last - 2
<1> DEFINE call == Script(k)[s]
<1>1. NUMTHREAD \in Nat
  BY RwSepAssumption
<1>2. CASE s \in {1, 2}
  BY <1>1, <1>2, ScriptFacts DEF Call
<1>3. CASE s \in 3 .. (2 * NUMTHREAD + 2)
  <2> DEFINE n == s - 2
             c == IF n % 2 = 1 THEN 1 ELSE 2
             i == (n - 1) \div 2
  <2>1. /\ n \in 1 .. 2 * NUMTHREAD /\ s = n + 2
        /\ c \in {1, 2} /\ i \in Index /\ n = 2 * i + c
    BY <1>1, <1>3 DEF Index
  <2>2. call = Call("alloc", <<c, i>>)
    BY <2>1, ScriptFacts
  <2>3. s = FillAt(c, i)
    BY <1>1, <2>1 DEF FillAt, Index
  <2> QED BY <2>1, <2>2, <2>3 DEF Call
<1>4. CASE s = Origin
  BY <1>4, ScriptFacts DEF Call
<1>5. CASE s \in (Origin + 1) .. (Origin + 4 * NUMTHREAD)
  <2> DEFINE n == s - Origin
  <2>1. n \in 1 .. 4 * NUMTHREAD /\ s = n + Origin /\ Origin < s /\ s <= Last - 2
    BY <1>1, <1>5 DEF Origin, Last
  <2>2. call = Runs(k)[n]
    BY <2>1, ScriptFacts
  <2>3. CASE k # 3 /\ n \in 1 .. 2 * NUMTHREAD
    <3> DEFINE a == IF n % 2 = 1 THEN "w" ELSE "r"
               i == (n - 1) \div 2
    <3>1. a \in {"w", "r"} /\ i \in Index /\ n = 2 * i + (IF a = "w" THEN 1 ELSE 2)
      BY <1>1, <2>3 DEF Index
    <3>2. call = Call("create", <<a, i>>)
      BY <2>2, <2>3, TogetherFacts DEF Runs
    <3>3. <<a, i>> \in Thread /\ s = CreateAt(k, <<a, i>>)
      BY <1>1, <2>1, <2>3, <3>1 DEF Thread, CreateAt, Index, Origin
    <3> QED BY <3>2, <3>3 DEF Call
  <2>4. CASE k # 3 /\ n \in (2 * NUMTHREAD + 1) .. 4 * NUMTHREAD
    <3> DEFINE m == n - 2 * NUMTHREAD
    <3>1. m \in 1 .. 2 * NUMTHREAD /\ n = m + 2 * NUMTHREAD
      BY <1>1, <2>4
    <3> HIDE DEF m
    <3>2. RunTogether[m + 2 * NUMTHREAD] = Call("join", <<IF m % 2 = 1 THEN "r" ELSE "w", (m - 1) \div 2>>)
      BY <3>1, TogetherFacts
    <3>3. call.op = "join"
      BY <2>2, <2>4, <3>1, <3>2 DEF Runs, Call
    <3> QED BY <2>1, <3>3
  <2>5. CASE k = 3 /\ n \in 1 .. NUMTHREAD
    <3>1. call = Call("create", <<"w", n - 1>>)
      BY <2>2, <2>5, SeparateFacts DEF Runs
    <3>2. <<"w", n - 1>> \in Thread /\ s = CreateAt(k, <<"w", n - 1>>)
      BY <1>1, <2>1, <2>5 DEF Thread, CreateAt, Index, Origin
    <3> QED BY <3>1, <3>2 DEF Call
  <2>6. CASE k = 3 /\ n \in (NUMTHREAD + 1) .. 2 * NUMTHREAD
    <3> DEFINE m == n - NUMTHREAD
    <3>1. m \in 1 .. NUMTHREAD /\ n = m + NUMTHREAD
      BY <1>1, <2>6
    <3> HIDE DEF m
    <3>2. RunSeparate[m + NUMTHREAD] = Call("join", <<"w", m - 1>>)
      BY <3>1, SeparateFacts
    <3>3. call.op = "join"
      BY <2>2, <2>6, <3>1, <3>2 DEF Runs, Call
    <3> QED BY <2>1, <3>3
  <2>7. CASE k = 3 /\ n \in (2 * NUMTHREAD + 1) .. 3 * NUMTHREAD
    <3> DEFINE m == n - 2 * NUMTHREAD
    <3>1. m \in 1 .. NUMTHREAD /\ n = m + 2 * NUMTHREAD
      BY <1>1, <2>7
    <3>2. call = Call("create", <<"r", m - 1>>)
      BY <2>2, <2>7, <3>1, SeparateFacts DEF Runs
    <3>3. <<"r", m - 1>> \in Thread /\ s = CreateAt(k, <<"r", m - 1>>)
      BY <1>1, <2>1, <2>7, <3>1 DEF Thread, CreateAt, Index, Origin
    <3> QED BY <3>2, <3>3 DEF Call
  <2>8. CASE k = 3 /\ n \in (3 * NUMTHREAD + 1) .. 4 * NUMTHREAD
    <3> DEFINE m == n - 3 * NUMTHREAD
    <3>1. m \in 1 .. NUMTHREAD /\ n = m + 3 * NUMTHREAD
      BY <1>1, <2>8
    <3> HIDE DEF m
    <3>2. RunSeparate[m + 3 * NUMTHREAD] = Call("join", <<"r", m - 1>>)
      BY <3>1, SeparateFacts
    <3>3. call.op = "join"
      BY <2>2, <2>8, <3>1, <3>2 DEF Runs, Call
    <3> QED BY <2>1, <3>3
  <2> QED BY <1>1, <2>1, <2>3, <2>4, <2>5, <2>6, <2>7, <2>8
<1>6. CASE s \in {Last - 1, Last}
  <2>1. Last - 2 + 1 = Last - 1 /\ Last - 2 + 2 = Last
    BY <1>1 DEF Last
  <2>2. CASE s = Last - 1
    BY <1>1, <2>1, <2>2, ScriptFacts DEF Call
  <2>3. CASE s = Last
    BY <1>1, <2>1, <2>3, ScriptFacts DEF Call
  <2> QED BY <1>6, <2>2, <2>3
<1> QED BY <1>1, <1>2, <1>3, <1>4, <1>5, <1>6 DEF Origin, Last

----------------------------------------------------------------------------
(* A thread runs between its two places.                                   *)

\* The places main may be at; when it has ended, it is at the first.
PlaceInv ==
  /\ job \in 1 .. (Len(Jobs) + 1) /\ task \in 1 .. 3 /\ step \in 1 .. Last
  /\ Ended => step = 1

\* A thread that runs has a handle main will join and the struct its task
\* passes; a joinable handle means that main is between the thread's two places.
RunInv ==
  /\ PlaceInv
  /\ DOMAIN tid = Thread /\ DOMAIN thr = Thread
  /\ \A t \in Thread : DOMAIN thr[t] = {"pc", "arg", "buf", "r8", "r10", "r11"}
  /\ \A t \in Thread : Running(t) => tid[t] = "joinable" /\ thr[t].arg = PassedStruct(t)
  /\ \A t \in Thread :
       tid[t] = "joinable" => CreateAt(task, t) < step /\ step <= JoinAt(task, t)

\* Every job is a pair of channels.
LEMMA JobsFacts == Len(Jobs) \in Nat /\ \A k \in 1 .. Len(Jobs) : Jobs[k] \in (0 .. 3) \X (0 .. 3)
BY RwSepAssumption

\* Initially nothing runs.
LEMMA RunInit == Init => RunInv
<1> SUFFICES ASSUME Init PROVE RunInv
  OBVIOUS
<1>1. NUMTHREAD \in Nat
  BY RwSepAssumption
<1>2. PlaceInv
  BY <1>1, JobsFacts DEF Init, PlaceInv, Last
<1>3. \A t \in Thread : ~Running(t) /\ tid[t] # "joinable"
  BY DEF Init, Running, Idle
<1> QED BY <1>2, <1>3 DEF Init, RunInv, Idle

\* main moves on by one call, or starts a task when it was at the last one.
LEMMA AdvanceFacts ==
  ASSUME PlaceInv, ~Ended, Advance
  PROVE  /\ PlaceInv'
         /\ step < Last => step' = step + 1 /\ job' = job /\ task' = task
         /\ step = Last => step' = 1
<1>1. NUMTHREAD \in Nat /\ Len(Jobs) \in Nat
  BY RwSepAssumption, JobsFacts
<1>2. Len(Script(task)) = Last
  BY ScriptFacts DEF PlaceInv
<1>3. Last \in Nat /\ 1 <= Last
  BY <1>1 DEF Last
<1>4. job <= Len(Jobs)
  BY <1>1 DEF Ended, PlaceInv
<1> QED BY <1>1, <1>2, <1>3, <1>4 DEF Advance, PlaceInv, Ended

\* A call of main that is no join leaves the joinable handles in their place.
LEMMA StillBetween ==
  ASSUME RunInv, NEW op, At(op), op # "join", Advance,
         NEW t \in Thread, tid[t] = "joinable"
  PROVE  CreateAt(task', t) < step' /\ step' <= JoinAt(task', t) /\ task' = task
<1>1. /\ CreateAt(task, t) \in Nat /\ JoinAt(task, t) \in Nat /\ JoinAt(task, t) <= Last - 2
      /\ Script(task)[JoinAt(task, t)] = Call("join", t)
  BY ThreadPlaces DEF RunInv, PlaceInv
<1>2. CreateAt(task, t) < step /\ step <= JoinAt(task, t) /\ step \in Nat
  BY DEF RunInv, PlaceInv
<1>3. step # JoinAt(task, t)
  BY <1>1 DEF At, Call
<1>4. Last \in Nat
  BY RwSepAssumption DEF Last
<1>5. step' = step + 1 /\ task' = task
  BY <1>1, <1>2, <1>4, AdvanceFacts DEF RunInv, At
<1> QED BY <1>1, <1>2, <1>3, <1>5

\* The calls of main that touch no thread.
LEMMA QuietCall ==
  ASSUME RunInv, NEW op, At(op), op # "join", Advance, UNCHANGED <<tid, thr>>
  PROVE  RunInv'
<1>1. PlaceInv'
  BY AdvanceFacts DEF RunInv, At
<1>2. \A t \in Thread : tid[t] = "joinable" =>
        CreateAt(task', t) < step' /\ step' <= JoinAt(task', t) /\ task' = task
  BY StillBetween
<1>3. \A t \in Thread : Running(t)' => tid'[t] = "joinable" /\ thr'[t].arg = PassedStruct(t)'
  BY <1>2 DEF RunInv, Running, PassedStruct
<1> QED BY <1>1, <1>2, <1>3 DEF RunInv

\* pthread_create, whether it succeeds or not.
LEMMA RunCreate == RunInv /\ (CreateThread \/ CreateFail) => RunInv'
<1> SUFFICES ASSUME RunInv, CreateThread \/ CreateFail PROVE RunInv'
  OBVIOUS
<1> DEFINE x == Arg
<1>1. At("create") /\ Advance
  BY DEF CreateThread, CreateFail
<1>2. x \in Thread /\ step = CreateAt(task, x)
  BY <1>1, CallPlaces DEF RunInv, PlaceInv, At, Arg
<1>3. PlaceInv'
  BY <1>1, AdvanceFacts DEF RunInv, At
<1>4. tid[x] # "joinable" /\ ~Running(x)
  <2>1. ~(CreateAt(task, x) < step)
    BY <1>2 DEF RunInv, PlaceInv
  <2> QED BY <1>2, <2>1 DEF RunInv
<1>5. \A t \in Thread : tid[t] = "joinable" =>
        CreateAt(task', t) < step' /\ step' <= JoinAt(task', t) /\ task' = task
  BY <1>1, StillBetween
<1>6. CreateAt(task', x) < step' /\ step' <= JoinAt(task', x) /\ task' = task
  <2>1. /\ CreateAt(task, x) \in Nat /\ JoinAt(task, x) \in Nat
        /\ CreateAt(task, x) < JoinAt(task, x) /\ JoinAt(task, x) <= Last - 2
    BY <1>2, ThreadPlaces DEF RunInv, PlaceInv
  <2>2. Last \in Nat
    BY RwSepAssumption DEF Last
  <2>3. step' = step + 1 /\ task' = task
    BY <1>1, <1>2, <2>1, <2>2, AdvanceFacts DEF RunInv, At
  <2> QED BY <1>2, <2>1, <2>3
<1>7. CASE CreateThread
  <2>1. /\ tid' = [tid EXCEPT ![x] = "joinable"]
        /\ thr' = [thr EXCEPT ![x] = [Idle EXCEPT !.pc = "start", !.arg = PassedStruct(x)]]
    BY <1>7 DEF CreateThread
  <2>2. DOMAIN tid' = Thread /\ DOMAIN thr' = Thread
    BY <2>1 DEF RunInv
  <2>3. \A t \in Thread :
          IF t = x THEN tid'[t] = "joinable"
                        /\ thr'[t] = [Idle EXCEPT !.pc = "start", !.arg = PassedStruct(x)]
          ELSE tid'[t] = tid[t] /\ thr'[t] = thr[t]
    BY <1>2, <2>1 DEF RunInv
  <2>4. \A t \in Thread : DOMAIN thr'[t] = {"pc", "arg", "buf", "r8", "r10", "r11"}
    BY <2>3 DEF RunInv, Idle
  <2>5. ASSUME NEW t \in Thread, Running(t)'
        PROVE  tid'[t] = "joinable" /\ thr'[t].arg = PassedStruct(t)'
    <3>1. CASE t = x
      <4>1. thr'[x].arg = PassedStruct(x) /\ tid'[x] = "joinable"
        BY <1>2, <2>3 DEF Idle
      <4>2. PassedStruct(t)' = PassedStruct(t)
        BY <1>6 DEF PassedStruct
      <4> HIDE DEF x
      <4> QED BY <3>1, <4>1, <4>2
    <3>2. CASE t # x
      <4>1. thr'[t] = thr[t] /\ tid'[t] = tid[t] /\ Running(t)
        BY <2>3, <2>5, <3>2 DEF Running
      <4>2. PassedStruct(t)' = PassedStruct(t)
        BY <1>5, <4>1 DEF RunInv, PassedStruct
      <4> QED BY <4>1, <4>2 DEF RunInv
    <3> QED BY <3>1, <3>2
  <2>6. \A t \in Thread : tid'[t] = "joinable" => CreateAt(task', t) < step' /\ step' <= JoinAt(task', t)
    BY <1>5, <1>6, <2>3
  <2> QED BY <1>3, <2>2, <2>4, <2>5, <2>6 DEF RunInv
<1>8. CASE CreateFail
  <2>1. tid' = [tid EXCEPT ![x] = "failed"] /\ thr' = thr
    BY <1>8 DEF CreateFail
  <2>2. \A t \in Thread : tid'[t] = IF t = x THEN "failed" ELSE tid[t]
    BY <1>2, <2>1 DEF RunInv
  <2>3. \A t \in Thread : Running(t)' => tid'[t] = "joinable" /\ thr'[t].arg = PassedStruct(t)'
    BY <1>4, <1>5, <2>1, <2>2 DEF RunInv, Running, PassedStruct
  <2> QED BY <1>3, <1>5, <2>1, <2>2, <2>3 DEF RunInv
<1> QED BY <1>7, <1>8

\* pthread_join returns: only a thread that has ended had a joinable handle.
LEMMA RunJoin == RunInv /\ JoinThread => RunInv'
<1> SUFFICES ASSUME RunInv, JoinThread PROVE RunInv'
  OBVIOUS
<1> DEFINE x == Arg
<1>1. At("join") /\ Advance /\ JoinReturns(x) /\ thr' = thr
  BY DEF JoinThread
<1>2. tid' = [tid EXCEPT ![x] = IF @ = "joinable" THEN "stale" ELSE @]
  BY DEF JoinThread
<1>3. PlaceInv'
  BY <1>1, AdvanceFacts DEF RunInv, At
<1>4. \A t \in Thread : tid'[t] = IF t = x /\ tid[t] = "joinable" THEN "stale" ELSE tid[t]
  BY <1>2 DEF RunInv
<1>5. \A t \in Thread : Running(t)' => tid'[t] = "joinable"
  <2> SUFFICES ASSUME NEW t \in Thread, Running(t) PROVE tid'[t] = "joinable"
    BY <1>1 DEF Running
  <2>1. tid[t] = "joinable" /\ thr[t].pc # "done"
    BY DEF RunInv, Running
  <2>2. t # x
    BY <1>1, <2>1 DEF JoinReturns
  <2> QED BY <1>4, <2>1, <2>2
<1>6. ASSUME NEW t \in Thread, tid'[t] = "joinable"
      PROVE  CreateAt(task', t) < step' /\ step' <= JoinAt(task', t) /\ task' = task
  <2>1. tid[t] = "joinable" /\ t # x
    BY <1>4, <1>6
  <2>2. /\ CreateAt(task, t) \in Nat /\ JoinAt(task, t) \in Nat /\ JoinAt(task, t) <= Last - 2
        /\ Script(task)[JoinAt(task, t)] = Call("join", t)
    BY ThreadPlaces DEF RunInv, PlaceInv
  <2>3. CreateAt(task, t) < step /\ step <= JoinAt(task, t) /\ step \in Nat
    BY <2>1 DEF RunInv, PlaceInv
  <2>4. step # JoinAt(task, t)
    BY <2>1, <2>2 DEF Arg, Call
  <2>5. Last \in Nat
    BY RwSepAssumption DEF Last
  <2>6. step' = step + 1 /\ task' = task
    BY <1>1, <2>2, <2>3, <2>5, AdvanceFacts DEF RunInv, At
  <2> QED BY <2>2, <2>3, <2>4, <2>6
<1>7. DOMAIN tid' = Thread
  BY <1>2 DEF RunInv
<1>8. \A t \in Thread : Running(t)' => thr'[t].arg = PassedStruct(t)'
  BY <1>1, <1>5, <1>6 DEF RunInv, Running, PassedStruct
<1> QED BY <1>1, <1>3, <1>5, <1>6, <1>7, <1>8 DEF RunInv

\* A step of a thread changes the thread's registers only; it was running.
LEMMA ThreadChange ==
  ASSUME RunInv, NEW t \in Thread, ThreadStep(t)
  PROVE  /\ ~Ended /\ Running(t)
         /\ UNCHANGED <<job, task, step, tid, phase, channel, buf_sep1, buf_sep2, f1, f2>>
         /\ DOMAIN thr' = Thread /\ DOMAIN thr'[t] = DOMAIN thr[t]
         /\ \A u \in Thread \ {t} : thr'[u] = thr[u]
         /\ thr'[t].buf = (IF thr[t].pc = "start" THEN StructOf(t) ELSE thr[t].buf)
         /\ thr'[t].pc # "start" /\ thr'[t].arg = thr[t].arg
<1> USE DEF RunInv, Running, At_
<1>1. CASE ThreadStart(t)
  BY <1>1 DEF ThreadStart, Idle, fa
<1>2. CASE WriterStore(t)
  BY <1>2 DEF WriterStore, fa
<1>3. CASE WriterClwb(t)
  <2>1. thr' = [thr EXCEPT ![t] = InnerNext(@)] /\ thr[t].pc = "clwb"
    BY <1>3 DEF WriterClwb
  <2>2. thr'[t] = InnerNext(thr[t])
    BY <2>1
  <2> QED BY <1>3, <2>1, <2>2 DEF WriterClwb, InnerNext, fa
<1>4. CASE ReaderNt(t)
  <2>1. thr' = [thr EXCEPT ![t] = InnerNext(@)] /\ thr[t].pc = "access"
    BY <1>4 DEF ReaderNt
  <2>2. thr'[t] = InnerNext(thr[t])
    BY <2>1
  <2> QED BY <1>4, <2>1, <2>2 DEF ReaderNt, InnerNext, fa
<1>5. CASE AccessFault(t)
  BY <1>5 DEF AccessFault
<1>6. CASE ThreadNext(t)
  BY <1>6 DEF ThreadNext, fa
<1> QED BY <1>1, <1>2, <1>3, <1>4, <1>5, <1>6 DEF ThreadStep

\* Every step keeps a thread between its two places.
LEMMA RunNext == RunInv /\ [Next]_vars => RunInv'
<1> SUFFICES ASSUME RunInv, [Next]_vars PROVE RunInv'
  OBVIOUS
<1>1. ASSUME NEW o \in {"ok", "mapfail"}, InitAllocator(o) PROVE RunInv'
  BY <1>1, QuietCall DEF InitAllocator
<1>2. ASSUME NEW o \in {"ok", "mapfail"}, AllocBuffer(o) PROVE RunInv'
  BY <1>2, QuietCall DEF AllocBuffer
<1>3. CASE set_arg
  BY <1>3, QuietCall DEF set_arg
<1>4. CASE CreateThread \/ CreateFail
  BY <1>4, RunCreate
<1>5. CASE JoinThread
  BY <1>5, RunJoin
<1>6. CASE JoinCrash
  BY <1>6 DEF JoinCrash, RunInv, PlaceInv, Running, Ended, PassedStruct
<1>7. CASE FreeAllocator
  BY <1>7, QuietCall DEF FreeAllocator
<1>8. ASSUME NEW t \in Thread, ThreadStep(t) PROVE RunInv'
  <2>1. \A u \in Thread : Running(u)' => Running(u)
    BY <1>8, ThreadChange DEF Running
  <2>2. \A u \in Thread : DOMAIN thr'[u] = {"pc", "arg", "buf", "r8", "r10", "r11"}
    BY <1>8, ThreadChange DEF RunInv
  <2>3. \A u \in Thread : Running(u)' => tid'[u] = "joinable" /\ thr'[u].arg = PassedStruct(u)'
    BY <1>8, <2>1, ThreadChange DEF RunInv, PassedStruct
  <2> QED BY <1>8, <2>2, <2>3, ThreadChange DEF RunInv, PlaceInv, Ended
<1>9. CASE UNCHANGED vars
  BY <1>9 DEF vars, RunInv, PlaceInv, Running, Ended, PassedStruct
<1> QED BY <1>1, <1>2, <1>3, <1>4, <1>5, <1>6, <1>7, <1>8, <1>9 DEF Next, MainNext

\* The writers' places in task 3 all lie before the readers'.
LEMMA Task3Apart == RunInv => Task3Separate
<1> SUFFICES ASSUME RunInv, task = 3, NEW t \in Thread, NEW u \in Thread,
                    t[1] = "w", u[1] = "r", Running(t), Running(u)
             PROVE  FALSE
  BY DEF Task3Separate
<1>1. step <= JoinAt(3, t) /\ CreateAt(3, u) < step /\ step \in Nat
  BY DEF RunInv, PlaceInv
<1>2. t[2] \in Index /\ u[2] \in Index /\ NUMTHREAD \in Nat
  BY RwSepAssumption DEF Thread
<1>3. JoinAt(3, t) <= Origin + 2 * NUMTHREAD
  BY <1>2 DEF JoinAt, Index, Origin
<1>4. Origin + 2 * NUMTHREAD < CreateAt(3, u)
  BY <1>2 DEF CreateAt, Index, Origin
<1>5. JoinAt(3, t) \in Nat /\ CreateAt(3, u) \in Nat /\ Origin \in Nat
  BY <1>2, ThreadPlaces DEF Origin
<1> QED BY <1>1, <1>2, <1>3, <1>4, <1>5

\* In task 3 no reader runs beside a writer, also when a pthread_create has
\* failed.
THEOREM Task3IsSeparate == Spec => []Task3Separate
BY Task3Apart, RunInit, RunNext, PTL DEF Spec

----------------------------------------------------------------------------
(* The buffers belong to allocators that live.                             *)

\* The calls of main between them keep the allocators of the task alive, on
\* the channels of the job.
LiveInv ==
  /\ DOMAIN phase = Allocator /\ DOMAIN channel = Allocator
  /\ \A c \in {1, 2} : (c < step /\ step <= Last - 2 + c) =>
       phase[alloc(c)] = "live" /\ channel[alloc(c)] = Jobs[job][c]

\* What is filled in comes from the task's two allocators, in this order.
BufInv ==
  /\ DOMAIN buf_sep1 = Index /\ DOMAIN buf_sep2 = Index
  /\ \A i \in Index : FillAt(1, i) < step => buf_sep1[i].cur[1] = alloc(1)
  /\ \A i \in Index : FillAt(2, i) < step => buf_sep2[i].cur[1] = alloc(2)
  /\ Origin < step =>
       \A i \in Index : f1[i].cur[1] = alloc(1) /\ f2[i].cur[1] = alloc(2)

\* A thread has the buffer of the struct that main still has for it.
StructInv == \A t \in Thread : Accessing(t) => thr[t].buf = StructOf(t)

BufferInv == LiveInv /\ BufInv /\ StructInv

\* The allocators are those of the model, whichever job and task is on.
LEMMA AllocatorFacts ==
  ASSUME PlaceInv, ~Ended
  PROVE  /\ alloc(1) \in Allocator /\ alloc(2) \in Allocator /\ alloc(1) # alloc(2)
         /\ Jobs[job] \in (0 .. 3) \X (0 .. 3)
<1>1. job \in 1 .. Len(Jobs)
  BY JobsFacts DEF PlaceInv, Ended
<1> QED BY <1>1, JobsFacts DEF PlaceInv, alloc, Allocator

\* Main is on its way through one task, or begins the next.
LEMMA StepCases ==
  ASSUME PlaceInv, ~Ended, Advance
  PROVE  \/ step < Last /\ step' = step + 1 /\ job' = job /\ task' = task
         \/ step = Last /\ step' = 1
<1>1. Last \in Nat
  BY RwSepAssumption DEF Last
<1> QED BY <1>1, AdvanceFacts DEF PlaceInv

\* Initially no buffer is filled in.
LEMMA BufferInit == Init => BufferInv
<1> SUFFICES ASSUME Init PROVE BufferInv
  OBVIOUS
<1>1. NUMTHREAD \in Nat /\ step = 1
  BY RwSepAssumption DEF Init
<1>2. LiveInv
  BY <1>1 DEF Init, LiveInv, FA!Init
<1>3. BufInv
  <2>1. \A i \in Index, c \in {1, 2} : ~(FillAt(c, i) < step)
    BY <1>1 DEF Index, FillAt
  <2>2. ~(Origin < step)
    BY <1>1 DEF Origin
  <2> QED BY <2>1, <2>2 DEF Init, BufInv
<1>4. StructInv
  BY DEF Init, StructInv, Accessing, Running, Idle
<1> QED BY <1>2, <1>3, <1>4 DEF BufferInv

\* init_fast_allocator and fast_free change the life of the allocator that
\* stands at their place, and no other.
LEMMA LiveCalls ==
  ASSUME RunInv, LiveInv, ~Ended, Advance,
         \A c \in {1, 2} : (c < step /\ step < Last - 2 + c) =>
            phase'[alloc(c)] = phase[alloc(c)] /\ channel'[alloc(c)] = channel[alloc(c)],
         \A c \in {1, 2} : c = step => phase'[alloc(c)] = "live" /\ channel'[alloc(c)] = Jobs[job][c],
         DOMAIN phase' = Allocator, DOMAIN channel' = Allocator
  PROVE  LiveInv'
<1>1. Last \in Nat /\ Last > 5 /\ step \in Nat
  <2>1. NUMTHREAD \in Nat \ {0}
    BY RwSepAssumption
  <2>2. Last \in Nat /\ Last > 5
    BY <2>1 DEF Last
  <2>3. PlaceInv
    BY DEF RunInv
  <2> QED BY <2>2, <2>3 DEF PlaceInv
<1>2. CASE step < Last /\ step' = step + 1 /\ job' = job /\ task' = task
  <2> SUFFICES ASSUME NEW c \in {1, 2}, c < step', step' <= Last - 2 + c
               PROVE  phase'[alloc(c)'] = "live" /\ channel'[alloc(c)'] = Jobs[job'][c]
    BY DEF LiveInv
  <2>1. alloc(c)' = alloc(c)
    BY <1>2 DEF alloc
  <2>2. CASE c = step
    BY <1>2, <2>1, <2>2
  <2>3. CASE c < step
    <3>1. step < Last - 2 + c /\ step <= Last - 2 + c
      BY <1>1, <1>2
    <3> QED BY <1>2, <2>1, <2>3, <3>1 DEF LiveInv
  <2> QED BY <1>1, <1>2, <2>2, <2>3
<1>3. CASE step = Last /\ step' = 1
  BY <1>3 DEF LiveInv
<1> QED BY <1>2, <1>3, StepCases DEF RunInv

\* The calls that leave the allocators' lives alone, at another place.
LEMMA LiveQuiet ==
  ASSUME RunInv, LiveInv, NEW op, At(op), op # "init", Advance, UNCHANGED <<phase, channel>>
  PROVE  LiveInv'
<1>1. step \notin {1, 2}
  BY PreparePlaces DEF At, Call, RunInv, PlaceInv
<1>2. \A c \in {1, 2} : (c < step /\ step < Last - 2 + c) =>
        phase'[alloc(c)] = phase[alloc(c)] /\ channel'[alloc(c)] = channel[alloc(c)]
  OBVIOUS
<1>3. ~Ended
  BY DEF At
<1> QED BY <1>1, <1>2, <1>3, LiveCalls DEF LiveInv

\* init_fast_allocator.
LEMMA LiveInit ==
  ASSUME RunInv, LiveInv, NEW o \in {"ok", "mapfail"}, InitAllocator(o)
  PROVE  LiveInv'
<1> DEFINE x == Arg
<1>1. /\ At("init") /\ ~Ended /\ Advance
      /\ phase' = [phase EXCEPT ![alloc(x)] = "live"]
      /\ channel' = [channel EXCEPT ![alloc(x)] = Jobs[job][x]]
  BY DEF InitAllocator, FA!InitFastAllocator, At
<1>2. x \in {1, 2} /\ step = x
  BY <1>1, CallPlaces DEF At, Arg, RunInv, PlaceInv
<1>3. alloc(1) \in Allocator /\ alloc(2) \in Allocator /\ alloc(1) # alloc(2)
  BY <1>1, AllocatorFacts DEF RunInv
<1>4. \A c \in {1, 2} : c # x => phase'[alloc(c)] = phase[alloc(c)] /\ channel'[alloc(c)] = channel[alloc(c)]
  BY <1>1, <1>2, <1>3
<1>5. phase'[alloc(x)] = "live" /\ channel'[alloc(x)] = Jobs[job][x]
  BY <1>1, <1>2, <1>3 DEF LiveInv
<1> QED BY <1>1, <1>2, <1>4, <1>5, LiveCalls DEF LiveInv

\* fast_free.
LEMMA LiveFree ==
  ASSUME RunInv, LiveInv, FreeAllocator
  PROVE  LiveInv'
<1> DEFINE x == Arg
<1>1. /\ At("free") /\ ~Ended /\ Advance
      /\ phase' = [phase EXCEPT ![alloc(x)] = "deleted"] /\ channel' = channel
  BY DEF FreeAllocator, FA!FastFree, At
<1>2. x \in {1, 2} /\ step = Last - 2 + x
  BY <1>1, CallPlaces DEF At, Arg, RunInv, PlaceInv
<1>3. alloc(1) \in Allocator /\ alloc(2) \in Allocator /\ alloc(1) # alloc(2)
  BY <1>1, AllocatorFacts DEF RunInv
<1>4. Last \in Nat /\ Last > 5
  BY RwSepAssumption DEF Last
<1>5. \A c \in {1, 2} : (c < step /\ step < Last - 2 + c) =>
        phase'[alloc(c)] = phase[alloc(c)] /\ channel'[alloc(c)] = channel[alloc(c)]
  BY <1>1, <1>2, <1>3, <1>4
<1>6. step \notin {1, 2}
  BY <1>2, <1>4
<1> QED BY <1>1, <1>5, <1>6, LiveCalls DEF LiveInv

\* Every step keeps the allocators of the task alive.
LEMMA LiveNext == RunInv /\ LiveInv /\ [Next]_vars => LiveInv'
<1> SUFFICES ASSUME RunInv, LiveInv, [Next]_vars PROVE LiveInv'
  OBVIOUS
<1>1. ASSUME NEW o \in {"ok", "mapfail"}, InitAllocator(o) PROVE LiveInv'
  BY <1>1, LiveInit
<1>2. ASSUME NEW o \in {"ok", "mapfail"}, AllocBuffer(o) PROVE LiveInv'
  <2>1. At("alloc") /\ Advance /\ UNCHANGED <<phase, channel>>
    BY <1>2 DEF AllocBuffer, FA!AllocFits, FA!GrowNvm, FA!Grow
  <2> QED BY <2>1, LiveQuiet
<1>3. CASE set_arg
  BY <1>3, LiveQuiet DEF set_arg, fa
<1>4. CASE CreateThread \/ CreateFail
  BY <1>4, LiveQuiet DEF CreateThread, CreateFail, fa
<1>5. CASE JoinThread
  BY <1>5, LiveQuiet DEF JoinThread, fa
<1>6. CASE JoinCrash
  BY <1>6 DEF JoinCrash, LiveInv, alloc
<1>7. CASE FreeAllocator
  BY <1>7, LiveFree
<1>8. ASSUME NEW t \in Thread, ThreadStep(t) PROVE LiveInv'
  BY <1>8, ThreadChange DEF LiveInv, alloc
<1>9. CASE UNCHANGED vars
  BY <1>9 DEF vars, fa, LiveInv, alloc
<1> QED BY <1>1, <1>2, <1>3, <1>4, <1>5, <1>6, <1>7, <1>8, <1>9 DEF Next, MainNext

\* fast_alloc fills in the buffer of its place with a new block
\* of its allocator.
LEMMA AllocFacts ==
  ASSUME RunInv, NEW o \in {"ok", "mapfail"}, AllocBuffer(o)
  PROVE  \E c \in {1, 2}, x \in Index, b \in blocks' \ blocks :
           /\ step = FillAt(c, x) /\ step' = step + 1 /\ job' = job /\ task' = task /\ step' <= Origin
           /\ alloc(c) \in Allocator
           /\ \/ FA!AllocFits(<<alloc(c), "nvm">>, BufferSize)
              \/ FA!GrowNvm(alloc(c), BufferSize, o)
           /\ blocks' = blocks \cup {b} /\ b.cur = <<alloc(c), "nvm">> /\ b.req = BufferSize
           /\ buf_sep1' = IF c = 1 THEN [buf_sep1 EXCEPT ![x] = b] ELSE buf_sep1
           /\ buf_sep2' = IF c = 2 THEN [buf_sep2 EXCEPT ![x] = b] ELSE buf_sep2
<1>1. At("alloc") /\ ~Ended /\ Advance
  BY DEF AllocBuffer, At
<1>2. PICK c \in {1, 2}, x \in Index : Arg = <<c, x>> /\ step = FillAt(c, x)
  BY <1>1, CallPlaces DEF At, Arg, RunInv, PlaceInv
<1>3. NUMTHREAD \in Nat /\ x \in Nat /\ x < NUMTHREAD
  BY <1>2, RwSepAssumption DEF Index
<1>4. step' = step + 1 /\ job' = job /\ task' = task /\ step' <= Origin
  <2>1. step < Origin /\ Origin < Last /\ step \in Nat /\ Origin \in Nat
    BY <1>2, <1>3 DEF FillAt, Origin, Last
  <2>2. step # Last
    BY <1>3, <2>1 DEF Last
  <2> QED BY <1>1, <2>1, <2>2, StepCases DEF RunInv
<1>5. alloc(c) \in Allocator
  BY <1>1, AllocatorFacts DEF RunInv
<1>6. \/ FA!AllocFits(<<alloc(c), "nvm">>, BufferSize)
      \/ FA!GrowNvm(alloc(c), BufferSize, o)
  BY <1>2 DEF AllocBuffer
<1>7. PICK b \in blocks' \ blocks :
        /\ buf_sep1' = IF c = 1 THEN [buf_sep1 EXCEPT ![x] = b] ELSE buf_sep1
        /\ buf_sep2' = IF c = 2 THEN [buf_sep2 EXCEPT ![x] = b] ELSE buf_sep2
  BY <1>2 DEF AllocBuffer
<1>8. PICK d : blocks' = blocks \cup {d} /\ d.cur = <<alloc(c), "nvm">> /\ d.req = BufferSize
  BY <1>6 DEF FA!AllocFits, FA!GrowNvm, FA!Grow, FA!Hand
<1>9. b = d
  BY <1>8
<1> QED BY <1>2, <1>4, <1>5, <1>6, <1>7, <1>8, <1>9

\* fast_alloc fills in the buffer of its place, from its allocator.
LEMMA BufAlloc ==
  ASSUME RunInv, BufInv, NEW o \in {"ok", "mapfail"}, AllocBuffer(o)
  PROVE  BufInv'
<1>1. PICK c \in {1, 2}, x \in Index, b \in blocks' \ blocks :
        /\ step = FillAt(c, x) /\ step' = step + 1 /\ job' = job /\ task' = task /\ step' <= Origin
        /\ b.cur = <<alloc(c), "nvm">>
        /\ buf_sep1' = IF c = 1 THEN [buf_sep1 EXCEPT ![x] = b] ELSE buf_sep1
        /\ buf_sep2' = IF c = 2 THEN [buf_sep2 EXCEPT ![x] = b] ELSE buf_sep2
  BY AllocFacts
<1>2. NUMTHREAD \in Nat /\ step \in Nat /\ Origin \in Nat
  BY RwSepAssumption DEF Origin, RunInv, PlaceInv
<1>3. alloc(1)' = alloc(1) /\ alloc(2)' = alloc(2)
  BY <1>1 DEF alloc
<1>4. \A i \in Index, d \in {1, 2} : FillAt(d, i) < step' =>
        FillAt(d, i) < step \/ (d = c /\ i = x)
  BY <1>1, <1>2 DEF FillAt, Index
<1>5. DOMAIN buf_sep1' = Index /\ DOMAIN buf_sep2' = Index
  BY <1>1 DEF BufInv
<1>6. ASSUME NEW i \in Index, FillAt(1, i) < step' PROVE buf_sep1'[i].cur[1] = alloc(1)'
  BY <1>1, <1>3, <1>4, <1>6 DEF BufInv
<1>7. ASSUME NEW i \in Index, FillAt(2, i) < step' PROVE buf_sep2'[i].cur[1] = alloc(2)'
  BY <1>1, <1>3, <1>4, <1>7 DEF BufInv
<1>8. ~(Origin < step')
  BY <1>1, <1>2
<1> QED BY <1>5, <1>6, <1>7, <1>8 DEF BufInv, FillAt, Origin

\* set_arg copies them to the structs, when all are filled in.
LEMMA BufSetArg ==
  ASSUME RunInv, BufInv, set_arg
  PROVE  BufInv'
<1>1. At("set_arg") /\ ~Ended /\ Advance /\ UNCHANGED <<buf_sep1, buf_sep2>>
  BY DEF set_arg, At
<1>2. f1' = buf_sep1 /\ f2' = buf_sep2
  BY DEF set_arg, SecondBuffers
<1>3. step = Origin
  BY <1>1, CallPlaces DEF At, RunInv, PlaceInv
<1>4. NUMTHREAD \in Nat /\ Origin \in Nat /\ Origin # Last
  BY RwSepAssumption DEF Origin, Last
<1>5. step' = step + 1 /\ job' = job /\ task' = task
  BY <1>1, <1>3, <1>4, StepCases DEF RunInv
<1>6. alloc(1)' = alloc(1) /\ alloc(2)' = alloc(2)
  BY <1>5 DEF alloc
<1>7. \A i \in Index, c \in {1, 2} : FillAt(c, i) < Origin
  BY <1>4 DEF FillAt, Origin, Index
<1>8. \A i \in Index : buf_sep1[i].cur[1] = alloc(1) /\ buf_sep2[i].cur[1] = alloc(2)
  BY <1>3, <1>7 DEF BufInv
<1> QED BY <1>1, <1>2, <1>6, <1>8 DEF BufInv

\* A call that fills in no buffer and no struct passes none of their places.
LEMMA QuietPlaces ==
  ASSUME RunInv, NEW op, At(op), op \notin {"alloc", "set_arg"}, Advance
  PROVE  \/ /\ job' = job /\ task' = task
            /\ \A i \in Index, c \in {1, 2} : FillAt(c, i) < step' => FillAt(c, i) < step
            /\ Origin < step' => Origin < step
         \/ /\ \A i \in Index, c \in {1, 2} : ~(FillAt(c, i) < step')
            /\ ~(Origin < step')
<1>1. ~Ended
  BY DEF At
<1>2. NUMTHREAD \in Nat /\ Origin \in Nat /\ step \in Nat
  BY RwSepAssumption DEF Origin, RunInv, PlaceInv
<1>3. step # Origin /\ \A i \in Index, c \in {1, 2} : step # FillAt(c, i)
  <2>1. Script(task)[step].op \notin {"alloc", "set_arg"}
    BY DEF At
  <2>2. task \in 1 .. 3
    BY DEF RunInv, PlaceInv
  <2>3. Script(task)[Origin].op = "set_arg"
    BY <2>2, PreparePlaces DEF Call
  <2>4. ASSUME NEW i \in Index, NEW c \in {1, 2} PROVE Script(task)[FillAt(c, i)].op = "alloc"
    <3>1. Script(task)[FillAt(c, i)] = Call("alloc", <<c, i>>)
      BY <2>2, PreparePlaces
    <3> QED BY <3>1 DEF Call
  <2> QED BY <2>1, <2>3, <2>4
<1>4. \A i \in Index, c \in {1, 2} : FillAt(c, i) \in Nat /\ FillAt(c, i) > 1
  BY <1>2 DEF FillAt, Index
<1>5. CASE step' = step + 1 /\ job' = job /\ task' = task
  BY <1>2, <1>3, <1>4, <1>5
<1>6. CASE step' = 1
  BY <1>2, <1>4, <1>6 DEF Origin
<1> QED BY <1>1, <1>5, <1>6, StepCases DEF RunInv

\* The calls at other places leave all buffers alone.
LEMMA BufQuiet ==
  ASSUME RunInv, BufInv, NEW op, At(op), op \notin {"alloc", "set_arg"}, Advance,
         UNCHANGED <<buf_sep1, buf_sep2, f1, f2>>
  PROVE  BufInv'
<1>1. CASE /\ job' = job /\ task' = task
           /\ \A i \in Index, c \in {1, 2} : FillAt(c, i) < step' => FillAt(c, i) < step
           /\ Origin < step' => Origin < step
  BY <1>1 DEF BufInv, alloc
<1>2. CASE /\ \A i \in Index, c \in {1, 2} : ~(FillAt(c, i) < step')
           /\ ~(Origin < step')
  BY <1>2 DEF BufInv
<1> QED BY <1>1, <1>2, QuietPlaces

\* Every step leaves the buffers with their allocators.
LEMMA BufNext == RunInv /\ BufInv /\ [Next]_vars => BufInv'
<1> SUFFICES ASSUME RunInv, BufInv, [Next]_vars PROVE BufInv'
  OBVIOUS
<1>1. ASSUME NEW o \in {"ok", "mapfail"}, InitAllocator(o) PROVE BufInv'
  BY <1>1, BufQuiet DEF InitAllocator
<1>2. ASSUME NEW o \in {"ok", "mapfail"}, AllocBuffer(o) PROVE BufInv'
  BY <1>2, BufAlloc
<1>3. CASE set_arg
  BY <1>3, BufSetArg
<1>4. CASE CreateThread \/ CreateFail
  BY <1>4, BufQuiet DEF CreateThread, CreateFail
<1>5. CASE JoinThread
  BY <1>5, BufQuiet DEF JoinThread
<1>6. CASE JoinCrash
  BY <1>6 DEF JoinCrash, BufInv, alloc
<1>7. CASE FreeAllocator
  BY <1>7, BufQuiet DEF FreeAllocator
<1>8. ASSUME NEW t \in Thread, ThreadStep(t) PROVE BufInv'
  BY <1>8, ThreadChange DEF BufInv, alloc
<1>9. CASE UNCHANGED vars
  BY <1>9 DEF vars, BufInv, alloc
<1> QED BY <1>1, <1>2, <1>3, <1>4, <1>5, <1>6, <1>7, <1>8, <1>9 DEF Next, MainNext

\* Where a thread runs, main is past set_arg and before the first free.
LEMMA RunningPlace ==
  ASSUME RunInv, NEW t \in Thread, Running(t)
  PROVE  /\ Origin < step /\ step <= Last - 2 /\ step \in Nat
         /\ Script(task)[step].op \notin {"set_arg", "free", "init", "alloc"}
<1>1. /\ CreateAt(task, t) \in Nat /\ JoinAt(task, t) \in Nat
      /\ Origin < CreateAt(task, t) /\ JoinAt(task, t) <= Last - 2
  BY ThreadPlaces DEF RunInv, PlaceInv
<1>2. CreateAt(task, t) < step /\ step <= JoinAt(task, t) /\ step \in Nat
  BY DEF RunInv, PlaceInv
<1>3. NUMTHREAD \in Nat /\ Origin \in Nat /\ Last \in Nat
  BY RwSepAssumption DEF Origin, Last
<1>4. Origin < step /\ step <= Last - 2
  BY <1>1, <1>2, <1>3
<1>5. Script(task)[step].op # "set_arg"
  BY <1>3, <1>4, CallPlaces DEF RunInv, PlaceInv
<1>6. Script(task)[step].op # "free"
  BY <1>3, <1>4, CallPlaces DEF RunInv, PlaceInv
<1>7. Script(task)[step].op # "init"
  BY <1>3, <1>4, CallPlaces DEF RunInv, PlaceInv, Origin
<1>8. Script(task)[step].op # "alloc"
  <2> SUFFICES ASSUME NEW c \in {1, 2}, NEW i \in Index, step = FillAt(c, i) PROVE FALSE
    BY CallPlaces DEF RunInv, PlaceInv
  <2> QED BY <1>3, <1>4 DEF FillAt, Index, Origin
<1> QED BY <1>2, <1>4, <1>5, <1>6, <1>7, <1>8

\* Neither main nor a thread takes the struct away from a running thread.
LEMMA StructNext == RunInv /\ StructInv /\ [Next]_vars => StructInv'
<1> SUFFICES ASSUME RunInv, StructInv, [Next]_vars PROVE StructInv'
  OBVIOUS
<1>1. CASE ~Ended /\ Advance /\ thr' = thr /\ (Script(task)[step].op # "set_arg" => UNCHANGED <<f1, f2>>)
  <2> SUFFICES ASSUME NEW t \in Thread, Accessing(t)
               PROVE  thr[t].buf = StructOf(t)'
    BY <1>1 DEF StructInv, Accessing, Running
  <2>1. /\ step <= Last - 2 /\ step \in Nat /\ Script(task)[step].op # "set_arg"
    BY RunningPlace DEF Accessing
  <2>2. step # Last
    BY <2>1, RwSepAssumption DEF Last
  <2>3. task' = task
    BY <1>1, <2>2, StepCases DEF RunInv
  <2> QED BY <1>1, <2>1, <2>3 DEF StructInv, StructOf
<1>2. ASSUME NEW o \in {"ok", "mapfail"}, InitAllocator(o) \/ AllocBuffer(o) PROVE StructInv'
  BY <1>1, <1>2 DEF InitAllocator, AllocBuffer, At
<1>3. CASE set_arg
  BY <1>1, <1>3 DEF set_arg, At
<1>4. CASE CreateThread
  <2>1. At("create") /\ Advance /\ UNCHANGED <<f1, f2>>
        /\ thr' = [thr EXCEPT ![Arg] = [Idle EXCEPT !.pc = "start", !.arg = PassedStruct(Arg)]]
    BY <1>4 DEF CreateThread
  <2> SUFFICES ASSUME NEW t \in Thread, Accessing(t)' PROVE thr'[t].buf = StructOf(t)'
    BY DEF StructInv
  <2>2. Arg \in Thread
    BY <2>1, CallPlaces DEF At, Arg, RunInv, PlaceInv
  <2>3. t # Arg
    BY <2>1, <2>2 DEF RunInv, Accessing, Idle
  <2>4. thr'[t] = thr[t] /\ Accessing(t)
    BY <2>1, <2>3 DEF RunInv, Accessing, Running
  <2>5. step <= Last - 2 /\ step \in Nat /\ Last \in Nat
    BY <2>4, RunningPlace, RwSepAssumption DEF Accessing, Last
  <2>6. task' = task
    BY <2>1, <2>5, StepCases DEF RunInv, At
  <2> QED BY <2>1, <2>4, <2>6 DEF StructInv, StructOf
<1>5. CASE CreateFail \/ JoinThread
  BY <1>1, <1>5 DEF CreateFail, JoinThread, At
<1>6. CASE JoinCrash
  BY <1>6 DEF JoinCrash, StructInv, StructOf, Accessing, Running
<1>7. CASE FreeAllocator
  BY <1>1, <1>7 DEF FreeAllocator, At
<1>8. ASSUME NEW t \in Thread, ThreadStep(t) PROVE StructInv'
  <2> SUFFICES ASSUME NEW u \in Thread, Accessing(u)' PROVE thr'[u].buf = StructOf(u)'
    BY DEF StructInv
  <2>1. StructOf(u)' = StructOf(u)
    <3>1. thr'[u].arg = thr[u].arg
      BY <1>8, ThreadChange
    <3> QED BY <1>8, <3>1, ThreadChange DEF StructOf
  <2>2. CASE u = t
    BY <1>8, <2>1, <2>2, ThreadChange DEF StructInv, Accessing
  <2>3. CASE u # t
    BY <1>8, <2>1, <2>3, ThreadChange DEF StructInv, Accessing, Running
  <2> QED BY <2>2, <2>3
<1>9. CASE UNCHANGED vars
  BY <1>9 DEF vars, StructInv, StructOf, Accessing, Running
<1> QED BY <1>2, <1>3, <1>4, <1>5, <1>6, <1>7, <1>8, <1>9 DEF Next, MainNext

\* The buffer invariant along a behaviour.
LEMMA BufferAlways == Spec => [](RunInv /\ BufferInv)
<1>1. Init => RunInv /\ BufferInv
  BY RunInit, BufferInit
<1>2. RunInv /\ BufferInv /\ [Next]_vars => (RunInv /\ BufferInv)'
  BY RunNext, LiveNext, BufNext, StructNext DEF BufferInv
<1> QED BY <1>1, <1>2, PTL DEF Spec

\* What a thread may still use comes from the task's allocator of its kind.
LEMMA SourceOf ==
  ASSUME RunInv, BufferInv, NEW t \in Thread, Running(t)
  PROVE  LET c == IF task = 2 /\ t[1] = "r" THEN 2 ELSE 1 IN
         /\ StructOf(t).cur[1] = alloc(c)
         /\ phase[alloc(c)] = "live" /\ channel[alloc(c)] = Jobs[job][c]
         /\ Accessing(t) => thr[t].buf = StructOf(t)
<1>1. Origin < step /\ step <= Last - 2 /\ step \in Nat
  BY RunningPlace
<1>2. t[2] \in Index
  BY DEF Thread
<1>3. f1[t[2]].cur[1] = alloc(1) /\ f2[t[2]].cur[1] = alloc(2)
  BY <1>1, <1>2 DEF BufferInv, BufInv
<1>4. \A c \in {1, 2} : phase[alloc(c)] = "live" /\ channel[alloc(c)] = Jobs[job][c]
  BY <1>1, RwSepAssumption DEF BufferInv, LiveInv, Origin, Last
<1>5. thr[t].arg = (IF task = 2 /\ t[1] = "r" THEN 2 ELSE 1)
  BY DEF RunInv, PassedStruct
<1> QED BY <1>3, <1>4, <1>5 DEF StructOf, BufferInv, StructInv

\* For any number of threads and any failing pthread_create or mmap, fast_free
\* never runs under a thread that uses the allocator or will read the struct
\* that points into it.
THEOREM NothingFreedUnderThread == Spec => []NoRunAfterFree
<1>1. RunInv /\ BufferInv => NoRunAfterFree
  BY SourceOf DEF NoRunAfterFree
<1> QED BY <1>1, BufferAlways, PTL

\* If the two channels of every job differ, as in main's four calls, task 2
\* keeps writers and readers on different channels.
THEOREM Task2OnTwoChannels ==
  (\A k \in 1 .. Len(Jobs) : Jobs[k][1] # Jobs[k][2]) => (Spec => []Task2Channels)
<1> SUFFICES ASSUME \A k \in 1 .. Len(Jobs) : Jobs[k][1] # Jobs[k][2]
             PROVE  Spec => []Task2Channels
  OBVIOUS
<1>1. RunInv /\ BufferInv => Task2Channels
  <2> SUFFICES ASSUME RunInv, BufferInv, NEW t \in Thread, NEW u \in Thread,
                      task = 2, t[1] = "w", u[1] = "r", Accessing(t), Accessing(u)
               PROVE  channel[thr[t].buf.cur[1]] # channel[thr[u].buf.cur[1]]
    BY DEF Task2Channels
  <2>1. Running(t) /\ Running(u)
    BY DEF Accessing
  <2>2. channel[thr[t].buf.cur[1]] = Jobs[job][1]
    BY <2>1, SourceOf
  <2>3. channel[thr[u].buf.cur[1]] = Jobs[job][2]
    BY <2>1, SourceOf
  <2>4. job \in 1 .. Len(Jobs)
    <3>1. Origin < step /\ NUMTHREAD \in Nat
      BY <2>1, RunningPlace, RwSepAssumption
    <3>2. step # 1
      BY <3>1 DEF Origin
    <3> QED BY <3>2, JobsFacts DEF RunInv, PlaceInv, Ended
  <2> QED BY <2>2, <2>3, <2>4
<1> QED BY <1>1, BufferAlways, PTL

----------------------------------------------------------------------------
(* What is not durable is still in the hands of a running thread.          *)

\* The thread is between the store and the write-back of the line, or has
\* sent off the line's newest version and not fenced.
Covers(t, l) ==
  /\ Accessing(t)
  /\ \/ <<l, mem.ver[l]>> \in mem.pend[t]
     \/ thr[t].pc = "clwb" /\ LineOf(t) = l

CoverInv ==
  /\ MemOK(mem, PMLine, Thread)
  /\ \A l \in PMLine : mem.per[l] < mem.ver[l] => \E t \in Thread : Covers(t, l)

\* Initially nothing is written.
LEMMA CoverInit == Init => CoverInv
<1> SUFFICES ASSUME Init PROVE CoverInv
  OBVIOUS
<1>1. mem = PMemZero(PMLine, Thread)
  BY DEF Init
<1> HIDE DEF PMLine
<1> QED BY <1>1, ZeroFacts DEF CoverInv

\* A thread keeps covering a line as long as neither the line's version nor
\* the thread's registers and unfenced lines change.
LEMMA StillCovers ==
  ASSUME NEW t \in Thread, NEW l, Covers(t, l), thr'[t] = thr[t], nvmap' = nvmap,
         mem'.ver[l] = mem.ver[l], mem.pend[t] \subseteq mem'.pend[t]
  PROVE  Covers(t, l)'
BY DEF Covers, Accessing, Running, LineOf, Mapping

\* main never touches a line, nor a thread or mapping that covers one.
LEMMA CoverMain ==
  ASSUME RunInv, CoverInv, mem' = mem,
         \A t \in Thread : Running(t) => thr'[t] = thr[t] /\ nvmap' = nvmap
  PROVE  CoverInv'
<1> HIDE DEF PMLine
<1>1. ASSUME NEW t \in Thread, NEW l, Covers(t, l) PROVE Covers(t, l)'
  BY <1>1, StillCovers DEF Covers, Accessing
<1> QED BY <1>1 DEF CoverInv

\* stride_storeclwb's store: the thread covers the line, up to its clwb.
LEMMA CoverStore ==
  ASSUME RunInv, CoverInv, NEW t \in Thread, WriterStore(t)
  PROVE  CoverInv'
<1>0. PICK k : k = LineOf(t)
  OBVIOUS
<1>1. /\ mem' = Store(mem, {k}) /\ nvmap' = nvmap
      /\ thr' = [thr EXCEPT ![t].pc = "clwb"] /\ thr[t].pc = "access"
  BY <1>0 DEF WriterStore, At_, fa
<1>2. /\ thr'[t].pc = "clwb" /\ thr'[t].buf = thr[t].buf
      /\ thr'[t].r8 = thr[t].r8 /\ thr'[t].r10 = thr[t].r10
      /\ \A u \in Thread \ {t} : thr'[u] = thr[u]
  BY <1>1 DEF RunInv
<1>3. Covers(t, k)'
  BY <1>0, <1>1, <1>2 DEF Covers, Accessing, Running, LineOf, Mapping
<1> HIDE DEF PMLine
<1>4. /\ MemOK(mem', PMLine, Thread) /\ mem'.per = mem.per /\ mem'.pend = mem.pend
      /\ \A l \in PMLine : l # k => mem'.ver[l] = mem.ver[l]
  BY <1>1, StoreFacts DEF CoverInv
<1>5. ASSUME NEW l \in PMLine, mem'.per[l] < mem'.ver[l], l # k
      PROVE  \E u \in Thread : Covers(u, l)'
  <2>1. PICK u \in Thread : Covers(u, l)
    BY <1>4, <1>5 DEF CoverInv
  <2>2. CASE u = t
    BY <1>1, <1>2, <1>4, <1>5, <2>1, <2>2 DEF Covers, Accessing, Running
  <2>3. CASE u # t
    BY <1>1, <1>2, <1>4, <1>5, <2>1, <2>3, StillCovers
  <2> QED BY <2>2, <2>3
<1> QED BY <1>3, <1>4, <1>5 DEF CoverInv

\* The inner loop's step leaves the thread at an access or at the fence.
LEMMA InnerFacts ==
  ASSUME RunInv, NEW t \in Thread, thr' = [thr EXCEPT ![t] = InnerNext(@)],
         thr[t].pc \in {"access", "clwb"}
  PROVE  /\ thr'[t].pc \in {"access", "fence"}
         /\ \A u \in Thread \ {t} : thr'[u] = thr[u]
<1>1. thr'[t] = InnerNext(thr[t])
  BY DEF RunInv
<1> QED BY <1>1 DEF RunInv, InnerNext

\* Its write-back: the newest version is on its way.
LEMMA CoverClwb ==
  ASSUME RunInv, CoverInv, NEW t \in Thread, WriterClwb(t)
  PROVE  CoverInv'
<1>0. PICK k : k = LineOf(t)
  OBVIOUS
<1>1. /\ mem' = Clwb(mem, t, {k}) /\ nvmap' = nvmap
      /\ thr' = [thr EXCEPT ![t] = InnerNext(@)] /\ thr[t].pc = "clwb"
  BY <1>0 DEF WriterClwb, At_, fa
<1>2. /\ thr'[t].pc \in {"access", "fence"}
      /\ \A u \in Thread \ {t} : thr'[u] = thr[u]
  BY <1>1, InnerFacts
<1> HIDE DEF PMLine
<1>3. /\ MemOK(mem', PMLine, Thread) /\ mem'.per = mem.per /\ mem'.ver = mem.ver
      /\ \A u \in Thread \ {t} : mem'.pend[u] = mem.pend[u]
      /\ mem.pend[t] \subseteq mem'.pend[t] /\ <<k, mem.ver[k]>> \in mem'.pend[t]
  BY <1>1, ClwbFacts DEF CoverInv
<1>4. ASSUME NEW l \in PMLine, mem'.per[l] < mem'.ver[l]
      PROVE  \E u \in Thread : Covers(u, l)'
  <2>1. PICK u \in Thread : Covers(u, l)
    BY <1>3, <1>4 DEF CoverInv
  <2>2. CASE u = t
    <3>1. <<l, mem.ver[l]>> \in mem'.pend[t]
      BY <1>0, <1>3, <2>1, <2>2 DEF Covers
    <3> QED BY <1>2, <1>3, <3>1 DEF Covers, Accessing, Running
  <2>3. CASE u # t
    BY <1>1, <1>2, <1>3, <2>1, <2>3, StillCovers
  <2> QED BY <2>2, <2>3
<1> QED BY <1>3, <1>4 DEF CoverInv

\* stride_nt's streaming store: store and write-back in one.
LEMMA CoverNt ==
  ASSUME RunInv, CoverInv, NEW t \in Thread, ReaderNt(t)
  PROVE  CoverInv'
<1>0. PICK k : k = LineOf(t)
  OBVIOUS
<1> DEFINE m == Store(mem, {k})
<1>1. /\ mem' = Clwb(m, t, {k}) /\ nvmap' = nvmap
      /\ thr' = [thr EXCEPT ![t] = InnerNext(@)] /\ thr[t].pc = "access"
  BY <1>0 DEF ReaderNt, NTStore, At_, fa
<1>2. /\ thr'[t].pc \in {"access", "fence"}
      /\ \A u \in Thread \ {t} : thr'[u] = thr[u]
  BY <1>1, InnerFacts
<1> HIDE DEF PMLine
<1>3. /\ MemOK(m, PMLine, Thread) /\ m.per = mem.per /\ m.pend = mem.pend
      /\ \A l \in PMLine : l # k => m.ver[l] = mem.ver[l]
  BY StoreFacts DEF CoverInv
<1> HIDE DEF m
<1>4. /\ MemOK(mem', PMLine, Thread) /\ mem'.per = mem.per /\ mem'.ver = m.ver
      /\ \A u \in Thread \ {t} : mem'.pend[u] = mem.pend[u]
      /\ mem.pend[t] \subseteq mem'.pend[t] /\ <<k, mem'.ver[k]>> \in mem'.pend[t]
  BY <1>1, <1>3, ClwbFacts
<1>5. Covers(t, k)'
  BY <1>2, <1>4 DEF Covers, Accessing, Running
<1>6. ASSUME NEW l \in PMLine, mem'.per[l] < mem'.ver[l], l # k
      PROVE  \E u \in Thread : Covers(u, l)'
  <2>1. mem'.ver[l] = mem.ver[l]
    BY <1>3, <1>4, <1>6
  <2>2. PICK u \in Thread : Covers(u, l)
    BY <1>4, <1>6, <2>1 DEF CoverInv
  <2>3. CASE u = t
    <3>1. <<l, mem'.ver[l]>> \in mem'.pend[t]
      BY <1>1, <1>4, <2>1, <2>2, <2>3 DEF Covers
    <3> QED BY <1>2, <3>1 DEF Covers, Accessing, Running
  <2>4. CASE u # t
    BY <1>1, <1>2, <1>4, <2>1, <2>2, <2>4, StillCovers
  <2> QED BY <2>3, <2>4
<1> QED BY <1>4, <1>5, <1>6 DEF CoverInv

\* The fence: what this thread covered is durable.
LEMMA CoverFence ==
  ASSUME RunInv, CoverInv, NEW t \in Thread, ThreadNext(t)
  PROVE  CoverInv'
<1>1. /\ mem' = Fence(mem, t) /\ nvmap' = nvmap /\ thr[t].pc = "fence"
      /\ \A u \in Thread \ {t} : thr'[u] = thr[u]
  BY DEF ThreadNext, ThreadFence, At_, fa, RunInv
<1> HIDE DEF PMLine
<1>2. /\ MemOK(mem', PMLine, Thread) /\ mem'.ver = mem.ver
      /\ \A u \in Thread \ {t} : mem'.pend[u] = mem.pend[u]
      /\ \A l \in PMLine : mem.per[l] <= mem'.per[l]
      /\ \A l \in PMLine : <<l, mem.ver[l]>> \in mem.pend[t] => mem'.per[l] = mem.ver[l]
  BY <1>1, FenceFacts DEF CoverInv
<1>3. ASSUME NEW l \in PMLine, mem'.per[l] < mem'.ver[l]
      PROVE  \E u \in Thread : Covers(u, l)'
  <2>1. mem.per[l] \in Nat /\ mem'.per[l] \in Nat /\ mem.ver[l] \in Nat
    BY <1>2 DEF CoverInv, MemOK
  <2>2. mem.per[l] < mem.ver[l] /\ <<l, mem.ver[l]>> \notin mem.pend[t]
    BY <1>2, <1>3, <2>1
  <2>3. PICK u \in Thread : Covers(u, l)
    BY <2>2 DEF CoverInv
  <2>4. u # t
    BY <1>1, <2>2, <2>3 DEF Covers
  <2> QED BY <1>1, <1>2, <2>3, <2>4, StillCovers
<1> QED BY <1>2, <1>3 DEF CoverInv

\* Every step leaves what is not durable covered.
LEMMA CoverNext == RunInv /\ CoverInv /\ [Next]_vars => CoverInv'
<1> SUFFICES ASSUME RunInv, CoverInv, [Next]_vars PROVE CoverInv'
  OBVIOUS
<1>1. ASSUME NEW op, At(op), op \in {"init", "alloc"}, mem' = mem PROVE CoverInv'
  <2>1. \A t \in Thread : ~Running(t)
    BY <1>1, RunningPlace DEF At
  <2> QED BY <1>1, <2>1, CoverMain
<1>2. ASSUME NEW o \in {"ok", "mapfail"}, InitAllocator(o) \/ AllocBuffer(o) PROVE CoverInv'
  BY <1>1, <1>2 DEF InitAllocator, AllocBuffer
<1>3. CASE set_arg \/ CreateFail \/ JoinThread
  BY <1>3, CoverMain DEF set_arg, CreateFail, JoinThread, fa
<1>4. CASE CreateThread
  <2>1. /\ At("create") /\ mem' = mem /\ nvmap' = nvmap
        /\ thr' = [thr EXCEPT ![Arg] = [Idle EXCEPT !.pc = "start", !.arg = PassedStruct(Arg)]]
    BY <1>4 DEF CreateThread, fa
  <2>2. Arg \in Thread /\ step = CreateAt(task, Arg)
    BY <2>1, CallPlaces DEF RunInv, PlaceInv, At, Arg
  <2>3. ~Running(Arg)
    <3>1. ~(CreateAt(task, Arg) < step)
      BY <2>2 DEF RunInv, PlaceInv
    <3> QED BY <2>2, <3>1 DEF RunInv
  <2>4. \A t \in Thread : Running(t) => thr'[t] = thr[t]
    BY <2>1, <2>3 DEF RunInv
  <2> QED BY <2>1, <2>4, CoverMain
<1>5. CASE FreeAllocator
  BY <1>5, CoverMain DEF FreeAllocator, FA!FastFree, FA!Free
<1>6. CASE JoinCrash
  BY <1>6, CoverMain DEF JoinCrash
<1>7. ASSUME NEW t \in Thread, ThreadStart(t) PROVE CoverInv'
  <2>1. /\ mem' = mem /\ nvmap' = nvmap /\ thr[t].pc = "start"
        /\ \A u \in Thread \ {t} : thr'[u] = thr[u]
    BY <1>7 DEF ThreadStart, At_, fa, RunInv
  <2> HIDE DEF PMLine
  <2>2. ASSUME NEW l, NEW u \in Thread, Covers(u, l) PROVE Covers(u, l)'
    <3>1. u # t
      BY <2>1, <2>2 DEF Covers, Accessing
    <3> QED BY <2>1, <2>2, <3>1, StillCovers
  <2> QED BY <2>1, <2>2 DEF CoverInv
<1>8. ASSUME NEW t \in Thread, AccessFault(t) PROVE CoverInv'
  BY <1>8, CoverMain DEF AccessFault
<1>9. ASSUME NEW t \in Thread, ThreadStep(t) PROVE CoverInv'
  BY <1>7, <1>8, <1>9, CoverStore, CoverClwb, CoverNt, CoverFence DEF ThreadStep
<1>10. CASE UNCHANGED vars
  BY <1>10, CoverMain DEF vars, fa
<1> QED BY <1>2, <1>3, <1>4, <1>5, <1>6, <1>9, <1>10 DEF Next, MainNext

\* When fast_free is called no thread runs, so a power failure takes nothing
\* back, although the fence of a thread waits for its own stores only and
\* writer and reader of a pair store to the same lines.
THEOREM DurableWhenFreed == Spec => []DurableAtFree
<1>1. RunInv /\ CoverInv => DurableAtFree
  <2> SUFFICES ASSUME RunInv, CoverInv, At("free"), NEW l \in Lost(mem) PROVE FALSE
    BY DEF DurableAtFree
  <2>1. l \in PMLine /\ mem.per[l] < mem.ver[l]
    <3> HIDE DEF PMLine
    <3> QED BY DEF CoverInv, MemOK, Lost
  <2>2. PICK t \in Thread : Covers(t, l)
    BY <2>1 DEF CoverInv
  <2>3. Running(t)
    BY <2>2 DEF Covers, Accessing
  <2> QED BY <2>3, RunningPlace DEF At
<1>2. Init => RunInv /\ CoverInv
  BY RunInit, CoverInit
<1>3. RunInv /\ CoverInv /\ [Next]_vars => (RunInv /\ CoverInv)'
  BY RunNext, CoverNext
<1> QED BY <1>1, <1>2, <1>3, PTL DEF Spec

----------------------------------------------------------------------------
(* The buffers are private.  What FastAlloc's proofs say of any allocators *)
(* holds of those of the program: FAP is FA with its theorems.             *)

FAP == INSTANCE FastAllocProofs WITH
         Concurrency <- {}, ChannelArg <- 0 .. 3, OptaneStudy <- TRUE,
         ConcAllocSize <- AllocSize, Request <- {count * stride_size},
         Outcome <- {"ok", "mapfail"}, MaxBlocks <- 6 * NUMTHREAD * Len(Jobs)

\* What the allocators keep true of their blocks and of their files.
StorageOK == FAP!SafetyInv /\ FAP!StorageInv

\* The buffer's size is a request as the proofs of FastAlloc assume it.
LEMMA BufferSizeFacts ==
  /\ count * stride_size \in Nat /\ count * stride_size <= AllocSize
  /\ (count * stride_size) % 64 = 0 /\ stride_size \in Nat /\ stride_size > 0
<1>1. count \in Nat /\ stride_size \in Nat /\ stride_size > 0
  BY RwSepAssumption
<1>2. PICK q \in Nat : stride_size = 64 * q
  BY <1>1, RwSepAssumption, SMT
<1>3. count * stride_size = 64 * (count * q) /\ count * q \in Nat
  BY <1>1, <1>2, SMT
<1>4. \A n \in Nat : (64 * n) % 64 = 0
  OBVIOUS
<1>5. (count * stride_size) % 64 = 0
  BY <1>3, <1>4
<1> QED BY <1>1, <1>3, <1>5, RwSepAssumption

\* The constants are as FastAlloc assumes them.
LEMMA StoreAssumptions == FAP!SizeAssumption /\ FAP!TableAssumption
<1>1. AllocSize \in Nat \ {0} /\ Word \in Nat
  BY RwSepAssumption, BufferSizeFacts
<1>2. FAP!SizeAssumption
  BY <1>1, RwSepAssumption, BufferSizeFacts DEF FAP!SizeAssumption
<1>3. 6 * NUMTHREAD * Len(Jobs) \in Nat
  BY RwSepAssumption, JobsFacts
<1>4. FAP!TableAssumption
  BY <1>3, RwSepAssumption DEF FAP!TableAssumption
<1> QED BY <1>2, <1>4

\* At the start it is true.
LEMMA StoreInit == FA!Init => StorageOK
<1>1. FA!Init => FAP!Init
  BY DEF FA!Init, FAP!Init, FA!Cursor, FAP!Cursor, FA!Pool, FAP!Pool, FA!NULL, FAP!NULL
<1>2. FAP!Init => FAP!SafetyInv
  BY StoreAssumptions, FAP!SafetyInit
<1>3. FAP!Init => FAP!StorageInv
  BY StoreAssumptions, FAP!StorageInit
<1> QED BY <1>1, <1>2, <1>3 DEF StorageOK

\* Every call those proofs know keeps it true.
LEMMA StoreKeeps == StorageOK /\ [FAP!Next]_(FAP!vars) => StorageOK'
<1>1. FAP!SafetyInv /\ [FAP!Next]_(FAP!vars) => FAP!SafetyInv'
  BY StoreAssumptions, FAP!SafetyNext
<1>2. FAP!StorageInv /\ [FAP!Next]_(FAP!vars) => FAP!StorageInv'
  BY StoreAssumptions, FAP!StorageNext
<1> QED BY <1>1, <1>2 DEF StorageOK

\* The calls main makes of the allocators are calls the proofs know.
LEMMA StoreCalls ==
  ASSUME NEW a \in Allocator, NEW ch \in 0 .. 3, NEW o \in {"ok", "mapfail"}
  PROVE  /\ FA!InitFastAllocator(a, ch, o) => FAP!Next
         /\ FA!AllocFits(<<a, "nvm">>, count * stride_size) => FAP!Next
         /\ FA!GrowNvm(a, count * stride_size, o) => FAP!Next
         /\ FA!FastFree(a) => FAP!Next
<1>1. FA!InitFastAllocator(a, ch, o) => FAP!InitFastAllocator(a, ch, o)
  BY DEF FA!InitFastAllocator, FAP!InitFastAllocator, FA!FirstRegions, FAP!FirstRegions,
     FA!InitLeft, FAP!InitLeft, FA!RegionSize, FAP!RegionSize, FA!Cursor, FAP!Cursor,
     FA!Pool, FAP!Pool, FA!MapFile, FAP!MapFile, FA!NvmFilename, FAP!NvmFilename,
     FA!FallocateResult, FAP!FallocateResult, FA!Refused, FAP!Refused
<1> DEFINE k == <<a, "nvm">>
           r == count * stride_size
<1>2. \A n : FA!Align64(n) = FAP!Align64(n)
  BY DEF FA!Align64, FAP!Align64
<1>3. \A x, y : FA!Sub64(x, y) = FAP!Sub64(x, y)
  BY DEF FA!Sub64, FAP!Sub64
<1>4. \A x, y : FA!CurrAfter(x, y) = FAP!CurrAfter(x, y)
  BY DEF FA!CurrAfter, FAP!CurrAfter
<1>5. FA!Given(k) = FAP!Given(k)
  BY DEF FA!Given, FAP!Given, FA!Cardinality, FAP!Cardinality
<1>6. FA!Cardinality(blocks) = FAP!Cardinality(blocks)
  BY DEF FA!Cardinality, FAP!Cardinality
<1>7. \A reg, off : FA!Hand(k, r, reg, off) => FAP!Hand(k, r, reg, off)
  BY <1>2, <1>3, <1>4, <1>5 DEF FA!Hand, FAP!Hand
<1>8. FA!AllocFits(k, r) => FAP!AllocFits(k, r)
  BY <1>2, <1>3, <1>4, <1>5, <1>6, <1>7 DEF FA!AllocFits, FAP!AllocFits
<1>9. FA!GrowNvm(a, r, o) => FAP!GrowNvm(a, r, o)
  <2>1. FA!Grow(k, r) => FAP!Grow(k, r)
    BY <1>2, <1>3, <1>4, <1>5, <1>6, <1>7 DEF FA!Grow, FAP!Grow, FA!LeftAfterGrow, FAP!LeftAfterGrow
  <2>2. FA!MapFile(a, channel[a], cnt[k], o) = FAP!MapFile(a, channel[a], cnt[k], o)
    BY DEF FA!MapFile, FAP!MapFile, FA!NvmFilename, FAP!NvmFilename, FA!FallocateResult,
       FAP!FallocateResult, FA!Refused, FAP!Refused
  <2> QED BY <2>1, <2>2 DEF FA!GrowNvm, FAP!GrowNvm
<1>10. FA!FastFree(a) => FAP!FastFree(a)
  BY DEF FA!FastFree, FAP!FastFree, FA!Free, FAP!Free, FA!FreedAreas, FAP!FreedAreas,
     FA!NULL, FAP!NULL
<1>11. k \in FAP!Cursor
  BY DEF FAP!Cursor, FAP!Pool
<1>12. FAP!InitFastAllocator(a, ch, o) => FAP!Next
  BY DEF FAP!Next
<1>13. FAP!AllocFits(k, r) => FAP!Next
  BY <1>11 DEF FAP!Next
<1>14. FAP!GrowNvm(a, r, o) => FAP!Next
  BY DEF FAP!Next
<1>15. FAP!FastFree(a) => FAP!Next
  BY DEF FAP!Next
<1> QED BY <1>1, <1>8, <1>9, <1>10, <1>12, <1>13, <1>14, <1>15

\* A process that exits takes nothing back.
LEMMA StoreExit ==
  ASSUME StorageOK, exited' = TRUE,
         UNCHANGED <<phase, channel, cnt, curr, left, heap, nvmap, blocks>>
  PROVE  StorageOK'
<1>1. FAP!TypeOK'
  BY DEF StorageOK, FAP!SafetyInv, FAP!TypeOK
<1>2. (FAP!PointerInv /\ FAP!FreshInv /\ FAP!CursorInv /\ FAP!BlockInv /\ FAP!NoOverlap)'
  BY DEF StorageOK, FAP!SafetyInv, FAP!PointerInv, FAP!FreshInv, FAP!CursorInv, FAP!BlockInv,
         FAP!NoOverlap, FAP!Live, FAP!Sound
<1>3. (FAP!TableInv /\ FAP!HeapAccounting /\ FAP!MapInv /\ FAP!ChannelInv /\ FAP!NvmInv)'
  BY DEF StorageOK, FAP!StorageInv, FAP!TableInv, FAP!HeapAccounting, FAP!MapInv,
         FAP!ChannelInv, FAP!NvmInv, FAP!Live
<1> QED BY <1>1, <1>2, <1>3 DEF StorageOK, FAP!SafetyInv, FAP!StorageInv

\* Every step of the program keeps what is said of the allocators.
LEMMA StoredNext == RunInv /\ StorageOK /\ [Next]_vars => StorageOK'
<1> SUFFICES ASSUME RunInv, StorageOK, [Next]_vars PROVE StorageOK'
  OBVIOUS
<1>0. CASE UNCHANGED fa
  BY <1>0, StoreKeeps DEF fa, FAP!vars
<1>1. ASSUME NEW o \in {"ok", "mapfail"}, InitAllocator(o) PROVE StorageOK'
  <2>1. At("init") /\ ~Ended /\ FA!InitFastAllocator(alloc(Arg), Jobs[job][Arg], o)
    BY <1>1 DEF InitAllocator, At
  <2>2. Arg \in {1, 2}
    BY <2>1, CallPlaces DEF At, Arg, RunInv, PlaceInv
  <2>3. alloc(Arg) \in Allocator /\ Jobs[job][Arg] \in 0 .. 3
    BY <2>1, <2>2, AllocatorFacts DEF RunInv
  <2> HIDE DEF Arg, alloc
  <2> QED BY <2>1, <2>3, StoreCalls, StoreKeeps
<1>2. ASSUME NEW o \in {"ok", "mapfail"}, AllocBuffer(o) PROVE StorageOK'
  <2>1. PICK a \in Allocator : \/ FA!AllocFits(<<a, "nvm">>, count * stride_size)
                               \/ FA!GrowNvm(a, count * stride_size, o)
    BY <1>2, AllocFacts DEF BufferSize
  <2>2. 0 \in 0 .. 3
    OBVIOUS
  <2> QED BY <2>1, <2>2, StoreCalls, StoreKeeps
<1>3. CASE set_arg \/ CreateThread \/ CreateFail \/ JoinThread
  BY <1>0, <1>3 DEF set_arg, CreateThread, CreateFail, JoinThread
<1>4. CASE JoinCrash
  BY <1>4, StoreExit DEF JoinCrash
<1>5. CASE FreeAllocator
  <2>1. At("free") /\ ~Ended /\ FA!FastFree(alloc(Arg))
    BY <1>5 DEF FreeAllocator, At
  <2>2. Arg \in {1, 2}
    BY <2>1, CallPlaces DEF At, Arg, RunInv, PlaceInv
  <2>3. alloc(Arg) \in Allocator
    BY <2>1, <2>2, AllocatorFacts DEF RunInv
  <2>4. 0 \in 0 .. 3 /\ "ok" \in {"ok", "mapfail"}
    OBVIOUS
  <2> HIDE DEF Arg, alloc
  <2> QED BY <2>1, <2>3, <2>4, StoreCalls, StoreKeeps
<1>6. ASSUME NEW t \in Thread, ThreadStep(t) PROVE StorageOK'
  <2>1. CASE AccessFault(t)
    BY <2>1, StoreExit DEF AccessFault
  <2>2. CASE ~AccessFault(t)
    BY <1>0, <1>6, <2>2 DEF ThreadStep, ThreadStart, WriterStore, WriterClwb, ReaderNt, ThreadNext
  <2> QED BY <2>1, <2>2
<1>7. CASE UNCHANGED vars
  BY <1>0, <1>7 DEF vars
<1> QED BY <1>1, <1>2, <1>3, <1>4, <1>5, <1>6, <1>7 DEF Next, MainNext

\* Every block is as long as a buffer.
RequestInv == \A b \in blocks : b.req = count * stride_size

\* Of the buffers taken from allocator k before call n, each is a block of
\* this allocator, and no two are the same.
Filled(buf, k, n) ==
  \A i \in Index : FillAt(k, i) < n =>
    /\ buf[i] \in blocks /\ buf[i].cur = <<alloc(k), "nvm">>
    /\ \A j \in Index : (FillAt(k, j) < n /\ buf[j] = buf[i]) => j = i

OwnInv ==
  /\ RequestInv
  /\ DOMAIN buf_sep1 = Index /\ DOMAIN buf_sep2 = Index
  /\ Filled(buf_sep1, 1, step) /\ Filled(buf_sep2, 2, step)
  /\ Origin < step => Filled(f1, 1, Origin) /\ Filled(f2, 2, Origin)

\* Initially there is no block.
LEMMA OwnInit == Init => OwnInv
<1> SUFFICES ASSUME Init PROVE OwnInv
  OBVIOUS
<1>1. NUMTHREAD \in Nat /\ step = 1
  BY RwSepAssumption DEF Init
<1>2. /\ \A i \in Index, c \in {1, 2} : ~(FillAt(c, i) < step)
      /\ ~(Origin < step)
  BY <1>1 DEF Index, FillAt, Origin
<1>3. RequestInv
  BY DEF Init, FA!Init, RequestInv
<1> QED BY <1>2, <1>3 DEF Init, OwnInv, Filled

\* The calls that take no buffer leave them all in place.
LEMMA OwnQuiet ==
  ASSUME RunInv, OwnInv, NEW op, At(op), op \notin {"alloc", "set_arg"}, Advance,
         UNCHANGED <<blocks, buf_sep1, buf_sep2, f1, f2>>
  PROVE  OwnInv'
<1>1. RequestInv' /\ DOMAIN buf_sep1' = Index /\ DOMAIN buf_sep2' = Index
  BY DEF OwnInv, RequestInv
<1>2. CASE /\ job' = job /\ task' = task
           /\ \A i \in Index, c \in {1, 2} : FillAt(c, i) < step' => FillAt(c, i) < step
           /\ Origin < step' => Origin < step
  BY <1>1, <1>2 DEF OwnInv, Filled, alloc
<1>3. CASE /\ \A i \in Index, c \in {1, 2} : ~(FillAt(c, i) < step')
           /\ ~(Origin < step')
  BY <1>1, <1>3 DEF OwnInv, Filled
<1> QED BY <1>2, <1>3, QuietPlaces

\* fast_alloc's new block is none of the buffers before it.
LEMMA OwnAlloc ==
  ASSUME RunInv, OwnInv, NEW o \in {"ok", "mapfail"}, AllocBuffer(o)
  PROVE  OwnInv'
<1>1. PICK c \in {1, 2}, x \in Index, b \in blocks' \ blocks :
           /\ step = FillAt(c, x) /\ step' = step + 1 /\ job' = job /\ task' = task /\ step' <= Origin
           /\ blocks' = blocks \cup {b} /\ b.cur = <<alloc(c), "nvm">> /\ b.req = BufferSize
           /\ buf_sep1' = IF c = 1 THEN [buf_sep1 EXCEPT ![x] = b] ELSE buf_sep1
           /\ buf_sep2' = IF c = 2 THEN [buf_sep2 EXCEPT ![x] = b] ELSE buf_sep2
  BY AllocFacts
<1>2. NUMTHREAD \in Nat /\ Origin \in Nat
  BY RwSepAssumption DEF Origin
<1>3. \A i \in Index, d \in {1, 2} : FillAt(d, i) < step' => FillAt(d, i) < step \/ (d = c /\ i = x)
  BY <1>1, <1>2 DEF FillAt, Index
<1>4. alloc(1)' = alloc(1) /\ alloc(2)' = alloc(2)
  BY <1>1 DEF alloc
<1>5. RequestInv'
  BY <1>1 DEF OwnInv, RequestInv, BufferSize
<1>6. ASSUME NEW d \in {1, 2}, NEW f, NEW g, DOMAIN f = Index, Filled(f, d, step),
             g = IF c = d THEN [f EXCEPT ![x] = b] ELSE f
      PROVE  \A i \in Index : FillAt(d, i) < step' =>
               /\ g[i] \in blocks' /\ g[i].cur = <<alloc(d), "nvm">>
               /\ \A j \in Index : FillAt(d, j) < step' /\ g[j] = g[i] => j = i
  <2>1. \A i \in Index : FillAt(d, i) < step =>
          /\ f[i] \in blocks /\ f[i].cur = <<alloc(d), "nvm">>
          /\ \A j \in Index : FillAt(d, j) < step /\ f[j] = f[i] => j = i
    BY <1>6 DEF Filled
  <2>2. \A i \in Index : FillAt(d, i) < step' => FillAt(d, i) < step \/ (d = c /\ i = x)
    BY <1>3
  <2>3. CASE c # d
    BY <1>1, <1>6, <2>1, <2>2, <2>3
  <2>4. CASE c = d
    <3>1. g[x] = b /\ \A i \in Index : i # x => g[i] = f[i]
      BY <1>6, <2>4
    <3>2. \A i \in Index : FillAt(d, i) < step' /\ i # x => f[i] \in blocks /\ f[i] # b
      BY <2>1, <2>2
    <3> QED BY <1>1, <2>1, <2>2, <2>4, <3>1, <3>2
  <2> QED BY <2>3, <2>4
<1>7. Filled(buf_sep1, 1, step)' /\ Filled(buf_sep2, 2, step)'
  <2>1. /\ DOMAIN buf_sep1 = Index /\ Filled(buf_sep1, 1, step)
        /\ DOMAIN buf_sep2 = Index /\ Filled(buf_sep2, 2, step)
    BY DEF OwnInv
  <2>2. /\ buf_sep1' = IF c = 1 THEN [buf_sep1 EXCEPT ![x] = b] ELSE buf_sep1
        /\ buf_sep2' = IF c = 2 THEN [buf_sep2 EXCEPT ![x] = b] ELSE buf_sep2
    BY <1>1
  <2>3. Filled(buf_sep1, 1, step)'
    BY <1>4, <1>6, <2>1, <2>2 DEF Filled
  <2>4. Filled(buf_sep2, 2, step)'
    BY <1>4, <1>6, <2>1, <2>2 DEF Filled
  <2> QED BY <2>3, <2>4
<1>8. ~(Origin < step')
  BY <1>1, <1>2 DEF FillAt, Index
<1>9. DOMAIN buf_sep1' = Index /\ DOMAIN buf_sep2' = Index
  BY <1>1 DEF OwnInv
<1> QED BY <1>5, <1>7, <1>8, <1>9 DEF OwnInv, Origin

\* set_arg: the structs have them all.
LEMMA OwnSetArg ==
  ASSUME RunInv, OwnInv, set_arg
  PROVE  OwnInv'
<1>1. /\ At("set_arg") /\ ~Ended /\ Advance /\ UNCHANGED <<buf_sep1, buf_sep2, blocks>>
      /\ f1' = buf_sep1 /\ f2' = buf_sep2
  BY DEF set_arg, At, fa, SecondBuffers
<1>2. step = Origin
  BY <1>1, CallPlaces DEF At, RunInv, PlaceInv
<1>3. NUMTHREAD \in Nat /\ Origin \in Nat /\ Origin # Last
  BY RwSepAssumption DEF Origin, Last
<1>4. step' = step + 1 /\ job' = job /\ task' = task
  BY <1>1, <1>2, <1>3, StepCases DEF RunInv
<1>5. alloc(1)' = alloc(1) /\ alloc(2)' = alloc(2)
  BY <1>4 DEF alloc
<1>6. \A i \in Index, c \in {1, 2} : FillAt(c, i) < Origin
  BY <1>3 DEF FillAt, Origin, Index
<1>7. Filled(f1, 1, Origin)' /\ Filled(f2, 2, Origin)'
  BY <1>1, <1>2, <1>5 DEF OwnInv, Filled, FillAt, Origin
<1>8. Filled(buf_sep1, 1, step)' /\ Filled(buf_sep2, 2, step)'
  BY <1>1, <1>2, <1>5, <1>6 DEF OwnInv, Filled
<1> QED BY <1>1, <1>7, <1>8 DEF OwnInv, RequestInv

\* Every step leaves the buffers distinct blocks.
LEMMA OwnNext == RunInv /\ OwnInv /\ [Next]_vars => OwnInv'
<1> SUFFICES ASSUME RunInv, OwnInv, [Next]_vars PROVE OwnInv'
  OBVIOUS
<1>0. CASE UNCHANGED <<job, task, step, blocks, buf_sep1, buf_sep2, f1, f2>>
  BY <1>0 DEF OwnInv, RequestInv, Filled, alloc
<1>1. ASSUME NEW o \in {"ok", "mapfail"}, InitAllocator(o) PROVE OwnInv'
  BY <1>1, OwnQuiet DEF InitAllocator, FA!InitFastAllocator
<1>2. ASSUME NEW o \in {"ok", "mapfail"}, AllocBuffer(o) PROVE OwnInv'
  BY <1>2, OwnAlloc
<1>3. CASE set_arg
  BY <1>3, OwnSetArg
<1>4. CASE CreateThread \/ CreateFail
  BY <1>4, OwnQuiet DEF CreateThread, CreateFail, fa
<1>5. CASE JoinThread
  BY <1>5, OwnQuiet DEF JoinThread, fa
<1>6. CASE JoinCrash
  BY <1>0, <1>6 DEF JoinCrash
<1>7. CASE FreeAllocator
  BY <1>7, OwnQuiet DEF FreeAllocator, FA!FastFree
<1>8. ASSUME NEW t \in Thread, ThreadStep(t) PROVE OwnInv'
  <2>1. UNCHANGED blocks
    BY <1>8 DEF ThreadStep, ThreadStart, WriterStore, WriterClwb, ReaderNt, ThreadNext,
                AccessFault, fa
  <2> QED BY <1>0, <1>8, <2>1, ThreadChange
<1>9. CASE UNCHANGED vars
  BY <1>0, <1>9 DEF vars, fa
<1> QED BY <1>1, <1>2, <1>3, <1>4, <1>5, <1>6, <1>7, <1>8, <1>9 DEF Next, MainNext

----------------------------------------------------------------------------
(* The threads' registers.                                                 *)

\* A running thread is in its r11-th stride, r10 bytes into it.
RegInv ==
  \A t \in Thread :
    /\ thr[t].pc \in {"idle", "start", "access", "clwb", "fence", "done"}
    /\ thr[t].pc = "start" => thr[t].r8 = 0
    /\ Accessing(t) => thr[t].r11 \in 0 .. (count - 1) /\ thr[t].r8 = thr[t].r11 * stride_size
    /\ thr[t].pc \in {"access", "clwb"} =>
         thr[t].r10 \in 0 .. (access_size - 1) /\ thr[t].r10 % 64 = 0

\* Every step leaves a running thread inside its strides.
LEMMA RegNext == RunInv /\ RegInv /\ [Next]_vars => RegInv'
<1> SUFFICES ASSUME RunInv, RegInv, [Next]_vars PROVE RegInv'
  OBVIOUS
<1>0. CASE UNCHANGED thr
  BY <1>0 DEF RegInv, Accessing, Running
<1>1. ASSUME NEW o \in {"ok", "mapfail"}, InitAllocator(o) \/ AllocBuffer(o) PROVE RegInv'
  BY <1>0, <1>1 DEF InitAllocator, AllocBuffer
<1>2. CASE set_arg \/ CreateFail \/ JoinThread \/ JoinCrash \/ FreeAllocator
  BY <1>0, <1>2 DEF set_arg, CreateFail, JoinThread, JoinCrash, FreeAllocator
<1>3. CASE CreateThread
  <2>1. thr' = [thr EXCEPT ![Arg] = [Idle EXCEPT !.pc = "start", !.arg = PassedStruct(Arg)]]
    BY <1>3 DEF CreateThread
  <2>2. ASSUME NEW t \in Thread
        PROVE  thr'[t] = thr[t] \/ (thr'[t].pc = "start" /\ thr'[t].r8 = 0)
    BY <2>1 DEF RunInv, Idle
  <2> QED BY <2>2 DEF RegInv, Accessing, Running
<1>4. ASSUME NEW t \in Thread, ThreadStep(t) PROVE RegInv'
  <2>1. \A u \in Thread \ {t} : thr'[u] = thr[u]
    BY <1>4, ThreadChange
  <2>2. access_size \in Nat /\ access_size > 0 /\ stride_size \in Nat /\ count \in Nat /\ count > 0
    BY RwSepAssumption
  <2> SUFFICES
        /\ thr'[t].pc \in {"idle", "access", "clwb", "fence", "done"}
        /\ thr'[t].pc \notin {"idle", "done"} =>
             thr'[t].r11 \in 0 .. (count - 1) /\ thr'[t].r8 = thr'[t].r11 * stride_size
        /\ thr'[t].pc \in {"access", "clwb"} =>
             thr'[t].r10 \in 0 .. (access_size - 1) /\ thr'[t].r10 % 64 = 0
    BY <2>1 DEF RegInv, Accessing, Running
  <2>3. CASE ThreadStart(t)
    <3>1. /\ thr'[t].pc = "access" /\ thr'[t].r8 = 0 /\ thr'[t].r10 = 0 /\ thr'[t].r11 = 0
      BY <2>3 DEF ThreadStart, RunInv, Idle
    <3>2. 0 * stride_size = 0
      BY <2>2
    <3> QED BY <2>2, <3>1, <3>2
  <2>4. CASE WriterStore(t)
    <3>1. /\ thr[t].pc = "access" /\ thr'[t].pc = "clwb" /\ thr'[t].r8 = thr[t].r8
          /\ thr'[t].r10 = thr[t].r10 /\ thr'[t].r11 = thr[t].r11
      BY <2>4 DEF WriterStore, At_, RunInv
    <3> QED BY <3>1 DEF RegInv, Accessing, Running
  <2>5. CASE WriterClwb(t) \/ ReaderNt(t)
    <3>1. thr[t].pc \in {"access", "clwb"} /\ thr' = [thr EXCEPT ![t] = InnerNext(@)]
      BY <2>5 DEF WriterClwb, ReaderNt, At_
    <3>2. thr'[t] = InnerNext(thr[t])
      BY <3>1 DEF RunInv
    <3>3. /\ thr'[t].r8 = thr[t].r8 /\ thr'[t].r10 = thr[t].r10 + 64 /\ thr'[t].r11 = thr[t].r11
          /\ thr'[t].pc = IF thr[t].r10 + 64 < access_size THEN "access" ELSE "fence"
      BY <3>2 DEF InnerNext, RunInv
    <3>4. thr[t].r10 \in 0 .. (access_size - 1) /\ thr[t].r10 % 64 = 0
      BY <3>1 DEF RegInv
    <3>5. thr[t].r11 \in 0 .. (count - 1) /\ thr[t].r8 = thr[t].r11 * stride_size
      BY <3>1 DEF RegInv, Accessing, Running
    <3>6. thr'[t].r10 \in Nat /\ thr'[t].r10 % 64 = 0
      BY <2>2, <3>3, <3>4
    <3> QED BY <2>2, <3>3, <3>4, <3>5, <3>6
  <2>6. CASE AccessFault(t)
    BY <2>6 DEF AccessFault, At_, RegInv, Accessing, Running
  <2>7. CASE ThreadNext(t)
    <3>1. /\ thr[t].pc = "fence" /\ thr'[t].r8 = thr[t].r8 + stride_size /\ thr'[t].r10 = 0
          /\ thr'[t].r11 = thr[t].r11 + 1
          /\ thr'[t].pc = IF thr[t].r11 + 1 < count THEN "access" ELSE "done"
      BY <2>7 DEF ThreadNext, At_, RunInv, OuterMore
    <3>2. thr[t].r11 \in 0 .. (count - 1) /\ thr[t].r8 = thr[t].r11 * stride_size
      BY <3>1 DEF RegInv, Accessing, Running
    <3>3. \A n \in Nat : n * stride_size + stride_size = (n + 1) * stride_size
      BY <2>2
    <3>4. thr'[t].r8 = thr'[t].r11 * stride_size
      BY <2>2, <3>1, <3>2, <3>3
    <3> QED BY <2>2, <3>1, <3>2, <3>4
  <2> QED BY <1>4, <2>3, <2>4, <2>5, <2>6, <2>7 DEF ThreadStep
<1>5. CASE UNCHANGED vars
  BY <1>0, <1>5 DEF vars
<1> QED BY <1>1, <1>2, <1>3, <1>4, <1>5 DEF Next, MainNext

\* How far into its buffer a running thread is.
LEMMA InBuffer ==
  ASSUME RegInv, NEW t \in Thread, Accessing(t)
  PROVE  /\ thr[t].r8 \in Nat /\ thr[t].r8 % 64 = 0 /\ thr[t].r8 + stride_size <= count * stride_size
         /\ thr[t].pc \in {"access", "clwb"} =>
              \E n \in 0 .. ((count * stride_size) \div 64 - 1) : thr[t].r8 + thr[t].r10 = 64 * n
<1>1. thr[t].r11 \in 0 .. (count - 1) /\ thr[t].r8 = thr[t].r11 * stride_size
  BY DEF RegInv
<1>2. count \in Nat /\ stride_size \in Nat /\ access_size \in Nat /\ access_size <= stride_size
  BY RwSepAssumption
<1>3. PICK q \in Nat : stride_size = 64 * q
  BY <1>2, RwSepAssumption
<1>4. PICK d \in Nat : count = thr[t].r11 + 1 + d
  <2>1. count - thr[t].r11 - 1 \in Nat
    BY <1>1, <1>2
  <2> QED BY <1>1, <1>2, <2>1
<1>5. /\ count * stride_size = thr[t].r8 + stride_size + d * stride_size
      /\ d * stride_size \in Nat /\ thr[t].r8 \in Nat
      /\ thr[t].r8 = 64 * (thr[t].r11 * q) /\ thr[t].r11 * q \in Nat
      /\ count * stride_size = 64 * (count * q) /\ count * q \in Nat
  <2>1. \A a, b, c \in Nat : (a + 1 + b) * c = a * c + c + b * c /\ a * c \in Nat
    OBVIOUS
  <2>2. \A a, b \in Nat : a * (64 * b) = 64 * (a * b) /\ a * b \in Nat
    OBVIOUS
  <2>3. thr[t].r11 \in Nat
    BY <1>1, <1>2
  <2>4. count * stride_size = thr[t].r8 + stride_size + d * stride_size
    BY ONLY <1>1, <1>2, <1>4, <2>1, <2>3
  <2>5. thr[t].r8 = 64 * (thr[t].r11 * q)
    BY ONLY <1>1, <1>3, <2>2, <2>3
  <2>6. count * stride_size = 64 * (count * q)
    BY ONLY <1>2, <1>3, <2>2
  <2>7. thr[t].r11 * q \in Nat /\ count * q \in Nat /\ d * stride_size \in Nat
    BY ONLY <1>2, <1>3, <1>4, <2>2, <2>3
  <2>8. thr[t].r8 \in Nat
    BY ONLY <2>5, <2>7
  <2> QED BY ONLY <2>4, <2>5, <2>6, <2>7, <2>8
<1>6. \A n \in Nat : (64 * n) % 64 = 0 /\ (64 * n) \div 64 = n
  OBVIOUS
<1>7. thr[t].r8 \in Nat /\ thr[t].r8 % 64 = 0 /\ thr[t].r8 + stride_size <= count * stride_size
  <2>1. thr[t].r8 % 64 = 0
    BY <1>5, <1>6
  <2> QED BY <1>2, <1>5, <2>1
<1>8. ASSUME thr[t].pc \in {"access", "clwb"}
      PROVE  \E n \in 0 .. ((count * stride_size) \div 64 - 1) : thr[t].r8 + thr[t].r10 = 64 * n
  <2>1. thr[t].r10 \in Nat /\ thr[t].r10 < stride_size /\ thr[t].r10 % 64 = 0
    BY <1>2, <1>8 DEF RegInv
  <2>2. PICK p \in Nat : thr[t].r10 = 64 * p
    BY <2>1
  <2>3. (count * stride_size) \div 64 = count * q
    BY <1>5, <1>6
  <2> DEFINE u == thr[t].r11 * q
             v == count * q
  <2>4. thr[t].r8 + thr[t].r10 = 64 * (u + p) /\ u + p \in Nat /\ 64 * (u + p) < 64 * v /\ v \in Nat
    BY <1>2, <1>5, <1>7, <2>1, <2>2
  <2>5. u + p \in 0 .. (v - 1)
    BY <2>4
  <2> QED BY <2>3, <2>4, <2>5
<1> QED BY <1>7, <1>8

----------------------------------------------------------------------------
\* All of them together.
ProgramInv == RunInv /\ BufferInv /\ StorageOK /\ OwnInv /\ RegInv

\* The invariants along a behaviour.
LEMMA ProgramAlways == Spec => []ProgramInv
<1>1. Init => ProgramInv
  <2>1. Init => RegInv
    BY DEF Init, RegInv, Idle, Accessing, Running
  <2>2. Init => StorageOK
    BY StoreInit DEF Init
  <2> QED BY <2>1, <2>2, RunInit, BufferInit, OwnInit DEF ProgramInv
<1>2. ProgramInv /\ [Next]_vars => ProgramInv'
  BY RunNext, LiveNext, BufNext, StructNext, StoredNext, OwnNext, RegNext DEF ProgramInv, BufferInv
<1> QED BY <1>1, <1>2, PTL DEF Spec

\* The allocator a thread's buffer comes from.
Side(t) == IF task = 2 /\ t[1] = "r" THEN 2 ELSE 1

\* The buffer a running thread works on, and the file behind it.
LEMMA BufferOf ==
  ASSUME ProgramInv, NEW t \in Thread, Accessing(t)
  PROVE  LET b == thr[t].buf IN
         /\ b = IF Side(t) = 2 THEN f2[t[2]] ELSE f1[t[2]]
         /\ b \in blocks /\ b.cur = <<alloc(Side(t)), "nvm">>
         /\ b.off \in Nat /\ b.off % 64 = 0 /\ b.size \in Nat /\ count * stride_size <= b.size
         /\ Mapping(b).file[1] = Jobs[job][Side(t)] /\ Mapping(b).file[3] = b.reg
<1> DEFINE b == thr[t].buf
           k == <<alloc(Side(t)), "nvm">>
<1>1. Running(t) /\ t[2] \in Index
  BY DEF Accessing, Thread
<1>2. Origin < step /\ step <= Last - 2 /\ step \in Nat
  BY <1>1, RunningPlace DEF ProgramInv
<1>3. b = IF Side(t) = 2 THEN f2[t[2]] ELSE f1[t[2]]
  BY <1>1 DEF ProgramInv, RunInv, BufferInv, StructInv, StructOf, Side, PassedStruct
<1>4. \A i \in Index, c \in {1, 2} : FillAt(c, i) < Origin
  BY RwSepAssumption DEF FillAt, Origin, Index
<1>5. b \in blocks /\ b.cur = k
  BY <1>1, <1>2, <1>3, <1>4 DEF ProgramInv, OwnInv, Filled, Side
<1>6. channel[alloc(Side(t))] = Jobs[job][Side(t)]
  BY <1>1, SourceOf DEF ProgramInv, Side
<1>7. b \in FAP!Block
  BY <1>5 DEF ProgramInv, StorageOK, FAP!SafetyInv, FAP!TypeOK
<1>8. b.cur \in FAP!Cursor /\ b.off \in Nat /\ b.size \in Nat /\ b.reg \in Nat
  BY <1>7 DEF FAP!Block
<1>9. alloc(Side(t)) \in Allocator
  BY <1>5, <1>8 DEF FAP!Cursor
<1>10. FAP!Sound(b.cur)
  BY BufferSizeFacts DEF ProgramInv, OwnInv, RequestInv, FAP!Sound
<1>11. b.off % 64 = 0 /\ b.req <= b.size /\ b.req = count * stride_size
  BY <1>5, <1>10 DEF ProgramInv, StorageOK, FAP!SafetyInv, FAP!BlockInv, OwnInv, RequestInv
<1>12. cnt[k] \in Nat /\ b.reg < cnt[k]
  BY <1>5, <1>8 DEF ProgramInv, StorageOK, FAP!StorageInv, FAP!TableInv, FAP!TypeOK
<1>13. \E m \in nvmap : m.owner = alloc(Side(t)) /\ m.idx = b.reg
  <2>1. b.reg \in 0 .. (cnt[k] - 1)
    BY <1>8, <1>12
  <2> HIDE DEF b
  <2> QED BY <1>9, <2>1 DEF ProgramInv, StorageOK, FAP!StorageInv, FAP!NvmInv
<1>14. b.cur[1] = alloc(Side(t))
  BY <1>5
<1>15. Mapping(b) \in nvmap /\ Mapping(b).owner = alloc(Side(t)) /\ Mapping(b).idx = b.reg
  BY <1>13, <1>14 DEF Mapping
<1> HIDE DEF b
<1>16. /\ Mapping(b).file = FAP!NvmFilename(alloc(Side(t)), Mapping(b).file[1], b.reg)
       /\ Mapping(b).file[1] = channel[alloc(Side(t))]
  BY <1>15 DEF ProgramInv, StorageOK, FAP!StorageInv, FAP!MapInv
<1>17. Mapping(b).file[3] = b.reg
  BY <1>16 DEF FAP!NvmFilename
<1> QED BY <1>3, <1>5, <1>6, <1>8, <1>11, <1>16, <1>17 DEF b

\* Lines of whole buffers at aligned places behind each other do not meet.
LEMMA LinesApart ==
  ASSUME NEW o \in Nat, NEW p \in Nat, NEW s \in Nat, NEW len \in Nat, NEW size \in Nat,
         o % 64 = 0, p % 64 = 0, len % 64 = 0, len <= size, o + size <= p,
         NEW n \in 0 .. (len \div 64 - 1), NEW m \in Nat
  PROVE  o \div 64 + n # p \div 64 + m
OBVIOUS

\* If the two channels of every job differ, as in main's four calls, no two
\* threads ever work on a common line, except the writer and the reader of a
\* pair in task 1, and no thread leaves its buffer, whatever fails.
THEOREM BuffersPrivate ==
  (\A k \in 1 .. Len(Jobs) : Jobs[k][1] # Jobs[k][2]) => (Spec => []PrivateBuffers)
<1> SUFFICES ASSUME \A k \in 1 .. Len(Jobs) : Jobs[k][1] # Jobs[k][2]
             PROVE  Spec => []PrivateBuffers
  OBVIOUS
<1>1. ASSUME ProgramInv, NEW t \in Thread, NEW u \in Thread, Accessing(t), Accessing(u), t # u,
             LinesOf(t) \cap LinesOf(u) # {}
      PROVE  task = 1 /\ t[2] = u[2]
  <2> DEFINE b == thr[t].buf
             c == thr[u].buf
             len == count * stride_size
  <2>1. PICK n \in 0 .. (len \div 64 - 1), m \in 0 .. (len \div 64 - 1) :
          /\ Mapping(b).file = Mapping(c).file
          /\ b.off \div 64 + n = c.off \div 64 + m
    BY <1>1 DEF LinesOf
  <2>2. /\ b \in blocks /\ b.cur = <<alloc(Side(t)), "nvm">>
        /\ b.off \in Nat /\ b.off % 64 = 0 /\ b.size \in Nat /\ len <= b.size
        /\ Mapping(b).file[1] = Jobs[job][Side(t)] /\ Mapping(b).file[3] = b.reg
        /\ b = IF Side(t) = 2 THEN f2[t[2]] ELSE f1[t[2]]
    BY <1>1, BufferOf
  <2>3. /\ c \in blocks /\ c.cur = <<alloc(Side(u)), "nvm">>
        /\ c.off \in Nat /\ c.off % 64 = 0 /\ c.size \in Nat /\ len <= c.size
        /\ Mapping(c).file[1] = Jobs[job][Side(u)] /\ Mapping(c).file[3] = c.reg
        /\ c = IF Side(u) = 2 THEN f2[u[2]] ELSE f1[u[2]]
    BY <1>1, BufferOf
  <2>4. Running(t) /\ Running(u) /\ Origin < step /\ RunInv
    BY <1>1, RunningPlace DEF Accessing, ProgramInv
  <2>5. job \in 1 .. Len(Jobs)
    <3>1. step # 1
      BY <2>4, RwSepAssumption DEF Origin
    <3> QED BY <2>4, <3>1, JobsFacts DEF RunInv, PlaceInv, Ended
  <2>6. Side(t) = Side(u)
    BY <2>1, <2>2, <2>3, <2>5 DEF Side
  <2>7. b = c
    <3> SUFFICES ASSUME b # c PROVE FALSE
      OBVIOUS
    <3>1. b.cur = c.cur /\ b.reg = c.reg
      BY <2>1, <2>2, <2>3, <2>6
    <3>2. FAP!Sound(b.cur)
      BY <1>1, BufferSizeFacts DEF ProgramInv, OwnInv, RequestInv, FAP!Sound
    <3>3. FAP!Disjoint(b, c)
      BY <1>1, <2>2, <2>3, <3>1, <3>2 DEF ProgramInv, StorageOK, FAP!SafetyInv, FAP!NoOverlap
    <3>4. len \in Nat /\ len % 64 = 0 /\ n \in Nat /\ m \in Nat
      BY BufferSizeFacts
    <3>5. b.off + b.size <= c.off \/ c.off + c.size <= b.off
      BY <3>3 DEF FAP!Disjoint
    <3> HIDE DEF b, c, len
    <3>6. CASE b.off + b.size <= c.off
      <4>1. b.off \div 64 + n # c.off \div 64 + m
        BY ONLY <2>1, <2>2, <2>3, <3>4, <3>6, LinesApart
      <4> QED BY ONLY <2>1, <4>1
    <3>7. CASE c.off + c.size <= b.off
      <4>1. c.off \div 64 + m # b.off \div 64 + n
        BY ONLY <2>1, <2>2, <2>3, <3>4, <3>7, LinesApart
      <4> QED BY ONLY <2>1, <4>1
    <3> QED BY <3>5, <3>6, <3>7
  <2>8. t[2] \in Index /\ u[2] \in Index /\ t = <<t[1], t[2]>> /\ u = <<u[1], u[2]>>
        /\ t[1] \in {"w", "r"} /\ u[1] \in {"w", "r"}
    BY DEF Thread
  <2>9. t[2] = u[2]
    <3>1. \A i \in Index, k \in {1, 2} : FillAt(k, i) < Origin
      BY RwSepAssumption DEF FillAt, Origin, Index
    <3>2. Filled(f1, 1, Origin) /\ Filled(f2, 2, Origin)
      BY <1>1, <2>4 DEF ProgramInv, OwnInv
    <3> HIDE DEF b, c
    <3> QED BY <2>2, <2>3, <2>6, <2>7, <2>8, <3>1, <3>2 DEF Filled
  <2>10. t[1] # u[1]
    BY <1>1, <2>8, <2>9
  <2>11. task # 2
    BY <2>6, <2>8, <2>10 DEF Side
  <2>12. task # 3
    BY <2>4, <2>8, <2>10, Task3Apart DEF Task3Separate
  <2> QED BY <2>4, <2>9, <2>11, <2>12 DEF RunInv, PlaceInv
<1>2. ASSUME ProgramInv, NEW t \in Thread, thr[t].pc \in {"access", "clwb"}
      PROVE  LineOf(t) \in LinesOf(t)
  <2> DEFINE b == thr[t].buf
             R == 0 .. ((count * stride_size) \div 64 - 1)
  <2>1. Accessing(t)
    BY <1>2 DEF Accessing, Running
  <2>2. PICK n \in R : thr[t].r8 + thr[t].r10 = 64 * n
    BY <1>2, <2>1, InBuffer DEF ProgramInv
  <2>3. b.off \in Nat /\ b.off % 64 = 0 /\ n \in Nat
    BY <1>2, <2>1, BufferOf
  <2>4. thr[t].r8 \in Nat /\ thr[t].r10 \in Nat
    <3>1. thr[t].r10 \in 0 .. (access_size - 1)
      BY <1>2 DEF ProgramInv, RegInv
    <3> QED BY <1>2, <2>1, <3>1, InBuffer DEF ProgramInv
  <2>5. (b.off + thr[t].r8 + thr[t].r10) \div 64 = b.off \div 64 + n
    <3> HIDE DEF b
    <3>1. b.off + thr[t].r8 + thr[t].r10 = b.off + 64 * n
      BY <2>2, <2>3, <2>4
    <3>2. PICK p \in Nat : b.off = 64 * p
      BY <2>3
    <3>3. \A x, y \in Nat : (64 * x + 64 * y) \div 64 = (64 * x) \div 64 + y
      OBVIOUS
    <3> QED BY ONLY <2>3, <3>1, <3>2, <3>3
  <2> QED BY <2>5 DEF LineOf, LinesOf
<1>3. ProgramInv => PrivateBuffers
  BY <1>1, <1>2 DEF PrivateBuffers
<1> QED BY <1>3, ProgramAlways, PTL

\* What the handles are.
TidInv == tid \in [Thread -> {"stale", "joinable", "failed"}]

\* Every step leaves a handle one of the three.
LEMMA TidNext == RunInv /\ TidInv /\ [Next]_vars => TidInv'
<1> SUFFICES ASSUME RunInv, TidInv, [Next]_vars PROVE TidInv'
  OBVIOUS
<1>1. CASE UNCHANGED tid
  BY <1>1 DEF TidInv
<1>2. CASE CreateThread \/ CreateFail
  BY <1>2 DEF TidInv, CreateThread, CreateFail
<1>3. CASE JoinThread
  BY <1>3 DEF TidInv, JoinThread
<1>4. ASSUME NEW t \in Thread, ThreadStep(t) PROVE TidInv'
  BY <1>1, <1>4, ThreadChange
<1> QED BY <1>1, <1>2, <1>3, <1>4 DEF Next, MainNext, InitAllocator, AllocBuffer, set_arg,
                                     JoinCrash, FreeAllocator, vars

\* main stays in its scripts, a running thread at an offset its buffer has,
\* and no line is durable in a version it does not have.
THEOREM TypesCorrect == Spec => []TypeOK
<1>1. ProgramInv /\ TidInv /\ CoverInv => TypeOK
  <2> SUFFICES ASSUME ProgramInv, TidInv, CoverInv PROVE TypeOK
    OBVIOUS
  <2>1. job \in 1 .. (Len(Jobs) + 1) /\ task \in 1 .. 3 /\ step \in 1 .. Len(Script(task))
    BY ScriptFacts DEF ProgramInv, RunInv, PlaceInv
  <2>2. ASSUME NEW t \in Thread, Running(t) PROVE thr[t].r8 < count * stride_size
    <3>1. CASE thr[t].pc = "start"
      BY <3>1, BufferSizeFacts, RwSepAssumption DEF ProgramInv, RegInv
    <3>2. CASE thr[t].pc # "start"
      <4>1. Accessing(t)
        BY <2>2, <3>2 DEF Accessing
      <4>2. /\ thr[t].r8 \in Nat /\ thr[t].r8 + stride_size <= count * stride_size
            /\ count * stride_size \in Nat /\ stride_size \in Nat /\ stride_size > 0
        BY <4>1, InBuffer, BufferSizeFacts DEF ProgramInv
      <4> QED BY ONLY <4>2
    <3> QED BY <3>1, <3>2
  <2>3. \A t \in Thread : thr[t].pc \in {"idle", "start", "access", "clwb", "fence", "done"}
    BY DEF ProgramInv, RegInv
  <2>4. \A l \in PMLine : mem.per[l] <= mem.ver[l]
    <3> HIDE DEF PMLine
    <3> QED BY DEF CoverInv, MemOK
  <2> HIDE DEF PMLine
  <2> QED BY <2>1, <2>2, <2>3, <2>4 DEF TypeOK, TidInv
<1>2. Init => RunInv /\ CoverInv /\ TidInv
  BY RunInit, CoverInit DEF Init, TidInv
<1>3. RunInv /\ CoverInv /\ TidInv /\ [Next]_vars => (RunInv /\ CoverInv /\ TidInv)'
  BY RunNext, CoverNext, TidNext
<1> QED BY <1>1, <1>2, <1>3, ProgramAlways, PTL DEF Spec
=============================================================================
