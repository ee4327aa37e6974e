---------------------------- MODULE ListsProofs -----------------------------
(***************************************************************************)
(* Proofs about Lists for any number of processes, any command lines, any  *)
(* number of lists and any capacity of the pool.                           *)
(***************************************************************************)
EXTENDS Lists, SequenceTheorems, TLAPS

(* The inductive invariant.  TypeOK gives the pool to one process; the     *)
(* rest says how far that process has come with its job.                   *)

\* Where main has looked at the command line, and for what it goes on.
ArgInv ==
  \A q \in Proc :
    /\ pc[q] \notin {"idle", "exists", "failed"} => arg[q].argc = 5
    /\ pc[q] = "print" => arg[q].cmd = "print"
    /\ pc[q] \in {"insert", "value", "persist", "link"} => arg[q].cmd # "print"

\* An element is linked only when its value is persisted.
ElementInv == \A s \in Slot : \A n \in 1 .. Len(list[s]) : list[s][n].val = list[s][n].per

\* How far the constructor has come.
NewInv ==
  \A q \in Proc :
    /\ pc[q] \in {"persist", "link"} => new[q].val = Atoi[arg[q].cmd]
    /\ pc[q] = "link" => new[q].per = new[q].val

\* A listing under way is the beginning of the list.
OutInv ==
  \A q \in Proc :
    /\ pc[q] = "print" =>
         LET l == list[SlotOf(arg[q])] IN
           /\ Len(out[q]) <= Len(l)
           /\ \A n \in 1 .. Len(out[q]) : out[q][n] = l[n].val
    /\ pc[q] \notin {"print", "close", "return0"} => out[q] = << >>

Inv == TypeOK /\ ArgInv /\ ElementInv /\ NewInv /\ OutInv

\* What the command lines and the conversions yield.
LEMMA ArgFacts ==
  ASSUME NEW x \in Arg
  PROVE  /\ x.argc \in Nat /\ x.id \in Word /\ x.cmd \in Word
         /\ Atoi[x.id] \in Int /\ Atoi[x.cmd] \in Value /\ Atoi[x.cmd] \in Int
<1>1. x \in [argc : Nat, id : Word, type : STRING, cmd : Word]
  BY ListsAssumption
<1>2. x.argc \in Nat /\ x.id \in Word /\ x.cmd \in Word
  BY <1>1
<1> QED BY <1>2, ListsAssumption DEF Word, Value

\* A command line that CheckArgs lets pass names a list the root has.
LEMMA SlotFacts ==
  ASSUME NEW x \in Arg, InScope(Atoi[x.id]), TypeOf(x.type) # "LIST_INVALID"
  PROVE  /\ SlotOf(x) \in Slot
         /\ x.type \in {"foo", "bar"}
         /\ Atoi[x.id] \in 0 .. (MAX_LISTS - 1)
<1>1. Atoi[x.id] \in 0 .. (MAX_LISTS - 1)
  BY ArgFacts, ListsAssumption DEF InScope
<1>2. x.type \in {"foo", "bar"} /\ TypeOf(x.type) \in Type
  BY DEF TypeOf, Type
<1> QED BY <1>1, <1>2 DEF SlotOf, Slot

\* The head a list gets, and what stays behind it.
LEMMA HeadFacts ==
  ASSUME NEW S, NEW e \in S, NEW l \in Seq(S)
  PROVE  /\ <<e>> \o l \in Seq(S)
         /\ Len(<<e>> \o l) = Len(l) + 1
         /\ (<<e>> \o l)[1] = e
         /\ \A n \in 2 .. (Len(l) + 1) : (<<e>> \o l)[n] = l[n - 1]
<1>1. <<e>> \in Seq(S) /\ Len(<<e>>) = 1 /\ <<e>>[1] = e
  OBVIOUS
<1>2. Len(l) \in Nat
  BY LenProperties
<1>3. /\ <<e>> \o l \in Seq(S)
      /\ Len(<<e>> \o l) = 1 + Len(l)
      /\ \A n \in 1 .. (1 + Len(l)) : (<<e>> \o l)[n] = IF n <= 1 THEN <<e>>[n] ELSE l[n - 1]
  BY <1>1, ConcatProperties
<1> QED BY <1>1, <1>2, <1>3

\* No process runs and no list has elements at the beginning.
LEMMA InvInit == Init => Inv
<1> SUFFICES ASSUME Init PROVE Inv
  OBVIOUS
<1>1. Fresh \in Element
  BY ListsAssumption DEF Fresh, Element
<1>2. << >> \in Seq(Element) /\ << >> \in Seq(Int) /\ Len(<< >>) = 0
  OBVIOUS
<1>3. TypeOK
  BY <1>1, <1>2 DEF Init, TypeOK, Labels, OnPool, OnList
<1> QED BY <1>2, <1>3 DEF Init, Inv, ArgInv, ElementInv, NewInv, OutInv

\* Steps before the pool is open, and steps that only move main on.
LEMMA MoveNext ==
  ASSUME Inv, NEW q \in Proc,
         \/ Usage(q) \/ FileExists(q) \/ PoolCreate(q) \/ PoolCreated(q) \/ PoolUndone(q)
         \/ PoolCreateFail(q) \/ PoolOpen(q) \/ PoolOpenFail(q) \/ PrintEnd(q)
         \/ ReserveFail(q) \/ PoolClose(q)
  PROVE  Inv'
<1> USE DEF Goto
<1>1. UNCHANGED <<list, arg, new, out>> /\ pc' = [pc EXCEPT ![q] = pc'[q]]
  BY DEF Inv, TypeOK, Usage, FileExists, PoolCreate, PoolCreated, PoolUndone, PoolCreateFail,
         PoolOpen, PoolOpenFail, PrintEnd, ReserveFail, PoolClose
<1>2. TypeOK'
  <2>1. CASE Usage(q)
    BY <2>1, <1>1 DEF Inv, TypeOK, Usage, Labels, OnPool, OnList
  <2>2. CASE FileExists(q)
    BY <2>2, <1>1 DEF Inv, TypeOK, FileExists, Labels, OnPool, OnList
  <2>3. CASE PoolCreate(q)
    BY <2>3, <1>1 DEF Inv, TypeOK, PoolCreate, Labels, OnPool, OnList
  <2>4. CASE PoolCreated(q)
    BY <2>4, <1>1 DEF Inv, TypeOK, PoolCreated, Labels, OnPool, OnList
  <2>5. CASE PoolUndone(q)
    BY <2>5, <1>1, ListsAssumption DEF Inv, TypeOK, PoolUndone, Labels, OnPool, OnList
  <2>6. CASE PoolCreateFail(q)
    BY <2>6, <1>1 DEF Inv, TypeOK, PoolCreateFail, Labels, OnPool, OnList
  <2>7. CASE PoolOpen(q)
    BY <2>7, <1>1, ListsAssumption DEF Inv, TypeOK, PoolOpen, Labels, OnPool, OnList
  <2>8. CASE PoolOpenFail(q)
    BY <2>8, <1>1 DEF Inv, TypeOK, PoolOpenFail, Labels, OnPool, OnList
  <2>9. CASE PrintEnd(q)
    BY <2>9, <1>1 DEF Inv, TypeOK, PrintEnd, Labels, OnPool, OnList
  <2>10. CASE ReserveFail(q)
    BY <2>10, <1>1 DEF Inv, TypeOK, ReserveFail, Labels, OnPool, OnList
  <2>11. CASE PoolClose(q)
    BY <2>11, <1>1, ListsAssumption DEF Inv, TypeOK, PoolClose, Labels, OnPool, OnList
  <2> QED
    BY <2>1, <2>2, <2>3, <2>4, <2>5, <2>6, <2>7, <2>8, <2>9, <2>10, <2>11
<1>3. ArgInv'
  BY <1>1 DEF Inv, TypeOK, ArgInv, Usage, FileExists, PoolCreate, PoolCreated, PoolUndone,
              PoolCreateFail, PoolOpen, PoolOpenFail, PrintEnd, ReserveFail, PoolClose
<1>4. ElementInv'
  BY <1>1 DEF Inv, ElementInv
<1>5. pc'[q] \notin {"print", "persist", "link"}
  BY DEF Inv, TypeOK, Usage, FileExists, PoolCreate, PoolCreated, PoolUndone,
         PoolCreateFail, PoolOpen, PoolOpenFail, PrintEnd, ReserveFail, PoolClose
<1>6. NewInv'
  BY <1>1, <1>5 DEF Inv, TypeOK, NewInv
<1>7. pc'[q] \notin {"close", "return0"} => out[q] = << >>
  BY DEF Inv, OutInv, TypeOK, Usage, FileExists, PoolCreate, PoolCreated, PoolUndone,
         PoolCreateFail, PoolOpen, PoolOpenFail, PrintEnd, ReserveFail, PoolClose
<1>8. OutInv'
  <2> SUFFICES ASSUME NEW r \in Proc
               PROVE  /\ pc'[r] = "print" =>
                           LET l == list[SlotOf(arg[r])] IN
                             /\ Len(out[r]) <= Len(l)
                             /\ \A n \in 1 .. Len(out[r]) : out[r][n] = l[n].val
                      /\ pc'[r] \notin {"print", "close", "return0"} => out[r] = << >>
    BY <1>1 DEF OutInv, SlotOf
  <2>1. CASE r = q
    BY <2>1, <1>5, <1>7
  <2>2. CASE r # q
    <3>1. pc'[r] = pc[r]
      BY <2>2, <1>1 DEF Inv, TypeOK
    <3> QED BY <3>1 DEF Inv, OutInv
  <2> QED BY <2>1, <2>2
<1> QED BY <1>2, <1>3, <1>4, <1>6, <1>8 DEF Inv

\* A process starts.
LEMMA StartNext ==
  ASSUME Inv, NEW q \in Proc, Start(q)
  PROVE  Inv'
<1> USE DEF Start, Goto
<1>1. TypeOK'
  BY DEF Inv, TypeOK, Labels, OnPool, OnList
<1>2. ArgInv' /\ ElementInv' /\ NewInv'
  BY DEF Inv, TypeOK, ArgInv, ElementInv, NewInv
<1>3. OutInv'
  BY DEF Inv, TypeOK, OutInv
<1> QED BY <1>1, <1>2, <1>3 DEF Inv

\* The command line is looked at.
LEMMA CheckNext ==
  ASSUME Inv, NEW q \in Proc, CheckArgs(q)
  PROVE  Inv'
<1> USE DEF CheckArgs, Goto
<1>1. arg[q] \in Arg /\ out[q] = << >>
  BY DEF Inv, TypeOK, OutInv
<1>2. pc'[q] \in {"print", "insert"} => SlotOf(arg[q]) \in Slot
  BY <1>1, SlotFacts DEF Inv, TypeOK
<1>3. TypeOK'
  BY <1>1, <1>2 DEF Inv, TypeOK, Labels, OnPool, OnList
<1>4. ArgInv' /\ ElementInv' /\ NewInv'
  BY DEF Inv, TypeOK, ArgInv, ElementInv, NewInv
<1>5. pc'[q] = "print" => list[SlotOf(arg[q])] \in Seq(Element)
  BY <1>2 DEF Inv, TypeOK
<1>6. OutInv'
  <2>1. \A l \in Seq(Element) : Len(<< >>) <= Len(l) /\ Len(<< >>) = 0
    BY LenProperties
  <2> QED BY <1>1, <1>5, <2>1 DEF Inv, TypeOK, OutInv
<1> QED BY <1>3, <1>4, <1>6 DEF Inv

\* One more element is printed.
LEMMA PrintNextNext ==
  ASSUME Inv, NEW q \in Proc, PrintNext(q)
  PROVE  Inv'
<1> DEFINE l == list[SlotOf(arg[q])]
           n == Len(out[q]) + 1
<1>1. l \in Seq(Element) /\ out[q] \in Seq(Int) /\ pc[q] = "print"
  BY DEF Inv, TypeOK, PrintNext, OnList
<1>2. n \in 1 .. Len(l) /\ l[n] \in Element
  BY <1>1, LenProperties, ElementOfSeq DEF PrintNext
<1>3. l[n].val \in Int
  BY <1>2 DEF Element
<1>4. out' = [out EXCEPT ![q] = Append(out[q], l[n].val)] /\ UNCHANGED <<pool, owner, list, pc, arg, new>>
  BY DEF PrintNext
<1> DEFINE o == Append(out[q], l[n].val)
<1>5. /\ o \in Seq(Int) /\ Len(o) = n
      /\ \A m \in 1 .. Len(out[q]) : o[m] = out[q][m]
      /\ o[n] = l[n].val
  BY <1>1, <1>3, AppendProperties
<1>6. out'[q] = o
  BY <1>4 DEF Inv, TypeOK
<1>7. TypeOK'
  BY <1>4, <1>5 DEF Inv, TypeOK
<1>8. ArgInv' /\ ElementInv' /\ NewInv'
  BY <1>4 DEF Inv, ArgInv, ElementInv, NewInv
<1>9. Len(o) <= Len(l) /\ \A m \in 1 .. Len(o) : o[m] = l[m].val
  <2>1. \A m \in 1 .. Len(out[q]) : out[q][m] = l[m].val
    BY <1>1 DEF Inv, OutInv
  <2>2. Len(out[q]) \in Nat
    BY <1>1, LenProperties
  <2> HIDE DEF o, l
  <2> QED BY <1>2, <1>5, <2>1, <2>2
<1>10. OutInv'
  <2> HIDE DEF o
  <2>1. l' = l
    BY <1>4
  <2> QED BY <1>1, <1>4, <1>6, <1>9, <2>1 DEF Inv, TypeOK, OutInv
<1> QED BY <1>7, <1>8, <1>10 DEF Inv

\* An object is reserved, given its value and persisted.
LEMMA ConstrNext ==
  ASSUME Inv, NEW q \in Proc, Reserve(q) \/ ConstrValue(q) \/ ConstrPersist(q)
  PROVE  Inv'
<1> USE DEF Goto
<1>1. /\ UNCHANGED <<pool, owner, list, arg, out>>
      /\ pc' = [pc EXCEPT ![q] = pc'[q]]
      /\ new' = [new EXCEPT ![q] = new'[q]]
      /\ pc[q] \in {"insert", "value", "persist"} /\ pc'[q] \in {"value", "persist", "link"}
  BY DEF Inv, TypeOK, Reserve, ConstrValue, ConstrPersist
<1>2. Atoi[arg[q].cmd] \in Int /\ arg[q] \in Arg
  BY <1>1, ArgFacts DEF Inv, TypeOK
<1>3. /\ new'[q] \in Element
      /\ pc'[q] \in {"persist", "link"} => new'[q].val = Atoi[arg[q].cmd]
      /\ pc'[q] = "link" => new'[q].per = new'[q].val
  <2>1. CASE Reserve(q)
    BY <2>1, <1>1, ListsAssumption DEF Inv, TypeOK, Reserve, Fresh, Element
  <2>2. CASE ConstrValue(q)
    BY <2>2, <1>1, <1>2 DEF Inv, TypeOK, ConstrValue, Element
  <2>3. CASE ConstrPersist(q)
    BY <2>3, <1>1 DEF Inv, TypeOK, ConstrPersist, Persisted, Element, NewInv
  <2> QED BY <2>1, <2>2, <2>3
<1>4. TypeOK'
  BY <1>1, <1>3 DEF Inv, TypeOK, Labels, OnPool, OnList
<1>5. ArgInv' /\ ElementInv'
  BY <1>1 DEF Inv, TypeOK, ArgInv, ElementInv
<1>6. NewInv'
  BY <1>1, <1>3 DEF Inv, TypeOK, NewInv
<1>7. OutInv'
  <2> SUFFICES ASSUME NEW r \in Proc
               PROVE  /\ pc'[r] = "print" =>
                           LET l == list[SlotOf(arg[r])] IN
                             /\ Len(out[r]) <= Len(l)
                             /\ \A n \in 1 .. Len(out[r]) : out[r][n] = l[n].val
                      /\ pc'[r] \notin {"print", "close", "return0"} => out[r] = << >>
    BY <1>1 DEF OutInv, SlotOf
  <2>1. CASE r = q
    BY <2>1, <1>1 DEF Inv, OutInv
  <2>2. CASE r # q
    <3>1. pc'[r] = pc[r]
      BY <2>2, <1>1 DEF Inv, TypeOK
    <3> QED BY <3>1 DEF Inv, OutInv
  <2> QED BY <2>1, <2>2
<1> QED BY <1>4, <1>5, <1>6, <1>7 DEF Inv

\* The object becomes the head of its list.  Nobody lists it at this moment:
\* the pool has one owner.
LEMMA LinkNext ==
  ASSUME Inv, NEW q \in Proc, Link(q)
  PROVE  Inv'
<1> DEFINE sl == SlotOf(arg[q])
           l == list[sl]
           h == <<new[q]>> \o l
<1>1. /\ UNCHANGED <<pool, owner, arg, new, out>>
      /\ pc[q] = "link" /\ pc' = [pc EXCEPT ![q] = "close"]
      /\ list' = [list EXCEPT ![sl] = h]
  BY DEF Link, Goto
<1>2. sl \in Slot /\ l \in Seq(Element) /\ new[q] \in Element /\ new[q].val = new[q].per
  BY <1>1 DEF Inv, TypeOK, OnList, NewInv
<1>3. /\ h \in Seq(Element) /\ Len(h) = Len(l) + 1 /\ h[1] = new[q]
      /\ \A n \in 2 .. (Len(l) + 1) : h[n] = l[n - 1]
  BY <1>2, HeadFacts
<1> HIDE DEF h
<1>4. list'[sl] = h /\ \A s \in Slot \ {sl} : list'[s] = list[s]
  BY <1>1, <1>2 DEF Inv, TypeOK
<1>5. TypeOK'
  BY <1>1, <1>2, <1>3 DEF Inv, TypeOK, Labels, OnPool, OnList
<1>6. ArgInv' /\ NewInv'
  BY <1>1 DEF Inv, TypeOK, ArgInv, NewInv
<1>7. ElementInv'
  <2>1. Len(l) \in Nat
    BY <1>2, LenProperties
  <2>2. \A n \in 1 .. Len(l) : l[n].val = l[n].per
    BY <1>2 DEF Inv, ElementInv
  <2>3. ASSUME NEW n \in 1 .. Len(h) PROVE h[n].val = h[n].per
    <3>1. CASE n = 1
      BY <3>1, <1>2, <1>3
    <3>2. CASE n # 1
      <4>1. n \in 2 .. (Len(l) + 1) /\ n - 1 \in 1 .. Len(l)
        BY <3>2, <1>3, <2>1
      <4> QED BY <4>1, <1>3, <2>2
    <3> QED BY <3>1, <3>2
  <2> QED BY <1>4, <2>3 DEF Inv, ElementInv
<1>8. OutInv'
  <2> SUFFICES ASSUME NEW r \in Proc
               PROVE  /\ pc'[r] = "print" =>
                           LET k == list'[SlotOf(arg[r])] IN
                             /\ Len(out[r]) <= Len(k)
                             /\ \A n \in 1 .. Len(out[r]) : out[r][n] = k[n].val
                      /\ pc'[r] \notin {"print", "close", "return0"} => out[r] = << >>
    BY <1>1 DEF OutInv, SlotOf
  <2>1. pc'[r] # "print"
    BY <1>1 DEF Inv, TypeOK, OnPool
  <2> QED BY <1>1, <2>1 DEF Inv, TypeOK, OutInv
<1> QED BY <1>5, <1>6, <1>7, <1>8 DEF Inv

\* Processes end, and the lists stay or lose what was not persisted.
LEMMA GoneNext ==
  ASSUME Inv, NEW Q \in SUBSET Proc, Gone(Q),
         \/ UNCHANGED list
         \/ Q = Proc /\ list' = [s \in Slot |-> [n \in DOMAIN list[s] |-> [list[s][n] EXCEPT !.val = list[s][n].per]]]
  PROVE  Inv'
<1>1. list' = list
  <2>1. CASE list' = [s \in Slot |-> [n \in DOMAIN list[s] |-> [list[s][n] EXCEPT !.val = list[s][n].per]]]
    <3>1. ASSUME NEW s \in Slot
          PROVE  [n \in DOMAIN list[s] |-> [list[s][n] EXCEPT !.val = list[s][n].per]] = list[s]
      <4>1. list[s] \in Seq(Element)
        BY DEF Inv, TypeOK
      <4>2. DOMAIN list[s] = 1 .. Len(list[s]) /\ list[s] \in [1 .. Len(list[s]) -> Element]
        BY <4>1, LenProperties
      <4>3. ASSUME NEW n \in 1 .. Len(list[s])
            PROVE  [list[s][n] EXCEPT !.val = list[s][n].per] = list[s][n]
        <5>1. list[s][n] \in Element /\ list[s][n].val = list[s][n].per
          BY <4>2 DEF Inv, ElementInv
        <5> QED BY <5>1 DEF Element
      <4> QED BY <4>2, <4>3
    <3>2. list = [s \in Slot |-> list[s]]
      BY DEF Inv, TypeOK
    <3> QED BY <2>1, <3>1, <3>2
  <2> QED BY <2>1
<1>2. Fresh \in Element /\ << >> \in Seq(Int)
  BY ListsAssumption DEF Fresh, Element
<1>3. \A r \in Q : pc'[r] = "idle" /\ arg'[r] = NoArg /\ new'[r] = Fresh /\ out'[r] = << >>
  BY DEF Gone
<1>4. \A r \in Proc \ Q : pc'[r] = pc[r] /\ arg'[r] = arg[r] /\ new'[r] = new[r] /\ out'[r] = out[r]
  BY DEF Gone
<1>5. \A r \in Proc \ Q : owner = r => owner' = r
  BY DEF Gone
<1>6. TypeOK'
  <2>1. /\ pool' = pool /\ owner' \in Proc \cup {Nobody}
        /\ pc' \in [Proc -> Labels] /\ arg' \in [Proc -> Arg \cup {NoArg}]
        /\ new' \in [Proc -> Element] /\ out' \in [Proc -> Seq(Int)]
    BY <1>2 DEF Inv, TypeOK, Gone, Labels
  <2> QED BY <1>1, <1>3, <1>4, <1>5, <2>1 DEF Inv, TypeOK, OnPool, OnList
<1>7. ArgInv' /\ ElementInv' /\ NewInv'
  BY <1>1, <1>3, <1>4 DEF Inv, ArgInv, ElementInv, NewInv
<1>8. OutInv'
  <2> SUFFICES ASSUME NEW r \in Proc
               PROVE  /\ pc'[r] = "print" =>
                           LET k == list[SlotOf(arg'[r])] IN
                             /\ Len(out'[r]) <= Len(k)
                             /\ \A n \in 1 .. Len(out'[r]) : out'[r][n] = k[n].val
                      /\ pc'[r] \notin {"print", "close", "return0"} => out'[r] = << >>
    BY <1>1 DEF OutInv, SlotOf
  <2>1. CASE r \in Q
    BY <2>1, <1>3
  <2>2. CASE r \notin Q
    BY <2>2, <1>4 DEF Inv, OutInv
  <2> QED BY <2>1, <2>2
<1> QED BY <1>6, <1>7, <1>8 DEF Inv

\* Every step of a process and a power failure keep the invariant.
LEMMA InvNext == Inv /\ [Next]_vars => Inv'
<1> SUFFICES ASSUME Inv, [Next]_vars PROVE Inv'
  OBVIOUS
<1>1. CASE UNCHANGED vars
  BY <1>1 DEF vars, Inv, TypeOK, ArgInv, ElementInv, NewInv, OutInv, SlotOf
<1>2. CASE PowerFail
  BY <1>2, GoneNext DEF PowerFail
<1>3. ASSUME NEW q \in Proc, Step(q) PROVE Inv'
  <2>1. CASE Start(q)
    BY <2>1, StartNext
  <2>2. CASE CheckArgs(q)
    BY <2>2, CheckNext
  <2>3. CASE PrintNext(q)
    BY <2>3, PrintNextNext
  <2>4. CASE Reserve(q) \/ ConstrValue(q) \/ ConstrPersist(q)
    BY <2>4, ConstrNext
  <2>5. CASE Link(q)
    BY <2>5, LinkNext
  <2>6. CASE ExitOrKill(q)
    BY <2>6, GoneNext DEF ExitOrKill
  <2> QED BY <1>3, <2>1, <2>2, <2>3, <2>4, <2>5, <2>6, MoveNext DEF Step
<1> QED BY <1>1, <1>2, <1>3 DEF Next

\* Everything that works on the pool owns it, and works on a list it has.
THEOREM ListsTypeCorrect == Spec => []TypeOK
<1>1. Inv => TypeOK
  BY DEF Inv
<1> QED BY <1>1, InvInit, InvNext, PTL DEF Spec

----------------------------------------------------------------------------
(* The refinement.                                                         *)

\* The abstract state, as ImplementsTwoLists maps it.
State == [q \in Proc |-> StateOf(pc[q])]
Jobs == [q \in Proc |-> JobOf(arg[q])]
Shown == [q \in Proc |-> IF StateOf(pc[q]) = "done" THEN out[q] ELSE << >>]

\* Every command line is a job, or none.
LEMMA JobFacts ==
  ASSUME NEW x \in Arg \cup {NoArg}
  PROVE  JobOf(x) \in Abstract!Job
<1>1. CASE x.argc # 5 \/ x.type \notin {"foo", "bar"} \/ Atoi[x.id] \notin 0 .. (MAX_LISTS - 1)
  BY <1>1 DEF JobOf, Abstract!Job, Abstract!NoJob
<1>2. CASE /\ x.argc = 5 /\ x.type \in {"foo", "bar"}
           /\ Atoi[x.id] \in 0 .. (MAX_LISTS - 1)
  <2> DEFINE s == <<Atoi[x.id], IF x.type = "foo" THEN "LIST_FOO" ELSE "LIST_BAR">>
  <2>1. x \in Arg
    BY <1>2 DEF NoArg
  <2>2. Atoi[x.cmd] \in Value /\ s \in Slot
    BY <1>2, <2>1, ArgFacts DEF Slot, Type
  <2>3. JobOf(x) = IF x.cmd = "print" THEN Abstract!Listing(s) ELSE Abstract!Insert(s, Atoi[x.cmd])
    BY <1>2 DEF JobOf, Abstract!Listing, Abstract!Insert
  <2> HIDE DEF s
  <2> QED BY <2>2, <2>3 DEF Abstract!Job
<1> QED BY <1>1, <1>2

\* Once CheckArgs has let it pass, the job is the one main goes on to do.
LEMMA JobOfSlot ==
  ASSUME NEW x \in Arg, x.argc = 5, SlotOf(x) \in Slot
  PROVE  JobOf(x) = IF x.cmd = "print" THEN Abstract!Listing(SlotOf(x))
                    ELSE Abstract!Insert(SlotOf(x), Atoi[x.cmd])
<1>1. Atoi[x.id] \in 0 .. (MAX_LISTS - 1) /\ TypeOf(x.type) \in Type
  BY DEF SlotOf, Slot
<1>2. x.type \in {"foo", "bar"}
  BY <1>1 DEF TypeOf, Type
<1>3. SlotOf(x) = <<Atoi[x.id], IF x.type = "foo" THEN "LIST_FOO" ELSE "LIST_BAR">>
  BY <1>2 DEF SlotOf, TypeOf
<1> QED BY <1>1, <1>2, <1>3 DEF JobOf, Abstract!Listing, Abstract!Insert

\* What a step of one process does to the abstract state.
LEMMA OneMoves ==
  ASSUME Inv, NEW q \in Proc, pc' = [pc EXCEPT ![q] = pc'[q]],
         UNCHANGED <<arg, out>>
  PROVE  /\ State' = [State EXCEPT ![q] = StateOf(pc'[q])]
         /\ Jobs' = Jobs
         /\ Shown' = [Shown EXCEPT ![q] = IF StateOf(pc'[q]) = "done" THEN out[q] ELSE << >>]
<1>1. \A r \in Proc : r # q => pc'[r] = pc[r]
  BY DEF Inv, TypeOK
<1> QED BY <1>1 DEF State, Jobs, Shown

\* What a power failure leaves of a list.
LEMMA KeptFacts ==
  ASSUME NEW l \in Seq(Element)
  PROVE  /\ Len([n \in DOMAIN l |-> l[n].per]) = Len(l)
         /\ [n \in DOMAIN l |-> l[n].per] \in Seq(Int)
         /\ \A n \in 1 .. Len(l) : [m \in DOMAIN l |-> l[m].per][n] = l[n].per
<1>1. Len(l) \in Nat /\ DOMAIN l = 1 .. Len(l)
  BY LenProperties
<1>2. ASSUME NEW n \in 1 .. Len(l) PROVE l[n].per \in Int
  <2>1. l[n] \in Element
    BY ElementOfSeq
  <2> QED BY <2>1 DEF Element
<1> QED BY <1>1, <1>2

\* The durable content of the lists is what they now contain.
LEMMA DurableFacts ==
  ASSUME Inv, NEW s \in Slot
  PROVE  /\ Len(Durable[s]) = Len(list[s])
         /\ Durable[s] \in Seq(Int)
         /\ \A n \in 1 .. Len(list[s]) : Durable[s][n] = list[s][n].per
<1>1. list[s] \in Seq(Element) /\ Durable[s] = [n \in DOMAIN list[s] |-> list[s][n].per]
  BY DEF Inv, TypeOK, Durable
<1> QED BY <1>1, KeptFacts

\* The first state stands for the abstract first state.
LEMMA RefineInit == Init => Abstract!Init
<1> SUFFICES ASSUME Init PROVE Abstract!Init
  OBVIOUS
<1>1. Durable = [s \in Slot |-> << >>]
  <2>1. ASSUME NEW s \in Slot PROVE Durable[s] = << >>
    <3>1. list[s] = << >> /\ DOMAIN << >> = {}
      BY DEF Init
    <3>2. Durable[s] = [n \in {} |-> list[s][n].per]
      BY <3>1 DEF Durable
    <3> QED BY <3>2
  <2> QED BY <2>1 DEF Durable
<1>2. \A q \in Proc : StateOf(pc[q]) = "idle" /\ JobOf(arg[q]) = [do |-> "nothing"]
  BY DEF Init, StateOf, JobOf, NoArg
<1> QED BY <1>1, <1>2 DEF Abstract!Init, Abstract!NoJob

\* The abstract variables, for the step from one to the next.
AbstractVars == <<Durable, State, Jobs, Shown>>

\* They are the variables of the instance.
LEMMA AbstractVarsFacts ==
  UNCHANGED AbstractVars <=> UNCHANGED Abstract!vars
  BY DEF AbstractVars, Abstract!vars, State, Jobs, Shown

\* A step of a process that goes on is a step of the abstract run, or none.
LEMMA RefineStep ==
  ASSUME Inv, Inv', NEW q \in Proc, Step(q), ~ExitOrKill(q)
  PROVE  \/ Abstract!Begin(q) \/ Abstract!DoInsert(q) \/ Abstract!Drop(q)
         \/ Abstract!DoPrint(q) \/ Abstract!Fail(q) \/ UNCHANGED Abstract!vars
<1> USE DEF Goto
<1>1. CASE Start(q)
  <2>1. PICK x \in Arg : arg' = [arg EXCEPT ![q] = x]
    BY <1>1 DEF Start
  <2>2. pc[q] = "idle" /\ pc' = [pc EXCEPT ![q] = "exists"] /\ UNCHANGED <<list, out>>
    BY <1>1 DEF Start
  <2>3. \A r \in Proc : r # q => pc'[r] = pc[r] /\ arg'[r] = arg[r]
    BY <2>1, <2>2 DEF Inv, TypeOK
  <2>4. StateOf("idle") = "idle" /\ StateOf("exists") = "running"
    BY DEF StateOf
  <2>5. State[q] = "idle" /\ State' = [State EXCEPT ![q] = "running"]
    BY <2>2, <2>3, <2>4 DEF State, Inv, TypeOK
  <2>6. Jobs' = [Jobs EXCEPT ![q] = JobOf(x)] /\ JobOf(x) \in Abstract!Job
    BY <2>1, <2>3, JobFacts DEF Jobs, Inv, TypeOK
  <2>7. UNCHANGED <<Durable, Shown>>
    BY <2>2, <2>3, <2>4 DEF Durable, Shown, Inv, TypeOK
  <2>8. Abstract!Begin(q)
    BY <2>5, <2>6, <2>7 DEF Abstract!Begin, State, Jobs, Shown
  <2> QED BY <2>8
<1>2. CASE \/ FileExists(q) \/ PoolCreate(q) \/ PoolCreated(q) \/ PoolOpen(q)
           \/ (CheckArgs(q) /\ pc'[q] # "failed") \/ Reserve(q) \/ ConstrValue(q)
           \/ ConstrPersist(q) \/ PoolClose(q)
  <2>1. /\ UNCHANGED <<list, arg, out>> /\ pc' = [pc EXCEPT ![q] = pc'[q]]
        /\ \/ StateOf(pc[q]) = "running" /\ StateOf(pc'[q]) = "running"
           \/ StateOf(pc[q]) = "done" /\ StateOf(pc'[q]) = "done"
    BY <1>2 DEF Inv, TypeOK, StateOf, FileExists, PoolCreate, PoolCreated, PoolOpen, CheckArgs,
                Reserve, ConstrValue, ConstrPersist, PoolClose
  <2>2. UNCHANGED <<State, Jobs, Shown>>
    BY <2>1, OneMoves DEF State, Shown
  <2>3. UNCHANGED Durable
    BY <2>1 DEF Durable
  <2> QED BY <2>2, <2>3, AbstractVarsFacts DEF AbstractVars
<1>3. CASE PrintNext(q)
  <2>1. /\ UNCHANGED <<list, arg, pc>> /\ pc[q] = "print"
        /\ \A r \in Proc : r # q => out'[r] = out[r]
    BY <1>3 DEF PrintNext, Inv, TypeOK
  <2>2. UNCHANGED <<State, Jobs, Shown, Durable>>
    BY <2>1 DEF State, Jobs, Shown, Durable, StateOf
  <2> QED BY <2>2, AbstractVarsFacts DEF AbstractVars
<1>4. CASE \/ Usage(q) \/ PoolUndone(q) \/ PoolCreateFail(q) \/ PoolOpenFail(q)
           \/ (CheckArgs(q) /\ pc'[q] = "failed")
  <2>1. /\ UNCHANGED <<list, arg, out>> /\ pc' = [pc EXCEPT ![q] = pc'[q]]
        /\ StateOf(pc[q]) = "running" /\ StateOf(pc'[q]) = "failed"
    BY <1>4 DEF Inv, TypeOK, StateOf, Usage, PoolUndone, PoolCreateFail, PoolOpenFail, CheckArgs
  <2>2. /\ State[q] = "running" /\ State' = [State EXCEPT ![q] = "failed"]
        /\ UNCHANGED <<Jobs, Shown, Durable>>
    BY <2>1, OneMoves DEF State, Shown, Durable
  <2>3. Abstract!Fail(q)
    BY <2>2 DEF Abstract!Fail, State, Jobs, Shown
  <2> QED BY <2>3
<1>5. CASE PrintEnd(q)
  <2> DEFINE sl == SlotOf(arg[q])
  <2>1. /\ UNCHANGED <<list, arg, out>> /\ pc' = [pc EXCEPT ![q] = "close"] /\ pc[q] = "print"
        /\ Len(out[q]) >= Len(list[sl])
    BY <1>5 DEF PrintEnd
  <2>2. arg[q] \in Arg /\ arg[q].argc = 5 /\ sl \in Slot /\ arg[q].cmd = "print"
    BY <2>1 DEF Inv, TypeOK, ArgInv, OnList
  <2>3. Jobs[q] = Abstract!Listing(sl)
    BY <2>2, JobOfSlot DEF Jobs
  <2>4. out[q] = Durable[sl]
    <3>1. out[q] \in Seq(Int) /\ list[sl] \in Seq(Element)
      BY <2>2 DEF Inv, TypeOK
    <3>2. /\ Len(out[q]) <= Len(list[sl])
          /\ \A n \in 1 .. Len(out[q]) : out[q][n] = list[sl][n].val
      BY <2>1 DEF Inv, OutInv
    <3>3. Len(out[q]) \in Nat /\ Len(list[sl]) \in Nat
      BY <3>1, LenProperties
    <3>4. Len(out[q]) = Len(list[sl])
      BY <2>1, <3>2, <3>3
    <3>5. \A n \in 1 .. Len(out[q]) : out[q][n] = Durable[sl][n]
      BY <2>2, <3>2, <3>4, DurableFacts DEF Inv, ElementInv
    <3> HIDE DEF sl
    <3>6. Durable[sl] \in Seq(Int) /\ Len(Durable[sl]) = Len(out[q])
      BY <2>2, <3>4, DurableFacts
    <3> QED BY <3>1, <3>5, <3>6, SeqEqual
  <2>5. StateOf("print") = "running" /\ StateOf("close") = "done"
    BY DEF StateOf
  <2>6. /\ State[q] = "running" /\ State' = [State EXCEPT ![q] = "done"]
        /\ Shown' = [Shown EXCEPT ![q] = out[q]]
        /\ UNCHANGED <<Jobs, Durable>>
    <3>1. pc'[q] = "close" /\ State[q] = "running"
      BY <2>1, <2>5 DEF State, Inv, TypeOK
    <3>2. UNCHANGED Durable
      BY <2>1 DEF Durable
    <3> QED BY <2>1, <2>5, <3>1, <3>2, OneMoves
  <2> HIDE DEF sl
  <2>7. Abstract!DoPrint(q)
    <3>1. Jobs[q].do = "print" /\ Jobs[q].slot = sl
      BY <2>3 DEF Abstract!Listing
    <3> QED BY <2>4, <2>6, <3>1 DEF Abstract!DoPrint, Abstract!Finish, State, Jobs, Shown
  <2> QED BY <2>7
<1>6. CASE ReserveFail(q)
  <2> DEFINE sl == SlotOf(arg[q])
  <2>1. /\ UNCHANGED <<list, arg, out>> /\ pc' = [pc EXCEPT ![q] = "close"] /\ pc[q] = "insert"
        /\ Full(Length)
    BY <1>6 DEF ReserveFail
  <2>2. arg[q] \in Arg /\ arg[q].argc = 5 /\ sl \in Slot /\ arg[q].cmd # "print" /\ out[q] = << >>
    BY <2>1 DEF Inv, TypeOK, ArgInv, OnList, OutInv
  <2>3. Jobs[q] = Abstract!Insert(sl, Atoi[arg[q].cmd])
    BY <2>2, JobOfSlot DEF Jobs
  <2>4. [s \in Slot |-> Len(Durable[s])] = [s \in Slot |-> Len(list[s])]
    BY DurableFacts
  <2>5. Full([s \in Slot |-> Len(Durable[s])])
    BY <2>1, <2>4 DEF Length
  <2>6. StateOf("insert") = "running" /\ StateOf("close") = "done"
    BY DEF StateOf
  <2>7. /\ State[q] = "running" /\ State' = [State EXCEPT ![q] = "done"]
        /\ UNCHANGED <<Jobs, Shown, Durable>>
    <3>1. pc'[q] = "close" /\ State[q] = "running"
      BY <2>1, <2>6 DEF State, Inv, TypeOK
    <3>2. UNCHANGED Durable
      BY <2>1 DEF Durable
    <3>3. Shown = [Shown EXCEPT ![q] = << >>]
      BY <2>2 DEF Shown
    <3> QED BY <2>1, <2>2, <2>6, <3>1, <3>2, <3>3, OneMoves
  <2> HIDE DEF sl
  <2>8. Abstract!Drop(q)
    <3>1. Jobs[q].do = "insert"
      BY <2>3 DEF Abstract!Insert
    <3> QED BY <2>5, <2>7, <3>1 DEF Abstract!Drop, Abstract!Finish, State, Jobs, Shown
  <2> QED BY <2>8
<1>7. CASE Link(q)
  <2> DEFINE sl == SlotOf(arg[q])
             v == Atoi[arg[q].cmd]
             h == <<new[q]>> \o list[sl]
  <2>1. /\ UNCHANGED <<arg, out, new>> /\ pc' = [pc EXCEPT ![q] = "close"] /\ pc[q] = "link"
        /\ list' = [list EXCEPT ![sl] = h]
    BY <1>7 DEF Link
  <2>2. arg[q] \in Arg /\ arg[q].argc = 5 /\ sl \in Slot /\ arg[q].cmd # "print" /\ out[q] = << >>
    BY <2>1 DEF Inv, TypeOK, ArgInv, OnList, OutInv
  <2>3. Jobs[q] = Abstract!Insert(sl, v)
    BY <2>2, JobOfSlot DEF Jobs
  <2>4. new[q] \in Element /\ new[q].per = v /\ v \in Int /\ list[sl] \in Seq(Element)
    BY <2>1, <2>2, ArgFacts DEF Inv, TypeOK, NewInv
  <2>5. Durable' = [Durable EXCEPT ![sl] = <<v>> \o Durable[sl]]
    <3>1. \A s \in Slot \ {sl} : Durable'[s] = Durable[s]
      BY <2>1 DEF Durable, Inv, TypeOK
    <3>2. Durable'[sl] = <<v>> \o Durable[sl]
      <4>1. list'[sl] = h
        BY <2>1, <2>2 DEF Inv, TypeOK
      <4>2. /\ Len(h) = Len(list[sl]) + 1 /\ h[1] = new[q]
            /\ \A n \in 2 .. (Len(list[sl]) + 1) : h[n] = list[sl][n - 1]
        BY <2>4, HeadFacts
      <4>3. /\ Len(Durable'[sl]) = Len(list'[sl]) /\ Durable'[sl] \in Seq(Int)
            /\ \A n \in 1 .. Len(list'[sl]) : Durable'[sl][n] = list'[sl][n].per
        <5>1. /\ list'[sl] \in Seq(Element)
              /\ Durable'[sl] = [n \in DOMAIN list'[sl] |-> list'[sl][n].per]
          BY <2>2 DEF Inv, TypeOK, Durable
        <5> QED BY <5>1, KeptFacts
      <4>4. /\ Len(Durable[sl]) = Len(list[sl]) /\ Durable[sl] \in Seq(Int)
            /\ \A n \in 1 .. Len(list[sl]) : Durable[sl][n] = list[sl][n].per
        BY <2>2, DurableFacts
      <4> DEFINE d == <<v>> \o Durable[sl]
      <4>5. /\ d \in Seq(Int) /\ Len(d) = Len(Durable[sl]) + 1 /\ d[1] = v
            /\ \A n \in 2 .. (Len(Durable[sl]) + 1) : d[n] = Durable[sl][n - 1]
        BY <2>4, <4>4, HeadFacts
      <4>6. Len(list[sl]) \in Nat
        BY <2>4, LenProperties
      <4> HIDE DEF d, h, sl, v
      <4>7. ASSUME NEW n \in 1 .. Len(d) PROVE Durable'[sl][n] = d[n]
        <5>1. Durable'[sl][n] = h[n].per
          BY <4>1, <4>2, <4>3, <4>4, <4>5
        <5>2. CASE n = 1
          BY <5>1, <5>2, <4>2, <4>5, <2>4
        <5>3. CASE n # 1
          <6>1. n \in 2 .. (Len(list[sl]) + 1) /\ n - 1 \in 1 .. Len(list[sl])
            BY <5>3, <4>4, <4>5, <4>6
          <6> QED BY <6>1, <5>1, <4>2, <4>4, <4>5
        <5> QED BY <5>2, <5>3
      <4>8. Len(Durable'[sl]) = Len(d)
        BY <4>1, <4>2, <4>3, <4>4, <4>5
      <4>9. Durable'[sl] = d
        BY <4>3, <4>5, <4>7, <4>8, SeqEqual
      <4> QED BY <4>9 DEF d
    <3>3. DOMAIN Durable = Slot /\ DOMAIN Durable' = Slot
      BY DEF Durable
    <3> HIDE DEF sl, v
    <3>4. Durable = [s \in Slot |-> Durable[s]] /\ Durable' = [s \in Slot |-> Durable'[s]]
      BY DEF Durable
    <3> QED BY <3>1, <3>2, <3>3, <3>4, <2>2
  <2>6. StateOf("link") = "running" /\ StateOf("close") = "done"
    BY DEF StateOf
  <2>7. /\ State[q] = "running" /\ State' = [State EXCEPT ![q] = "done"]
        /\ UNCHANGED <<Jobs, Shown>>
    <3>1. pc'[q] = "close" /\ State[q] = "running"
      BY <2>1, <2>6 DEF State, Inv, TypeOK
    <3>2. Shown = [Shown EXCEPT ![q] = << >>]
      BY <2>2 DEF Shown
    <3> QED BY <2>1, <2>2, <2>6, <3>1, <3>2, OneMoves
  <2> HIDE DEF sl, v
  <2>8. Abstract!DoInsert(q)
    <3>1. Jobs[q].do = "insert" /\ Jobs[q].slot = sl /\ Jobs[q].value = v
      BY <2>3 DEF Abstract!Insert
    <3> QED BY <2>5, <2>7, <3>1 DEF Abstract!DoInsert, Abstract!Finish, State, Jobs, Shown
  <2> QED BY <2>8
<1> QED BY <1>1, <1>2, <1>3, <1>4, <1>5, <1>6, <1>7 DEF Step

\* Runs that are no more.
LEMMA RefineEnd ==
  ASSUME Inv, NEW Q \in SUBSET Proc, Gone(Q), Durable' = Durable
  PROVE  Abstract!End(Q)
<1>1. ASSUME NEW q \in Proc
      PROVE  /\ State'[q] = IF q \in Q THEN "idle" ELSE State[q]
             /\ Jobs'[q] = IF q \in Q THEN Abstract!NoJob ELSE Jobs[q]
             /\ Shown'[q] = IF q \in Q THEN << >> ELSE Shown[q]
  <2>1. StateOf("idle") = "idle" /\ JobOf(NoArg) = Abstract!NoJob
    BY DEF StateOf, JobOf, NoArg, Abstract!NoJob
  <2>2. /\ pc'[q] = IF q \in Q THEN "idle" ELSE pc[q]
        /\ arg'[q] = IF q \in Q THEN NoArg ELSE arg[q]
        /\ out'[q] = IF q \in Q THEN << >> ELSE out[q]
    BY DEF Gone
  <2>3. CASE q \in Q
    BY <2>1, <2>2, <2>3 DEF State, Jobs, Shown
  <2>4. CASE q \notin Q
    BY <2>2, <2>4 DEF State, Jobs, Shown
  <2> QED BY <2>3, <2>4
<1>2. /\ State' = [q \in Proc |-> State'[q]]
      /\ Jobs' = [q \in Proc |-> Jobs'[q]]
      /\ Shown' = [q \in Proc |-> Shown'[q]]
  BY DEF State, Jobs, Shown
<1>3. /\ State' = [q \in Proc |-> IF q \in Q THEN "idle" ELSE State[q]]
      /\ Jobs' = [q \in Proc |-> IF q \in Q THEN Abstract!NoJob ELSE Jobs[q]]
      /\ Shown' = [q \in Proc |-> IF q \in Q THEN << >> ELSE Shown[q]]
  BY <1>1, <1>2
<1> QED BY <1>3 DEF Abstract!End, State, Jobs, Shown

\* A power failure brings the values back to the ones that were persisted,
\* which are the ones the lists stand for.
LEMMA PowerFailKeeps == Inv /\ PowerFail => Durable' = Durable
<1> SUFFICES ASSUME Inv, PowerFail, NEW s \in Slot PROVE Durable'[s] = Durable[s]
  BY DEF Durable
<1>1. list'[s] = [n \in DOMAIN list[s] |-> [list[s][n] EXCEPT !.val = list[s][n].per]]
  BY DEF PowerFail
<1>2. list[s] \in Seq(Element)
  BY DEF Inv, TypeOK
<1>3. ASSUME NEW n \in DOMAIN list[s] PROVE list'[s][n].per = list[s][n].per
  <2>1. list[s][n] \in Element
    BY <1>2, ElementOfSeq, LenProperties
  <2> QED BY <1>1, <2>1 DEF Element
<1>4. DOMAIN list'[s] = DOMAIN list[s]
  BY <1>1
<1> QED BY <1>3, <1>4 DEF Durable

\* Every step of the program is one of the abstract steps, or none.
LEMMA RefineNext == Inv /\ Inv' /\ [Next]_vars => [Abstract!Next]_(Abstract!vars)
<1> SUFFICES ASSUME Inv, Inv', [Next]_vars PROVE Abstract!Next \/ UNCHANGED Abstract!vars
  OBVIOUS
<1>1. CASE UNCHANGED vars
  <2>1. UNCHANGED <<list, pc, arg, out>>
    BY <1>1 DEF vars
  <2>2. UNCHANGED AbstractVars
    BY <2>1 DEF AbstractVars, Durable, State, Jobs, Shown
  <2> QED BY <2>2, AbstractVarsFacts
<1>2. CASE PowerFail
  <2>1. Abstract!End(Proc)
    BY <1>2, PowerFailKeeps, RefineEnd DEF PowerFail
  <2> QED BY <2>1 DEF Abstract!Next
<1>3. ASSUME NEW q \in Proc, ExitOrKill(q) PROVE Abstract!Next
  <2>1. Gone({q}) /\ Durable' = Durable
    BY <1>3 DEF ExitOrKill, Durable
  <2>2. Abstract!End({q})
    BY <2>1, RefineEnd
  <2> QED BY <2>2 DEF Abstract!Next
<1>4. ASSUME NEW q \in Proc, Step(q), ~ExitOrKill(q) PROVE Abstract!Next \/ UNCHANGED Abstract!vars
  BY <1>4, RefineStep DEF Abstract!Next
<1> QED BY <1>1, <1>2, <1>3, <1>4 DEF Next

\* Any number of runs of lists, racing, killed or losing power, do their
\* jobs one at a time, each at one moment or not at all, and for good.
THEOREM ListsRefinement == Spec => ImplementsTwoLists
BY InvInit, InvNext, RefineInit, RefineNext, PTL DEF Spec, ImplementsTwoLists, Abstract!Spec
=============================================================================
