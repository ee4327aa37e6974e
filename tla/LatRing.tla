------------------------------ MODULE LatRing -------------------------------
(***************************************************************************)
(* access_lat of pm_study/microbenchmark/lat.cpp: a sequence of runs over  *)
(* one piece of persistent memory.  A run checks its working set against   *)
(* the size of the memory, gives each of its threads a part of it, and     *)
(* joins them.  A thread links the units of its part in a ring, waits for  *)
(* the others at a barrier, and then writes to its units: along the ring   *)
(* (CHASING_PTR) or in the order it drew (CALC_OFFSET).                    *)
(*                                                                         *)
(* A unit is four lines: the line "head" begins with the pointer next, the *)
(* line "pad" holds pad[15], which the chase writes to.  Main passes one   *)
(* thread to every run; the barrier, the parts and the joins are there for *)
(* more, and the model takes the number from the run.  Time stamps and the *)
(* report are left out.                                                    *)
(***************************************************************************)
EXTENDS PMem, Sequences

CONSTANTS
  Plan,      \* the sequences of runs considered
  max_size,  \* the size of the memory, in bytes
  MaxThread  \* bound of the model: the threads of a run

\* What a call of run passes.
Run == [op : {"wr_clwb_sfence", "wr_nt_sfence", "wr_clwb", "wr_nt", "rd"}, wss : Nat,
        iter : Nat \ {0}, seq : BOOLEAN, threads : 1 .. MaxThread,
        trav : {"CHASING_PTR", "CALC_OFFSET"}]

ASSUME LatAssumption ==
  /\ max_size \in Nat /\ MaxThread \in Nat \ {0}
  /\ Plan \subseteq Seq(Run)
  /\ \A runs \in Plan : \A x \in 1 .. Len(runs) :
       runs[x].trav = "CALC_OFFSET" => runs[x].op = "wr_nt"

VARIABLES
  plan, r,      \* the runs of this behaviour, and the one under way
  main, n,      \* where run is, and its loop counter tid
  exited,       \* "no", "refused" (exit), "terminated" (std::terminate)
  pc,           \* [Tid -> where the thread is]
  waiting,      \* the threads blocked in pthread_barrier_wait
  order,        \* [Tid -> ...]: traverse_order
  i, iter,      \* [Tid -> Nat]: the loop counters of worker
  start, p,     \* [Tid -> ...]: starting_point and p of the chase
  next,         \* [Unit -> ...]: the field next of each unit
  mem,          \* PMem
  seen          \* history: the units a thread accessed in this iteration

mvars == <<plan, r, main, n, exited>>
tvars == <<order, i, iter, start, p, seen>>
vars == <<mvars, pc, waiting, tvars, next, mem>>

Tid == 0 .. (MaxThread - 1)
UnitSize == 256               \* sizeof(access_unit_t)
Unit == 0 .. (max_size \div UnitSize - 1)
NULL == -1

cur == plan[r]

\* A mutant: every thread works on the whole working set.
PartWhole == cur.wss \div UnitSize

\* ROUND_DOWN(wss / threads, 256ULL) / sizeof(access_unit_t): unit_num.
Part == (cur.wss \div cur.threads) \div UnitSize

\* A mutant: all threads begin at addr.
BaseSame(t) == 0

\* addr + tid * thread_wss, in units.
Base(t) == t * Part

Own(t) == Base(t) .. (Base(t) + Part - 1)

\* The values traverse_order may have: i at i, or after random_shuffle any
\* order of them.
Orders(t) ==
  IF cur.seq THEN {[x \in 0 .. (Part - 1) |-> Base(t) + x]}
  ELSE {o \in [0 .. (Part - 1) -> Own(t)] : \A x, y \in DOMAIN o : o[x] = o[y] => x = y}

Ended == r > Len(plan)
Alive == exited = "no" /\ ~Ended

----------------------------------------------------------------------------
Init ==
  /\ plan \in Plan /\ r = 1 /\ main = "run" /\ n = 0 /\ exited = "no"
  /\ pc = [t \in Tid |-> "none"] /\ waiting = {}
  /\ order = [t \in Tid |-> << >>]
  /\ i = [t \in Tid |-> 0] /\ iter = [t \in Tid |-> 0]
  /\ start = [t \in Tid |-> NULL] /\ p = [t \in Tid |-> NULL]
  /\ next = [u \in Unit |-> NULL]
  /\ mem = PMemZero(Unit \X {"head", "pad"}, Tid)
  /\ seen = [t \in Tid |-> {}]

(* run.                                                                    *)

\* The working set is compared with the size of the memory, and the barrier
\* is initialised.
StartRun ==
  /\ Alive /\ main = "run" /\ cur.wss < max_size
  /\ main' = "create" /\ n' = 0
  /\ pc' = [t \in Tid |-> "none"] /\ waiting' = {}
  /\ UNCHANGED <<plan, r, exited, tvars, next, mem>>

\* perror, exit(EXIT_FAILURE).
Refuse ==
  /\ Alive /\ main = "run" /\ cur.wss >= max_size
  /\ exited' = "refused"
  /\ UNCHANGED <<plan, r, main, n, pc, waiting, tvars, next, mem>>

\* jobs.push_back(std::thread{worker, ...}).  The fences of a new thread do
\* not wait for what an earlier one has sent off.
CreateThread ==
  /\ Alive /\ main = "create"
  /\ pc' = [pc EXCEPT ![n] = "begin"]
  /\ IF n + 1 < cur.threads THEN n' = n + 1 /\ UNCHANGED main
                            ELSE n' = 0 /\ main' = "join"
  /\ mem' = [mem EXCEPT !.pend[n] = {}]
  /\ UNCHANGED <<plan, r, exited, waiting, tvars, next>>

\* std::thread throws: nobody catches it, and the process ends while the
\* threads created before may wait at the barrier.
CreateFail ==
  /\ Alive /\ main = "create"
  /\ exited' = "terminated"
  /\ UNCHANGED <<plan, r, main, n, pc, waiting, tvars, next, mem>>

\* jobs.at(tid).join(), and behind the last one the next run.
JoinThread ==
  /\ Alive /\ main = "join" /\ pc[n] = "done"
  /\ pc' = [pc EXCEPT ![n] = "joined"]
  /\ IF n + 1 < cur.threads THEN n' = n + 1 /\ UNCHANGED <<r, main>>
                            ELSE n' = 0 /\ r' = r + 1 /\ main' = "run"
  /\ UNCHANGED <<plan, exited, waiting, tvars, next, mem>>

----------------------------------------------------------------------------
(* worker.  Its own comparisons of wss with max_size never hold: the part  *)
(* is no larger than the working set run has compared.                     *)

At(t, label) == Alive /\ pc[t] = label

\* The order is drawn.
DrawOrder(t) ==
  /\ At(t, "begin") /\ Part > 0
  /\ \E o \in Orders(t) : order' = [order EXCEPT ![t] = o]
  /\ i' = [i EXCEPT ![t] = 1] /\ iter' = [iter EXCEPT ![t] = 0]
  /\ seen' = [seen EXCEPT ![t] = {}]
  /\ pc' = [pc EXCEPT ![t] = "link"]
  /\ UNCHANGED <<mvars, waiting, start, p, next, mem>>

\* Less than one unit for the thread: traverse_order.at(unit_num - 1)
\* throws, and nobody catches it.
EmptyPart(t) ==
  /\ At(t, "begin") /\ Part = 0
  /\ exited' = "terminated"
  /\ UNCHANGED <<plan, r, main, n, pc, waiting, tvars, next, mem>>

\* The loop links unit_num - 1 units, the statement behind it the last.
LastLink == Part

\* work_ptr[order.at(i - 1)].next = &work_ptr[order.at(i)], the last one back
\* to order.at(0).
LinkUnit(t) ==
  LET u == order[t][i[t] - 1] IN
  /\ At(t, "link") /\ i[t] <= LastLink
  /\ next' = [next EXCEPT ![u] = order[t][i[t] % Part]]
  /\ mem' = Store(mem, {<<u, "head">>})
  /\ i' = [i EXCEPT ![t] = @ + 1]
  /\ UNCHANGED <<mvars, pc, waiting, order, iter, start, p, seen>>

\* A mutant: the barrier is initialised for one thread less.
BarrierCountLess == cur.threads - 1

\* A mutant: it is initialised for one thread more, main itself.
BarrierCountMore == cur.threads + 1

\* pthread_barrier_init(&sync_barrier, NULL, threads).
BarrierCount == cur.threads

\* pthread_barrier_wait blocks the thread.
BarrierBlock(t) ==
  /\ At(t, "link") /\ i[t] > LastLink
  /\ Cardinality(waiting) + 1 < BarrierCount
  /\ waiting' = waiting \cup {t}
  /\ pc' = [pc EXCEPT ![t] = "wait"]
  /\ UNCHANGED <<mvars, tvars, next, mem>>

\* The last thread to come releases all of them.
BarrierRelease(t) ==
  /\ At(t, "link") /\ i[t] > LastLink
  /\ Cardinality(waiting) + 1 >= BarrierCount
  /\ waiting' = {}
  /\ pc' = [u \in Tid |-> IF u \in waiting \cup {t} THEN "go" ELSE pc[u]]
  /\ UNCHANGED <<mvars, tvars, next, mem>>

\* for(i < iter), chase_ptr_lat: p = starting_point->next.
BeginChase(t) ==
  /\ At(t, "go") /\ iter[t] < cur.iter /\ cur.trav = "CHASING_PTR"
  /\ \E s \in Own(t) :
       start' = [start EXCEPT ![t] = s] /\ p' = [p EXCEPT ![t] = next[s]]
  /\ seen' = [seen EXCEPT ![t] = {}]
  /\ pc' = [pc EXCEPT ![t] = "access"]
  /\ UNCHANGED <<mvars, waiting, order, i, iter, next, mem>>

\* for(i < iter), calc_lat: j = 0.
BeginCalc(t) ==
  /\ At(t, "go") /\ iter[t] < cur.iter /\ cur.trav = "CALC_OFFSET"
  /\ i' = [i EXCEPT ![t] = 0]
  /\ seen' = [seen EXCEPT ![t] = {}]
  /\ pc' = [pc EXCEPT ![t] = "access"]
  /\ UNCHANGED <<mvars, waiting, order, iter, start, p, next, mem>>

\* The unit the thread is at.
Target(t) == IF cur.trav = "CHASING_PTR" THEN p[t] ELSE order[t][i[t]]

\* The line it writes to: &p->pad[15], or the unit's begin.
TargetLine(t) == <<Target(t), IF cur.trav = "CHASING_PTR" THEN "pad" ELSE "head">>

\* while (p != starting_point), j < unit_num.
MoreUnits(t) ==
  IF cur.trav = "CHASING_PTR" THEN p[t] # start[t] ELSE i[t] < Part

\* On to the next unit: p = p->next, j++.
Move(t) ==
  /\ IF cur.trav = "CHASING_PTR" THEN p' = [p EXCEPT ![t] = next[@]] /\ UNCHANGED i
                                 ELSE i' = [i EXCEPT ![t] = @ + 1] /\ UNCHANGED p
  /\ pc' = [pc EXCEPT ![t] = "access"]

See(t) == seen' = [seen EXCEPT ![t] = @ \cup {Target(t)}]

\* wr_clwb, wr_clwb_sfence: the read and the store, then clwb, then sfence.
AccessClwb(t) ==
  /\ At(t, "access") /\ MoreUnits(t) /\ cur.op \in {"wr_clwb", "wr_clwb_sfence"}
  /\ mem' = Store(mem, {TargetLine(t)})
  /\ See(t)
  /\ pc' = [pc EXCEPT ![t] = "clwb"]
  /\ UNCHANGED <<mvars, waiting, order, i, iter, start, p, next>>

WriteBack(t) ==
  /\ At(t, "clwb")
  /\ mem' = Clwb(mem, t, {TargetLine(t)})
  /\ IF cur.op = "wr_clwb" THEN Move(t)
     ELSE pc' = [pc EXCEPT ![t] = "sfence"] /\ UNCHANGED <<i, p>>
  /\ UNCHANGED <<mvars, waiting, order, iter, start, next, seen>>

\* wr_nt, wr_nt_sfence: a 64-byte streaming store of zeros.  At the begin of
\* a unit it clears the pointer too.
AccessNt(t) ==
  /\ At(t, "access") /\ MoreUnits(t) /\ cur.op \in {"wr_nt", "wr_nt_sfence"}
  /\ mem' = NTStore(mem, t, {TargetLine(t)})
  /\ See(t)
  /\ next' = IF cur.trav = "CALC_OFFSET" THEN [next EXCEPT ![Target(t)] = NULL] ELSE next
  /\ IF cur.op = "wr_nt" THEN Move(t)
     ELSE pc' = [pc EXCEPT ![t] = "sfence"] /\ UNCHANGED <<i, p>>
  /\ UNCHANGED <<mvars, waiting, order, iter, start>>

\* A mutant: no fence.
FenceOpNone(m, t) == m

\* _mm_sfence.
FenceOp(m, t) == Fence(m, t)

StoreFence(t) ==
  /\ At(t, "sfence")
  /\ mem' = FenceOp(mem, t)
  /\ Move(t)
  /\ UNCHANGED <<mvars, waiting, order, iter, start, next, seen>>

\* rd does nothing; the chase itself reads the pointer.
AccessRd(t) ==
  /\ At(t, "access") /\ MoreUnits(t) /\ cur.op = "rd"
  /\ See(t)
  /\ Move(t)
  /\ UNCHANGED <<mvars, waiting, order, iter, start, next, mem>>

EndIteration(t) ==
  /\ At(t, "access") /\ ~MoreUnits(t)
  /\ iter' = [iter EXCEPT ![t] = @ + 1]
  /\ pc' = [pc EXCEPT ![t] = "go"]
  /\ UNCHANGED <<mvars, waiting, order, i, start, p, next, mem, seen>>

\* All iterations done: the result is stored and the thread ends.
ThreadEnd(t) ==
  /\ At(t, "go") /\ iter[t] >= cur.iter
  /\ pc' = [pc EXCEPT ![t] = "done"]
  /\ UNCHANGED <<mvars, waiting, tvars, next, mem>>

MainNext == StartRun \/ Refuse \/ CreateThread \/ CreateFail \/ JoinThread

ThreadStep(t) ==
  \/ DrawOrder(t) \/ EmptyPart(t) \/ LinkUnit(t) \/ BarrierBlock(t) \/ BarrierRelease(t)
  \/ BeginChase(t) \/ BeginCalc(t) \/ AccessClwb(t) \/ WriteBack(t) \/ AccessNt(t)
  \/ StoreFence(t) \/ AccessRd(t) \/ EndIteration(t) \/ ThreadEnd(t)

Next == MainNext \/ \E t \in Tid : ThreadStep(t)

\* The operating system keeps running main and every thread.
Spec == Init /\ [][Next]_vars /\ WF_vars(MainNext) /\ \A t \in Tid : WF_vars(ThreadStep(t))

----------------------------------------------------------------------------
(* Properties.                                                             *)

Building == {"none", "begin", "link", "wait"}
Measuring == {"go", "access", "clwb", "sfence"}

\* The pointers of a chase stay on units, and no line is durable before it
\* is written.
TypeOK ==
  /\ main \in {"run", "create", "join"} /\ n \in 0 .. (MaxThread - 1)
  /\ exited \in {"no", "refused", "terminated"}
  /\ pc \in [Tid -> Building \cup Measuring \cup {"done", "joined"}]
  /\ waiting \subseteq Tid
  /\ \A t \in Tid : p[t] \in Unit \cup {NULL} /\ start[t] \in Unit \cup {NULL}
  /\ next \in [Unit -> Unit \cup {NULL}]
  /\ \A l \in DOMAIN mem.ver : mem.per[l] <= mem.ver[l]

\* No thread starts to measure before every thread of its run has been
\* created and has linked its ring, and none of them is still linking while
\* another measures or has finished.
StartTogether ==
  (Alive /\ main # "run") => \A t, u \in 0 .. (cur.threads - 1) :
    pc[t] \in Measuring \cup {"done", "joined"} => pc[u] \notin Building

\* The threads' parts lie in the memory and do not meet.
PartsApart ==
  \A t \in 0 .. (cur.threads - 1) :
    Own(t) \subseteq Unit /\ \A u \in Tid \ {t} : Own(t) \cap Own(u) = {}

\* The threads' parts lie in the memory and do not meet.  In one iteration a
\* thread accesses only units of its part, none of them twice, and all but
\* the one where a chase starts: the ring is one cycle, although the threads
\* build and write side by side and an earlier run has cleared the pointers.
EachUnitOnce ==
  (Alive /\ main # "run") => PartsApart /\ \A t \in 0 .. (cur.threads - 1) :
    /\ pc[t] \in Measuring => seen[t] \subseteq Own(t)
    /\ (pc[t] = "access" /\ MoreUnits(t)) => Target(t) \in Own(t) \ seen[t]
    /\ (pc[t] = "access" /\ ~MoreUnits(t)) =>
         seen[t] = IF cur.trav = "CHASING_PTR" THEN Own(t) \ {start[t]} ELSE Own(t)

\* Strict persistency: of what a thread has written in this iteration, a
\* power failure takes back at most the line it is just working on.  Relaxed:
\* all of it is on its way, one sfence from being durable.  A run that only
\* reads writes nothing, and makes nothing durable of what a run before left.
PersistencyAsNamed ==
  Alive => \A t \in 0 .. (cur.threads - 1) :
    (pc[t] \in Measuring /\ cur.op # "rd") =>
      LET part == IF cur.trav = "CHASING_PTR" THEN "pad" ELSE "head"
          done == {<<u, part>> : u \in seen[t]} \ (IF pc[t] \in {"clwb", "sfence"} THEN {TargetLine(t)} ELSE {})
      IN  IF cur.op \in {"wr_clwb_sfence", "wr_nt_sfence"} THEN Lost(mem) \cap done = {}
          ELSE Lost(Fence(mem, t)) \cap done = {}

\* The runs come to an end: no thread is left at the barrier and no chase
\* goes on for ever.
Termination == <>~Alive

\* The tests that access_lat announces take place: none is refused.
NoRunRefused == exited # "refused"
============================================================================
