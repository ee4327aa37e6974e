------------------------------- MODULE Lists --------------------------------
(***************************************************************************)
(* pmdk/lists.c: a program that is run with a pool file, a list, "foo" or  *)
(* "bar", and either "print" or a value to insert.  Several processes may  *)
(* run it on one file at a time, any of them may be killed at any point,   *)
(* and the power may fail.                                                 *)
(*                                                                         *)
(* libpmemobj is not part of the repository.  As lists.c uses it:          *)
(* pmemobj_create makes a file that must not exist and needs several       *)
(* steps, of which a crash leaves the first ones; pmemobj_open takes a     *)
(* complete pool that no other process has open; insert_new reserves an    *)
(* object, calls the constructor, and links the object into the list in    *)
(* one failure-atomic step, recovery included; an object that was not      *)
(* linked is gone after a crash.  The root object, which starts as empty   *)
(* lists, is taken as part of the complete pool.                           *)
(***************************************************************************)
EXTENDS Integers, Sequences, Functions

CONSTANTS
  Proc,       \* the processes
  Arg,        \* the command lines considered
  Atoi,       \* [Word -> Int]: what atoi makes of a word
  MAX_LISTS,
  Capacity,   \* how many elements the pool has room for
  Stale,      \* what a freshly reserved object contains
  Nobody      \* no process

Word == DOMAIN Atoi
Value == {Atoi[w] : w \in Word}

ASSUME ListsAssumption ==
  /\ Atoi \in [Word -> Int] /\ Stale \in Int
  /\ MAX_LISTS \in Nat /\ Capacity \in Nat /\ Nobody \notin Proc
  /\ Arg \subseteq [argc : Nat, id : Word, type : STRING, cmd : Word]

VARIABLES
  pool,    \* the file: "none", "partial", "complete"
  owner,   \* the process that has it open or is making it, or Nobody
  list,    \* [Slot -> Seq([val, per])]: the elements; per is what a power failure leaves
  pc,      \* [Proc -> where main is]
  arg,     \* [Proc -> Arg \cup {NoArg}]
  new,     \* [Proc -> [val, per]]: the object being constructed
  out      \* [Proc -> Seq(Int)]: what list_print has printed

vars == <<pool, owner, list, pc, arg, new, out>>

Type == {"LIST_FOO", "LIST_BAR"}
Slot == (0 .. (MAX_LISTS - 1)) \X Type
NoArg == [argc |-> 0]
Fresh == [val |-> Stale, per |-> Stale]

\* A mutant: one list too many.
InScopeMore(id) == ~(id < 0 \/ id > MAX_LISTS)

\* if (id < 0 || id >= MAX_LISTS).
InScope(id) == ~(id < 0 \/ id >= MAX_LISTS)

\* strcmp with "foo" and "bar".
TypeOf(word) ==
  CASE word = "foo" -> "LIST_FOO" [] word = "bar" -> "LIST_BAR" [] OTHER -> "LIST_INVALID"

\* &D_RW(r)->lists[id], and of it foo_list or bar_list.
SlotOf(a) == <<Atoi[a.id], TypeOf(a.type)>>

\* Lists of these lengths fill the pool.
Full(length) == SumFunction(length) >= Capacity

Length == [s \in Slot |-> Len(list[s])]

----------------------------------------------------------------------------
Init ==
  /\ pool = "none" /\ owner = Nobody
  /\ list = [s \in Slot |-> << >>]
  /\ pc = [q \in Proc |-> "idle"]
  /\ arg = [q \in Proc |-> NoArg]
  /\ new = [q \in Proc |-> Fresh]
  /\ out = [q \in Proc |-> << >>]

Goto(q, label) == pc' = [pc EXCEPT ![q] = label]

\* The process is started.
Start(q) ==
  /\ pc[q] = "idle"
  /\ \E a \in Arg : arg' = [arg EXCEPT ![q] = a]
  /\ Goto(q, "exists")
  /\ UNCHANGED <<pool, owner, list, new, out>>

\* Without four arguments main prints how it is used, and returns 1.
Usage(q) ==
  /\ pc[q] = "exists" /\ arg[q].argc # 5
  /\ Goto(q, "failed")
  /\ UNCHANGED <<pool, owner, list, arg, new, out>>

\* file_exists(path), whose answer may be old when it is used.
FileExists(q) ==
  /\ pc[q] = "exists" /\ arg[q].argc = 5
  /\ Goto(q, IF pool = "none" THEN "create" ELSE "open")
  /\ UNCHANGED <<pool, owner, list, arg, new, out>>

\* pmemobj_create: the file is made ...
PoolCreate(q) ==
  /\ pc[q] = "create" /\ pool = "none"
  /\ pool' = "partial" /\ owner' = q
  /\ Goto(q, "creating")
  /\ UNCHANGED <<list, arg, new, out>>

\* ... and becomes a pool, ...
PoolCreated(q) ==
  /\ pc[q] = "creating"
  /\ pool' = "complete"
  /\ Goto(q, "args")
  /\ UNCHANGED <<owner, list, arg, new, out>>

\* ... or is removed again (no space).
PoolUndone(q) ==
  /\ pc[q] = "creating"
  /\ pool' = "none" /\ owner' = Nobody
  /\ Goto(q, "failed")
  /\ UNCHANGED <<list, arg, new, out>>

\* Another process has made the file since file_exists.
PoolCreateFail(q) ==
  /\ pc[q] = "create" /\ pool # "none"
  /\ Goto(q, "failed")
  /\ UNCHANGED <<pool, owner, list, arg, new, out>>

PoolOpen(q) ==
  /\ pc[q] = "open" /\ pool = "complete" /\ owner = Nobody
  /\ owner' = q
  /\ Goto(q, "args")
  /\ UNCHANGED <<pool, list, arg, new, out>>

\* Another process has the pool open, or its creation was cut short or undone.
PoolOpenFail(q) ==
  /\ pc[q] = "open" /\ ~(pool = "complete" /\ owner = Nobody)
  /\ Goto(q, "failed")
  /\ UNCHANGED <<pool, owner, list, arg, new, out>>

\* The arguments are looked at behind the opening.  A return 1 leaves the
\* pool open until the process has ended.
CheckArgs(q) ==
  /\ pc[q] = "args"
  /\ Goto(q, IF ~InScope(Atoi[arg[q].id]) \/ TypeOf(arg[q].type) = "LIST_INVALID" THEN "failed"
             ELSE IF arg[q].cmd = "print" THEN "print" ELSE "insert")
  /\ UNCHANGED <<pool, owner, list, arg, new, out>>

----------------------------------------------------------------------------
\* POBJ_LIST_FOREACH: the next element is printed.
PrintNext(q) ==
  LET l == list[SlotOf(arg[q])]
      n == Len(out[q]) + 1
  IN
  /\ pc[q] = "print" /\ n <= Len(l)
  /\ out' = [out EXCEPT ![q] = Append(@, l[n].val)]
  /\ UNCHANGED <<pool, owner, list, pc, arg, new>>

PrintEnd(q) ==
  /\ pc[q] = "print" /\ Len(out[q]) >= Len(list[SlotOf(arg[q])])
  /\ Goto(q, "close")
  /\ UNCHANGED <<pool, owner, list, arg, new, out>>

\* POBJ_LIST_INSERT_NEW_HEAD reserves an object.
Reserve(q) ==
  /\ pc[q] = "insert" /\ ~Full(Length)
  /\ new' = [new EXCEPT ![q] = Fresh]
  /\ Goto(q, "value")
  /\ UNCHANGED <<pool, owner, list, arg, out>>

\* The pool is full; list_insert does not look at the result.
ReserveFail(q) ==
  /\ pc[q] = "insert" /\ Full(Length)
  /\ Goto(q, "close")
  /\ UNCHANGED <<pool, owner, list, arg, new, out>>

\* list_element_constr: e->value = args->value.  The line may be written
\* back at any time from now on.
ConstrValue(q) ==
  /\ pc[q] = "value"
  /\ \E per \in {new[q].per, Atoi[arg[q].cmd]} :
       new' = [new EXCEPT ![q] = [val |-> Atoi[arg[q].cmd], per |-> per]]
  /\ Goto(q, "persist")
  /\ UNCHANGED <<pool, owner, list, arg, out>>

\* A mutant: the constructor does not persist the value.
PersistedNot(e) == e

\* pmemobj_persist(pop, &e->value, sizeof(e->value)).
Persisted(e) == [e EXCEPT !.per = e.val]

ConstrPersist(q) ==
  /\ pc[q] = "persist"
  /\ new' = [new EXCEPT ![q] = Persisted(@)]
  /\ Goto(q, "link")
  /\ UNCHANGED <<pool, owner, list, arg, out>>

\* The library links the object in as the head, durably.
Link(q) ==
  /\ pc[q] = "link"
  /\ list' = [list EXCEPT ![SlotOf(arg[q])] = <<new[q]>> \o @]
  /\ Goto(q, "close")
  /\ UNCHANGED <<pool, owner, arg, new, out>>

PoolClose(q) ==
  /\ pc[q] = "close"
  /\ owner' = Nobody
  /\ Goto(q, "return0")
  /\ UNCHANGED <<pool, list, arg, new, out>>

----------------------------------------------------------------------------
\* The processes of Q are no more, and whatever of them held the pool open.
Gone(Q) ==
  /\ owner' = IF owner \in Q THEN Nobody ELSE owner
  /\ pc' = [q \in Proc |-> IF q \in Q THEN "idle" ELSE pc[q]]
  /\ arg' = [q \in Proc |-> IF q \in Q THEN NoArg ELSE arg[q]]
  /\ new' = [q \in Proc |-> IF q \in Q THEN Fresh ELSE new[q]]
  /\ out' = [q \in Proc |-> IF q \in Q THEN << >> ELSE out[q]]
  /\ UNCHANGED pool

\* main returns, or the process is killed wherever it is.  What it has
\* stored stays in the caches.
ExitOrKill(q) ==
  /\ pc[q] # "idle"
  /\ Gone({q})
  /\ UNCHANGED list

\* The power fails: of each element remains what was persisted.
PowerFail ==
  /\ Gone(Proc)
  /\ list' = [s \in Slot |-> [n \in DOMAIN list[s] |-> [list[s][n] EXCEPT !.val = list[s][n].per]]]

Step(q) ==
  \/ Start(q) \/ Usage(q) \/ FileExists(q)
  \/ PoolCreate(q) \/ PoolCreated(q) \/ PoolUndone(q) \/ PoolCreateFail(q)
  \/ PoolOpen(q) \/ PoolOpenFail(q) \/ CheckArgs(q)
  \/ PrintNext(q) \/ PrintEnd(q)
  \/ Reserve(q) \/ ReserveFail(q) \/ ConstrValue(q) \/ ConstrPersist(q) \/ Link(q)
  \/ PoolClose(q) \/ ExitOrKill(q)

Next == PowerFail \/ \E q \in Proc : Step(q)

Spec == Init /\ [][Next]_vars

----------------------------------------------------------------------------
(* Properties.                                                             *)

Labels == {"idle", "exists", "create", "creating", "open", "args", "print", "insert",
           "value", "persist", "link", "close", "return0", "failed"}

Element == [val : Int, per : Int]

\* Where main works on the pool, and where it works on a list of it.
OnPool == {"creating", "args", "print", "insert", "value", "persist", "link", "close"}
OnList == {"print", "insert", "value", "persist", "link", "close"}

\* A process that works on the pool is the only one, and the list it works
\* on is one of the MAX_LISTS the root object has, with elements of it.
TypeOK ==
  /\ pool \in {"none", "partial", "complete"}
  /\ owner \in Proc \cup {Nobody}
  /\ list \in [Slot -> Seq(Element)]
  /\ pc \in [Proc -> Labels]
  /\ arg \in [Proc -> Arg \cup {NoArg}]
  /\ new \in [Proc -> Element]
  /\ out \in [Proc -> Seq(Int)]
  /\ \A q \in Proc :
       /\ IF pc[q] = "idle" THEN arg[q] = NoArg ELSE arg[q] \in Arg
       /\ pc[q] \in OnPool => owner = q
       /\ pc[q] = "creating" => pool = "partial"
       /\ pc[q] \in OnPool \ {"creating"} => pool = "complete"
       /\ pc[q] \in OnList => SlotOf(arg[q]) \in Slot

\* What a command line asks for.
JobOf(a) ==
  IF a.argc # 5 \/ a.type \notin {"foo", "bar"} \/ Atoi[a.id] \notin 0 .. (MAX_LISTS - 1)
  THEN [do |-> "nothing"]
  ELSE LET s == <<Atoi[a.id], IF a.type = "foo" THEN "LIST_FOO" ELSE "LIST_BAR">>
       IN  IF a.cmd = "print" THEN [do |-> "print", slot |-> s]
           ELSE [do |-> "insert", slot |-> s, value |-> Atoi[a.cmd]]

StateOf(label) ==
  CASE label = "idle" -> "idle"
    [] label = "failed" -> "failed"
    [] label \in {"close", "return0"} -> "done"
    [] OTHER -> "running"

\* The lists are the elements a power failure leaves.
Durable == [s \in Slot |-> [n \in DOMAIN list[s] |-> list[s][n].per]]

Abstract == INSTANCE TwoLists WITH
  content <- Durable,
  state <- [q \in Proc |-> StateOf(pc[q])],
  job <- [q \in Proc |-> JobOf(arg[q])],
  shown <- [q \in Proc |-> IF StateOf(pc[q]) = "done" THEN out[q] ELSE << >>]

\* Runs that race for the file, die or lose power do their job at one
\* moment or not at all: no insert that was reported is lost or half there
\* (unless the pool was full), none that was refused has happened, and a
\* listing is the durable content of one list at one moment.
ImplementsTwoLists == Abstract!Spec
=============================================================================
