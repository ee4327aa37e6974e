------------------------------ MODULE TwoLists ------------------------------
(***************************************************************************)
(* What the program lists promises whoever runs it, without pool, lock or  *)
(* power failures: each run does its job on one list at one moment, and    *)
(* what it did stays; a run that ends early has done all of it or nothing. *)
(***************************************************************************)
EXTENDS Integers, Sequences

CONSTANTS
  Proc,      \* the processes that may run the program
  Slot,      \* the lists
  Value,     \* the values of elements
  Full(_)    \* whether lists of these lengths leave no room for an element

VARIABLES
  content,  \* [Slot -> Seq(Value)]
  state,    \* [Proc -> {"idle", "running", "done", "failed"}]
  job,      \* [Proc -> Job]: what the run is to do
  shown     \* [Proc -> Seq(Value)]: what it has printed, once it is done

vars == <<content, state, job, shown>>

NoJob == [do |-> "nothing"]
Listing(s) == [do |-> "print", slot |-> s]
Insert(s, v) == [do |-> "insert", slot |-> s, value |-> v]

Job == {NoJob} \cup {Listing(s) : s \in Slot} \cup {Insert(s, v) : s \in Slot, v \in Value}

Init ==
  /\ content = [s \in Slot |-> << >>]
  /\ state = [q \in Proc |-> "idle"]
  /\ job = [q \in Proc |-> NoJob]
  /\ shown = [q \in Proc |-> << >>]

Begin(q) ==
  /\ state[q] = "idle"
  /\ state' = [state EXCEPT ![q] = "running"]
  /\ \E j \in Job : job' = [job EXCEPT ![q] = j]
  /\ UNCHANGED <<content, shown>>

Finish(q) ==
  /\ state[q] = "running"
  /\ state' = [state EXCEPT ![q] = "done"]
  /\ UNCHANGED job

\* A new element becomes the head of its list.
DoInsert(q) ==
  /\ Finish(q) /\ job[q].do = "insert"
  /\ content' = [content EXCEPT ![job[q].slot] = <<job[q].value>> \o @]
  /\ UNCHANGED shown

\* There is no room: the run inserts nothing and reports success all the same.
Drop(q) ==
  /\ Finish(q) /\ job[q].do = "insert"
  /\ Full([s \in Slot |-> Len(content[s])])
  /\ UNCHANGED <<content, shown>>

\* What is printed is the list as it is at this one moment.
DoPrint(q) ==
  /\ Finish(q) /\ job[q].do = "print"
  /\ shown' = [shown EXCEPT ![q] = content[job[q].slot]]
  /\ UNCHANGED content

\* The run reports an error; it has done nothing.
Fail(q) ==
  /\ state[q] = "running"
  /\ state' = [state EXCEPT ![q] = "failed"]
  /\ UNCHANGED <<content, job, shown>>

\* Runs end, by themselves or because they are killed.  The lists stay.
End(Q) ==
  /\ state' = [q \in Proc |-> IF q \in Q THEN "idle" ELSE state[q]]
  /\ job' = [q \in Proc |-> IF q \in Q THEN NoJob ELSE job[q]]
  /\ shown' = [q \in Proc |-> IF q \in Q THEN << >> ELSE shown[q]]
  /\ UNCHANGED content

Next ==
  \/ \E q \in Proc : Begin(q) \/ DoInsert(q) \/ Drop(q) \/ DoPrint(q) \/ Fail(q)
  \/ \E Q \in SUBSET Proc : End(Q)

Spec == Init /\ [][Next]_vars
=============================================================================
