------------------------------ MODULE MCLists -------------------------------
(***************************************************************************)
(* Lists for TLC: two processes and one list of each type.  The word "x"   *)
(* is no number, and atoi makes 0 of it: as an id it names list 0, as a    *)
(* command it inserts 0.                                                   *)
(***************************************************************************)
EXTENDS Lists

Words == [w \in {"0", "1", "x", "7", "print"} |->
            CASE w = "1" -> 1 [] w = "7" -> 7 [] OTHER -> 0]

Line(id, type, cmd) == [argc |-> 5, id |-> id, type |-> type, cmd |-> cmd]

CommandLines ==
  {Line("0", type, cmd) : type \in {"foo", "bar"}, cmd \in {"print", "7"}}
    \cup {Line("x", "foo", "x"), Line("1", "foo", "7"), Line("0", "baz", "7"),
          [argc |-> 3, id |-> "0", type |-> "foo", cmd |-> "print"]}
=============================================================================
