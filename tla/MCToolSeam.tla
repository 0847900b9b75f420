------------------------------ MODULE MCToolSeam ------------------------------
(***************************************************************************)
(* Requests of a call that may run two operations at once; of one beside   *)
(* another session's call with an operation of its own; and of one that    *)
(* asks for input, with the request of the same session that answers it.   *)
(***************************************************************************)
EXTENDS ToolSeam

CONSTANTS a, b, d, e   \* operations

SeamCallOf == a :> "c1" @@ b :> "c1" @@ d :> "c2" @@ e :> "c3"
SeamSessionOf == [c1 |-> "s1", c2 |-> "s2", c3 |-> "s1"]
SeamAfter == [c1 |-> NoCall, c2 |-> NoCall, c3 |-> "c1"]

Used == {op \in Ops : stage[op] # "new"}

Served(c) == handler[c] # "unborn"

\* Bound: which operations are used in one behaviour beside which calls, and how often c1 is retried.
SeamNext ==
  /\ Next
  /\ (Cardinality(Used \cap {b, d, e}) <= 1)'
  /\ (Served("c2") => e \notin Used)'
  /\ (Served("c3") => Used \subseteq {a, e})'
  /\ Served("c3")' \/ \A c \in Calls : requests'[c] <= 2

SeamSpec == Init /\ [][SeamNext]_vars /\ Fairness
=============================================================================
