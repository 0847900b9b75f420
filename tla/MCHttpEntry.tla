------------------------------ MODULE MCHttpEntry ------------------------------
(***************************************************************************)
(* Two instances that hold one call each, and two sessions.  Calls are     *)
(* opened at i1, the first under s1: the instances and the sessions are    *)
(* alike.  Three requests are enough for two retries of one round beside   *)
(* the call that went out with it, or for a call that makes room for       *)
(* another and the retry of either.                                        *)
(***************************************************************************)
EXTENDS HttpEntry

\* Retries of another principal or session, and requests whose headers are checked.
Odd == {r \in Posts : post[r].presents # "call" \/ post[r].check # "nothing"}

EntryNext ==
  /\ Next
  \* bound: one request that is odd, one client that leaves or one instance that ends
  /\ Cardinality(Odd') + Cardinality(gone') + Cardinality(down') <= 1
  /\ down' \subseteq {"i1"}
  /\ post'[1].session \in {"none", "s1"} /\ \A c \in Posts : conn'[c].at \in {Direct, "i1"}
  \* bound: no more rounds than requests are left to retry them
  /\ \A c \in Posts : Len(seam'[c].rounds) <= MaxPosts - c

EntrySpec == Init /\ [][EntryNext]_vars /\ Fairness
=============================================================================
