----------------------------- MODULE MCHostSeam -----------------------------
(***************************************************************************)
(* A call whose tool reports in its results, alone or (one event only)     *)
(* beside one that asks for input, with room for one held round; or a call *)
(* under §6.5 alone.                                                       *)
(***************************************************************************)
EXTENDS HostSeam

CONSTANTS rich, plain, streamed  \* the calls

F(kind, events) == [kind |-> kind, events |-> events]

\* Rounds retried, passed up and without requestState.
SeamFrames ==
  rich :> {F("round", <<"attempt", "outcome">>), F("round", <<"outcome">>),
           F("input", <<"attempt">>), F("stateless", <<"outcome">>),
           F("result", <<"outcome">>), F("result", <<>>)}
  @@ plain :> {F("input", <<>>)}
  @@ streamed :> {F("input", <<>>), F("result", <<>>), F("ask", <<"attempt">>), F("tell", <<"outcome">>)}

\* One round of each call, to be passed up behind one attempt.
AttemptFrames == rich :> {F("input", <<"attempt">>)} @@ plain :> {F("input", <<"attempt">>)}

Unsent(c) == call[c].state = "unsent"

SeamNext ==
  /\ Next
  /\ Unsent(streamed)' \/ (Unsent(rich) /\ Unsent(plain))'
  /\ Unsent(plain)' \/ Len(received'[rich]) <= 1

SeamSpec == Init /\ [][SeamNext]_vars /\ Fairness
=============================================================================
