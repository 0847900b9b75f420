----------------------------- MODULE MCAuditHost -----------------------------
(***************************************************************************)
(* The instances of AuditHost TLC checks: one or two sessions, one or two  *)
(* operations, every event the rules tell apart.                           *)
(***************************************************************************)
EXTENDS AuditHost

Event(s, i, o, k, n, g, w, b) ==
  [session |-> s, id |-> i, outcome |-> o, key |-> k, sseq |-> n, sig |-> g,
   wellformed |-> w, body |-> b]

\* A well-formed unsigned event.
Plain(s, i, o, b) == Event(s, i, o, "k1", 0, "absent", TRUE, b)

\* A well-formed event whose signature verifies.
Signed(i, o, n) == Event("s1", i, o, "k1", n, "verifies", TRUE, 0)

\* The request that carries an event as its binding should, and the ways it can go wrong.
Carried(e) == [event |-> e, entry |-> IF IsAttempt(e) THEN "attempt" ELSE "outcome", misrouted |-> FALSE]

Misrouted(e) == [Carried(e) EXCEPT !.misrouted = TRUE]

\* Level 1: an operation with two different outcomes, and its id used again by another session.
L1Events ==
  {Plain("s1", "a", "attempted", 0), Plain("s1", "a", "success", 0), Plain("s1", "a", "aborted", 0),
   Plain("s1", "a", "attempted", 1)}

L1Arrivals == {Carried(e) : e \in L1Events} \union {Misrouted(Plain("s1", "a", "attempted", 0))}

\* In memory: two sessions use one operation id, and a signature fails.
MemoryEvents ==
  {Signed("a", "attempted", 0), Signed("a", "success", 1),
   Event("s2", "a", "attempted", "k1", 0, "verifies", TRUE, 0),
   Event("s2", "a", "aborted", "k1", 1, "verifies", TRUE, 0),
   Event("s1", "b", "attempted", "k1", 0, "fails", TRUE, 0)}

MemoryArrivals == {Carried(e) : e \in MemoryEvents}

\* Level 2: an attempt and its outcome, and a second operation that uses the same two values; another
\* process may have recorded any of them.
L2Events ==
  {Signed("a", "attempted", 0), Signed("a", "success", 1), Signed("b", "aborted", 1),
   Signed("b", "attempted", 0)}

L2Arrivals == {Carried(e) : e \in L2Events}
=============================================================================
