----------------------------- MODULE AuditSession -----------------------------
(***************************************************************************)
(* One audit session on the tool's side (session.py) over the host of      *)
(* AuditHost and the wire of a binding: every AuditedAction emits its      *)
(* attempt, runs its body only once the host accepts, and emits one        *)
(* terminal outcome.  Under Level 2 numbering and emission are one section *)
(* (_numbering): the number goes up when the section is left normally.     *)
(*                                                                         *)
(* The wire is the in-order channel of mcp/seam.py: an attempt waits for   *)
(* the host's answer, or until the binding gives up on it; an outcome is   *)
(* handed over and not waited for.  One call, one key, no host restart:    *)
(* a lost host process ends the call.                                      *)
(***************************************************************************)
EXTENDS AuditHost

CONSTANTS
  TheSession,  \* the call's audit session
  TheKey,      \* the key its signer stamps
  NoOp         \* nobody numbers

Payload == CHOOSE b \in Bodies : TRUE

\* AuditedAction._build: the event of an action under a number.
EventOf(op, outcome, number) ==
  [session |-> TheSession, id |-> op, outcome |-> outcome, key |-> TheKey,
   sseq |-> IF Level2 THEN number ELSE 0, sig |-> IF Level2 THEN "verifies" ELSE "absent",
   wellformed |-> TRUE, body |-> Payload]

ASSUME SessionAssumption ==
  /\ TheSession \in Sessions
  /\ NoOp \notin OpIds
  /\ \A op \in OpIds, o \in Outcomes, n \in 0..MaxSignerSeq : EventOf(op, o, n) \in Events

VARIABLES
  next,     \* SessionNumbering.next_signer_seq
  section,  \* the action that holds SessionNumbering.lock
  stage,    \* where each AuditedAction stands
  todo,     \* the event it emits next, or last emitted
  wire,     \* requests handed to the binding and not yet taken up by the host, in order
  acted     \* the actions whose body ran

toolVars == <<next, section, stage, todo, wire, acted>>
callVars == <<hostVars, toolVars>>

\* claim: waits for the section; sign: holds it, signing; sent: awaits the answer; check: verifies the accept.
Stages == {"new", "claim", "sign", "sent", "check", "body", "done", "cancelled"}

\* What an action emits now, under the number the section holds.
Emission(op) == EventOf(op, todo[op], next)

AsRequest(e) == [event |-> e, entry |-> IF IsAttempt(e) THEN "attempt" ELSE "outcome", misrouted |-> FALSE]

-----------------------------------------------------------------------------
CallInit ==
  /\ Init
  /\ next = 0 /\ section = NoOp
  /\ stage = [op \in OpIds |-> "new"] /\ todo = [op \in OpIds |-> "attempted"]
  /\ wire = <<>> /\ acted = {}

Become(op, where, what) ==
  /\ stage' = [stage EXCEPT ![op] = where]
  /\ todo' = [todo EXCEPT ![op] = what]

\* A section left by an exception stays held.
ReleaseIfUsed(used) ==
  /\ section' = IF used THEN NoOp ELSE section
  /\ next' = IF used /\ Level2 THEN next + 1 ELSE next

\* Leaving the section: normally the number is used, by an exception or a cancellation it is not.
Release(used) ==
  /\ section' = NoOp
  /\ next' = IF used /\ Level2 THEN next + 1 ELSE next

\* The host issues the session before the tool emits anything on it.
OpenCall == OpenSession(TheSession) /\ UNCHANGED toolVars

\* __aenter__
Begin(op) ==
  /\ stage[op] = "new" /\ TheSession \in open
  /\ Become(op, "claim", "attempted")
  /\ UNCHANGED <<hostVars, next, section, wire, acted>>

\* Numbering outside the section.
ClaimUnserialized(op) ==
  /\ stage[op] = "claim"
  /\ next <= MaxSignerSeq
  /\ section' = IF Level2 THEN op ELSE NoOp
  /\ Become(op, "sign", todo[op])
  /\ UNCHANGED <<hostVars, next, wire, acted>>

\* Level 1 numbers nothing and takes no section.
Claim(op) ==
  /\ stage[op] = "claim"
  /\ Level2 => section = NoOp
  /\ next <= MaxSignerSeq  \* bound: numbers
  /\ section' = IF Level2 THEN op ELSE NoOp
  /\ Become(op, "sign", todo[op])
  /\ UNCHANGED <<hostVars, next, wire, acted>>

\* A failed signer raises out of __aenter__; from an outcome it is logged, and the outcome is lost.
SignerFailed(op) ==
  /\ stage[op] = "sign" /\ Level2
  /\ Release(FALSE)
  /\ Become(op, "done", todo[op])
  /\ UNCHANGED <<hostVars, wire, acted>>

\* An attempt keeps the section until its answer, an outcome leaves it once it is on the wire.
Send(op) ==
  /\ stage[op] = "sign"
  /\ wire' = Append(wire, AsRequest(Emission(op)))
  /\ IF todo[op] = "attempted"
     THEN Become(op, "sent", todo[op]) /\ UNCHANGED <<next, section>>
     ELSE Become(op, "done", todo[op]) /\ Release(TRUE)
  /\ UNCHANGED <<hostVars, acted>>

\* Emitting the abort from inside the attempt's own section.
AbortHolding(op) == Become(op, "claim", "aborted") /\ UNCHANGED <<next, section>>

\* The attempt is not accepted as far as the tool knows: it emits `aborted`, in a section of its own.
Abort(op) == Release(TRUE) /\ Become(op, "claim", "aborted")

\* The connection is gone: the attempt is `unavailable`, the outcome is lost.
SendLost(op) ==
  /\ stage[op] = "sign"
  /\ IF todo[op] = "attempted" THEN Abort(op) ELSE Release(TRUE) /\ Become(op, "done", todo[op])
  /\ UNCHANGED <<hostVars, wire, acted>>

\* No answer in time, or the connection closed on it: the host may still decide the attempt.
TimedOut(op) ==
  /\ stage[op] = "sent"
  /\ Abort(op)
  /\ UNCHANGED <<hostVars, wire, acted>>

\* The host takes requests up in the order they were sent, or finds one past its deadline.
HostTakes ==
  /\ wire # <<>>
  /\ TakeUp(Head(wire)) \/ Expire(Head(wire))
  /\ wire' = Tail(wire)
  /\ UNCHANGED <<next, section, stage, todo, acted>>

Waiting(q) == stage[q.event.id] = "sent" /\ q.event = Emission(q.event.id)

\* Acting unless the host rejected the attempt.
AnsweredUnlessRejected ==
  /\ Deliver
  /\ IF Waiting(cur)
     THEN IF verdict # "reject"
          THEN Release(TRUE) /\ Become(cur.event.id, "check", "attempted")
          ELSE Abort(cur.event.id)
     ELSE UNCHANGED <<next, section, stage, todo>>
  /\ UNCHANGED <<wire, acted>>

\* The host answers; a late answer, and what the host made of an outcome, reach nobody.
Answered ==
  /\ Deliver
  /\ IF Waiting(cur)
     THEN IF verdict = "accept"
          THEN Release(TRUE) /\ Become(cur.event.id, "check", "attempted")
          ELSE Abort(cur.event.id)
     ELSE UNCHANGED <<next, section, stage, todo>>
  /\ UNCHANGED <<wire, acted>>

\* The countersignature and the record hash hold (Polluted Stop): the body runs.
Cleared(op) ==
  /\ stage[op] = "check"
  /\ Become(op, "body", todo[op])
  /\ acted' = acted \union {op}
  /\ UNCHANGED <<hostVars, next, section, wire>>

\* The countersignature could not be checked: the accepted attempt is aborted.
Distrusted(op) ==
  /\ stage[op] = "check" /\ Countersigned
  /\ Become(op, "claim", "aborted")
  /\ UNCHANGED <<hostVars, next, section, wire, acted>>

\* __aexit__: the body completed or raised.
Finish(op) ==
  /\ stage[op] = "body"
  /\ \E o \in {"success", "failed"} : Become(op, "claim", o)
  /\ UNCHANGED <<hostVars, next, section, wire, acted>>

\* The task is cancelled at an await; what is on the wire stays there.
Cancel(op) ==
  /\ stage[op] \in {"claim", "sign", "sent", "check"}
  /\ IF section = op THEN Release(FALSE) ELSE UNCHANGED <<next, section>>
  /\ Become(op, "cancelled", todo[op])
  /\ UNCHANGED <<hostVars, wire, acted>>

\* The call ends and the host's binding closes its session.
CloseCall == CloseSession(TheSession) /\ UNCHANGED toolVars

-----------------------------------------------------------------------------
Emit(op) == Claim(op) \/ SignerFailed(op) \/ Send(op) \/ SendLost(op)

Act(op) == Cleared(op) \/ Distrusted(op) \/ Finish(op)

HostStep == Holder /\ UNCHANGED toolVars

StoreStep == (\E r \in inflight : StoreLand(r) \/ StoreLose(r)) /\ UNCHANGED toolVars

CallNext ==
  \/ \E op \in OpIds : Begin(op) \/ Emit(op) \/ TimedOut(op) \/ Act(op) \/ Cancel(op)
  \/ HostTakes \/ HostStep \/ Answered \/ StoreStep \/ OpenCall \/ CloseCall

\* The event loop runs every ready task, and every await on a signer, a store or a body returns.
Fairness ==
  /\ WF_callVars(HostTakes) /\ WF_callVars(HostStep) /\ WF_callVars(Answered)
  /\ \A op \in OpIds : WF_callVars(Emit(op)) /\ WF_callVars(Act(op))

CallSpec == CallInit /\ [][CallNext]_callVars /\ Fairness

-----------------------------------------------------------------------------
(* Properties.                                                             *)

\* The tool's state has its kinds, and only an action at its emission holds the section.
CallTypeOK ==
  /\ next \in Nat
  /\ section \in OpIds \union {NoOp}
  /\ stage \in [OpIds -> Stages] /\ todo \in [OpIds -> Outcomes]
  /\ wire \in Seq(Requests) /\ acted \subseteq OpIds
  /\ \A op \in OpIds : Level2 => (section = op <=> stage[op] \in {"sign", "sent"})

AttemptStored(op) == \E e \in EventsOf(stored) : e.session = TheSession /\ e.id = op /\ IsAttempt(e)

\* Audit before act: a body that ran has its attempt in the ledger, whatever timed out, came late or
\* was aborted in between (AuditedAction.__aenter__, AuditHost._seal).
AuditBeforeAct == \A op \in acted : AttemptStored(op)

\* An operation that ran is never left open silently: once its session is closed, a terminal outcome
\* is in the ledger or the host has flagged it (__aexit__, close_session).
NoSilentAct ==
  TheSession \in issued \ open =>
    \A op \in acted : \/ \E e \in EventsOf(stored) : e.id = op /\ ~IsAttempt(e)
                      \/ [session |-> TheSession, id |-> op, kind |-> "unresolved-attempt"] \in anomalies

\* The host has heard nothing under the number the tool gives its next event.
Unheard == section = NoOp /\ TheSession \in open => <<TheKey, next>> \notin sess[TheSession].received

\* _numbering's comment: an emission that raised "never reached the host, so the number it was given is
\* still unused".
NumberUnheard == Unheard

Uncancelled == \A op \in OpIds : stage[op] # "cancelled"

NewReplays == {a \in anomalies' \ anomalies : a.kind = "replay-detected"}

\* No event of a call none of whose actions was cancelled is taken for a replay while its session is open:
\* no number is used again after a timeout, a lost frame, a failed signer, a failed append or a late answer (tests/test_atomic_numbering.py: a legitimate operation is not refused).
HonestNeverReplayed == [][Uncancelled /\ TheSession \in open' => NewReplays = {}]_callVars

\* Every action begun ends: no abort waits for a section its own attempt still holds, and nobody waits
\* for an answer that cannot come (__aenter__ emits the abort outside the attempt's section).
EveryActionEnds == \A op \in OpIds : stage[op] = "claim" ~> stage[op] \in {"done", "cancelled"}
=============================================================================
