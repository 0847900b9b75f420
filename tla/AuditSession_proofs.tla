-------------------------- MODULE AuditSession_proofs --------------------------
(***************************************************************************)
(* Theorems about AuditSession for every value of its constants: any       *)
(* number of concurrent actions over a host at either level, durable or    *)
(* not, countersigned or not.  What AuditHost_proofs shows of the host's   *)
(* own steps carries over, whatever the tool puts on the wire; nobody else *)
(* writes to the call's partition.                                         *)
(***************************************************************************)
EXTENDS AuditSession, AuditHost_proofs

-----------------------------------------------------------------------------
(* The host, as the call drives it.                                        *)

HostInv == TypeOK /\ ChainInv /\ MemoryInv

USE DEF storeVars, chainVars, sessVars, memoryVars, lockVars

\* A step of the host's own, or of its store, is one of AuditHost.
LEMMA HostKeptByNext == HostInv /\ [Next]_hostVars => HostInv'
  BY TypeNext, ChainNext, MemoryNext DEF HostInv

\* Taking up a request of the wire, whichever it is, leaves the ledger and the memory alone.
LEMMA HostKeptByTakeUp ==
  ASSUME HostInv, NEW q \in Requests, TakeUp(q) \/ Expire(q)
  PROVE  HostInv'
<1>1. TypeOK'
  BY TypeTakeUp DEF HostInv
<1>2. ChainInv'
  BY ChainUntouched DEF HostInv, TakeUp, Expire
<1>3. MemoryInv'
  BY MemoryKept DEF HostInv, TakeUp, Expire
<1> QED
  BY <1>1, <1>2, <1>3 DEF HostInv

\* What tools were told is never taken back.
LEMMA ToldGrows ==
  ASSUME Holder \/ Deliver \/ \E r \in inflight : StoreLand(r) \/ StoreLose(r)
  PROVE  acks \subseteq acks'
<1>1. CASE Settle \/ Interrupt \/ RefuseUnadmitted \/ RefuseUnverified \/ DecideAttempt \/ DecideOutcome
  BY <1>1 DEF Settle, SettleUnreadable, SettleAdopt, SettleForeign, SettleUnchanged, Interrupt,
     RefuseUnadmitted, RefuseUnverified, DecideAttempt, DecideOutcome, RepeatAttempt, RefuseConcluded,
     RefuseReplayedAttempt, RepeatOutcome, RefuseSecondOutcome, RefuseReplayedOutcome, RefuseOrphan, Refuse
<1>2. CASE Seal
  BY <1>2 DEF Seal, FailUnavailable, Leave, BeginSeal, Countersign, CountersignFailed, SealInterrupted, AppendFailed,
     Commit
<1>3. CASE Deliver \/ \E r \in inflight : StoreLand(r) \/ StoreLose(r)
  BY <1>3 DEF Deliver, StoreLand, StoreLose
<1> QED
  BY <1>1, <1>2, <1>3 DEF Holder

-----------------------------------------------------------------------------
(* What an `accept` says: this attempt is one the host keeps its word on.  *)

\* The tool was told of this event.
Acked(e) == \E a \in acks : a.event = e

\* The record being sealed is the request's, and an accepted request is an attempt its tool is told of.
AnswerInv ==
  /\ pc \in {"sign", "append"} => /\ pending.event = cur.event
                                  /\ IsAttempt(cur.event) <=> cur.entry = "attempt"
  /\ pc = "answer" /\ verdict = "accept" => IsAttempt(cur.event) /\ Acked(cur.event)

\* An acknowledgement is of its event.
LEMMA AckOf ==
  ASSUME NEW e, NEW n, acks' = acks \union {Ack(e, n)}
  PROVE  \E a \in acks' : a.event = e
<1>1. Ack(e, n) \in acks' /\ Ack(e, n).event = e
  BY DEF Ack
<1> QED
  BY <1>1

\* Every way to end a handler but a repeat and a commit answers something else than `accept`.
LEMMA NotAccepted ==
  ASSUME \/ Settle \/ Interrupt \/ RefuseUnadmitted \/ RefuseUnverified \/ RefuseConcluded
         \/ RefuseReplayedAttempt \/ DecideOutcome \/ FailUnavailable \/ CountersignFailed
         \/ SealInterrupted \/ AppendFailed
  PROVE  pc' = "handle" \/ (pc' = "answer" /\ verdict' # "accept")
<1>1. CASE Settle
  BY <1>1 DEF Settle, SettleUnreadable, SettleAdopt, SettleForeign, SettleUnchanged, FailClosed, Answer
<1>2. CASE Interrupt \/ SealInterrupted
  BY <1>2 DEF Interrupt, SealInterrupted, Raised, Answer
<1>3. CASE RefuseUnadmitted \/ RefuseUnverified \/ RefuseConcluded \/ RefuseReplayedAttempt
  BY <1>3 DEF RefuseUnadmitted, RefuseUnverified, RefuseConcluded, RefuseReplayedAttempt, Refuse, Refusal, Answer
<1>4. CASE DecideOutcome
  BY <1>4 DEF DecideOutcome, RepeatOutcome, RefuseSecondOutcome, RefuseReplayedOutcome, RefuseOrphan, Refuse,
     Refusal, Answer
<1>5. CASE FailUnavailable \/ CountersignFailed \/ AppendFailed
  BY <1>5 DEF FailUnavailable, Leave, CountersignFailed, AppendFailed, FailClosed, Answer
<1> QED
  BY <1>1, <1>2, <1>3, <1>4, <1>5

LEMMA AnswerInit == Init => AnswerInv
  BY DEF Init, AnswerInv

\* A step that leaves the lock's holder alone.
LEMMA AnswerKept ==
  ASSUME AnswerInv, UNCHANGED <<pc, cur, pending, verdict>>, acks \subseteq acks'
  PROVE  AnswerInv'
  BY DEF AnswerInv, Acked

\* _handle_attempt and _seal accept only what they tell of.
LEMMA AnswerHolder ==
  ASSUME HostInv, AnswerInv, Holder
  PROVE  AnswerInv'
<1>1. CASE \/ Settle \/ Interrupt \/ RefuseUnadmitted \/ RefuseUnverified \/ RefuseConcluded
           \/ RefuseReplayedAttempt \/ DecideOutcome \/ FailUnavailable \/ CountersignFailed
           \/ SealInterrupted \/ AppendFailed
  BY <1>1, NotAccepted DEF AnswerInv
<1>2. CASE RepeatAttempt
  <2>1. \E a \in acks' : a.event = cur.event
    BY <1>2, AckOf DEF RepeatAttempt
  <2>2. IsAttempt(cur.event) /\ pc' = "answer" /\ UNCHANGED cur
    BY <1>2 DEF RepeatAttempt, Deciding, Wellformed, Answer
  <2> QED
    BY <2>1, <2>2 DEF AnswerInv, Acked
<1>3. CASE BeginSeal
  <2>1. pc' \in {"sign", "append"} /\ UNCHANGED cur /\ pending'.event = cur.event
    BY <1>3 DEF BeginSeal, SealRecord
  <2>2. IsAttempt(cur.event) <=> cur.entry = "attempt"
    BY <1>3 DEF BeginSeal, SealableAttempt, SealableOutcome, FreshAttempt, FirstOutcome, Deciding, Wellformed
  <2> QED
    BY <2>1, <2>2 DEF AnswerInv
<1>4. CASE Countersign
  BY <1>4 DEF Countersign, AnswerInv
<1>5. CASE Commit
  <2>1. pc = "append" /\ \E a \in acks' : a.event = pending.event
    BY <1>5, AckOf DEF Commit
  <2>2. /\ pc' = "answer" /\ UNCHANGED cur
        /\ verdict' = "accept" => cur.entry = "attempt"
    BY <1>5 DEF Commit, Answer
  <2> QED
    BY <2>1, <2>2 DEF AnswerInv, Acked
<1> QED
  BY <1>1, <1>2, <1>3, <1>4, <1>5 DEF Holder, DecideAttempt, Seal

-----------------------------------------------------------------------------
(* The tool's side: its types, and the section.                            *)

\* A number in use is one of the bound; the section itself says so only where events are numbered.
Bounded == Level2 => \A op \in OpIds : stage[op] = "sign" => next <= MaxSignerSeq

ToolInv == CallTypeOK /\ Bounded

\* What an action at its emission emits is an event, and one of its own.
LEMMA EmissionType ==
  ASSUME ToolInv, NEW op \in OpIds, stage[op] = "sign"
  PROVE  AsRequest(Emission(op)) \in Requests
<1>1. todo[op] \in Outcomes /\ next \in Nat
  BY DEF ToolInv, CallTypeOK
<1>2. Emission(op) \in Events
  <2>1. CASE Level2
    BY <1>1, <2>1, EventsAssumption, SessionAssumption DEF Emission, ToolInv, Bounded
  <2>2. CASE ~Level2
    <3>1. 0 \in 0..MaxSignerSeq
      BY EventsAssumption
    <3>2. EventOf(op, todo[op], next) = EventOf(op, todo[op], 0)
      BY <2>2 DEF EventOf
    <3> QED
      BY <1>1, <3>1, <3>2, SessionAssumption DEF Emission
  <2> QED
    BY <2>1, <2>2
<1> QED
  BY <1>2 DEF AsRequest, Requests

\* The call before its first action (AmcpSession).
LEMMA ToolInit == CallInit => ToolInv
  BY SessionAssumption DEF CallInit, ToolInv, CallTypeOK, Bounded, Stages, Outcomes

\* One action moves: it holds the section exactly at its emission, and whoever else did still does.
LEMMA OneMoves ==
  ASSUME ToolInv, NEW op \in OpIds, NEW where \in Stages, NEW what \in Outcomes, Become(op, where, what),
         next' \in Nat, wire' \in Seq(Requests), acted' \subseteq OpIds,
         section' \in OpIds \union {NoOp},
         Level2 => /\ section' = op <=> where \in {"sign", "sent"}
                   /\ section' # op => section' = IF section = op THEN NoOp ELSE section
                   /\ section' = op => section \in {op, NoOp}
                   /\ next' # next => section = op
                   /\ where = "sign" => next' <= MaxSignerSeq
  PROVE  ToolInv'
<1>1. stage' = [stage EXCEPT ![op] = where] /\ todo' = [todo EXCEPT ![op] = what]
  BY DEF Become
<1>2. stage' \in [OpIds -> Stages] /\ todo' \in [OpIds -> Outcomes]
  BY <1>1 DEF ToolInv, CallTypeOK
<1>3. ASSUME NEW p \in OpIds, Level2
      PROVE  /\ section' = p <=> stage'[p] \in {"sign", "sent"}
             /\ stage'[p] = "sign" => next' <= MaxSignerSeq
  <2>1. CASE p = op
    BY <1>1, <1>3, <2>1 DEF ToolInv, CallTypeOK
  <2>2. CASE p # op
    <3>1. stage'[p] = stage[p]
      BY <1>1, <2>2 DEF ToolInv, CallTypeOK
    <3>2. section = p <=> stage[p] \in {"sign", "sent"}
      BY <1>3 DEF ToolInv, CallTypeOK
    <3>3. section' = p <=> section = p
      BY <1>3, <2>2, SessionAssumption
    <3>4. stage[p] = "sign" => next' = next
      BY <1>3, <2>2, <3>2
    <3> QED
      BY <1>3, <3>1, <3>2, <3>3, <3>4 DEF ToolInv, Bounded
  <2> QED
    BY <2>1, <2>2
<1> QED
  BY <1>2, <1>3 DEF ToolInv, CallTypeOK, Bounded

\* Every step of an action, up to the host's answer.
LEMMA ToolEmits ==
  ASSUME ToolInv, NEW op \in OpIds,
         Begin(op) \/ Emit(op) \/ TimedOut(op) \/ Act(op) \/ Cancel(op)
  PROVE  ToolInv'
<1> USE SessionAssumption
<1>1. /\ stage[op] \in Stages /\ todo[op] \in Outcomes /\ next \in Nat /\ section \in OpIds \union {NoOp}
      /\ wire \in Seq(Requests) /\ acted \subseteq OpIds
      /\ Level2 => (section = op <=> stage[op] \in {"sign", "sent"})
  BY DEF ToolInv, CallTypeOK
<1>2. CASE Begin(op)
  BY <1>1, <1>2, OneMoves DEF Begin, Stages, Outcomes
<1>3. CASE Claim(op)
  BY <1>1, <1>3, OneMoves, EventsAssumption DEF Claim, Stages
<1>4. CASE SignerFailed(op)
  BY <1>1, <1>4, OneMoves DEF SignerFailed, Release, Stages
<1>5. CASE Send(op)
  <2>1. wire' \in Seq(Requests)
    BY <1>1, <1>5, EmissionType DEF Send
  <2> QED
    BY <1>1, <1>5, <2>1, OneMoves DEF Send, Release, Stages
<1>6. CASE SendLost(op) \/ TimedOut(op)
  BY <1>1, <1>6, OneMoves DEF SendLost, TimedOut, Abort, Release, Stages, Outcomes
<1>7. CASE Act(op)
  BY <1>1, <1>7, OneMoves DEF Act, Cleared, Distrusted, Finish, Stages, Outcomes
<1>8. CASE Cancel(op)
  BY <1>1, <1>8, OneMoves DEF Cancel, Release, Stages
<1> QED
  BY <1>2, <1>3, <1>4, <1>5, <1>6, <1>7, <1>8 DEF Emit

\* The answer, if somebody still waits for it, moves the action it is for.
LEMMA ToolAnswered ==
  ASSUME ToolInv, TypeOK, Answered
  PROVE  ToolInv'
<1>1. CASE ~Waiting(cur)
  BY <1>1 DEF Answered, ToolInv, CallTypeOK, Bounded
<1>2. CASE Waiting(cur)
  <2>1. PICK op \in OpIds : op = cur.event.id /\ stage[op] = "sent"
    BY <1>2, EventsAssumption DEF Answered, Deliver, TypeOK, Requests, EventSpace, Waiting
  <2>2. /\ section' = NoOp /\ next' \in Nat /\ UNCHANGED <<wire, acted>>
        /\ Become(op, "check", "attempted") \/ Become(op, "claim", "aborted")
    BY <1>2, <2>1 DEF Answered, Release, Abort, ToolInv, CallTypeOK
  <2>3. Level2 => section = op
    BY <2>1 DEF ToolInv, CallTypeOK
  <2>4. wire' \in Seq(Requests) /\ acted' \subseteq OpIds /\ op # NoOp
    BY <2>1, <2>2, SessionAssumption DEF ToolInv, CallTypeOK
  <2>5. CASE Become(op, "check", "attempted")
    BY <2>1, <2>2, <2>3, <2>4, <2>5, OneMoves DEF Stages, Outcomes
  <2>6. CASE Become(op, "claim", "aborted")
    BY <2>1, <2>2, <2>3, <2>4, <2>6, OneMoves DEF Stages, Outcomes
  <2> QED
    BY <2>2, <2>5, <2>6
<1> QED
  BY <1>1, <1>2

\* The host's own steps leave the tool alone, but for the request it takes up.
LEMMA ToolKept ==
  ASSUME ToolInv, UNCHANGED <<next, section, stage, todo, acted>>, wire' = wire \/ (wire # <<>> /\ wire' = Tail(wire))
  PROVE  ToolInv'
  BY DEF ToolInv, CallTypeOK, Bounded

-----------------------------------------------------------------------------
(* The call's steps.                                                       *)

CallInv == HostInv /\ ToolInv /\ AnswerInv

\* What the host and its store do of their own accord is a step of the host's specification.
LEMMA HostMoves ==
  ASSUME CallNext \/ UNCHANGED callVars
  PROVE  [Next]_hostVars \/ HostTakes
<1>1. CASE \E op \in OpIds : Begin(op) \/ Emit(op) \/ TimedOut(op) \/ Act(op) \/ Cancel(op)
  BY <1>1 DEF Begin, Emit, Claim, SignerFailed, Send, SendLost, TimedOut, Act, Cleared, Distrusted, Finish, Cancel
<1>2. CASE HostStep \/ Answered \/ StoreStep
  BY <1>2 DEF HostStep, Answered, StoreStep, Next, Environment
<1>3. CASE OpenCall \/ CloseCall
  BY <1>3, SessionAssumption DEF OpenCall, CloseCall, Next, Lifecycle
<1>4. CASE UNCHANGED callVars
  BY <1>4 DEF callVars
<1> QED
  BY <1>1, <1>2, <1>3, <1>4 DEF CallNext

\* The host's invariants hold whatever a tool puts on the wire.
LEMMA HostNext ==
  ASSUME CallInv, CallNext \/ UNCHANGED callVars
  PROVE  HostInv'
<1>1. CASE HostTakes
  <2>1. Head(wire) \in Requests
    BY <1>1 DEF HostTakes, CallInv, ToolInv, CallTypeOK
  <2> QED
    BY <1>1, <2>1, HostKeptByTakeUp DEF HostTakes, CallInv
<1> QED
  BY <1>1, HostMoves, HostKeptByNext DEF CallInv

\* What the tool was told stays told.
LEMMA TellsStay ==
  ASSUME CallNext \/ UNCHANGED callVars
  PROVE  acks \subseteq acks'
<1>1. CASE \E op \in OpIds : Begin(op) \/ Emit(op) \/ TimedOut(op) \/ Act(op) \/ Cancel(op)
  BY <1>1 DEF Begin, Emit, Claim, SignerFailed, Send, SendLost, TimedOut, Act, Cleared, Distrusted, Finish, Cancel,
     hostVars
<1>2. CASE HostTakes \/ OpenCall \/ CloseCall \/ UNCHANGED callVars
  BY <1>2 DEF HostTakes, TakeUp, Expire, OpenCall, OpenSession, CloseCall, CloseSession, callVars, hostVars
<1>3. CASE HostStep \/ Answered \/ StoreStep
  BY <1>3, ToldGrows DEF HostStep, Answered, StoreStep
<1> QED
  BY <1>1, <1>2, <1>3 DEF CallNext

LEMMA ToolNext ==
  ASSUME CallInv, CallNext \/ UNCHANGED callVars
  PROVE  ToolInv'
<1>1. CASE \E op \in OpIds : Begin(op) \/ Emit(op) \/ TimedOut(op) \/ Act(op) \/ Cancel(op)
  BY <1>1, ToolEmits DEF CallInv
<1>2. CASE Answered
  BY <1>2, ToolAnswered DEF CallInv, HostInv
<1>3. CASE HostTakes
  BY <1>3, ToolKept DEF HostTakes, CallInv
<1>4. CASE HostStep \/ StoreStep \/ OpenCall \/ CloseCall \/ UNCHANGED callVars
  BY <1>4, ToolKept DEF HostStep, StoreStep, OpenCall, CloseCall, callVars, toolVars, CallInv
<1> QED
  BY <1>1, <1>2, <1>3, <1>4 DEF CallNext

LEMMA AnswerNext ==
  ASSUME CallInv, CallNext \/ UNCHANGED callVars
  PROVE  AnswerInv'
<1>1. CASE \E op \in OpIds : Begin(op) \/ Emit(op) \/ TimedOut(op) \/ Act(op) \/ Cancel(op)
  BY <1>1, AnswerKept, TellsStay DEF Begin, Emit, Claim, SignerFailed, Send, SendLost, TimedOut, Act, Cleared,
     Distrusted, Finish, Cancel, hostVars, CallInv
<1>2. CASE HostTakes
  BY <1>2 DEF HostTakes, TakeUp, Expire, AnswerInv
<1>3. CASE HostStep
  BY <1>3, AnswerHolder DEF HostStep, CallInv
<1>4. CASE Answered
  BY <1>4 DEF Answered, Deliver, AnswerInv
<1>5. CASE StoreStep
  BY <1>5, AnswerKept, TellsStay DEF StoreStep, StoreLand, StoreLose, CallInv
<1>6. CASE OpenCall \/ CloseCall
  BY <1>6, AnswerKept, TellsStay DEF OpenCall, OpenSession, CloseCall, CloseSession, CallInv
<1>7. CASE UNCHANGED callVars
  BY <1>7, AnswerKept, TellsStay DEF callVars, hostVars, CallInv
<1> QED
  BY <1>1, <1>2, <1>3, <1>4, <1>5, <1>6, <1>7 DEF CallNext

LEMMA CallStart == CallInit => CallInv
  BY TypeInit, ChainInit, MemoryInit, ToolInit, AnswerInit DEF CallInit, CallInv, HostInv

LEMMA CallStep == CallInv /\ [CallNext]_callVars => CallInv'
  BY HostNext, ToolNext, AnswerNext DEF CallInv

\* The tool's state keeps its kinds, and the section of _numbering is held by the action at its emission
\* and by nobody else, for any number of actions at once.
THEOREM CallTypeCorrect == CallSpec => []CallTypeOK
<1>1. CallInv => CallTypeOK
  BY DEF CallInv, ToolInv
<1> QED
  BY <1>1, CallStart, CallStep, PTL DEF CallSpec

-----------------------------------------------------------------------------
(* Audit before act.                                                       *)

\* The tool was told its attempt for the operation is accepted.
AttemptAcked(op) == \E a \in acks : a.event.session = TheSession /\ a.event.id = op /\ IsAttempt(a.event)

\* An action past its accepted attempt, and one whose body ran, was told so.
ActInv == \A op \in OpIds : stage[op] \in {"check", "body"} \/ op \in acted => AttemptAcked(op)

\* What was told stays told, whoever moves.
LEMMA AckedStays ==
  ASSUME acks \subseteq acks', NEW op, AttemptAcked(op)
  PROVE  AttemptAcked(op)'
  BY DEF AttemptAcked

\* One action moves, to where it has its attempt accepted if it needs it there.
LEMMA ActMoves ==
  ASSUME CallInv, ActInv, acks \subseteq acks',
         NEW op \in OpIds, NEW where \in Stages, NEW what, Become(op, where, what),
         where \in {"check", "body"} => AttemptAcked(op)',
         acted' = acted \/ (acted' = acted \union {op} /\ where = "body")
  PROVE  ActInv'
<1>1. \A p \in OpIds : p # op => stage'[p] = stage[p]
  BY DEF Become, CallInv, ToolInv, CallTypeOK
<1>2. stage'[op] = where
  BY DEF Become, CallInv, ToolInv, CallTypeOK
<1>3. \A p \in OpIds : stage'[p] \in {"check", "body"} => AttemptAcked(p)'
  BY <1>1, <1>2, AckedStays DEF ActInv
<1>4. \A p \in OpIds : p \in acted' => AttemptAcked(p)'
  BY AckedStays DEF ActInv
<1> QED
  BY <1>3, <1>4 DEF ActInv

\* A step of no action.
LEMMA ActKept ==
  ASSUME ActInv, acks \subseteq acks', UNCHANGED <<stage, acted>>
  PROVE  ActInv'
  BY AckedStays DEF ActInv

LEMMA ActStart == CallInit => ActInv
  BY DEF CallInit, ActInv

\* __aenter__ goes on to the body only with the host's accept of this very attempt.
LEMMA ActNext ==
  ASSUME CallInv, ActInv, CallNext \/ UNCHANGED callVars
  PROVE  ActInv'
<1> USE TellsStay
<1>1. ASSUME NEW op \in OpIds, Begin(op) \/ Emit(op) \/ TimedOut(op) \/ Distrusted(op) \/ Finish(op) \/ Cancel(op)
      PROVE  ActInv'
  BY <1>1, ActMoves DEF Begin, Emit, Claim, SignerFailed, Send, SendLost, TimedOut, Abort, Distrusted, Finish,
     Cancel, Stages, ActInv
<1>2. ASSUME NEW op \in OpIds, Cleared(op)
      PROVE  ActInv'
  <2>1. AttemptAcked(op)'
    BY <1>2, AckedStays DEF Cleared, ActInv
  <2> QED
    BY <1>2, <2>1, ActMoves DEF Cleared, Stages
<1>3. CASE Answered
  <2>1. CASE Waiting(cur) /\ verdict = "accept"
    <3>1. PICK op \in OpIds : op = cur.event.id /\ cur.event.session = TheSession
      BY <1>3, <2>1, EventsAssumption
         DEF Answered, Deliver, CallInv, HostInv, TypeOK, Requests, EventSpace, Waiting, Emission, EventOf
    <3>2. IsAttempt(cur.event) /\ Acked(cur.event)
      BY <1>3, <2>1 DEF Answered, Deliver, CallInv, AnswerInv
    <3>3. AttemptAcked(op)'
      BY <3>1, <3>2, AckedStays DEF AttemptAcked, Acked
    <3>4. Become(op, "check", "attempted") /\ UNCHANGED acted
      BY <1>3, <2>1, <3>1 DEF Answered
    <3> QED
      BY <3>3, <3>4, ActMoves DEF Stages
  <2>2. CASE Waiting(cur) /\ verdict # "accept"
    <3>1. PICK op \in OpIds : op = cur.event.id
      BY <1>3, <2>2, EventsAssumption DEF Answered, Deliver, CallInv, HostInv, TypeOK, Requests, EventSpace
    <3> QED
      BY <1>3, <2>2, <3>1, ActMoves DEF Answered, Abort, Stages
  <2>3. CASE ~Waiting(cur)
    BY <1>3, <2>3, ActKept DEF Answered
  <2> QED
    BY <2>1, <2>2, <2>3
<1>4. CASE HostTakes \/ HostStep \/ StoreStep \/ OpenCall \/ CloseCall \/ UNCHANGED callVars
  BY <1>4, ActKept DEF HostTakes, HostStep, StoreStep, OpenCall, CloseCall, callVars, toolVars
<1> QED
  BY <1>1, <1>2, <1>3, <1>4 DEF CallNext, Act

\* What a tool was told is accepted is in the ledger.
LEMMA AckedIsStored ==
  ASSUME HostInv, NEW e, Acked(e)
  PROVE  e \in EventsOf(stored)
<1>1. PICK n \in DOMAIN stored : stored[n].event = e
  BY DEF Acked, HostInv, MemoryInv, AcksDurable
<1> QED
  BY <1>1, RangeType DEF HostInv, TypeOK, EventsOf

\* Audit before act: in every behaviour an operation whose body ran has its attempt in the ledger, whatever
\* timed out, came late, was cancelled or failed to append (AuditedAction.__aenter__, AuditHost._seal).
THEOREM AuditBeforeActCorrect == CallSpec => []AuditBeforeAct
<1>1. CallInit => CallInv /\ ActInv
  BY CallStart, ActStart
<1>2. CallInv /\ ActInv /\ [CallNext]_callVars => (CallInv /\ ActInv)'
  BY CallStep, ActNext
<1>3. CallInv /\ ActInv => AuditBeforeAct
  BY AckedIsStored DEF CallInv, ToolInv, CallTypeOK, ActInv, AttemptAcked, Acked, AuditBeforeAct, AttemptStored
<1> QED
  BY <1>1, <1>2, <1>3, PTL DEF CallSpec

-----------------------------------------------------------------------------
(* No action is left open silently.                                        *)

\* What the host's log holds of the call, and what it owes whoever was told `accept`.
OweInv == LogInv /\ AcceptInv

LEMMA ShapeOfCall ==
  ASSUME HostInv, LogInv
  PROVE  LogShape
BY DEF HostInv, LogInv, LogShape, HostShape

\* The call's partition is written by its own host alone.
LEMMA CallAlone ==
  ASSUME TypeOK, CallNext \/ UNCHANGED callVars
  PROVE  Alone
<1>1. UNCHANGED foreign
  <2>1. CASE \E op \in OpIds : Begin(op) \/ Emit(op) \/ TimedOut(op) \/ Act(op) \/ Cancel(op)
    BY <2>1 DEF Begin, Emit, Claim, SignerFailed, Send, SendLost, TimedOut, Act, Cleared, Distrusted, Finish,
       Cancel, hostVars
  <2>2. CASE HostTakes \/ OpenCall \/ CloseCall \/ UNCHANGED callVars \/ Answered \/ StoreStep
    BY <2>2 DEF HostTakes, TakeUp, Expire, OpenCall, OpenSession, CloseCall, CloseSession, callVars, hostVars,
       Answered, Deliver, StoreStep, StoreLand, StoreLose
  <2>3. CASE HostStep
    <3>1. CASE Settle \/ Interrupt \/ RefuseUnadmitted \/ RefuseUnverified \/ DecideAttempt \/ DecideOutcome
      BY <3>1 DEF Settle, SettleUnreadable, SettleAdopt, SettleForeign, SettleUnchanged, Interrupt,
         RefuseUnadmitted, RefuseUnverified, DecideAttempt, DecideOutcome, RepeatAttempt, RefuseConcluded,
         RefuseReplayedAttempt, RepeatOutcome, RefuseSecondOutcome, RefuseReplayedOutcome, RefuseOrphan, Refuse
    <3>2. CASE Seal
      BY <3>2 DEF Seal, FailUnavailable, Leave, BeginSeal, Countersign, CountersignFailed, SealInterrupted,
         AppendFailed, Commit
    <3> QED
      BY <2>3, <3>1, <3>2 DEF HostStep, Holder
  <2> QED
    BY <2>1, <2>2, <2>3 DEF CallNext
<1> QED
  BY <1>1 DEF Alone, ForeignAppend, TypeOK

LEMMA OweStart == CallInit => OweInv
  BY LogInit, AcceptInit DEF CallInit, OweInv

LEMMA OweNext ==
  ASSUME CallInv, CallInv', OweInv, CallNext \/ UNCHANGED callVars
  PROVE  OweInv'
<1>1. LogShape
  BY ShapeOfCall DEF CallInv, OweInv
<1>2. LogInv'
  <2>1. CASE HostTakes
    BY <1>1, <2>1, LogAside DEF HostTakes, OweInv
  <2>2. CASE [Next]_hostVars
    BY <1>1, <2>2, CallAlone, LogNext DEF OweInv, CallInv, HostInv
  <2> QED
    BY <2>1, <2>2, HostMoves
<1>3. LogShape'
  BY <1>2 DEF CallInv, HostInv, LogInv, LogShape, HostShape
<1>4. AcceptInv'
  <2>1. CASE HostTakes
    BY <1>1, <1>2, <1>3, <2>1, AcceptAside DEF HostTakes, OweInv
  <2>2. CASE [Next]_hostVars
    BY <1>1, <1>2, <1>3, <2>2, CallAlone, AcceptNext DEF OweInv, CallInv, HostInv
  <2> QED
    BY <2>1, <2>2, HostMoves
<1> QED
  BY <1>2, <1>4 DEF OweInv

\* An accepted attempt of a closed session is followed by its outcome or flagged.
LEMMA OwedToActions ==
  ASSUME CallInv, ActInv, OweInv
  PROVE  NoSilentAct
<1> SUFFICES ASSUME TheSession \notin open, NEW op \in acted
             PROVE  \/ \E e \in EventsOf(stored) : e.id = op /\ ~IsAttempt(e)
                    \/ [session |-> TheSession, id |-> op, kind |-> "unresolved-attempt"] \in anomalies
  BY DEF NoSilentAct
<1>1. PICK a \in acks : a.event.session = TheSession /\ a.event.id = op /\ IsAttempt(a.event)
  BY DEF CallInv, ToolInv, CallTypeOK, ActInv, AttemptAcked
<1>2. CASE a.event \notin UnresolvedIn(stored)
  <2>1. PICK n \in DOMAIN stored : stored[n].event = a.event
    BY DEF CallInv, HostInv, MemoryInv, AcksDurable
  <2>2. PICK k \in DOMAIN stored : SameOperation(stored[k].event, stored[n].event) /\ ~IsAttempt(stored[k].event)
    BY <1>1, <1>2, <2>1 DEF UnresolvedIn
  <2>3. stored[k].event \in EventsOf(stored)
    BY RangeType DEF EventsOf, CallInv, HostInv, TypeOK
  <2> QED
    BY <1>1, <2>1, <2>2, <2>3 DEF SameOperation
<1>3. CASE Flag(a.event, "unresolved-attempt") \in anomalies
  BY <1>1, <1>3 DEF Flag
<1> QED
  BY <1>1, <1>2, <1>3 DEF OweInv, AcceptInv, NoSilentAccept

\* No operation that ran is left open silently: once the call's session is closed, a terminal outcome of it is in
\* the ledger or the host has flagged it, whatever was lost, timed out or cancelled (__aexit__, close_session).
THEOREM NoSilentActCorrect == CallSpec => []NoSilentAct
<1> DEFINE Inv == CallInv /\ ActInv /\ OweInv
<1>1. CallInit => Inv
  BY CallStart, ActStart, OweStart
<1>2. Inv /\ [CallNext]_callVars => Inv'
  BY CallStep, ActNext, OweNext
<1>3. Inv => NoSilentAct
  BY OwedToActions
<1> HIDE DEF Inv
<1> QED
  BY <1>1, <1>2, <1>3, PTL DEF CallSpec

-----------------------------------------------------------------------------
(* No number is used again.                                                *)

\* What the host has in its ledger, or on its way there.
Past == EventsOf(stored) \union {r.event : r \in inflight}

\* The request is of this call, on this call.
Own(q) == q.event.session = TheSession /\ ~q.misrouted

\* A number the tool has put on the wire: below the next one, or the one its section still holds.
Used(n) == n < next \/ (n = next /\ section # NoOp /\ stage[section] = "sent")

\* An event its action has sent, and does not send again.
Emitted(e) ==
  /\ e.id \in OpIds
  /\ IsAttempt(e) => stage[e.id] # "new" /\ ~(stage[e.id] \in {"claim", "sign"} /\ todo[e.id] = "attempted")
  /\ ~IsAttempt(e) => stage[e.id] = "done"
  /\ Level2 => Used(e.sseq)

\* One event precedes another of the call: an operation's attempt its outcome, a number the later ones.
Before(e, f) ==
  /\ e.id = f.id => IsAttempt(e) /\ ~IsAttempt(f)
  /\ Level2 => e.sseq < f.sseq

\* The request at the host is not decided yet.
Undecided == pc \in {"settle", "handle"}

\* What the tool has sent is its own, in whatever hands it is.
SentInv ==
  /\ \A k \in DOMAIN wire : Own(wire[k]) /\ Emitted(wire[k].event)
  /\ pc # "idle" => Own(cur) /\ Emitted(cur.event)
  /\ \A e \in Past : Emitted(e)
  /\ Level2 => \A s \in Sessions : \A v \in sess[s].decided : Used(v[2])

\* The ledger's events precede the host's request, and that the wire's, in their order.
LineInv ==
  /\ \A j, k \in DOMAIN wire : j < k => Before(wire[j].event, wire[k].event)
  /\ pc # "idle" => \A k \in DOMAIN wire : Before(cur.event, wire[k].event)
  /\ \A e \in Past : \A k \in DOMAIN wire : Before(e, wire[k].event)
  /\ Undecided => \A e \in Past : Before(e, cur.event)

\* No value decided is one of an event still to be decided.
ValuesInv ==
  Level2 => \A s \in Sessions : \A v \in sess[s].decided :
              /\ \A k \in DOMAIN wire : v[2] < wire[k].event.sseq
              /\ Undecided => v[2] < cur.event.sseq

\* An operation's terminal outcome is no attempt.
OutcomesEnd == \A s \in Sessions : \A e \in sess[s].outcomes : ~IsAttempt(e)

HonestInv == SentInv /\ LineInv /\ ValuesInv /\ OutcomesEnd

LEMMA HonestStart == CallInit => HonestInv
<1> SUFFICES ASSUME CallInit
             PROVE  HonestInv
  OBVIOUS
<1>1. stored = <<>> /\ inflight = {} /\ wire = <<>> /\ pc = "idle"
  BY DEF CallInit, Init
<1>2. Past = {}
  <2>1. Range(<<>>) = {}
    BY DEF Range
  <2> QED
    BY <1>1, <2>1 DEF Past, EventsOf
<1>3. \A s \in Sessions : sess[s].decided = {} /\ sess[s].outcomes = {}
  BY DEF CallInit, Init, NewSession
<1> QED
  BY <1>1, <1>2, <1>3 DEF HonestInv, SentInv, LineInv, ValuesInv, OutcomesEnd, Undecided

-----------------------------------------------------------------------------
(* The host's steps: what it was sent moves on, and is decided in its turn. *)

\* What a step of the host may add: the events of the ledger are decided, and the request once it is decided.
Learns ==
  /\ \A e \in Past' : e \in Past \/ (pc # "idle" /\ ~Undecided' /\ e = cur.event)
  /\ \A s \in Sessions : \A v \in sess'[s].decided :
       \/ v \in sess[s].decided
       \/ \E e \in Past : v = SignerValue(e)
       \/ pc # "idle" /\ ~Undecided' /\ v = SignerValue(cur.event)
  /\ \A s \in Sessions : \A e \in sess'[s].outcomes : e \in sess[s].outcomes \/ ~IsAttempt(e)

LEMMA HonestKept ==
  ASSUME HonestInv, Learns, UNCHANGED <<next, section, stage, todo, wire>>,
         pc' = "idle" \/ (pc # "idle" /\ UNCHANGED cur), Undecided' => Undecided
  PROVE  HonestInv'
<1>1. \A e : Emitted(e)' = Emitted(e)
  BY DEF Emitted, Used
<1>2. \A n : Used(n)' = Used(n)
  BY DEF Used
<1>3. \A e \in Past' : Emitted(e) /\ \A k \in DOMAIN wire : Before(e, wire[k].event)
  BY DEF Learns, HonestInv, SentInv, LineInv
<1>4. Undecided' => pc # "idle" /\ pc' # "idle"
  BY DEF Undecided
<1>5. SentInv'
  <2>1. ASSUME Level2, NEW s \in Sessions, NEW v \in sess'[s].decided
        PROVE  Used(v[2])
    <3>1. CASE v \in sess[s].decided
      BY <2>1, <3>1 DEF HonestInv, SentInv
    <3>2. CASE \E e \in Past : v = SignerValue(e)
      BY <2>1, <3>2 DEF HonestInv, SentInv, Emitted, SignerValue
    <3>3. CASE pc # "idle" /\ v = SignerValue(cur.event)
      BY <2>1, <3>3 DEF HonestInv, SentInv, Emitted, SignerValue
    <3> QED
      BY <3>1, <3>2, <3>3 DEF Learns
  <2>2. pc' # "idle" => Own(cur') /\ Emitted(cur'.event)
    BY DEF HonestInv, SentInv
  <2> QED
    BY <1>1, <1>2, <1>3, <2>1, <2>2 DEF SentInv, HonestInv, Own
<1>6. LineInv'
  <2>1. Undecided' => \A e \in Past' : Before(e, cur.event)
    BY DEF Learns, HonestInv, LineInv
  <2> QED
    BY <1>3, <1>4, <2>1 DEF LineInv, HonestInv, Before
<1>7. ValuesInv'
  <2>1. ASSUME Level2, NEW s \in Sessions, NEW v \in sess'[s].decided
        PROVE  /\ \A k \in DOMAIN wire : v[2] < wire[k].event.sseq
               /\ Undecided' => v[2] < cur.event.sseq
    <3>1. CASE v \in sess[s].decided
      BY <2>1, <3>1 DEF HonestInv, ValuesInv
    <3>2. CASE \E e \in Past : v = SignerValue(e)
      BY <2>1, <3>2 DEF HonestInv, LineInv, Before, SignerValue
    <3>3. CASE pc # "idle" /\ ~Undecided' /\ v = SignerValue(cur.event)
      BY <2>1, <3>3 DEF HonestInv, LineInv, Before, SignerValue
    <3> QED
      BY <3>1, <3>2, <3>3 DEF Learns
  <2> QED
    BY <1>4, <2>1 DEF ValuesInv
<1>8. OutcomesEnd'
  BY DEF Learns, HonestInv, OutcomesEnd
<1> QED
  BY <1>5, <1>6, <1>7, <1>8 DEF HonestInv

\* Deciding an event adds its value, and accounting it an outcome if it is one.
LEMMA DecidedAdds ==
  ASSUME sess \in [Sessions -> SessionSpace], NEW e \in Events, NEW s \in Sessions
  PROVE  /\ Decide(sess, e)[s].decided \subseteq sess[s].decided \union {SignerValue(e)}
         /\ Decide(sess, e)[s].outcomes = sess[s].outcomes
         /\ Heard(e)[s].decided = sess[s].decided
         /\ Heard(e)[s].outcomes = sess[s].outcomes
  BY EventsAssumption, HeardDecided, DecideKeeps, HeardKeeps DEF Decide, SessionSpace, EventSpace

LEMMA AccountEnds ==
  ASSUME NEW st \in [Sessions -> SessionSpace], NEW e \in Events, NEW s \in Sessions
  PROVE  /\ Account(st, e)[s].decided = st[s].decided
         /\ \A f \in Account(st, e)[s].outcomes : f \in st[s].outcomes \/ ~IsAttempt(f)
<1>1. e.session \in Sessions /\ e.id \in OpIds
  BY EventsAssumption DEF EventSpace
<1>2. \A f \in Account(st, e)[s].outcomes : f \in st[s].outcomes \/ ~IsAttempt(f)
  BY <1>1 DEF Account, SessionSpace
<1> QED
  BY <1>2, AccountDecided

LEMMA SealedLearns ==
  ASSUME sess \in [Sessions -> SessionSpace], NEW e \in Events, NEW s \in Sessions
  PROVE  /\ Account(Decide(sess, e), e)[s].decided \subseteq sess[s].decided \union {SignerValue(e)}
         /\ \A f \in Account(Decide(sess, e), e)[s].outcomes : f \in sess[s].outcomes \/ ~IsAttempt(f)
<1>1. PICK st \in [Sessions -> SessionSpace] : st = Decide(sess, e)
  BY DecideType
<1> QED
  BY <1>1, DecidedAdds, AccountEnds

\* Steps that decide nothing.
LEMMA LearnsNothing ==
  ASSUME UNCHANGED <<stored, inflight>>,
         \A s \in Sessions : /\ sess'[s].decided \subseteq sess[s].decided
                             /\ sess'[s].outcomes \subseteq sess[s].outcomes
  PROVE  Learns
  BY DEF Learns, Past

\* A refusal on the merits decides the request's own value.
LEMMA RefuseLearns ==
  ASSUME CallInv, NEW kind, pc = "handle", Refuse(kind)
  PROVE  Learns
<1>1. cur.event \in Events /\ sess \in [Sessions -> SessionSpace] /\ pc' = "answer"
  BY DEF CallInv, HostInv, TypeOK, Requests, Refuse, Answer
<1>2. PICK st \in [Sessions -> SessionSpace] : st = Heard(cur.event)
  BY <1>1, HeardType
<1>3. ASSUME NEW s \in Sessions
      PROVE  /\ sess'[s].decided \subseteq sess[s].decided \union {SignerValue(cur.event)}
             /\ sess'[s].outcomes = sess[s].outcomes
  <2>1. sess' = Decide(st, cur.event)
    BY <1>2 DEF Refuse
  <2>2. st[s].decided = sess[s].decided /\ st[s].outcomes = sess[s].outcomes
    BY <1>1, <1>2, DecidedAdds
  <2>3. /\ Decide(st, cur.event)[s].decided \subseteq st[s].decided \union {SignerValue(cur.event)}
        /\ Decide(st, cur.event)[s].outcomes = st[s].outcomes
    BY <1>1, DecideKeeps, EventsAssumption DEF Decide, SessionSpace, EventSpace
  <2> QED
    BY <2>1, <2>2, <2>3
<1>4. UNCHANGED <<stored, inflight>> /\ ~Undecided' /\ pc # "idle"
  BY <1>1 DEF Refuse, Undecided
<1> QED
  BY <1>3, <1>4 DEF Learns, Past

\* _settle_tail: an adopted record is one of the ledger's.
LEMMA HonestSettle ==
  ASSUME CallInv, HonestInv, Settle, UNCHANGED toolVars
  PROVE  HonestInv'
<1>1. /\ pc = "settle" /\ pc' \in {"handle", "answer"} /\ UNCHANGED <<cur, stored, inflight>>
  BY DEF Settle, SettleUnreadable, SettleAdopt, SettleForeign, SettleUnchanged, FailClosed, Answer
<1>2. Learns
  <2>1. CASE SettleAdopt
    <3>1. stored \in Seq(RecordSpace) /\ sess \in [Sessions -> SessionSpace] /\ count \in Nat
      BY DEF CallInv, HostInv, TypeOK
    <3>2. count + 1 \in DOMAIN stored
      BY <2>1, <3>1 DEF SettleAdopt, Landed
    <3>3. PICK r \in RecordSpace : r = stored[count + 1]
      BY <3>1, <3>2
    <3>4. r.event \in Events
      BY DEF RecordSpace
    <3>5. r.event \in Past
      BY <3>1, <3>2, <3>3, RangeType DEF Past, EventsOf
    <3>6. sess' = Account(Decide(sess, r.event), r.event) \/ sess' = sess
      BY <2>1, <3>3 DEF SettleAdopt
    <3>7. ASSUME NEW s \in Sessions
          PROVE  /\ sess'[s].decided \subseteq sess[s].decided \union {SignerValue(r.event)}
                 /\ \A f \in sess'[s].outcomes : f \in sess[s].outcomes \/ ~IsAttempt(f)
      BY <3>1, <3>4, <3>6, SealedLearns
    <3> QED
      BY <1>1, <3>5, <3>7 DEF Learns, Past
  <2>2. CASE SettleUnreadable \/ SettleForeign \/ SettleUnchanged
    BY <1>1, <2>2, LearnsNothing DEF SettleUnreadable, SettleForeign, SettleUnchanged
  <2> QED
    BY <2>1, <2>2 DEF Settle
<1> QED
  BY <1>1, <1>2, HonestKept DEF Undecided, toolVars

\* Handlers that end undecided, or go on to seal, leave the values decided alone.
LEMMA HonestUndecided ==
  ASSUME CallInv, HonestInv, UNCHANGED toolVars,
         \/ Interrupt \/ RefuseUnadmitted \/ RefuseUnverified \/ FailUnavailable \/ CountersignFailed
         \/ SealInterrupted \/ AppendFailed \/ RepeatAttempt \/ RepeatOutcome \/ BeginSeal \/ Countersign
  PROVE  HonestInv'
<1>0. cur \in Requests /\ cur.event \in Events /\ sess \in [Sessions -> SessionSpace] /\ pc # "idle"
  <2>1. pc # "idle"
    BY DEF Interrupt, RefuseUnadmitted, RefuseUnverified, FailUnavailable, CountersignFailed, SealInterrupted,
       AppendFailed, RepeatAttempt, RepeatOutcome, BeginSeal, Countersign, SealableAttempt, SealableOutcome,
       FreshAttempt, FirstOutcome, Deciding
  <2> QED
    BY <2>1 DEF CallInv, HostInv, TypeOK, Requests
<1>1. ASSUME NEW s \in Sessions
      PROVE  Heard(cur.event)[s].decided = sess[s].decided /\ Heard(cur.event)[s].outcomes = sess[s].outcomes
  BY <1>0, DecidedAdds
<1>2. CASE \/ Interrupt \/ RefuseUnadmitted \/ RefuseUnverified \/ CountersignFailed \/ SealInterrupted \/ AppendFailed
  <2>1. pc' = "answer" /\ UNCHANGED <<cur, stored, inflight, sess>>
    BY <1>2 DEF Interrupt, RefuseUnadmitted, RefuseUnverified, CountersignFailed, SealInterrupted, AppendFailed,
       FailClosed, Raised, Answer
  <2>2. Learns
    BY <2>1, LearnsNothing
  <2> QED
    BY <1>0, <2>1, <2>2, HonestKept DEF Undecided, toolVars
<1>3. CASE FailUnavailable \/ RepeatAttempt \/ RepeatOutcome
  <2>1. pc' = "answer" /\ UNCHANGED <<cur, stored, inflight>>
    BY <1>3 DEF FailUnavailable, Leave, RepeatAttempt, RepeatOutcome, FailClosed, Answer
  <2>2. ASSUME NEW s \in Sessions
        PROVE  sess'[s].decided = sess[s].decided /\ sess'[s].outcomes = sess[s].outcomes
    <3>1. CASE RepeatAttempt
      <4>1. PICK st \in [Sessions -> SessionSpace] : st = Heard(cur.event)
        BY <1>0, HeardType
      <4>2. sess' = [st EXCEPT ![cur.event.session].accepted = @ \union {cur.event.id}]
        BY <3>1, <4>1 DEF RepeatAttempt
      <4>3. sess'[s].decided = st[s].decided /\ sess'[s].outcomes = st[s].outcomes
        BY <4>2 DEF SessionSpace
      <4> QED
        BY <1>1, <4>1, <4>3
    <3>2. CASE FailUnavailable \/ RepeatOutcome
      BY <1>1, <3>2 DEF FailUnavailable, Leave, RepeatOutcome
    <3> QED
      BY <1>3, <3>1, <3>2
  <2>3. Learns
    BY <2>1, <2>2, LearnsNothing
  <2> QED
    BY <1>0, <2>1, <2>3, HonestKept DEF Undecided, toolVars
<1>4. CASE BeginSeal \/ Countersign
  <2>1. pc' \in {"sign", "append"} /\ UNCHANGED <<cur, stored>>
    BY <1>4 DEF BeginSeal, Countersign
  <2>2. \A r \in inflight' : r \in inflight \/ r.event = cur.event
    <3>1. CASE BeginSeal
      BY <3>1 DEF BeginSeal, SealRecord
    <3>2. CASE Countersign
      BY <3>2 DEF Countersign, CallInv, AnswerInv
    <3> QED
      BY <1>4, <3>1, <3>2
  <2>3. ASSUME NEW s \in Sessions
        PROVE  sess'[s].decided = sess[s].decided /\ sess'[s].outcomes = sess[s].outcomes
    BY <1>1, <1>4 DEF BeginSeal, Countersign
  <2>4. Learns
    BY <1>0, <2>1, <2>2, <2>3 DEF Learns, Past, Undecided
  <2> QED
    BY <1>0, <2>1, <2>4, HonestKept DEF Undecided, toolVars
<1> QED
  BY <1>2, <1>3, <1>4

\* The ledger grows by one record's event.
LEMMA AppendEvents ==
  ASSUME NEW chain \in Seq(RecordSpace), NEW r \in RecordSpace
  PROVE  EventsOf(Append(chain, r)) \subseteq EventsOf(chain) \union {r.event}
<1>0. Append(chain, r) \in Seq(RecordSpace)
  OBVIOUS
<1>1. PICK longer \in Seq(RecordSpace) : longer = Append(chain, r)
  BY <1>0
<1>2. Range(longer) = {longer[n] : n \in 1..Len(longer)} /\ Range(chain) = {chain[n] : n \in 1..Len(chain)}
  BY RangeType
<1>3. \A n \in 1..Len(longer) : longer[n] = r \/ (n \in 1..Len(chain) /\ longer[n] = chain[n])
  BY <1>1
<1>4. Range(longer) \subseteq Range(chain) \union {r}
  BY <1>2, <1>3
<1> QED
  BY <1>1, <1>4 DEF EventsOf

\* Ledger.commit: the request is decided, and in the ledger.
LEMMA HonestCommit ==
  ASSUME CallInv, HonestInv, Commit, UNCHANGED toolVars
  PROVE  HonestInv'
<1>1. /\ pc = "append" /\ pc' = "answer" /\ UNCHANGED <<cur, inflight>>
      /\ stored' = stored \/ stored' = Append(stored, pending)
      /\ sess' = Account(Decide(sess, pending.event), pending.event)
  BY DEF Commit, Answer
<1>2. /\ pending \in RecordSpace /\ pending.event \in Events /\ pending.event = cur.event
      /\ stored \in Seq(RecordSpace) /\ sess \in [Sessions -> SessionSpace]
  BY <1>1 DEF CallInv, HostInv, TypeOK, AnswerInv, RecordSpace
<1>3. EventsOf(stored') \subseteq EventsOf(stored) \union {cur.event}
  <2>1. CASE stored' = stored
    BY <2>1
  <2>2. CASE stored' = Append(stored, pending)
    BY <1>2, <2>2, AppendEvents
  <2> QED
    BY <1>1, <2>1, <2>2
<1>4. ASSUME NEW s \in Sessions
      PROVE  /\ sess'[s].decided \subseteq sess[s].decided \union {SignerValue(cur.event)}
             /\ \A f \in sess'[s].outcomes : f \in sess[s].outcomes \/ ~IsAttempt(f)
  BY <1>1, <1>2, SealedLearns
<1>5. Learns
  BY <1>1, <1>3, <1>4 DEF Learns, Past, Undecided
<1> QED
  BY <1>1, <1>5, HonestKept DEF Undecided, toolVars

\* The handlers of the host, whatever they decide.
LEMMA HonestHolder ==
  ASSUME CallInv, HonestInv, Holder, UNCHANGED toolVars
  PROVE  HonestInv'
<1>1. CASE RefuseConcluded \/ RefuseReplayedAttempt \/ RefuseSecondOutcome \/ RefuseReplayedOutcome \/ RefuseOrphan
  <2>1. pc = "handle" /\ \E kind \in Kinds : Refuse(kind)
    BY <1>1 DEF RefuseConcluded, RefuseReplayedAttempt, RefuseSecondOutcome, RefuseReplayedOutcome, RefuseOrphan,
       FreshAttempt, FirstOutcome, Deciding, Kinds
  <2>2. Learns
    BY <2>1, RefuseLearns
  <2>3. pc' = "answer" /\ UNCHANGED cur
    BY <2>1 DEF Refuse, Answer
  <2> QED
    BY <2>1, <2>2, <2>3, HonestKept DEF Undecided, toolVars
<1>2. CASE Settle \/ Commit
  BY <1>2, HonestSettle, HonestCommit
<1>3. CASE \/ Interrupt \/ RefuseUnadmitted \/ RefuseUnverified \/ FailUnavailable \/ CountersignFailed
           \/ SealInterrupted \/ AppendFailed \/ RepeatAttempt \/ RepeatOutcome \/ BeginSeal \/ Countersign
  BY <1>3, HonestUndecided
<1> QED
  BY <1>1, <1>2, <1>3 DEF Holder, DecideAttempt, DecideOutcome, Seal

\* The host takes up the first request of the wire: what precedes it precedes the rest too.
LEMMA HonestTakes ==
  ASSUME CallInv, HonestInv, HostTakes
  PROVE  HonestInv'
<1>1. /\ wire \in Seq(Requests) /\ wire # <<>> /\ wire' = Tail(wire) /\ cur' = wire[1]
      /\ UNCHANGED <<next, section, stage, todo, stored, inflight, sess>>
      /\ pc' # "idle"
  BY DEF HostTakes, TakeUp, Expire, CallInv, ToolInv, CallTypeOK
<1>2. /\ 1 \in DOMAIN wire
      /\ \A k \in DOMAIN wire' : k + 1 \in DOMAIN wire /\ wire'[k] = wire[k + 1] /\ 1 < k + 1
      /\ \A j, k \in DOMAIN wire' : j < k => j + 1 < k + 1
  BY <1>1
<1>3. (\A e : Emitted(e)' = Emitted(e)) /\ (\A n : Used(n)' = Used(n)) /\ Past' = Past
  BY <1>1 DEF Emitted, Used, Past
<1>4. SentInv'
  BY <1>1, <1>2, <1>3 DEF HonestInv, SentInv, Own
<1>5. LineInv'
  BY <1>1, <1>2, <1>3 DEF HonestInv, LineInv, Before
<1>6. ValuesInv'
  BY <1>1, <1>2 DEF HonestInv, ValuesInv
<1>7. OutcomesEnd'
  BY <1>1 DEF HonestInv, OutcomesEnd
<1> QED
  BY <1>4, <1>5, <1>6, <1>7 DEF HonestInv

\* The answer handed over, the store's own steps, and the session opened and closed.
LEMMA HonestAround ==
  ASSUME CallInv, HonestInv, UNCHANGED <<next, section, stage, todo, wire>>,
         \/ StoreStep \/ OpenCall \/ CloseCall \/ UNCHANGED callVars
  PROVE  HonestInv'
<1>1. UNCHANGED <<pc, cur>>
  BY DEF StoreStep, StoreLand, StoreLose, OpenCall, OpenSession, CloseCall, CloseSession, callVars, hostVars
<1>2. CASE StoreStep
  <2>1. PICK r \in inflight : StoreLand(r) \/ StoreLose(r)
    BY <1>2 DEF StoreStep
  <2>2. r \in RecordSpace /\ stored \in Seq(RecordSpace)
    BY <2>1 DEF CallInv, HostInv, TypeOK
  <2>3. stored' = stored \/ stored' = Append(stored, r)
    BY <2>1 DEF StoreLand, StoreLose
  <2>4. inflight' \subseteq inflight /\ sess' = sess
    BY <2>1 DEF StoreLand, StoreLose
  <2>5. EventsOf(stored') \subseteq EventsOf(stored) \union {r.event}
    BY <2>2, <2>3, AppendEvents
  <2>6. Past' \subseteq Past
    BY <2>1, <2>4, <2>5 DEF Past
  <2>7. Learns
    BY <2>4, <2>6 DEF Learns
  <2> QED
    BY <1>1, <2>7, HonestKept DEF Undecided
<1>3. CASE OpenCall \/ CloseCall \/ UNCHANGED callVars
  <2>1. UNCHANGED <<stored, inflight>>
    BY <1>3 DEF OpenCall, OpenSession, CloseCall, CloseSession, callVars, hostVars
  <2>2. sess' = sess \/ sess' = [sess EXCEPT ![TheSession] = NewSession]
    BY <1>3 DEF OpenCall, OpenSession, CloseCall, CloseSession, callVars, hostVars
  <2>3. ASSUME NEW s \in Sessions
        PROVE  sess'[s].decided \subseteq sess[s].decided /\ sess'[s].outcomes \subseteq sess[s].outcomes
    <3>1. sess \in [Sessions -> SessionSpace]
      BY DEF CallInv, HostInv, TypeOK
    <3>2. sess'[s] = sess[s] \/ sess'[s] = NewSession
      BY <2>2, <3>1
    <3> QED
      BY <3>2 DEF NewSession
  <2>4. Learns
    BY <2>1, <2>3, LearnsNothing
  <2> QED
    BY <1>1, <2>4, HonestKept DEF Undecided
<1> QED
  BY <1>2, <1>3

-----------------------------------------------------------------------------
(* The tool's steps: what was sent stays sent, and only the new is numbered. *)

\* One action moves on from where it stands: no number is given back, no event sent again.
Advances(op, where, what) ==
  /\ Become(op, where, what)
  /\ stage[op] # "done" /\ where # "new"
  /\ where \in {"claim", "sign"} /\ what = "attempted" =>
       stage[op] = "new" \/ (stage[op] = "claim" /\ todo[op] = "attempted")
  /\ Level2 => /\ next' = next \/ next' = next + 1
               /\ stage[op] = "sent" => next' = next + 1
               /\ section \in {op, NoOp} \/ UNCHANGED <<next, section>>

LEMMA UsedStays ==
  ASSUME CallInv, Level2, NEW op \in OpIds, NEW where \in Stages, NEW what \in Outcomes,
         Advances(op, where, what), NEW n \in Nat, Used(n)
  PROVE  Used(n)'
<1>1. next \in Nat /\ section \in OpIds \union {NoOp} /\ stage \in [OpIds -> Stages]
  BY DEF CallInv, ToolInv, CallTypeOK
<1>2. CASE n < next
  BY <1>1, <1>2 DEF Advances, Used
<1>3. CASE n = next /\ section = op /\ stage[section] = "sent"
  BY <1>1, <1>3 DEF Advances, Used
<1>4. CASE n = next /\ section # NoOp /\ section # op /\ stage[section] = "sent"
  <2>1. UNCHANGED <<next, section>>
    BY <1>4 DEF Advances
  <2>2. stage'[section] = stage[section]
    BY <1>1, <1>4 DEF Advances, Become
  <2> QED
    BY <1>4, <2>1, <2>2 DEF Used
<1> QED
  BY <1>2, <1>3, <1>4 DEF Used

LEMMA EmittedStays ==
  ASSUME CallInv, NEW op \in OpIds, NEW where \in Stages, NEW what \in Outcomes,
         Advances(op, where, what), NEW e \in Events, Emitted(e)
  PROVE  Emitted(e)'
<1>1. e.sseq \in Nat /\ e.id \in OpIds
  BY EventsAssumption DEF EventSpace
<1>2. stage \in [OpIds -> Stages] /\ todo \in [OpIds -> Outcomes]
  BY DEF CallInv, ToolInv, CallTypeOK
<1>3. Level2 => Used(e.sseq)'
  BY <1>1, UsedStays DEF Emitted
<1>4. CASE e.id # op
  <2>1. stage'[e.id] = stage[e.id] /\ todo'[e.id] = todo[e.id]
    BY <1>1, <1>2, <1>4 DEF Advances, Become
  <2> QED
    BY <1>1, <1>3, <2>1 DEF Emitted
<1>5. CASE e.id = op
  <2>1. stage'[op] = where /\ todo'[op] = what
    BY <1>2 DEF Advances, Become
  <2>2. IsAttempt(e)
    BY <1>5 DEF Emitted, Advances
  <2> QED
    BY <1>1, <1>3, <1>5, <2>1, <2>2 DEF Emitted, Advances
<1> QED
  BY <1>4, <1>5

\* What the tool or the host holds are events, and their numbers naturals.
LEMMA HeldTypes ==
  ASSUME CallInv
  PROVE  /\ \A k \in DOMAIN wire : wire[k] \in Requests /\ wire[k].event \in Events
         /\ pc # "idle" => cur.event \in Events
         /\ Past \subseteq Events
         /\ \A s \in Sessions : \A v \in sess[s].decided : v[2] \in Nat
<1>1. \A k \in DOMAIN wire : wire[k] \in Requests /\ wire[k].event \in Events
  <2>1. \A q \in Requests : q.event \in Events
    BY DEF Requests
  <2>2. \A k \in DOMAIN wire : wire[k] \in Requests
    BY DEF CallInv, ToolInv, CallTypeOK
  <2> QED
    BY <2>1, <2>2
<1>2. pc # "idle" => cur.event \in Events
  BY DEF CallInv, HostInv, TypeOK, Requests
<1>3. Past \subseteq Events
  BY RangeType DEF CallInv, HostInv, TypeOK, Past, RecordSpace
<1>4. ASSUME NEW s \in Sessions, NEW v \in sess[s].decided
      PROVE  v[2] \in Nat
  <2>1. v \in SignerValues
    BY DEF CallInv, HostInv, TypeOK, SessionSpace
  <2> QED
    BY <2>1, EventsAssumption DEF SignerValues
<1> QED
  BY <1>1, <1>2, <1>3, <1>4

\* An action moves and puts nothing on the wire.
LEMMA HonestMoves ==
  ASSUME CallInv, HonestInv, NEW op \in OpIds, NEW where \in Stages, NEW what \in Outcomes,
         Advances(op, where, what), UNCHANGED <<stored, inflight, sess, wire>>,
         UNCHANGED <<pc, cur>> \/ pc' = "idle"
  PROVE  HonestInv'
<1>1. Past' = Past /\ (Undecided' => Undecided /\ UNCHANGED cur) /\ (pc' # "idle" => UNCHANGED <<pc, cur>>)
  BY DEF Past, Undecided
<1>2. SentInv'
  <2>1. \A k \in DOMAIN wire : Emitted(wire[k].event)'
    BY HeldTypes, EmittedStays DEF HonestInv, SentInv
  <2>2. pc' # "idle" => Own(cur) /\ Emitted(cur.event)'
    <3>1. ASSUME pc' # "idle"
          PROVE  cur.event \in Events /\ Own(cur) /\ Emitted(cur.event) /\ UNCHANGED cur
      BY <1>1, <3>1, HeldTypes DEF HonestInv, SentInv
    <3> QED
      BY <3>1, EmittedStays
  <2>3. \A e \in Past : Emitted(e)'
    BY HeldTypes, EmittedStays DEF HonestInv, SentInv
  <2>4. Level2 => \A s \in Sessions : \A v \in sess[s].decided : Used(v[2])'
    BY HeldTypes, UsedStays DEF HonestInv, SentInv
  <2> QED
    BY <1>1, <2>1, <2>2, <2>3, <2>4 DEF SentInv, HonestInv, Own
<1>3. LineInv'
  BY <1>1 DEF HonestInv, LineInv, Before
<1>4. ValuesInv'
  BY <1>1 DEF HonestInv, ValuesInv
<1>5. OutcomesEnd'
  BY DEF HonestInv, OutcomesEnd
<1> QED
  BY <1>2, <1>3, <1>4, <1>5 DEF HonestInv

\* What an action emits comes after everything sent, under a number nobody used.
LEMMA NewIsLast ==
  ASSUME CallInv, NEW op \in OpIds, stage[op] = "sign"
  PROVE  /\ \A f \in Events : Emitted(f) => Before(f, Emission(op))
         /\ Level2 => \A n \in Nat : Used(n) => n < Emission(op).sseq
<1>1. Level2 => section = op
  BY DEF CallInv, ToolInv, CallTypeOK
<1>2. ASSUME Level2, NEW n \in Nat, Used(n)
      PROVE  n < Emission(op).sseq
  BY <1>1, <1>2 DEF Used, Emission, EventOf
<1>3. ASSUME NEW f \in Events, Emitted(f)
      PROVE  Before(f, Emission(op))
  <2>1. f.sseq \in Nat
    BY EventsAssumption DEF EventSpace
  <2>2. Level2 => f.sseq < Emission(op).sseq
    BY <1>2, <1>3, <2>1 DEF Emitted
  <2>3. Emission(op).id = op /\ (IsAttempt(Emission(op)) <=> todo[op] = "attempted")
    BY DEF Emission, EventOf, IsAttempt
  <2>4. CASE f.id = op
    BY <1>3, <2>2, <2>3, <2>4 DEF Emitted, Before
  <2>5. CASE f.id # op
    BY <2>2, <2>3, <2>5 DEF Before
  <2> QED
    BY <2>4, <2>5
<1> QED
  BY <1>2, <1>3

\* Its event sent, an action has numbered it and moved on from its emission.
LEMMA SendEmits ==
  ASSUME CallInv, NEW op \in OpIds, Send(op)
  PROVE  /\ \E where \in Stages : Advances(op, where, todo[op])
         /\ \E e \in Events : /\ e = Emission(op) /\ Emitted(e)' /\ Own(AsRequest(e))
                              /\ wire' = Append(wire, AsRequest(e))
<1>1. /\ next \in Nat /\ stage \in [OpIds -> Stages] /\ todo \in [OpIds -> Outcomes] /\ op # NoOp
      /\ Level2 => section = op
  BY SessionAssumption DEF CallInv, ToolInv, CallTypeOK, Send
<1>2. PICK where \in {"sent", "done"} :
        /\ Become(op, where, todo[op]) /\ (where = "sent" <=> todo[op] = "attempted")
        /\ Level2 => IF where = "sent" THEN UNCHANGED <<next, section>> ELSE next' = next + 1
  BY DEF Send, Release
<1>3. Advances(op, where, todo[op])
  BY <1>1, <1>2 DEF Advances, Send
<1>4. AsRequest(Emission(op)) \in Requests
  BY EmissionType DEF CallInv, Send
<1>5. PICK e \in Events : e = Emission(op)
  BY <1>4 DEF AsRequest, Requests
<1>6. e.id = op /\ (IsAttempt(e) <=> todo[op] = "attempted") /\ (Level2 => e.sseq = next) /\ e.session = TheSession
  BY <1>5 DEF Emission, EventOf, IsAttempt
<1>7. stage'[op] = where /\ todo'[op] = todo[op]
  BY <1>1, <1>2 DEF Become
<1>8. Level2 => Used(e.sseq)'
  BY <1>1, <1>2, <1>6, <1>7 DEF Used
<1>9. Emitted(e)'
  BY <1>2, <1>6, <1>7, <1>8 DEF Emitted
<1>10. Own(AsRequest(e)) /\ wire' = Append(wire, AsRequest(e))
  BY <1>5, <1>6 DEF Own, AsRequest, Send
<1> QED
  BY <1>2, <1>3, <1>5, <1>9, <1>10 DEF Stages

\* The event just sent is the last of the line.
LEMMA HonestSend ==
  ASSUME CallInv, HonestInv, NEW op \in OpIds, Send(op)
  PROVE  HonestInv'
<1>1. PICK where \in Stages : Advances(op, where, todo[op])
  BY SendEmits
<1>2. PICK e \in Events : /\ e = Emission(op) /\ Emitted(e)' /\ Own(AsRequest(e))
                          /\ wire' = Append(wire, AsRequest(e))
  BY SendEmits
<1>3. /\ \A f \in Events : Emitted(f) => Before(f, e) /\ Emitted(f)'
      /\ Level2 => \A n \in Nat : Used(n) => n < e.sseq /\ Used(n)'
  <2>1. todo[op] \in Outcomes /\ stage[op] = "sign"
    BY DEF CallInv, ToolInv, CallTypeOK, Send
  <2>2. \A f \in Events : Emitted(f) => Emitted(f)'
    BY <1>1, <2>1, EmittedStays
  <2>3. Level2 => \A n \in Nat : Used(n) => Used(n)'
    BY <1>1, <2>1, UsedStays
  <2> QED
    BY <1>2, <2>1, <2>2, <2>3, NewIsLast
<1>4. /\ DOMAIN wire = 1..Len(wire) /\ Len(wire) \in Nat /\ DOMAIN wire' = 1..(Len(wire) + 1)
      /\ \A k \in DOMAIN wire : wire'[k] = wire[k]
      /\ wire'[Len(wire) + 1] = AsRequest(e)
  <2>1. wire \in Seq(Requests) /\ AsRequest(e) \in Requests
    BY <1>2, EmissionType DEF CallInv, ToolInv, CallTypeOK, Send
  <2> QED
    BY <1>2, <2>1
<1>5. AsRequest(e).event = e
  BY DEF AsRequest
<1>6. \A k \in DOMAIN wire' : k \in DOMAIN wire \/ k = Len(wire) + 1
  BY <1>4
<1>7. UNCHANGED <<stored, inflight, sess, pc, cur>> /\ Past' = Past /\ Undecided' = Undecided
  BY DEF Send, hostVars, Past, Undecided
<1>8. \A k \in DOMAIN wire : wire[k].event \in Events /\ Emitted(wire[k].event)
  BY HeldTypes DEF HonestInv, SentInv
<1>9. \A f \in Past : f \in Events /\ Emitted(f)
  BY HeldTypes DEF HonestInv, SentInv
<1>10. pc # "idle" => cur.event \in Events /\ Own(cur) /\ Emitted(cur.event)
  BY HeldTypes DEF HonestInv, SentInv
<1>11. Level2 => \A s \in Sessions : \A v \in sess[s].decided : v[2] \in Nat /\ Used(v[2])
  BY HeldTypes DEF HonestInv, SentInv
<1>12. SentInv'
  <2>1. ASSUME NEW k \in DOMAIN wire'
        PROVE  Own(wire[k])' /\ Emitted(wire[k].event)'
    <3>1. CASE k \in DOMAIN wire
      <4>1. Own(wire[k]) /\ Emitted(wire[k].event)' /\ wire'[k] = wire[k]
        <5>1. PICK f \in Events : f = wire[k].event /\ Emitted(f)
          BY <1>8, <3>1
        <5>2. Emitted(f)'
          BY <1>3, <5>1
        <5> QED
          BY <1>4, <3>1, <5>1, <5>2 DEF HonestInv, SentInv, Emitted, Used
      <4> QED
        BY <4>1 DEF Own
    <3>2. CASE k = Len(wire) + 1
      <4>1. wire'[k] = AsRequest(e) /\ wire'[k].event = e
        BY <1>4, <1>5, <3>2
      <4> QED
        BY <1>2, <4>1 DEF Own, Emitted, Used
    <3> QED
      BY <1>6, <3>1, <3>2
  <2>2. pc' # "idle" => Own(cur)' /\ Emitted(cur.event)'
    <3>1. ASSUME pc # "idle"
          PROVE  Own(cur) /\ Emitted(cur.event)'
      <4>1. PICK f \in Events : f = cur.event /\ Emitted(f)
        BY <1>10, <3>1
      <4>2. Emitted(f)'
        BY <1>3, <4>1
      <4> QED
        BY <1>7, <1>10, <3>1, <4>1, <4>2 DEF Emitted, Used
    <3> QED
      BY <1>7, <3>1 DEF Own
  <2>3. \A f \in Past' : Emitted(f)'
    BY <1>3, <1>7, <1>9
  <2>4. Level2 => \A s \in Sessions : \A v \in sess'[s].decided : Used(v[2])'
    BY <1>3, <1>7, <1>11
  <2> QED
    BY <2>1, <2>2, <2>3, <2>4 DEF SentInv, Own
<1>13. LineInv'
  <2>1. ASSUME NEW j \in DOMAIN wire', NEW k \in DOMAIN wire', j < k
        PROVE  Before(wire'[j].event, wire'[k].event)
    <3>1. j \in DOMAIN wire
      BY <1>4, <2>1
    <3>2. CASE k \in DOMAIN wire
      BY <1>4, <2>1, <3>1, <3>2 DEF HonestInv, LineInv
    <3>3. CASE k = Len(wire) + 1
      BY <1>3, <1>4, <1>5, <1>8, <3>1, <3>3
    <3> QED
      BY <1>6, <3>2, <3>3
  <2>2. pc # "idle" => \A k \in DOMAIN wire' : Before(cur.event, wire'[k].event)
    BY <1>3, <1>4, <1>5, <1>6, <1>10 DEF HonestInv, LineInv
  <2>3. \A f \in Past : \A k \in DOMAIN wire' : Before(f, wire'[k].event)
    BY <1>3, <1>4, <1>5, <1>6, <1>9 DEF HonestInv, LineInv
  <2>4. Undecided => \A f \in Past : Before(f, cur.event)
    BY DEF HonestInv, LineInv
  <2> QED
    BY <1>7, <2>1, <2>2, <2>3, <2>4 DEF LineInv, Before
<1>14. ValuesInv'
  <2>1. ASSUME Level2, NEW s \in Sessions, NEW v \in sess[s].decided, NEW k \in DOMAIN wire'
        PROVE  v[2] < wire'[k].event.sseq
    BY <1>3, <1>4, <1>5, <1>6, <1>11, <2>1 DEF HonestInv, ValuesInv
  <2> QED
    BY <1>7, <2>1 DEF HonestInv, ValuesInv
<1>15. OutcomesEnd'
  BY <1>7 DEF HonestInv, OutcomesEnd
<1> QED
  BY <1>12, <1>13, <1>14, <1>15 DEF HonestInv

\* Every other step of an action, but its cancellation, moves it on and sends nothing.
LEMMA HonestActs ==
  ASSUME CallInv, HonestInv, NEW op \in OpIds,
         \/ Begin(op) \/ Claim(op) \/ SignerFailed(op) \/ SendLost(op) \/ TimedOut(op) \/ Act(op)
  PROVE  HonestInv'
<1>1. /\ stage[op] \in Stages /\ todo[op] \in Outcomes /\ next \in Nat /\ section \in OpIds \union {NoOp}
      /\ Level2 => (section = op <=> stage[op] \in {"sign", "sent"})
  BY DEF CallInv, ToolInv, CallTypeOK
<1>2. UNCHANGED <<stored, inflight, sess, pc, cur, wire>>
  BY DEF Begin, Claim, SignerFailed, SendLost, TimedOut, Act, Cleared, Distrusted, Finish, hostVars
<1>3. \E where \in Stages : \E what \in Outcomes : Advances(op, where, what)
  <2>1. CASE Begin(op)
    <3>1. Advances(op, "claim", "attempted")
      BY <1>1, <2>1 DEF Begin, Advances
    <3> QED
      BY <3>1 DEF Stages, Outcomes
  <2>2. CASE Claim(op)
    <3>1. Advances(op, "sign", todo[op])
      BY <1>1, <2>2 DEF Claim, Advances
    <3> QED
      BY <1>1, <3>1 DEF Stages
  <2>3. CASE SignerFailed(op) \/ (SendLost(op) /\ todo[op] # "attempted")
    <3>1. Advances(op, "done", todo[op])
      BY <1>1, <2>3 DEF SignerFailed, SendLost, Release, Advances
    <3> QED
      BY <1>1, <3>1 DEF Stages
  <2>4. CASE (SendLost(op) /\ todo[op] = "attempted") \/ TimedOut(op)
    <3>1. Advances(op, "claim", "aborted")
      BY <1>1, <2>4 DEF SendLost, TimedOut, Abort, Release, Advances
    <3> QED
      BY <3>1 DEF Stages, Outcomes
  <2>5. CASE Cleared(op)
    <3>1. Advances(op, "body", todo[op])
      BY <1>1, <2>5 DEF Cleared, Advances
    <3> QED
      BY <1>1, <3>1 DEF Stages
  <2>6. CASE Distrusted(op)
    <3>1. Advances(op, "claim", "aborted")
      BY <1>1, <2>6 DEF Distrusted, Advances
    <3> QED
      BY <3>1 DEF Stages, Outcomes
  <2>7. CASE Finish(op)
    <3>1. PICK o \in {"success", "failed"} : Become(op, "claim", o)
      BY <2>7 DEF Finish
    <3>2. Advances(op, "claim", o)
      BY <1>1, <2>7, <3>1 DEF Finish, Advances
    <3> QED
      BY <3>2 DEF Stages, Outcomes
  <2> QED
    BY <2>1, <2>2, <2>3, <2>4, <2>5, <2>6, <2>7 DEF Act
<1> QED
  BY <1>2, <1>3, HonestMoves

\* The answer moves on who still waits for it, and leaves the number it used behind.
LEMMA HonestAnswered ==
  ASSUME CallInv, HonestInv, Answered
  PROVE  HonestInv'
<1>1. pc' = "idle" /\ pc # "idle" /\ UNCHANGED <<stored, inflight, sess, wire>>
  BY DEF Answered, Deliver
<1>2. CASE Waiting(cur)
  <2>1. PICK op \in OpIds : op = cur.event.id /\ stage[op] = "sent"
    BY <1>1, <1>2, HeldTypes, EventsAssumption DEF EventSpace, Waiting
  <2>2. /\ Level2 => section = op
        /\ next \in Nat
    BY <2>1 DEF CallInv, ToolInv, CallTypeOK
  <2>3. CASE Release(TRUE) /\ Become(op, "check", "attempted")
    <3>1. Advances(op, "check", "attempted")
      BY <2>1, <2>2, <2>3 DEF Release, Advances
    <3> QED
      BY <1>1, <3>1, HonestMoves DEF Stages, Outcomes
  <2>4. CASE Abort(op)
    <3>1. Advances(op, "claim", "aborted")
      BY <2>1, <2>2, <2>4 DEF Abort, Release, Advances
    <3> QED
      BY <1>1, <3>1, HonestMoves DEF Stages, Outcomes
  <2> QED
    BY <1>2, <2>1, <2>3, <2>4 DEF Answered
<1>3. CASE ~Waiting(cur)
  <2>1. UNCHANGED <<next, section, stage, todo, wire>>
    BY <1>3 DEF Answered
  <2>2. Learns
    BY <1>1, LearnsNothing
  <2> QED
    BY <1>1, <2>1, <2>2, HonestKept DEF Undecided
<1> QED
  BY <1>2, <1>3

\* A call stays uncancelled only as long as nobody cancels an action of it, and was so before.
LEMMA StayedUncancelled ==
  ASSUME CallInv, CallNext \/ UNCHANGED callVars, Uncancelled'
  PROVE  Uncancelled /\ ~\E op \in OpIds : Cancel(op)
<1>1. stage \in [OpIds -> Stages]
  BY DEF CallInv, ToolInv, CallTypeOK
<1>2. ASSUME NEW op \in OpIds, Cancel(op)
      PROVE  FALSE
  <2>1. stage'[op] = "cancelled"
    BY <1>1, <1>2 DEF Cancel, Become
  <2> QED
    BY <2>1 DEF Uncancelled
<1>3. ASSUME NEW op \in OpIds, stage[op] = "cancelled"
      PROVE  stage'[op] = "cancelled"
  <2>1. ASSUME NEW p \in OpIds, NEW where, NEW what, stage[p] # "cancelled", Become(p, where, what)
        PROVE  stage'[op] = "cancelled"
    <3>1. p # op
      BY <1>3, <2>1
    <3> QED
      BY <1>1, <1>3, <2>1, <3>1 DEF Become
  <2>2. ASSUME NEW p \in OpIds, Begin(p) \/ Emit(p) \/ TimedOut(p) \/ Act(p) \/ Cancel(p)
        PROVE  stage'[op] = "cancelled"
    BY <2>1, <2>2 DEF Begin, Emit, Claim, SignerFailed, Send, SendLost, TimedOut, Abort, Act, Cleared, Distrusted,
       Finish, Cancel
  <2>3. CASE Answered
    <3>1. CASE Waiting(cur)
      <4>1. PICK p \in OpIds : p = cur.event.id /\ stage[p] = "sent"
        BY <2>3, <3>1, HeldTypes, EventsAssumption DEF Answered, Deliver, EventSpace, Waiting
      <4> QED
        BY <2>1, <2>3, <3>1, <4>1 DEF Answered, Abort
    <3>2. CASE ~Waiting(cur)
      BY <1>3, <2>3, <3>2 DEF Answered
    <3> QED
      BY <3>1, <3>2
  <2>4. CASE HostTakes \/ HostStep \/ StoreStep \/ OpenCall \/ CloseCall \/ UNCHANGED callVars
    BY <1>3, <2>4 DEF HostTakes, HostStep, StoreStep, OpenCall, CloseCall, callVars, toolVars
  <2> QED
    BY <2>2, <2>3, <2>4 DEF CallNext
<1> QED
  BY <1>2, <1>3 DEF Uncancelled

LEMMA HonestNext ==
  ASSUME CallInv, Uncancelled => HonestInv, CallNext \/ UNCHANGED callVars
  PROVE  (Uncancelled => HonestInv)'
<1> SUFFICES ASSUME Uncancelled'
             PROVE  HonestInv'
  OBVIOUS
<1>1. HonestInv /\ ~\E op \in OpIds : Cancel(op)
  BY StayedUncancelled
<1>2. CASE \E op \in OpIds : Begin(op) \/ Emit(op) \/ TimedOut(op) \/ Act(op)
  <2>1. PICK op \in OpIds : Begin(op) \/ Emit(op) \/ TimedOut(op) \/ Act(op)
    BY <1>2
  <2>2. CASE Send(op)
    BY <1>1, <2>2, HonestSend
  <2>3. CASE Begin(op) \/ Claim(op) \/ SignerFailed(op) \/ SendLost(op) \/ TimedOut(op) \/ Act(op)
    BY <1>1, <2>3, HonestActs
  <2> QED
    BY <2>1, <2>2, <2>3 DEF Emit
<1>3. CASE HostTakes
  BY <1>1, <1>3, HonestTakes
<1>4. CASE HostStep
  BY <1>1, <1>4, HonestHolder DEF HostStep
<1>5. CASE Answered
  BY <1>1, <1>5, HonestAnswered
<1>6. CASE StoreStep \/ OpenCall \/ CloseCall \/ UNCHANGED callVars
  <2>1. UNCHANGED <<next, section, stage, todo, wire>>
    BY <1>6 DEF StoreStep, OpenCall, CloseCall, callVars, toolVars
  <2> QED
    BY <1>1, <1>6, <2>1, HonestAround
<1> QED
  BY <1>1, <1>2, <1>3, <1>4, <1>5, <1>6 DEF CallNext

-----------------------------------------------------------------------------
(* What the host takes for a replay.                                       *)

\* A request not yet decided is of no operation the ledger has an outcome or an attempt of under its own kind,
\* and under no value decided.
LEMMA NoReplay ==
  ASSUME CallInv, HonestInv, pc = "handle"
  PROVE  /\ ~Replayed(cur.event)
         /\ IsAttempt(cur.event) => ~Concluded(cur.event)
         /\ OutcomeOf(cur.event.session, cur.event.id) = {}
<1>1. cur.event \in Events /\ cur.event.session \in Sessions /\ cur.event.sseq \in Nat /\ Undecided
  BY EventsAssumption DEF CallInv, HostInv, TypeOK, Requests, EventSpace, Undecided
<1>2. ~Replayed(cur.event)
  <2> SUFFICES ASSUME Replayed(cur.event)
               PROVE  FALSE
    OBVIOUS
  <2>1. Level2 /\ SignerValue(cur.event) \in sess[cur.event.session].decided
    BY DEF Replayed
  <2>2. SignerValue(cur.event)[2] < cur.event.sseq
    BY <1>1, <2>1 DEF HonestInv, ValuesInv
  <2> QED
    BY <1>1, <2>2 DEF SignerValue
<1>3. \A e \in EventsOf(stored) : Before(e, cur.event)
  BY <1>1 DEF HonestInv, LineInv, Past
<1>4. OutcomeOf(cur.event.session, cur.event.id) = {}
  <2> SUFFICES ASSUME NEW e \in OutcomeOf(cur.event.session, cur.event.id)
               PROVE  FALSE
    OBVIOUS
  <2>1. e \in sess[cur.event.session].outcomes /\ e.id = cur.event.id
    BY DEF OutcomeOf
  <2>2. e \in EventsOf(stored) /\ ~IsAttempt(e)
    BY <1>1, <2>1 DEF CallInv, HostInv, MemoryInv, MemoryInLedger, HonestInv, OutcomesEnd
  <2> QED
    BY <1>3, <2>1, <2>2 DEF Before
<1>5. ASSUME IsAttempt(cur.event)
      PROVE  SealedUnder(cur.event.id) = {}
  <2> SUFFICES ASSUME NEW r \in SealedUnder(cur.event.id)
               PROVE  FALSE
    OBVIOUS
  <2>1. r \in Range(stored) /\ r.event.id = cur.event.id
    BY DEF SealedUnder, CallInv, HostInv, MemoryInv, MemoryInLedger
  <2>2. r.event \in EventsOf(stored)
    BY <2>1 DEF EventsOf
  <2> QED
    BY <1>3, <1>5, <2>1, <2>2 DEF Before
<1> QED
  BY <1>2, <1>4, <1>5 DEF Concluded

\* Of what the host flags, only a request of a session it does not have open is a replay.
LEMMA HolderReplays ==
  ASSUME CallInv, HonestInv, Holder, TheSession \in open'
  PROVE  NewReplays = {}
<1>1. \A a \in GapFlags(cur.event) : a.kind # "replay-detected"
  BY DEF GapFlags, Flag
<1>2. CASE RefuseUnadmitted
  <2>1. Own(cur) /\ open' = open
    BY <1>2 DEF RefuseUnadmitted, HonestInv, SentInv
  <2>2. InSession(cur)
    BY <2>1 DEF Own, InSession
  <2>3. anomalies' = anomalies \union {Flag(cur.event, "schema-invalid")}
    BY <1>2, <2>2 DEF RefuseUnadmitted
  <2> QED
    BY <2>3 DEF NewReplays, Flag
<1>3. CASE RefuseUnverified
  BY <1>3 DEF RefuseUnverified, NewReplays, Flag
<1>4. CASE RefuseConcluded \/ RefuseReplayedAttempt \/ RefuseSecondOutcome \/ RefuseReplayedOutcome
  <2>1. pc = "handle" /\ (RefuseConcluded => IsAttempt(cur.event))
    BY <1>4 DEF RefuseConcluded, RefuseReplayedAttempt, RefuseSecondOutcome, RefuseReplayedOutcome, FreshAttempt,
       FirstOutcome, Deciding, Wellformed
  <2> QED
    BY <1>4, <2>1, NoReplay DEF RefuseConcluded, RefuseReplayedAttempt, RefuseSecondOutcome, RefuseReplayedOutcome
<1>5. CASE RefuseOrphan
  BY <1>1, <1>5 DEF RefuseOrphan, Refuse, NewReplays, Flag
<1>6. CASE RepeatAttempt \/ RepeatOutcome \/ FailUnavailable \/ BeginSeal
  BY <1>1, <1>6 DEF RepeatAttempt, RepeatOutcome, FailUnavailable, Leave, BeginSeal, NewReplays
<1>7. CASE Settle \/ Interrupt \/ Countersign \/ CountersignFailed \/ SealInterrupted \/ AppendFailed \/ Commit
  BY <1>7 DEF Settle, SettleUnreadable, SettleAdopt, SettleForeign, SettleUnchanged, Interrupt, Countersign,
     CountersignFailed, SealInterrupted, AppendFailed, Commit, NewReplays
<1> QED
  BY <1>2, <1>3, <1>4, <1>5, <1>6, <1>7 DEF Holder, DecideAttempt, DecideOutcome, Seal

LEMMA HonestFlags ==
  ASSUME CallInv, HonestInv, CallNext \/ UNCHANGED callVars, TheSession \in open'
  PROVE  NewReplays = {}
<1>1. CASE \E op \in OpIds : Begin(op) \/ Emit(op) \/ TimedOut(op) \/ Act(op) \/ Cancel(op)
  BY <1>1 DEF Begin, Emit, Claim, SignerFailed, Send, SendLost, TimedOut, Act, Cleared, Distrusted, Finish, Cancel,
     hostVars, NewReplays
<1>2. CASE HostTakes \/ Answered \/ StoreStep \/ OpenCall \/ UNCHANGED callVars
  BY <1>2 DEF HostTakes, TakeUp, Expire, Answered, Deliver, StoreStep, StoreLand, StoreLose, OpenCall, OpenSession,
     callVars, hostVars, NewReplays
<1>3. CASE HostStep
  BY <1>3, HolderReplays DEF HostStep
<1>4. CASE CloseCall
  BY <1>4 DEF CloseCall, CloseSession, NewReplays
<1> QED
  BY <1>1, <1>2, <1>3, <1>4 DEF CallNext

\* No event of a call none of whose actions was cancelled is taken for a replay while its session is open, however
\* many actions share the section, and whatever timed out, was lost, failed to sign or to append, or was answered
\* late (_numbering, _check_replay).
THEOREM HonestCorrect == CallSpec => HonestNeverReplayed
<1> DEFINE Inv == CallInv /\ (Uncancelled => HonestInv)
<1>1. CallInit => Inv
  BY CallStart, HonestStart
<1>2. Inv /\ [CallNext]_callVars => Inv'
  BY CallStep, HonestNext
<1>3. Inv /\ [CallNext]_callVars => (Uncancelled /\ TheSession \in open' => NewReplays = {})
  BY HonestFlags
<1> HIDE DEF Inv
<1> QED
  BY <1>1, <1>2, <1>3, PTL DEF CallSpec, HonestNeverReplayed
===============================================================================
