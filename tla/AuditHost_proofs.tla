--------------------------- MODULE AuditHost_proofs ---------------------------
(***************************************************************************)
(* Theorems about AuditHost for every value of its constants: the state's  *)
(* shape, the chain, what tools were told, at Level 2 the numbering of     *)
(* events, that AuditHost implements AuditLog, and what closing flags.     *)
(***************************************************************************)
EXTENDS AuditHost, TLAPS

-----------------------------------------------------------------------------
(* What the operators on sessions return.                                  *)

\* The values a session received or decided stay within the key and signer_seq ranges.
LEMMA SignerValueType ==
  ASSUME NEW e \in Events
  PROVE  SignerValue(e) \in SignerValues /\ UpTo(e) \subseteq SignerValues
  BY EventsAssumption DEF SignerValue, UpTo, SignerValues, EventSpace

\* Hearing an event keeps the sessions well-formed (_verify_signature's SignerTracker.note).
LEMMA HeardType ==
  ASSUME sess \in [Sessions -> SessionSpace], NEW e \in Events
  PROVE  Heard(e) \in [Sessions -> SessionSpace]
  BY EventsAssumption, SignerValueType DEF Heard, SessionSpace, EventSpace

\* So does deciding its signer_seq (_decide).
LEMMA DecideType ==
  ASSUME NEW st \in [Sessions -> SessionSpace], NEW e \in Events
  PROVE  Decide(st, e) \in [Sessions -> SessionSpace]
  BY EventsAssumption, SignerValueType DEF Decide, SessionSpace, EventSpace

\* So does accounting a sealed event to its session.
LEMMA AccountType ==
  ASSUME NEW st \in [Sessions -> SessionSpace], NEW e \in Events
  PROVE  Account(st, e) \in [Sessions -> SessionSpace]
<1>1. e.session \in Sessions /\ e.id \in OpIds
  BY EventsAssumption DEF EventSpace
<1>2. PICK x \in SessionSpace : x = st[e.session]
  BY <1>1
<1>3. CASE IsAttempt(e)
  <2>1. [x EXCEPT !.accepted = @ \union {e.id}] \in SessionSpace
    BY <1>1 DEF SessionSpace
  <2>2. Account(st, e) = [st EXCEPT ![e.session] = [x EXCEPT !.accepted = @ \union {e.id}]]
    BY <1>1, <1>2, <1>3 DEF Account
  <2> QED
    BY <1>1, <2>1, <2>2
<1>4. CASE ~IsAttempt(e)
  <2> DEFINE now == [x EXCEPT !.outcomes = {f \in @ : f.id # e.id} \union {e},
                              !.resolved = @ \union (x.accepted \intersect {e.id})]
  <2>1. now \in SessionSpace
    BY <1>1 DEF SessionSpace
  <2>2. Account(st, e) = [st EXCEPT ![e.session] = now]
    BY <1>1, <1>2, <1>4 DEF Account
  <2> HIDE DEF now
  <2> QED
    BY <1>1, <2>1, <2>2
<1> QED
  BY <1>3, <1>4

\* The records and the events of a chain are records and events.
LEMMA RangeType ==
  ASSUME NEW chain \in Seq(RecordSpace)
  PROVE  /\ Range(chain) = {chain[n] : n \in 1..Len(chain)}
         /\ Range(chain) \subseteq RecordSpace
         /\ EventsOf(chain) \subseteq Events
<1>1. DOMAIN chain = 1..Len(chain) /\ \A n \in 1..Len(chain) : chain[n] \in RecordSpace
  OBVIOUS
<1>2. Range(chain) = {chain[n] : n \in 1..Len(chain)}
  BY <1>1 DEF Range
<1>3. Range(chain) \subseteq RecordSpace
  BY <1>1, <1>2
<1>4. \A r \in RecordSpace : r.event \in Events
  BY DEF RecordSpace
<1> QED
  BY <1>2, <1>3, <1>4 DEF EventsOf

\* A session rebuilt from the stored chain is a session.
LEMMA RestoredType ==
  ASSUME stored \in Seq(RecordSpace), sess \in [Sessions -> SessionSpace],
         NEW s \in Sessions, NEW tracked \in BOOLEAN
  PROVE  Restored(s, tracked) \in SessionSpace
<1>1. EventsOf(stored) \subseteq Events
  BY RangeType
<1>2. \A e \in Events : e.id \in OpIds
  BY EventsAssumption DEF EventSpace
<1>3. \A e \in Events : SignerValue(e) \in SignerValues /\ UpTo(e) \subseteq SignerValues
  BY SignerValueType
<1>4. /\ sess[s].decided \subseteq SignerValues
      /\ sess[s].received \subseteq SignerValues
  BY DEF SessionSpace
<1> DEFINE sealed == {e \in EventsOf(stored) : e.session = s}
           known  == {e.id : e \in {f \in sealed : IsAttempt(f)}}
           ended  == {e \in sealed : ~IsAttempt(e)}
           dec    == {SignerValue(e) : e \in sealed} \union (IF tracked THEN sess[s].decided ELSE {})
           before == IF tracked THEN sess[s].received ELSE {}
           rec    == (UNION {UpTo(e) : e \in sealed}) \union before
           res    == known \intersect {e.id : e \in ended}
<1>5. sealed \subseteq Events
  BY <1>1
<1>6. known \subseteq OpIds /\ ended \subseteq Events /\ res \subseteq OpIds
  BY <1>2, <1>5
<1>7. dec \subseteq SignerValues
  BY <1>3, <1>4, <1>5
<1>8. rec \subseteq SignerValues
  <2>1. \A x \in UNION {UpTo(e) : e \in sealed} : x \in SignerValues
    BY <1>3, <1>5
  <2>2. before \subseteq SignerValues
    BY <1>4
  <2> HIDE DEF before, sealed
  <2> QED
    BY <2>1, <2>2
<1>9. Restored(s, tracked) = [decided |-> dec, received |-> rec, accepted |-> known,
                              resolved |-> res, outcomes |-> ended]
  BY DEF Restored
<1> QED
  BY <1>6, <1>7, <1>8, <1>9 DEF SessionSpace

\* What a flag raised about an event is.
LEMMA FlagType ==
  ASSUME NEW e \in Events
  PROVE  /\ \A kind \in Kinds : Flag(e, kind) \in AnomalySpace
         /\ GapFlags(e) \subseteq AnomalySpace
  BY EventsAssumption DEF Flag, GapFlags, Kinds, AnomalySpace, EventSpace

\* A record sealed for an event at a position of the chain is a record.
LEMMA SealRecordType ==
  ASSUME NEW e \in Events, NEW n \in Nat, NEW h \in Nat, NEW x \in Nat
  PROVE  SealRecord(e, n, h, x + 1) \in RecordSpace
  BY DEF SealRecord, RecordSpace, Genesis

\* The hash a record at a stored position links to is a hash.
LEMMA HashBeforeType ==
  ASSUME NEW chain \in Seq(RecordSpace), NEW n \in 0..Len(chain)
  PROVE  HashBefore(chain, n) \in Nat
<1>1. CASE n = 0
  BY <1>1 DEF HashBefore, Genesis
<1>2. CASE n # 0
  <2>1. chain[n] \in RecordSpace
    BY <1>2
  <2> QED
    BY <1>2, <2>1 DEF HashBefore, RecordSpace
<1> QED
  BY <1>1, <1>2

-----------------------------------------------------------------------------
(* Type correctness.                                                       *)

\* A new host (AuditHost.__init__).
LEMMA TypeInit == Init => TypeOK
<1> SUFFICES ASSUME Init PROVE TypeOK
  OBVIOUS
<1>1. sess \in [Sessions -> SessionSpace]
  BY DEF Init, NewSession, SessionSpace
<1>2. stored \in Seq(RecordSpace)
  BY DEF Init
<1>3. inflight = {} /\ sealedAttempts = {} /\ sealedDigests = {} /\ anomalies = {} /\ acks = {}
  BY DEF Init
<1>4. issued = {} /\ open = {} /\ uncertain \in BOOLEAN /\ available \in BOOLEAN
  BY DEF Init
<1>5. foreign \in Nat /\ count \in Nat /\ tail \in Nat /\ hashes \in Nat
  BY DEF Init, Genesis
<1>6. pc = "idle" /\ cur = NoRequest /\ pending = NoRecord /\ verdict = "none"
  BY DEF Init
<1> QED
  BY <1>1, <1>2, <1>3, <1>4, <1>5, <1>6 DEF TypeOK, Verdicts

USE DEF storeVars, chainVars, sessVars, memoryVars, lockVars

\* Sessions and the lock.
LEMMA TypeLifecycle ==
  ASSUME TypeOK, NEW s \in Sessions,
         OpenSession(s) \/ CloseSession(s) \/ TogglePersistence
  PROVE  TypeOK'
<1>1. CASE OpenSession(s)
  <2>1. NewSession \in SessionSpace
    BY DEF NewSession, SessionSpace
  <2>2. sess' \in [Sessions -> SessionSpace]
    BY <1>1, <2>1 DEF OpenSession, TypeOK
  <2> QED
    BY <1>1, <2>2 DEF OpenSession, TypeOK
<1>2. CASE CloseSession(s)
  <2>1. NewSession \in SessionSpace
    BY DEF NewSession, SessionSpace
  <2>2. sess' \in [Sessions -> SessionSpace]
    BY <1>2, <2>1 DEF CloseSession, TypeOK
  <2>3. anomalies' \subseteq AnomalySpace
    <3>1. sess[s].accepted \subseteq OpIds
      BY DEF TypeOK, SessionSpace
    <3>2. \A i \in sess[s].accepted \ sess[s].resolved :
            [session |-> s, id |-> i, kind |-> "unresolved-attempt"] \in AnomalySpace
      BY <3>1 DEF AnomalySpace, Kinds
    <3> QED
      BY <1>2, <3>2 DEF CloseSession, TypeOK
  <2> QED
    BY <1>2, <2>2, <2>3 DEF CloseSession, TypeOK
<1>3. CASE TogglePersistence
  BY <1>3 DEF TogglePersistence, TypeOK
<1> QED
  BY <1>1, <1>2, <1>3

\* Taking the lock for a request, or finding its deadline passed.
LEMMA TypeTakeUp ==
  ASSUME TypeOK, NEW q \in Requests, TakeUp(q) \/ Expire(q)
  PROVE  TypeOK'
  BY DEF TakeUp, Expire, TypeOK, Verdicts

\* _settle_tail, and a cancellation before anything is decided.
LEMMA TypeSettle ==
  ASSUME TypeOK, Settle \/ Interrupt
  PROVE  TypeOK'
<1>1. CASE SettleUnreadable
  BY <1>1 DEF SettleUnreadable, FailClosed, Answer, TypeOK, Verdicts
<1>2. CASE SettleAdopt
  <2>1. stored[count + 1] \in RecordSpace
    BY <1>2 DEF SettleAdopt, Landed, TypeOK
  <2>2. stored[count + 1].event \in Events /\ stored[count + 1].hash \in Nat
    BY <2>1 DEF RecordSpace
  <2>3. sess' \in [Sessions -> SessionSpace]
    BY <1>2, <2>2, DecideType, AccountType DEF SettleAdopt, TypeOK
  <2>4. sealedDigests' \subseteq Events /\ sealedAttempts' \subseteq RecordSpace
    BY <1>2, <2>1, <2>2 DEF SettleAdopt, Remember, TypeOK
  <2>5. count' \in Nat /\ tail' \in Nat
    BY <1>2, <2>2 DEF SettleAdopt, TypeOK
  <2> QED
    BY <1>2, <2>3, <2>4, <2>5 DEF SettleAdopt, TypeOK
<1>3. CASE SettleForeign
  <2>1. count' \in Nat /\ tail' \in Nat
    BY <1>3, HashBeforeType DEF SettleForeign, TypeOK
  <2> QED
    BY <1>3, <2>1 DEF SettleForeign, TypeOK
<1>4. CASE SettleUnchanged
  BY <1>4 DEF SettleUnchanged, TypeOK
<1>5. CASE Interrupt
  BY <1>5 DEF Interrupt, Raised, Answer, TypeOK, Verdicts
<1> QED
  BY <1>1, <1>2, <1>3, <1>4, <1>5 DEF Settle

\* A request being decided is a request, and what deciding it may write has its kind.
LEMMA DecidingFacts ==
  ASSUME TypeOK, pc = "handle"
  PROVE  /\ cur \in Requests /\ cur.event \in Events /\ cur.event.session \in Sessions
         /\ cur.event.id \in OpIds
         /\ Heard(cur.event) \in [Sessions -> SessionSpace]
         /\ Decide(Heard(cur.event), cur.event) \in [Sessions -> SessionSpace]
         /\ GapFlags(cur.event) \subseteq AnomalySpace
         /\ \A kind \in Kinds : Flag(cur.event, kind) \in AnomalySpace
<1>1. cur \in Requests
  BY DEF TypeOK
<1>2. cur.event \in Events
  BY <1>1 DEF Requests
<1>3. cur.event.session \in Sessions /\ cur.event.id \in OpIds
  BY <1>2, EventsAssumption DEF EventSpace
<1>4. sess \in [Sessions -> SessionSpace]
  BY DEF TypeOK
<1>5. Heard(cur.event) \in [Sessions -> SessionSpace]
  BY <1>2, <1>4, HeardType
<1>6. Decide(Heard(cur.event), cur.event) \in [Sessions -> SessionSpace]
  BY <1>2, <1>5, DecideType
<1> QED
  BY <1>1, <1>2, <1>3, <1>5, <1>6, FlagType

\* Every refusal: what _admit, _verify_signature and the rules of the two handlers refuse.
LEMMA TypeRefuse ==
  ASSUME TypeOK,
         \/ RefuseUnadmitted \/ RefuseUnverified \/ RefuseConcluded \/ RefuseReplayedAttempt
         \/ RefuseSecondOutcome \/ RefuseReplayedOutcome \/ RefuseOrphan
  PROVE  TypeOK'
<1>1. CASE RefuseUnadmitted
  <2>1. anomalies' \subseteq AnomalySpace
    BY <1>1, DecidingFacts DEF RefuseUnadmitted, TypeOK, Kinds
  <2> QED
    BY <1>1, <2>1 DEF RefuseUnadmitted, Refusal, Answer, TypeOK, Verdicts
<1>2. CASE RefuseUnverified
  <2>1. anomalies' \subseteq AnomalySpace
    BY <1>2, DecidingFacts DEF RefuseUnverified, TypeOK, Kinds
  <2> QED
    BY <1>2, <2>1 DEF RefuseUnverified, Refusal, Answer, TypeOK, Verdicts
<1>3. ASSUME NEW kind \in Kinds, pc = "handle", Refuse(kind)
      PROVE  TypeOK'
  <2>1. anomalies' \subseteq AnomalySpace /\ sess' \in [Sessions -> SessionSpace]
    BY <1>3, DecidingFacts DEF Refuse, TypeOK
  <2> QED
    BY <1>3, <2>1 DEF Refuse, Refusal, Answer, TypeOK, Verdicts
<1> QED
  BY <1>1, <1>2, <1>3 DEF RefuseConcluded, RefuseReplayedAttempt, RefuseSecondOutcome,
     RefuseReplayedOutcome, RefuseOrphan, FreshAttempt, FirstOutcome, Deciding, Kinds

\* Answering a repeat from what is sealed.
LEMMA TypeRepeat ==
  ASSUME TypeOK, RepeatAttempt \/ RepeatOutcome
  PROVE  TypeOK'
<1>1. CASE RepeatAttempt
  <2>1. pc = "handle"
    BY <1>1 DEF RepeatAttempt, Deciding
  <2>2. sess' \in [Sessions -> SessionSpace]
    BY <1>1, <2>1, DecidingFacts DEF RepeatAttempt, SessionSpace
  <2>3. anomalies' \subseteq AnomalySpace
    BY <1>1, <2>1, DecidingFacts DEF RepeatAttempt, TypeOK
  <2>4. acks' \subseteq [event: Events, seq: Nat \union {-1}]
    <3>1. PICK r \in SealedUnder(cur.event.id) : acks' = acks \union {Ack(cur.event, r.seq)}
      BY <1>1 DEF RepeatAttempt
    <3>2. r.seq \in Nat
      BY <3>1 DEF SealedUnder, TypeOK, RecordSpace
    <3> QED
      BY <2>1, <3>1, <3>2, DecidingFacts DEF Ack, TypeOK
  <2> QED
    BY <1>1, <2>1, <2>2, <2>3, <2>4 DEF RepeatAttempt, Answer, TypeOK, Verdicts
<1>2. CASE RepeatOutcome
  <2>1. pc = "handle"
    BY <1>2 DEF RepeatOutcome, Deciding
  <2>2. sess' \in [Sessions -> SessionSpace] /\ anomalies' \subseteq AnomalySpace
    BY <1>2, <2>1, DecidingFacts DEF RepeatOutcome, TypeOK
  <2>3. acks' \subseteq [event: Events, seq: Nat \union {-1}]
    BY <1>2, <2>1, DecidingFacts DEF RepeatOutcome, Ack, TypeOK
  <2> QED
    BY <1>2, <2>1, <2>2, <2>3 DEF RepeatOutcome, Answer, TypeOK, Verdicts
<1> QED
  BY <1>1, <1>2

\* _seal, from computing the record to committing it or failing closed.
LEMMA TypeSeal ==
  ASSUME TypeOK, Seal
  PROVE  TypeOK'
<1>1. CASE FailUnavailable
  <2>1. pc = "handle"
    BY <1>1 DEF FailUnavailable, SealableAttempt, SealableOutcome, FreshAttempt, FirstOutcome, Deciding
  <2>2. sess' \in [Sessions -> SessionSpace] /\ anomalies' \subseteq AnomalySpace
    BY <1>1, <2>1, DecidingFacts DEF FailUnavailable, Leave, TypeOK
  <2> QED
    BY <1>1, <2>1, <2>2 DEF FailUnavailable, Leave, FailClosed, Answer, TypeOK, Verdicts
<1>2. CASE BeginSeal
  <2>1. pc = "handle"
    BY <1>2 DEF BeginSeal, SealableAttempt, SealableOutcome, FreshAttempt, FirstOutcome, Deciding
  <2>2. sess' \in [Sessions -> SessionSpace] /\ anomalies' \subseteq AnomalySpace
    BY <1>2, <2>1, DecidingFacts DEF BeginSeal, TypeOK
  <2>3. pending' \in RecordSpace
    BY <1>2, <2>1, DecidingFacts, SealRecordType DEF BeginSeal, TypeOK
  <2>4. inflight' \subseteq RecordSpace /\ hashes' \in Nat
    BY <1>2, <2>3 DEF BeginSeal, TypeOK
  <2>5. pc' \in {"sign", "append"}
    BY <1>2 DEF BeginSeal
  <2>6. cur' \in Requests
    BY <1>2, <2>1 DEF BeginSeal, TypeOK
  <2> QED
    BY <1>2, <2>2, <2>3, <2>4, <2>5, <2>6 DEF BeginSeal, TypeOK
<1>3. CASE Countersign
  BY <1>3 DEF Countersign, TypeOK
<1>4. CASE CountersignFailed
  BY <1>4 DEF CountersignFailed, FailClosed, Answer, TypeOK, Verdicts
<1>5. CASE SealInterrupted
  BY <1>5 DEF SealInterrupted, Raised, Answer, TypeOK, Verdicts
<1>6. CASE AppendFailed
  BY <1>6 DEF AppendFailed, FailClosed, Answer, TypeOK, Verdicts
<1>7. CASE Commit
  <2>1. pc = "append" /\ pending \in RecordSpace /\ cur \in Requests
    BY <1>7 DEF Commit, TypeOK
  <2>2. pending.event \in Events /\ pending.hash \in Nat /\ pending.seq \in Nat
    BY <2>1 DEF RecordSpace
  <2>3. sess' \in [Sessions -> SessionSpace]
    BY <1>7, <2>2, DecideType, AccountType DEF Commit, TypeOK
  <2>4. sealedDigests' \subseteq Events /\ sealedAttempts' \subseteq RecordSpace
    BY <1>7, <2>1, <2>2 DEF Commit, Remember, TypeOK
  <2>5. stored' \in Seq(RecordSpace) /\ count' \in Nat /\ tail' \in Nat
    BY <1>7, <2>1, <2>2 DEF Commit, TypeOK
  <2>6. acks' \subseteq [event: Events, seq: Nat \union {-1}]
    BY <1>7, <2>2 DEF Commit, Ack, TypeOK
  <2> QED
    BY <1>7, <2>1, <2>3, <2>4, <2>5, <2>6 DEF Commit, Answer, TypeOK, Verdicts
<1> QED
  BY <1>1, <1>2, <1>3, <1>4, <1>5, <1>6, <1>7 DEF Seal

\* The repository and the other writer.
LEMMA TypeEnvironment ==
  ASSUME TypeOK, Environment
  PROVE  TypeOK'
<1>1. ASSUME NEW r \in inflight, StoreLand(r) \/ StoreLose(r)
      PROVE  TypeOK'
  <2>1. r \in RecordSpace
    BY DEF TypeOK
  <2>2. CASE StoreLand(r)
    <3>1. stored' \in Seq(RecordSpace) /\ inflight' \subseteq RecordSpace
      BY <2>1, <2>2 DEF StoreLand, TypeOK
    <3> QED
      BY <2>2, <3>1 DEF StoreLand, TypeOK
  <2>3. CASE StoreLose(r)
    BY <2>3 DEF StoreLose, TypeOK
  <2> QED
    BY <1>1, <2>2, <2>3
<1>2. ASSUME NEW e \in Events, ForeignAppend(e)
      PROVE  TypeOK'
  <2>1. HashBefore(stored, Len(stored)) \in Nat
    BY HashBeforeType DEF TypeOK
  <2>2. SealRecord(e, Len(stored), HashBefore(stored, Len(stored)), hashes + 1) \in RecordSpace
    BY <2>1, SealRecordType DEF TypeOK
  <2> QED
    BY <1>2, <2>2 DEF ForeignAppend, TypeOK
<1>3. CASE TogglePersistence
  BY <1>3 DEF TogglePersistence, TypeOK
<1> QED
  BY <1>1, <1>2, <1>3 DEF Environment

\* AuditHost.resume.
LEMMA TypeRestart ==
  ASSUME TypeOK, NEW keep \in SUBSET open, NEW tracked \in SUBSET keep, Restart(keep, tracked)
  PROVE  TypeOK'
<1>1. stored \in Seq(RecordSpace) /\ Len(stored) \in Nat /\ open \subseteq Sessions
  BY DEF TypeOK
<1>2. EventsOf(stored) \subseteq Events
  BY <1>1, RangeType
<1>3. \A e \in EventsOf(stored) : e.session \in Sessions
  BY <1>2, EventsAssumption DEF EventSpace
<1>4. count' \in Nat /\ tail' \in Nat
  BY <1>1, HashBeforeType DEF Restart
<1>5. sealedAttempts' \subseteq RecordSpace
  BY <1>1 DEF Restart
<1>6. issued' \subseteq Sessions /\ open' \subseteq Sessions
  BY <1>1, <1>3 DEF Restart
<1>7. NewSession \in SessionSpace
  BY DEF NewSession, SessionSpace
<1>8. \A s \in Sessions : Restored(s, s \in tracked) \in SessionSpace
  <2>1. \A s \in Sessions : \A t \in BOOLEAN : Restored(s, t) \in SessionSpace
    BY <1>1, RestoredType DEF TypeOK
  <2>2. \A s \in Sessions : (s \in tracked) \in BOOLEAN
    OBVIOUS
  <2> QED
    BY <2>1, <2>2
<1>9. sess' \in [Sessions -> SessionSpace]
  BY <1>7, <1>8 DEF Restart
<1>10. anomalies' \subseteq AnomalySpace
  <2>1. UnresolvedIn(stored) \subseteq Events
    <3>1. \A n \in DOMAIN stored : stored[n] \in RecordSpace
      BY <1>1
    <3>2. \A r \in RecordSpace : r.event \in Events
      BY DEF RecordSpace
    <3> QED
      BY <3>1, <3>2 DEF UnresolvedIn
  <2>2. \A e \in UnresolvedIn(stored) : Flag(e, "unresolved-attempt") \in AnomalySpace
    BY <2>1, FlagType DEF Kinds
  <2> QED
    BY <2>2 DEF Restart
<1>11. sealedDigests' \subseteq Events
  BY <1>2 DEF Restart
<1> QED
  BY <1>4, <1>5, <1>6, <1>9, <1>10, <1>11 DEF Restart, TypeOK, Verdicts

\* Every variable of the host stays of its kind, whatever fails or restarts (the whole of host.py's state).
LEMMA TypeNext == TypeOK /\ [Next]_hostVars => TypeOK'
<1> SUFFICES ASSUME TypeOK, [Next]_hostVars PROVE TypeOK'
  OBVIOUS
<1>1. CASE UNCHANGED hostVars
  BY <1>1 DEF hostVars, TypeOK
<1>2. CASE \E q \in Arrivals : TakeUp(q) \/ Expire(q)
  BY <1>2, HostAssumption, TypeTakeUp
<1>3. CASE Holder
  BY <1>3, TypeSettle, TypeRefuse, TypeRepeat, TypeSeal DEF Holder, DecideAttempt, DecideOutcome
<1>4. CASE Deliver
  BY <1>4 DEF Deliver, TypeOK, Verdicts
<1>5. CASE Environment
  BY <1>5, TypeEnvironment
<1>6. CASE Lifecycle
  BY <1>6, TypeLifecycle, TypeRestart DEF Lifecycle
<1> QED
  BY <1>1, <1>2, <1>3, <1>4, <1>5, <1>6 DEF Next

\* The host's state keeps its kinds in every behaviour (host.py, ledger.py, storage/).
THEOREM TypeCorrect == Spec => []TypeOK
  BY TypeInit, TypeNext, PTL DEF Spec

-----------------------------------------------------------------------------
(* The chain: the store is one unforked chain and the host is on it.       *)

\* Appending a record keeps the hash of every earlier position.
LEMMA AppendKeepsHashes ==
  ASSUME NEW chain \in Seq(RecordSpace), NEW r \in RecordSpace, NEW n \in 0..Len(chain)
  PROVE  HashBefore(Append(chain, r), n) = HashBefore(chain, n)
  BY DEF HashBefore

\* A record at the next position, linked to the digest, extends a linked chain to a linked chain.
LEMMA AppendLinked ==
  ASSUME NEW chain \in Seq(RecordSpace), NEW r \in RecordSpace, Linked(chain),
         r.seq = Len(chain), r.prev = HashBefore(chain, Len(chain))
  PROVE  /\ Linked(Append(chain, r))
         /\ HashBefore(Append(chain, r), Len(chain) + 1) = r.hash
<1> DEFINE longer == Append(chain, r)
<1>1. Len(longer) = Len(chain) + 1 /\ DOMAIN longer = 1..(Len(chain) + 1)
  OBVIOUS
<1>2. \A n \in 1..Len(chain) : longer[n] = chain[n]
  OBVIOUS
<1>3. longer[Len(chain) + 1] = r
  OBVIOUS
<1>4. \A n \in 0..Len(chain) : HashBefore(longer, n) = HashBefore(chain, n)
  BY AppendKeepsHashes
<1>5. ASSUME NEW n \in DOMAIN longer
      PROVE  longer[n].seq = n - 1 /\ longer[n].prev = HashBefore(longer, n - 1)
  <2>1. CASE n = Len(chain) + 1
    BY <1>3, <1>4, <2>1
  <2>2. CASE n \in 1..Len(chain)
    <3>1. longer[n].seq = n - 1 /\ longer[n].prev = HashBefore(chain, n - 1)
      BY <1>2, <2>2 DEF Linked
    <3> QED
      BY <1>4, <2>2, <3>1
  <2> QED
    BY <1>1, <2>1, <2>2
<1>6. HashBefore(longer, Len(chain) + 1) = r.hash
  BY <1>3 DEF HashBefore
<1> QED
  BY <1>5, <1>6 DEF Linked

\* A step that leaves the chain, the writes under way and the record being sealed alone.
LEMMA ChainUntouched ==
  ASSUME ChainInv, UNCHANGED <<stored, inflight, count, tail>>,
         \/ pc' \in {"idle", "answer", "handle"}
         \/ pc' = "settle" /\ Durable
         \/ UNCHANGED <<pc, pending>>
         \/ pc = "sign" /\ pc' = "append" /\ UNCHANGED pending
  PROVE  ChainInv'
  BY DEF ChainInv, ChainFollowsStore, InflightLinked, PendingLinked, OnlyCopy

\* Appending the next record keeps the host's point on the chain and the links of every write under way.
LEMMA ChainExtended ==
  ASSUME TypeOK, ChainInv, Durable, NEW r \in RecordSpace,
         r.seq = Len(stored), r.prev = HashBefore(stored, Len(stored)),
         stored' = Append(stored, r), inflight' \subseteq inflight,
         UNCHANGED <<count, tail, pc, pending>>
  PROVE  ChainInv'
<1>1. stored \in Seq(RecordSpace) /\ count \in 0..Len(stored) /\ Len(stored') = Len(stored) + 1
  BY DEF TypeOK, ChainInv, ChainFollowsStore
<1>2. \A n \in 0..Len(stored) : HashBefore(stored', n) = HashBefore(stored, n)
  BY <1>1, AppendKeepsHashes
<1>3. Linked(stored')
  BY <1>1, AppendLinked DEF ChainInv, ChainFollowsStore
<1>4. ChainFollowsStore'
  BY <1>1, <1>2, <1>3 DEF ChainInv, ChainFollowsStore
<1>5. InflightLinked'
  <2>1. \A w \in inflight' : w.seq \in 0..Len(stored) /\ w.prev = HashBefore(stored, w.seq)
    BY DEF TypeOK, RecordSpace, ChainInv, InflightLinked
  <2> QED
    BY <1>1, <1>2, <2>1 DEF InflightLinked
<1>6. PendingLinked' /\ OnlyCopy'
  BY DEF ChainInv, PendingLinked, OnlyCopy
<1> QED
  BY <1>4, <1>5, <1>6 DEF ChainInv

\* A linked chain holds the record of a position at that position, so its hash is the digest up to there.
LEMMA RecordAtItsSeq ==
  ASSUME NEW chain \in Seq(RecordSpace), Linked(chain), NEW r \in Range(chain)
  PROVE  /\ r.seq + 1 \in 1..Len(chain)
         /\ HashBefore(chain, r.seq + 1) = r.hash
<1>1. PICK n \in 1..Len(chain) : chain[n] = r
  BY RangeType
<1>2. r.seq = n - 1
  BY <1>1 DEF Linked
<1> QED
  BY <1>1, <1>2 DEF HashBefore

\* The empty partition is a chain, and nothing is under way.
LEMMA ChainInit == Init => ChainInv
  BY DEF Init, ChainInv, ChainFollowsStore, InflightLinked, PendingLinked, OnlyCopy, Linked,
     HashBefore, Genesis

\* _settle_tail: each reading of the doubtful tail leaves the host at a point of the stored chain.
LEMMA ChainSettle ==
  ASSUME TypeOK, ChainInv, Settle \/ Interrupt
  PROVE  ChainInv'
<1>1. CASE SettleUnreadable \/ SettleUnchanged \/ Interrupt
  BY <1>1, ChainUntouched DEF SettleUnreadable, SettleUnchanged, Interrupt, FailClosed, Raised, Answer
<1>2. CASE SettleAdopt
  <2>1. count' = count + 1 /\ count' \in 1..Len(stored) /\ tail' = stored[count + 1].hash
    BY <1>2 DEF SettleAdopt, Landed, TypeOK
  <2>2. tail' = HashBefore(stored, count')
    BY <2>1 DEF HashBefore, TypeOK
  <2>3. pc = "settle" /\ pc' = "handle" /\ UNCHANGED <<stored, inflight>>
    BY <1>2 DEF SettleAdopt
  <2> QED
    BY <2>1, <2>2, <2>3 DEF ChainInv, ChainFollowsStore, InflightLinked, PendingLinked, OnlyCopy
<1>3. CASE SettleForeign
  BY <1>3 DEF SettleForeign, TypeOK, ChainInv, ChainFollowsStore, InflightLinked, PendingLinked, OnlyCopy
<1> QED
  BY <1>1, <1>2, <1>3 DEF Settle

\* Ledger.seal links the record to the tail, and Ledger.commit moves onto the record the store took.
LEMMA ChainSeal ==
  ASSUME TypeOK, ChainInv, Seal
  PROVE  ChainInv'
<1>1. CASE FailUnavailable \/ CountersignFailed \/ SealInterrupted \/ AppendFailed
  BY <1>1, ChainUntouched DEF FailUnavailable, Leave, CountersignFailed, SealInterrupted, AppendFailed,
     FailClosed, Raised, Answer
<1>2. CASE BeginSeal
  <2> DEFINE r == SealRecord(cur.event, count, tail, hashes + 1)
  <2>1. /\ pending' = r /\ r.seq = count /\ r.prev = tail
        /\ inflight' \subseteq inflight \union {r} /\ (~Durable => inflight' = inflight)
        /\ pc' # "settle" /\ UNCHANGED <<stored, count, tail>>
    BY <1>2 DEF BeginSeal, SealRecord
  <2>2. InflightLinked'
    BY <2>1 DEF ChainInv, ChainFollowsStore, InflightLinked
  <2> QED
    BY <2>1, <2>2 DEF ChainInv, ChainFollowsStore, PendingLinked, OnlyCopy
<1>3. CASE Countersign
  <2>1. pending.seq = count /\ pending.prev = tail
    BY <1>3 DEF Countersign, ChainInv, PendingLinked
  <2>2. /\ inflight' \subseteq inflight \union {pending} /\ (~Durable => inflight' = inflight)
        /\ pc' = "append" /\ UNCHANGED <<stored, count, tail, pending>>
    BY <1>3 DEF Countersign
  <2>3. InflightLinked'
    BY <2>1, <2>2 DEF ChainInv, ChainFollowsStore, InflightLinked
  <2> QED
    BY <2>1, <2>2, <2>3 DEF ChainInv, ChainFollowsStore, PendingLinked, OnlyCopy
<1>4. CASE Commit
  <2>1. /\ pending \in RecordSpace /\ pending.seq = count /\ pending.prev = tail
        /\ count' = count + 1 /\ tail' = pending.hash /\ pc' = "answer" /\ UNCHANGED inflight
    BY <1>4 DEF Commit, Answer, TypeOK, ChainInv, PendingLinked
  <2>2. CASE Durable
    <3>1. pending \in Range(stored) /\ UNCHANGED stored
      BY <1>4, <2>2 DEF Commit
    <3>2. count' \in 1..Len(stored) /\ HashBefore(stored, count') = tail'
      BY <2>1, <3>1, RecordAtItsSeq DEF TypeOK, ChainInv, ChainFollowsStore
    <3> QED
      BY <2>1, <2>2, <3>1, <3>2 DEF ChainInv, ChainFollowsStore, InflightLinked, PendingLinked, OnlyCopy
  <2>3. CASE ~Durable
    <3>1. stored' = Append(stored, pending) /\ Len(stored) = count /\ inflight = {}
      BY <1>4, <2>3 DEF Commit, ChainInv, OnlyCopy
    <3>2. Linked(stored') /\ HashBefore(stored', count + 1) = pending.hash /\ Len(stored') = count + 1
      BY <2>1, <3>1, AppendLinked DEF TypeOK, ChainInv, ChainFollowsStore
    <3> QED
      BY <2>1, <2>3, <3>1, <3>2 DEF ChainInv, ChainFollowsStore, InflightLinked, PendingLinked, OnlyCopy
  <2> QED
    BY <2>2, <2>3
<1> QED
  BY <1>1, <1>2, <1>3, <1>4 DEF Seal

\* The repository takes a write only at the next free position, from this host or another writer.
LEMMA ChainEnvironment ==
  ASSUME TypeOK, ChainInv, Environment
  PROVE  ChainInv'
<1>1. ASSUME NEW r \in inflight, StoreLand(r)
      PROVE  ChainInv'
  <2>1. Durable
    BY HostAssumption DEF ChainInv, OnlyCopy
  <2>2. r \in RecordSpace /\ r.seq = Len(stored) /\ r.prev = HashBefore(stored, Len(stored))
    BY <1>1 DEF TypeOK, ChainInv, InflightLinked, StoreLand
  <2> QED
    BY <1>1, <2>1, <2>2, ChainExtended DEF StoreLand
<1>2. ASSUME NEW r \in inflight, StoreLose(r)
      PROVE  ChainInv'
  BY <1>2 DEF StoreLose, ChainInv, ChainFollowsStore, InflightLinked, PendingLinked, OnlyCopy
<1>3. ASSUME NEW e \in Events, ForeignAppend(e)
      PROVE  ChainInv'
  <2> DEFINE r == SealRecord(e, Len(stored), HashBefore(stored, Len(stored)), hashes + 1)
  <2>1. HashBefore(stored, Len(stored)) \in Nat
    BY HashBeforeType DEF TypeOK
  <2>2. r \in RecordSpace
    BY <2>1, SealRecordType DEF TypeOK
  <2>3. r.seq = Len(stored) /\ r.prev = HashBefore(stored, Len(stored))
    BY DEF SealRecord
  <2> QED
    BY <1>3, <2>2, <2>3, ChainExtended DEF ForeignAppend
<1>4. CASE TogglePersistence
  BY <1>4, ChainUntouched DEF TogglePersistence
<1> QED
  BY <1>1, <1>2, <1>3, <1>4 DEF Environment

\* Sessions open and close beside the chain, and resume takes its end.
LEMMA ChainLifecycle ==
  ASSUME TypeOK, ChainInv, Lifecycle
  PROVE  ChainInv'
<1>1. ASSUME NEW s \in Sessions, OpenSession(s) \/ CloseSession(s)
      PROVE  ChainInv'
  BY <1>1, ChainUntouched DEF OpenSession, CloseSession
<1>2. ASSUME NEW keep \in SUBSET open, NEW tracked \in SUBSET keep, Restart(keep, tracked)
      PROVE  ChainInv'
  BY <1>2 DEF Restart, TypeOK, ChainInv, ChainFollowsStore, InflightLinked, PendingLinked, OnlyCopy
<1> QED
  BY <1>1, <1>2 DEF Lifecycle

\* No step of the host, the repository or another writer breaks the chain.
LEMMA ChainNext == TypeOK /\ ChainInv /\ [Next]_hostVars => ChainInv'
<1> SUFFICES ASSUME TypeOK, ChainInv, [Next]_hostVars PROVE ChainInv'
  OBVIOUS
<1>1. CASE UNCHANGED hostVars
  BY <1>1, ChainUntouched DEF hostVars
<1>2. CASE \E q \in Arrivals : TakeUp(q) \/ Expire(q)
  BY <1>2, HostAssumption, ChainUntouched DEF TakeUp, Expire
<1>3. CASE Settle \/ Interrupt
  BY <1>3, ChainSettle
<1>4. CASE RefuseUnadmitted \/ RefuseUnverified \/ DecideAttempt \/ DecideOutcome
  BY <1>4, ChainUntouched DEF RefuseUnadmitted, RefuseUnverified, DecideAttempt, DecideOutcome,
     RepeatAttempt, RefuseConcluded, RefuseReplayedAttempt, RepeatOutcome, RefuseSecondOutcome,
     RefuseReplayedOutcome, RefuseOrphan, Refuse, Answer
<1>5. CASE Seal
  BY <1>5, ChainSeal
<1>6. CASE Deliver
  BY <1>6, ChainUntouched DEF Deliver
<1>7. CASE Environment
  BY <1>7, ChainEnvironment
<1>8. CASE Lifecycle
  BY <1>8, ChainLifecycle
<1> QED
  BY <1>1, <1>2, <1>3, <1>4, <1>5, <1>6, <1>7, <1>8 DEF Next, Holder

\* In every behaviour the store is one unforked chain and the host's position and tail are a point of it
\* (Ledger.commit, AuditHost._settle_tail, AuditHost.resume).
THEOREM ChainCorrect == Spec => []ChainFollowsStore
<1>1. Init => TypeOK /\ ChainInv
  BY TypeInit, ChainInit
<1>2. TypeOK /\ ChainInv /\ [Next]_hostVars => (TypeOK /\ ChainInv)'
  BY TypeNext, ChainNext
<1>3. ChainInv => ChainFollowsStore
  BY DEF ChainInv
<1> QED
  BY <1>1, <1>2, <1>3, PTL DEF Spec

-----------------------------------------------------------------------------
(* What tools are told is in the ledger.                                   *)

MemoryInv == MemoryInLedger /\ AcksDurable

\* Appending keeps every record at its position, so what was in the ledger stays where it was.
LEMMA AppendKeepsRecords ==
  ASSUME NEW chain \in Seq(RecordSpace), NEW r \in RecordSpace
  PROVE  /\ \A n \in DOMAIN chain : n \in DOMAIN Append(chain, r) /\ Append(chain, r)[n] = chain[n]
         /\ Range(chain) \union {r} \subseteq Range(Append(chain, r))
         /\ EventsOf(chain) \union {r.event} \subseteq EventsOf(Append(chain, r))
<1> DEFINE longer == Append(chain, r)
<1>1. longer \in Seq(RecordSpace) /\ Len(longer) = Len(chain) + 1
  OBVIOUS
<1>2. \A n \in 1..Len(chain) : n \in 1..Len(longer) /\ longer[n] = chain[n]
  OBVIOUS
<1>3. longer[Len(longer)] = r /\ Len(longer) \in 1..Len(longer)
  OBVIOUS
<1>4. Range(chain) = {chain[n] : n \in 1..Len(chain)} /\ Range(longer) = {longer[n] : n \in 1..Len(longer)}
  BY <1>1, RangeType
<1> HIDE DEF longer
<1>5. Range(chain) \union {r} \subseteq Range(longer)
  BY <1>2, <1>3, <1>4
<1>6. EventsOf(chain) \union {r.event} \subseteq EventsOf(longer)
  BY <1>5 DEF EventsOf
<1> QED
  BY <1>2, <1>5, <1>6 DEF longer

\* A ledger that only grows keeps everything remembered and told in it.
LEMMA MemoryKept ==
  ASSUME TypeOK, MemoryInv,
         UNCHANGED stored \/ \E r \in RecordSpace : stored' = Append(stored, r),
         sealedAttempts' \subseteq sealedAttempts, sealedDigests' \subseteq sealedDigests,
         \A s \in Sessions : sess'[s].outcomes \subseteq sess[s].outcomes,
         acks' \subseteq acks
  PROVE  MemoryInv'
<1>1. \A n \in DOMAIN stored : n \in DOMAIN stored' /\ stored'[n] = stored[n]
  BY AppendKeepsRecords DEF TypeOK
<1>2. Range(stored) \subseteq Range(stored') /\ EventsOf(stored) \subseteq EventsOf(stored')
  BY AppendKeepsRecords DEF TypeOK
<1>3. MemoryInLedger'
  BY <1>2 DEF MemoryInv, MemoryInLedger
<1>4. AcksDurable'
  BY <1>1 DEF MemoryInv, AcksDurable
<1> QED
  BY <1>3, <1>4 DEF MemoryInv

\* Hearing, deciding and accounting an attempt leave the outcomes; accounting an outcome adds only it.
LEMMA OutcomesOf ==
  ASSUME NEW st \in [Sessions -> SessionSpace], NEW e \in Events, NEW s \in Sessions
  PROVE  /\ sess \in [Sessions -> SessionSpace] => Heard(e)[s].outcomes = sess[s].outcomes
         /\ Decide(st, e)[s].outcomes = st[s].outcomes
         /\ Account(st, e)[s].outcomes \subseteq st[s].outcomes \union {e}
  BY EventsAssumption DEF Heard, Decide, Account, SessionSpace, EventSpace

\* Remembering a stored record keeps the memory in the ledger.
LEMMA RememberStored ==
  ASSUME NEW r \in Range(stored), MemoryInLedger, Remember(r)
  PROVE  sealedAttempts' \subseteq Range(stored) /\ sealedDigests' \subseteq EventsOf(stored)
  BY DEF MemoryInLedger, Remember, EventsOf

\* The empty ledger, with nothing remembered or told.
LEMMA MemoryInit == Init => MemoryInv
  BY DEF Init, NewSession, MemoryInv, MemoryInLedger, AcksDurable

\* _settle_tail remembers a record only when it read it back from the store.
LEMMA MemorySettle ==
  ASSUME TypeOK, MemoryInv, Settle \/ Interrupt
  PROVE  MemoryInv'
<1>1. CASE SettleUnreadable \/ SettleForeign \/ SettleUnchanged \/ Interrupt
  BY <1>1, MemoryKept DEF SettleUnreadable, SettleForeign, SettleUnchanged, Interrupt, FailClosed, Raised, Answer
<1>2. CASE SettleAdopt
  <2> DEFINE r == stored[count + 1]
  <2>1. r \in Range(stored) /\ r \in RecordSpace /\ stored \in Seq(RecordSpace)
    BY <1>2, RangeType DEF SettleAdopt, Landed, TypeOK
  <2>2. r.event \in Events /\ r.event \in EventsOf(stored)
    BY <2>1 DEF RecordSpace, EventsOf
  <2>3. UNCHANGED <<stored, acks>>
    BY <1>2 DEF SettleAdopt
  <2>4. sealedAttempts' \subseteq Range(stored) /\ sealedDigests' \subseteq EventsOf(stored)
    BY <1>2, <2>1, RememberStored DEF SettleAdopt, MemoryInv
  <2>5. \A s \in Sessions : sess'[s].outcomes \subseteq sess[s].outcomes \union {r.event}
    <3>1. sess' = sess \/ sess' = Account(Decide(sess, r.event), r.event)
      BY <1>2 DEF SettleAdopt
    <3>2. Decide(sess, r.event) \in [Sessions -> SessionSpace]
      BY <2>2, DecideType DEF TypeOK
    <3> QED
      BY <2>2, <3>1, <3>2, OutcomesOf DEF TypeOK
  <2> QED
    BY <2>2, <2>3, <2>4, <2>5 DEF MemoryInv, MemoryInLedger, AcksDurable
<1> QED
  BY <1>1, <1>2 DEF Settle

\* A refusal records and remembers nothing.
LEMMA MemoryRefuse ==
  ASSUME TypeOK, MemoryInv,
         \/ RefuseUnadmitted \/ RefuseUnverified \/ RefuseConcluded \/ RefuseReplayedAttempt
         \/ RefuseSecondOutcome \/ RefuseReplayedOutcome \/ RefuseOrphan
  PROVE  MemoryInv'
<1>1. CASE RefuseUnadmitted \/ RefuseUnverified
  BY <1>1, MemoryKept DEF RefuseUnadmitted, RefuseUnverified
<1>2. ASSUME NEW kind, pc = "handle", Refuse(kind)
      PROVE  MemoryInv'
  <2>1. \A s \in Sessions : sess'[s].outcomes = sess[s].outcomes
    BY <1>2, DecidingFacts, OutcomesOf DEF Refuse, TypeOK
  <2> QED
    BY <1>2, <2>1, MemoryKept DEF Refuse
<1> QED
  BY <1>1, <1>2 DEF RefuseConcluded, RefuseReplayedAttempt, RefuseSecondOutcome,
     RefuseReplayedOutcome, RefuseOrphan, FreshAttempt, FirstOutcome, Deciding

\* A repeat is answered from the memory, so the event it tells of is in the ledger at that seq.
LEMMA MemoryRepeat ==
  ASSUME TypeOK, ChainInv, MemoryInv, RepeatAttempt \/ RepeatOutcome
  PROVE  MemoryInv'
<1>1. CASE RepeatAttempt
  <2>1. pc = "handle" /\ UNCHANGED <<stored, sealedAttempts, sealedDigests>>
    BY <1>1 DEF RepeatAttempt, Deciding
  <2>2. PICK r \in SealedUnder(cur.event.id) :
          r.event = cur.event /\ acks' = acks \union {Ack(cur.event, r.seq)}
    BY <1>1 DEF RepeatAttempt
  <2>3. r \in Range(stored)
    BY <2>2 DEF SealedUnder, MemoryInv, MemoryInLedger
  <2>4. PICK n \in DOMAIN stored : stored[n] = r /\ r.seq = n - 1
    BY <2>3, RangeType DEF TypeOK, ChainInv, ChainFollowsStore, Linked
  <2>5. \A s \in Sessions : sess'[s].outcomes = sess[s].outcomes
    <3> DEFINE st == Heard(cur.event)
    <3>1. st \in [Sessions -> SessionSpace] /\ \A s \in Sessions : st[s].outcomes = sess[s].outcomes
      BY <2>1, DecidingFacts, OutcomesOf DEF TypeOK
    <3>2. sess' = [st EXCEPT ![cur.event.session].accepted = @ \union {cur.event.id}]
      BY <1>1 DEF RepeatAttempt
    <3> HIDE DEF st
    <3> QED
      BY <3>1, <3>2 DEF SessionSpace
  <2>6. AcksDurable'
    BY <2>1, <2>2, <2>4 DEF MemoryInv, AcksDurable, Ack
  <2> QED
    BY <2>1, <2>5, <2>6 DEF MemoryInv, MemoryInLedger
<1>2. CASE RepeatOutcome
  <2>1. pc = "handle" /\ UNCHANGED <<stored, sealedAttempts, sealedDigests>>
        /\ acks' = acks \union {Ack(cur.event, -1)}
    BY <1>2 DEF RepeatOutcome, Deciding
  <2>2. cur.event \in EventsOf(stored)
    BY <1>2, <2>1, DecidingFacts DEF RepeatOutcome, KnownOutcome, OutcomeOf, MemoryInv, MemoryInLedger
  <2>3. PICK n \in DOMAIN stored : stored[n].event = cur.event
    BY <2>2, RangeType DEF EventsOf, TypeOK
  <2>4. ~IsAttempt(cur.event)
    BY <1>2 DEF RepeatOutcome, Deciding, Wellformed
  <2>5. \A s \in Sessions : sess'[s].outcomes = sess[s].outcomes
    BY <1>2, <2>1, DecidingFacts, OutcomesOf DEF RepeatOutcome, TypeOK
  <2>6. AcksDurable'
    BY <2>1, <2>3, <2>4 DEF MemoryInv, AcksDurable, Ack
  <2> QED
    BY <2>1, <2>5, <2>6 DEF MemoryInv, MemoryInLedger
<1> QED
  BY <1>1, <1>2

\* _seal tells and remembers a record only once the store holds it.
LEMMA MemorySeal ==
  ASSUME TypeOK, ChainInv, MemoryInv, Seal
  PROVE  MemoryInv'
<1>1. CASE FailUnavailable \/ BeginSeal
  <2>1. pc = "handle" /\ sess' = Heard(cur.event)
        /\ UNCHANGED <<stored, sealedAttempts, sealedDigests, acks>>
    BY <1>1 DEF FailUnavailable, BeginSeal, Leave, SealableAttempt, SealableOutcome, FreshAttempt,
       FirstOutcome, Deciding
  <2>2. \A s \in Sessions : sess'[s].outcomes = sess[s].outcomes
    BY <2>1, DecidingFacts, OutcomesOf DEF TypeOK
  <2> QED
    BY <2>1, <2>2, MemoryKept
<1>2. CASE Countersign \/ CountersignFailed \/ SealInterrupted \/ AppendFailed
  BY <1>2, MemoryKept DEF Countersign, CountersignFailed, SealInterrupted, AppendFailed
<1>3. CASE Commit
  <2>1. pending \in RecordSpace /\ pending.event \in Events /\ pending.seq = count
    BY <1>3 DEF Commit, TypeOK, RecordSpace, ChainInv, PendingLinked
  <2>2. stored' \in Seq(RecordSpace) /\ Linked(stored')
    BY <1>3, TypeSeal, ChainSeal DEF Seal, TypeOK, ChainInv, ChainFollowsStore
  <2>3. pending \in Range(stored') /\ (UNCHANGED stored \/ stored' = Append(stored, pending))
    BY <1>3, <2>1, AppendKeepsRecords DEF Commit, TypeOK
  <2>4. PICK n \in DOMAIN stored' : stored'[n] = pending /\ pending.seq = n - 1
    BY <2>2, <2>3, RangeType DEF Linked
  <2>5. /\ Range(stored) \subseteq Range(stored') /\ EventsOf(stored) \subseteq EventsOf(stored')
        /\ \A m \in DOMAIN stored : m \in DOMAIN stored' /\ stored'[m] = stored[m]
    BY <2>1, <2>3, AppendKeepsRecords DEF TypeOK
  <2>6. sealedAttempts' \subseteq Range(stored') /\ sealedDigests' \subseteq EventsOf(stored')
    BY <1>3, <2>3, <2>5 DEF Commit, Remember, MemoryInv, MemoryInLedger, EventsOf
  <2>7. \A s \in Sessions : sess'[s].outcomes \subseteq sess[s].outcomes \union {pending.event}
    BY <1>3, <2>1, DecideType, OutcomesOf DEF Commit, TypeOK
  <2>8. MemoryInLedger'
    BY <2>3, <2>5, <2>6, <2>7 DEF MemoryInv, MemoryInLedger, EventsOf
  <2>9. acks' = acks \union {Ack(pending.event, pending.seq)}
    BY <1>3 DEF Commit
  <2>10. AcksDurable'
    BY <2>4, <2>5, <2>9 DEF MemoryInv, AcksDurable, Ack
  <2> QED
    BY <2>8, <2>10 DEF MemoryInv
<1> QED
  BY <1>1, <1>2, <1>3 DEF Seal

\* The repository only ever adds to the ledger.
LEMMA MemoryEnvironment ==
  ASSUME TypeOK, MemoryInv, Environment
  PROVE  MemoryInv'
<1>1. ASSUME NEW r \in inflight, StoreLand(r) \/ StoreLose(r)
      PROVE  MemoryInv'
  BY <1>1, MemoryKept DEF StoreLand, StoreLose, TypeOK
<1>2. ASSUME NEW e \in Events, ForeignAppend(e)
      PROVE  MemoryInv'
  <2>1. SealRecord(e, Len(stored), HashBefore(stored, Len(stored)), hashes + 1) \in RecordSpace
    BY HashBeforeType, SealRecordType DEF TypeOK
  <2> QED
    BY <1>2, <2>1, MemoryKept DEF ForeignAppend
<1>3. CASE TogglePersistence
  BY <1>3, MemoryKept DEF TogglePersistence
<1> QED
  BY <1>1, <1>2, <1>3 DEF Environment

\* resume rebuilds the memory from the stored chain, and what was told stays told.
LEMMA MemoryLifecycle ==
  ASSUME TypeOK, MemoryInv, Lifecycle
  PROVE  MemoryInv'
<1>1. ASSUME NEW s \in Sessions, OpenSession(s) \/ CloseSession(s)
      PROVE  MemoryInv'
  BY <1>1, MemoryKept DEF OpenSession, CloseSession, NewSession, TypeOK
<1>2. ASSUME NEW keep \in SUBSET open, NEW tracked \in SUBSET keep, Restart(keep, tracked)
      PROVE  MemoryInv'
  <2>1. stored \in Seq(RecordSpace) /\ Range(stored) = {stored[n] : n \in DOMAIN stored}
    BY RangeType DEF TypeOK
  <2>2. sealedAttempts' \subseteq Range(stored) /\ sealedDigests' \subseteq EventsOf(stored)
    BY <1>2, <2>1 DEF Restart
  <2>3. \A s \in Sessions : sess'[s].outcomes \subseteq EventsOf(stored)
    <3> SUFFICES ASSUME NEW s \in Sessions PROVE sess'[s].outcomes \subseteq EventsOf(stored)
      OBVIOUS
    <3>1. sess'[s] = IF s \in keep THEN Restored(s, s \in tracked) ELSE NewSession
      BY <1>2 DEF Restart
    <3>2. Restored(s, s \in tracked).outcomes \subseteq EventsOf(stored)
      BY DEF Restored
    <3> QED
      BY <3>1, <3>2 DEF NewSession
  <2> QED
    BY <1>2, <2>2, <2>3 DEF Restart, MemoryInv, MemoryInLedger, AcksDurable
<1> QED
  BY <1>1, <1>2 DEF Lifecycle

\* No step forgets what a tool was told, or remembers what is not in the ledger.
LEMMA MemoryNext == TypeOK /\ ChainInv /\ MemoryInv /\ [Next]_hostVars => MemoryInv'
<1> SUFFICES ASSUME TypeOK, ChainInv, MemoryInv, [Next]_hostVars PROVE MemoryInv'
  OBVIOUS
<1>1. CASE UNCHANGED hostVars
  BY <1>1, MemoryKept DEF hostVars
<1>2. CASE \E q \in Arrivals : TakeUp(q) \/ Expire(q)
  BY <1>2, MemoryKept DEF TakeUp, Expire
<1>3. CASE Holder
  BY <1>3, MemorySettle, MemoryRefuse, MemoryRepeat, MemorySeal DEF Holder, DecideAttempt, DecideOutcome
<1>4. CASE Deliver
  BY <1>4, MemoryKept DEF Deliver
<1>5. CASE Environment
  BY <1>5, MemoryEnvironment
<1>6. CASE Lifecycle
  BY <1>6, MemoryLifecycle
<1> QED
  BY <1>1, <1>2, <1>3, <1>4, <1>5, <1>6 DEF Next

\* Whatever a tool was told is in the ledger is stored there, an attempt at the seq it was told
\* (AuditHost._seal, _handle_attempt, _handle_outcome, resume), also when another writer shares the partition.
THEOREM AcksCorrect == Spec => []AcksDurable
<1>1. Init => TypeOK /\ ChainInv /\ MemoryInv
  BY TypeInit, ChainInit, MemoryInit
<1>2. TypeOK /\ ChainInv /\ MemoryInv /\ [Next]_hostVars => (TypeOK /\ ChainInv /\ MemoryInv)'
  BY TypeNext, ChainNext, MemoryNext
<1>3. MemoryInv => AcksDurable
  BY DEF MemoryInv
<1> QED
  BY <1>1, <1>2, <1>3, PTL DEF Spec

-----------------------------------------------------------------------------
(* What is numbered, of a host that is the only writer of its partition: another writer's records are not remembered  *)
(* (_settle_tail), and their values may be sealed again.                                                              *)

\* One signer_seq of one key and session.
SameValue(e, f) == e.session = f.session /\ e.key = f.key /\ e.sseq = f.sseq

\* The record being sealed carries a value the committed chain does not hold.
PendingFresh ==
  pc \in {"sign", "append"} => \A n \in 1..count : ~SameValue(pending.event, stored[n].event)

\* So does a write under way that may still land.
InflightFresh ==
  \A r \in inflight : r.seq = Len(stored) =>
    \A n \in 1..Len(stored) : ~SameValue(r.event, stored[n].event)

\* Nothing is written past the position after the host's own, so at most one stored record is uncommitted.
NearTail == Len(stored) <= count + 1 /\ \A r \in inflight : r.seq <= count

NumberInv == ValuesOnce /\ ValuesDecided /\ PendingFresh /\ InflightFresh /\ NearTail

HostShape == TypeOK /\ ChainInv

USE DEF storeVars, chainVars, sessVars, memoryVars, lockVars

-----------------------------------------------------------------------------
(* What sessions remember. *)

\* A decided value stays decided by what sealing, refusing or hearing an event does to its session.
LEMMA HeardDecided ==
  ASSUME sess \in [Sessions -> SessionSpace], NEW e \in Events, NEW s \in Sessions
  PROVE  Heard(e)[s].decided = sess[s].decided
BY EventsAssumption DEF Heard, SessionSpace, EventSpace

LEMMA DecideDecided ==
  ASSUME Level2, NEW st \in [Sessions -> SessionSpace], NEW e \in Events, NEW s \in Sessions
  PROVE  /\ st[s].decided \subseteq Decide(st, e)[s].decided
         /\ s = e.session => SignerValue(e) \in Decide(st, e)[s].decided
BY EventsAssumption, DecideType DEF Decide, SessionSpace, EventSpace

LEMMA AccountDecided ==
  ASSUME NEW st \in [Sessions -> SessionSpace], NEW e \in Events, NEW s \in Sessions
  PROVE  Account(st, e)[s].decided = st[s].decided
BY EventsAssumption DEF Account, SessionSpace, EventSpace

\* What sealing or adopting an event does to its session.
LEMMA SealedDecided ==
  ASSUME Level2, sess \in [Sessions -> SessionSpace], NEW e \in Events, NEW s \in Sessions
  PROVE  /\ sess[s].decided \subseteq Account(Decide(sess, e), e)[s].decided
         /\ s = e.session => SignerValue(e) \in Account(Decide(sess, e), e)[s].decided
<1>1. PICK st \in [Sessions -> SessionSpace] : st = Decide(sess, e)
  BY DecideType
<1> QED
  BY <1>1, DecideDecided, AccountDecided

-----------------------------------------------------------------------------
(* Steps that leave the chain alone. *)

\* What is committed stays decided while sessions only learn, and close.
LEMMA NumberUntouched ==
  ASSUME HostShape, NumberInv, UNCHANGED <<stored, inflight, count>>, open' \subseteq open,
         pc' \in {"sign", "append"} => pc \in {"sign", "append"} /\ pending' = pending,
         \A s \in open' : sess[s].decided \subseteq sess'[s].decided
  PROVE  NumberInv'
<1> USE DEF NumberInv
<1>1. ValuesOnce' /\ InflightFresh' /\ NearTail'
  BY DEF ValuesOnce, InflightFresh, NearTail
<1>2. ValuesDecided'
  BY DEF ValuesDecided
<1>3. PendingFresh'
  BY DEF PendingFresh
<1> QED
  BY <1>1, <1>2, <1>3

\* A refusal, an answer from the ledger or a failure seals nothing.
LEMMA NumberRefuse ==
  ASSUME Level2, HostShape, NumberInv,
         \/ RefuseUnadmitted \/ RefuseUnverified \/ DecideAttempt \/ DecideOutcome \/ FailUnavailable
  PROVE  NumberInv'
<1>1. sess \in [Sessions -> SessionSpace] /\ open \subseteq Sessions
  BY DEF HostShape, TypeOK
<1>2. pc = "handle" /\ UNCHANGED <<stored, inflight, count, open>> /\ pc' = "answer"
  BY DEF RefuseUnadmitted, RefuseUnverified, DecideAttempt, DecideOutcome, FailUnavailable, RepeatAttempt,
     RefuseConcluded, RefuseReplayedAttempt, RepeatOutcome, RefuseSecondOutcome, RefuseReplayedOutcome, RefuseOrphan,
     FreshAttempt, FirstOutcome, SealableAttempt, SealableOutcome, Deciding, Refuse, Leave, FailClosed, Answer
<1>3. cur.event \in Events /\ cur.event.session \in Sessions /\ Heard(cur.event) \in [Sessions -> SessionSpace]
  BY <1>2, DecidingFacts DEF HostShape
<1>4. \/ sess' = sess \/ sess' = Heard(cur.event)
      \/ sess' = Decide(Heard(cur.event), cur.event)
      \/ sess' = [Heard(cur.event) EXCEPT ![cur.event.session].accepted = @ \union {cur.event.id}]
  BY DEF RefuseUnadmitted, RefuseUnverified, DecideAttempt, DecideOutcome, FailUnavailable, RepeatAttempt,
     RefuseConcluded, RefuseReplayedAttempt, RepeatOutcome, RefuseSecondOutcome, RefuseReplayedOutcome, RefuseOrphan,
     Refuse, Leave
<1>5. \A s \in Sessions : sess[s].decided \subseteq sess'[s].decided
  <2>1. PICK st \in [Sessions -> SessionSpace] : st = Heard(cur.event)
    BY <1>3
  <2>2. \A s \in Sessions : st[s].decided = sess[s].decided
    BY <1>1, <1>3, <2>1, HeardDecided
  <2>3. \A s \in Sessions : st[s].decided \subseteq Decide(st, cur.event)[s].decided
    BY <1>3, DecideDecided
  <2>4. \A s \in Sessions :
          [st EXCEPT ![cur.event.session].accepted = @ \union {cur.event.id}][s].decided = st[s].decided
    BY DEF SessionSpace
  <2> QED
    BY <1>4, <2>1, <2>2, <2>3, <2>4
<1> QED
  BY <1>1, <1>2, <1>5, NumberUntouched

\* The lock is taken, given up or handed on; the store loses a write; the switch is turned.
LEMMA NumberAside ==
  ASSUME HostShape, NumberInv,
         \/ \E q : TakeUp(q) \/ Expire(q)
         \/ SettleUnreadable \/ SettleUnchanged \/ Interrupt \/ CountersignFailed \/ SealInterrupted \/ AppendFailed
         \/ Deliver \/ TogglePersistence \/ UNCHANGED hostVars
  PROVE  NumberInv'
<1>1. UNCHANGED <<stored, inflight, count, open, sess>>
  BY DEF TakeUp, Expire, SettleUnreadable, SettleUnchanged, Interrupt, CountersignFailed, SealInterrupted,
     AppendFailed, Deliver, TogglePersistence, hostVars
<1>2. pc' \in {"sign", "append"} => pc \in {"sign", "append"} /\ pending' = pending
  BY DEF TakeUp, Expire, SettleUnreadable, SettleUnchanged, Interrupt, CountersignFailed, SealInterrupted,
     AppendFailed, Deliver, TogglePersistence, hostVars, FailClosed, Raised, Answer
<1> QED
  BY <1>1, <1>2, NumberUntouched

-----------------------------------------------------------------------------
(* Steps that seal, land or adopt. *)

\* Positions of the chain, and the kinds of what the invariant speaks of.
LEMMA NumberShape ==
  ASSUME HostShape, NumberInv
  PROVE  /\ stored \in Seq(RecordSpace) /\ count \in 0..Len(stored) /\ Len(stored) \in {count, count + 1}
         /\ DOMAIN stored = 1..Len(stored)
         /\ sess \in [Sessions -> SessionSpace] /\ open \subseteq Sessions
         /\ \A n \in 1..Len(stored) : stored[n] \in RecordSpace /\ stored[n].event \in Events
                                      /\ stored[n].event.session \in Sessions
<1>1. /\ stored \in Seq(RecordSpace) /\ count \in Nat /\ sess \in [Sessions -> SessionSpace] /\ open \subseteq Sessions
  BY DEF HostShape, TypeOK
<1>2. Len(stored) \in Nat /\ DOMAIN stored = 1..Len(stored)
  BY <1>1
<1>3. count <= Len(stored) /\ Len(stored) <= count + 1
  BY DEF HostShape, ChainInv, ChainFollowsStore, NumberInv, NearTail
<1>4. ASSUME NEW l \in Nat, NEW c \in Nat, c <= l, l <= c + 1
      PROVE  c \in 0..l /\ l \in {c, c + 1}
  BY <1>4
<1>5. count \in 0..Len(stored) /\ Len(stored) \in {count, count + 1}
  BY <1>1, <1>2, <1>3, <1>4
<1>6. ASSUME NEW n \in 1..Len(stored)
      PROVE  stored[n] \in RecordSpace /\ stored[n].event \in Events /\ stored[n].event.session \in Sessions
  <2>1. stored[n] \in RecordSpace
    BY <1>1, <1>6
  <2>2. stored[n].event \in Events
    BY <2>1 DEF RecordSpace
  <2> QED
    BY <2>1, <2>2, EventsAssumption DEF EventSpace
<1> QED
  BY <1>1, <1>2, <1>5, <1>6

LEMMA NumberBeginSeal ==
  ASSUME Level2, HostShape, NumberInv, BeginSeal
  PROVE  NumberInv'
<1>1. /\ pc = "handle" /\ cur.event.session \in open /\ SignerValue(cur.event) \notin sess[cur.event.session].decided
  BY DEF BeginSeal, SealableAttempt, SealableOutcome, FreshAttempt, FirstOutcome, Deciding, InSession, Replayed
<1>2. /\ cur.event \in Events /\ cur.event.session \in Sessions
  BY <1>1, DecidingFacts DEF HostShape
<1>3. \A s \in Sessions : sess'[s].decided = sess[s].decided
  BY <1>2, HeardDecided DEF BeginSeal, HostShape, TypeOK
<1>4. /\ UNCHANGED <<stored, count, open>>
      /\ pending' = SealRecord(cur.event, count, tail, hashes + 1)
      /\ inflight' \subseteq inflight \cup {pending'}
  BY DEF BeginSeal
<1>5. pending'.event = cur.event /\ pending'.seq = count
  BY <1>4 DEF SealRecord
<1>6. \A n \in 1..count : ~SameValue(cur.event, stored[n].event)
  BY <1>1 DEF NumberInv, ValuesDecided, SameValue, SignerValue
<1>7. PendingFresh'
  BY <1>4, <1>5, <1>6 DEF PendingFresh
<1>8. InflightFresh'
  BY <1>4, <1>5, <1>6, NumberShape DEF NumberInv, InflightFresh
<1>9. NearTail'
  BY <1>4, <1>5, NumberShape DEF NumberInv, NearTail
<1>10. ValuesOnce' /\ ValuesDecided'
  BY <1>3, <1>4, NumberShape DEF NumberInv, ValuesOnce, ValuesDecided
<1> QED
  BY <1>7, <1>8, <1>9, <1>10 DEF NumberInv

LEMMA NumberCountersign ==
  ASSUME HostShape, NumberInv, Countersign
  PROVE  NumberInv'
<1>1. /\ UNCHANGED <<stored, count, open, sess, pending>> /\ inflight' \subseteq inflight \cup {pending}
      /\ pc = "sign"
  BY DEF Countersign
<1>2. pending.seq = count /\ \A n \in 1..count : ~SameValue(pending.event, stored[n].event)
  BY <1>1 DEF HostShape, ChainInv, PendingLinked, NumberInv, PendingFresh
<1>3. PendingFresh' /\ NearTail'
  BY <1>1, <1>2, NumberShape DEF NumberInv, PendingFresh, NearTail
<1>4. InflightFresh'
  BY <1>1, <1>2, NumberShape DEF NumberInv, InflightFresh
<1>5. ValuesOnce' /\ ValuesDecided'
  BY <1>1 DEF NumberInv, ValuesOnce, ValuesDecided
<1> QED
  BY <1>3, <1>4, <1>5 DEF NumberInv

\* A record with a value the chain does not hold may follow it.
LEMMA AppendOnce ==
  ASSUME HostShape, NumberInv, NEW r \in RecordSpace, stored' = Append(stored, r),
         \A n \in 1..Len(stored) : ~SameValue(r.event, stored[n].event)
  PROVE  /\ ValuesOnce' /\ Len(stored') = Len(stored) + 1 /\ stored'[Len(stored) + 1] = r
         /\ \A n \in 1..Len(stored) : stored'[n] = stored[n]
<1>1. /\ Len(stored') = Len(stored) + 1 /\ DOMAIN stored' = 1..(Len(stored) + 1)
      /\ stored'[Len(stored) + 1] = r /\ \A n \in 1..Len(stored) : stored'[n] = stored[n]
  BY NumberShape
<1>2. \A m, n \in 1..Len(stored) : SameValue(stored[m].event, stored[n].event) => m = n
  BY NumberShape DEF NumberInv, ValuesOnce, SameValue
<1>3. ASSUME NEW m \in DOMAIN stored', NEW n \in DOMAIN stored', SameValue(stored'[m].event, stored'[n].event)
      PROVE  m = n
  <2>1. Len(stored) \in Nat
    BY NumberShape
  <2>2. CASE m \in 1..Len(stored) /\ n \in 1..Len(stored)
    BY <1>1, <1>2, <1>3, <2>2
  <2>3. CASE m = Len(stored) + 1 /\ n \in 1..Len(stored)
    BY <1>1, <1>3, <2>3
  <2>4. CASE n = Len(stored) + 1 /\ m \in 1..Len(stored)
    BY <1>1, <1>3, <2>4 DEF SameValue
  <2>5. CASE m = Len(stored) + 1 /\ n = Len(stored) + 1
    BY <2>5
  <2> QED
    BY <1>1, <2>1, <2>2, <2>3, <2>4, <2>5
<1>4. ValuesOnce'
  BY <1>3 DEF ValuesOnce, SameValue
<1> QED
  BY <1>1, <1>4

\* The host moves on by one record, which it accounts to its session if that is open.
LEMMA NumberAdvance ==
  ASSUME Level2, HostShape, NumberInv, NEW r \in RecordSpace, ValuesOnce', count' = count + 1,
         Len(stored') = count + 1, stored'[count + 1] = r, \A n \in 1..count : stored'[n] = stored[n],
         inflight' \subseteq inflight, pc' \notin {"sign", "append"}, open' = open,
         r.event.session \in open => sess' = Account(Decide(sess, r.event), r.event),
         \A s \in Sessions : sess[s].decided \subseteq sess'[s].decided
  PROVE  NumberInv'
<1>1. ValuesDecided'
  <2> SUFFICES ASSUME NEW n \in 1..(count + 1), stored'[n].event.session \in open
               PROVE  SignerValue(stored'[n].event) \in sess'[stored'[n].event.session].decided
    BY DEF ValuesDecided
  <2>1. CASE n = count + 1
    <3>1. r.event \in Events /\ r.event.session \in Sessions
      BY EventsAssumption DEF RecordSpace, EventSpace
    <3> QED
      BY <2>1, <3>1, SealedDecided, NumberShape
  <2>2. CASE n \in 1..count
    BY <2>2, NumberShape DEF NumberInv, ValuesDecided
  <2> QED
    BY <2>1, <2>2, NumberShape
<1>2. NearTail' /\ PendingFresh'
  BY NumberShape DEF NumberInv, NearTail, PendingFresh, HostShape, TypeOK, RecordSpace
<1>3. InflightFresh'
  <2>1. \A w \in inflight' : w.seq <= count /\ w.seq \in Nat
    BY DEF NumberInv, NearTail, HostShape, TypeOK, RecordSpace
  <2> QED
    BY <2>1, NumberShape DEF InflightFresh
<1> QED
  BY <1>1, <1>2, <1>3 DEF NumberInv

\* Committing the record: it was the next one, and no other of its value was stored.
LEMMA NumberCommit ==
  ASSUME Level2, HostShape, NumberInv, Commit
  PROVE  NumberInv'
<1>1. /\ pc = "append" /\ pc' = "answer" /\ pending \in RecordSpace /\ pending.seq = count
      /\ UNCHANGED <<inflight, open>> /\ count' = count + 1
      /\ sess' = Account(Decide(sess, pending.event), pending.event)
  BY DEF Commit, Answer, HostShape, TypeOK, ChainInv, PendingLinked
<1>2. pending.event \in Events
  BY <1>1 DEF RecordSpace
<1>3. \A s \in Sessions : sess[s].decided \subseteq sess'[s].decided
  BY <1>1, <1>2, SealedDecided, NumberShape
<1>4. \A n \in 1..count : ~SameValue(pending.event, stored[n].event)
  BY <1>1 DEF NumberInv, PendingFresh
<1>5. CASE Durable
  <2>1. stored' = stored /\ pending \in Range(stored)
    BY <1>5 DEF Commit
  <2>2. PICK n \in 1..Len(stored) : stored[n] = pending
    BY <2>1, RangeType, NumberShape
  <2>3. n = count + 1
    BY <1>1, <2>2, NumberShape DEF HostShape, ChainInv, ChainFollowsStore, Linked
  <2>4. Len(stored) = count + 1 /\ stored[count + 1] = pending
    BY <2>2, <2>3, NumberShape
  <2>5. ValuesOnce'
    BY <2>1 DEF NumberInv, ValuesOnce
  <2> QED
    BY <1>1, <1>3, <2>1, <2>4, <2>5, NumberAdvance
<1>6. CASE ~Durable
  <2>1. stored' = Append(stored, pending) /\ Len(stored) = count
    BY <1>6 DEF Commit, HostShape, ChainInv, OnlyCopy
  <2>2. /\ ValuesOnce' /\ Len(stored') = count + 1 /\ stored'[count + 1] = pending
        /\ \A n \in 1..count : stored'[n] = stored[n]
    BY <1>1, <1>4, <2>1, AppendOnce
  <2> QED
    BY <1>1, <1>3, <2>2, NumberAdvance
<1> QED
  BY <1>5, <1>6

\* Adopting the record that landed after all.
LEMMA NumberSettle ==
  ASSUME Level2, HostShape, NumberInv, SettleAdopt \/ SettleForeign
  PROVE  NumberInv'
<1>1. CASE SettleForeign
  BY <1>1, NumberShape DEF SettleForeign
<1>2. CASE SettleAdopt
  <2>1. PICK r \in RecordSpace : r = stored[count + 1]
    BY <1>2, NumberShape DEF SettleAdopt, Landed
  <2>2. r.event \in Events
    BY DEF RecordSpace
  <2>3. /\ UNCHANGED <<stored, inflight, open>> /\ count' = count + 1 /\ Len(stored) = count + 1 /\ pc' = "handle"
        /\ sess' = IF r.event.session \in open THEN Account(Decide(sess, r.event), r.event) ELSE sess
    BY <1>2, <2>1 DEF SettleAdopt, Landed
  <2>4. \A s \in Sessions : sess[s].decided \subseteq sess'[s].decided
    BY <2>2, <2>3, SealedDecided, NumberShape
  <2>5. ValuesOnce'
    BY <2>3 DEF NumberInv, ValuesOnce
  <2> QED
    BY <2>1, <2>3, <2>4, <2>5, NumberAdvance
<1> QED
  BY <1>1, <1>2

\* The store takes a write at its own position only, and there is one such write per value.
LEMMA NumberStore ==
  ASSUME HostShape, NumberInv, NEW r \in inflight, StoreLand(r) \/ StoreLose(r)
  PROVE  NumberInv'
<1>1. UNCHANGED <<count, open, sess, pc, pending>> /\ inflight' \subseteq inflight
  BY DEF StoreLand, StoreLose
<1>2. CASE StoreLose(r)
  <2>1. stored' = stored
    BY <1>2 DEF StoreLose
  <2> QED
    BY <1>1, <2>1 DEF NumberInv, ValuesOnce, ValuesDecided, PendingFresh, InflightFresh, NearTail
<1>3. CASE StoreLand(r)
  <2>1. stored' = Append(stored, r) /\ r.seq = Len(stored) /\ r \in RecordSpace
    BY <1>3 DEF StoreLand, HostShape, TypeOK
  <2>2. Len(stored) = count
    BY <2>1, NumberShape DEF NumberInv, NearTail
  <2>3. /\ ValuesOnce' /\ Len(stored') = count + 1 /\ \A n \in 1..count : stored'[n] = stored[n]
    BY <2>1, <2>2, AppendOnce DEF NumberInv, InflightFresh
  <2>4. ValuesDecided' /\ PendingFresh'
    BY <1>1, <2>3 DEF NumberInv, ValuesDecided, PendingFresh
  <2>5. NearTail'
    BY <1>1, <2>3, NumberShape DEF NumberInv, NearTail
  <2>6. InflightFresh'
    <3>1. \A w \in inflight' : w.seq <= count /\ w.seq \in Nat
      BY <1>1 DEF NumberInv, NearTail, HostShape, TypeOK, RecordSpace
    <3> QED
      BY <2>3, <3>1, NumberShape DEF InflightFresh
  <2> QED
    BY <2>3, <2>4, <2>5, <2>6 DEF NumberInv
<1> QED
  BY <1>2, <1>3

\* Sessions begin with an id no record has, and end with what they knew.
LEMMA NumberSessions ==
  ASSUME HostShape, NumberInv, NEW s \in Sessions, OpenSession(s) \/ CloseSession(s)
  PROVE  NumberInv'
<1>1. CASE CloseSession(s)
  <2>1. \A q \in open' : sess'[q] = sess[q]
    BY <1>1, NumberShape DEF CloseSession
  <2> QED
    BY <1>1, <2>1, NumberUntouched DEF CloseSession
<1>2. CASE OpenSession(s)
  <2>1. UNCHANGED <<stored, inflight, count, pc, pending>> /\ open' = open \cup {s}
        /\ \A q \in Sessions \ {s} : sess'[q] = sess[q]
    BY <1>2, NumberShape DEF OpenSession
  <2>2. \A n \in 1..Len(stored) : stored[n].event.session # s
    BY <1>2, RangeType, NumberShape DEF OpenSession, Unused
  <2>3. ValuesDecided'
    BY <2>1, <2>2, NumberShape DEF NumberInv, ValuesDecided
  <2> QED
    BY <2>1, <2>3 DEF NumberInv, ValuesOnce, PendingFresh, InflightFresh, NearTail
<1> QED
  BY <1>1, <1>2

\* A restored session has decided what its ledger holds.
LEMMA NumberRestart ==
  ASSUME HostShape, NumberInv, NEW keep \in SUBSET open, NEW tracked \in SUBSET keep, Restart(keep, tracked)
  PROVE  NumberInv'
<1>1. /\ UNCHANGED <<stored, inflight>> /\ count' = Len(stored) /\ open' = keep /\ pc' = "idle"
      /\ sess' = [s \in Sessions |-> IF s \in keep THEN Restored(s, s \in tracked) ELSE NewSession]
  BY DEF Restart
<1>2. ValuesDecided'
  <2> SUFFICES ASSUME NEW n \in 1..Len(stored), stored[n].event.session \in keep
               PROVE  SignerValue(stored[n].event) \in sess'[stored[n].event.session].decided
    BY <1>1 DEF ValuesDecided
  <2>1. PICK e \in Events : e = stored[n].event
    BY NumberShape
  <2>2. e \in EventsOf(stored) /\ e.session \in Sessions
    BY <2>1, RangeType, NumberShape DEF EventsOf
  <2>3. SignerValue(e) \in Restored(e.session, e.session \in tracked).decided
    BY <2>2 DEF Restored
  <2> QED
    BY <1>1, <2>1, <2>2, <2>3
<1>3. NearTail'
  BY <1>1, NumberShape DEF NearTail, HostShape, ChainInv, InflightLinked
<1>4. ValuesOnce' /\ PendingFresh' /\ InflightFresh'
  BY <1>1 DEF NumberInv, ValuesOnce, PendingFresh, InflightFresh
<1> QED
  BY <1>2, <1>3, <1>4 DEF NumberInv

-----------------------------------------------------------------------------
(* The theorems. *)

LEMMA NumberInit == Init => NumberInv
BY DEF Init, NumberInv, ValuesOnce, ValuesDecided, PendingFresh, InflightFresh, NearTail

LEMMA NumberNext ==
  ASSUME Level2, foreign' = 0, HostShape, NumberInv, [Next]_hostVars
  PROVE  NumberInv'
<1>1. CASE (\E q \in Arrivals : TakeUp(q) \/ Expire(q)) \/ Deliver \/ UNCHANGED hostVars
  BY <1>1, NumberAside
<1>2. CASE Settle \/ Interrupt
  BY <1>2, NumberAside, NumberSettle DEF Settle
<1>3. CASE RefuseUnadmitted \/ RefuseUnverified \/ DecideAttempt \/ DecideOutcome
  BY <1>3, NumberRefuse
<1>4. CASE Seal
  BY <1>4, NumberRefuse, NumberBeginSeal, NumberCountersign, NumberAside, NumberCommit DEF Seal
<1>5. CASE Environment
  <2>1. ~\E e \in Events : ForeignAppend(e)
    BY DEF ForeignAppend, HostShape, TypeOK
  <2> QED
    BY <1>5, <2>1, NumberStore, NumberAside DEF Environment
<1>6. CASE Lifecycle
  BY <1>6, NumberSessions, NumberRestart DEF Lifecycle
<1> QED
  BY <1>1, <1>2, <1>3, <1>4, <1>5, <1>6 DEF Next, Holder

\* Another writer's records are never taken back.
LEMMA ForeignStays ==
  ASSUME HostShape, [Next]_hostVars, foreign' = 0
  PROVE  foreign = 0
<1>1. CASE Holder
  BY <1>1 DEF Holder, Settle, SettleUnreadable, SettleAdopt, SettleForeign, SettleUnchanged, Interrupt, RefuseUnadmitted,
     RefuseUnverified, DecideAttempt, RepeatAttempt, RefuseConcluded, RefuseReplayedAttempt, DecideOutcome,
     RepeatOutcome, RefuseSecondOutcome, RefuseReplayedOutcome, RefuseOrphan, Refuse, Seal, FailUnavailable, Leave,
     BeginSeal, Countersign, CountersignFailed, SealInterrupted, AppendFailed, Commit
<1>2. CASE Environment
  BY <1>2 DEF Environment, StoreLand, StoreLose, ForeignAppend, TogglePersistence, HostShape, TypeOK
<1>3. CASE Lifecycle
  BY <1>3 DEF Lifecycle, OpenSession, CloseSession, Restart
<1>4. CASE (\E q \in Arrivals : TakeUp(q) \/ Expire(q)) \/ Deliver \/ UNCHANGED hostVars
  BY <1>4 DEF TakeUp, Expire, Deliver, hostVars
<1> QED
  BY <1>1, <1>2, <1>3, <1>4 DEF Next

LEMMA NumberAlways ==
  ASSUME Level2
  PROVE  Spec => [](SignerSeqOnce /\ DecidedCoversLedger)
<1> DEFINE Numbered == OnlyWriter => NumberInv
<1>1. Init => HostShape /\ Numbered
  BY TypeInit, ChainInit, NumberInit DEF HostShape
<1>2. HostShape /\ Numbered /\ [Next]_hostVars => HostShape' /\ Numbered'
  <2>1. HostShape /\ [Next]_hostVars => HostShape'
    BY TypeNext, ChainNext DEF HostShape
  <2>2. HostShape /\ Numbered /\ [Next]_hostVars => Numbered'
    BY ForeignStays, NumberNext DEF OnlyWriter
  <2> QED
    BY <2>1, <2>2
<1>3. Numbered => SignerSeqOnce /\ DecidedCoversLedger
  BY DEF NumberInv, SignerSeqOnce, DecidedCoversLedger
<1> QED
  BY <1>1, <1>2, <1>3, PTL DEF Spec

(* No signer_seq of one key and session is sealed twice (_check_replay, _decide), whatever appends fail, land late    *)
(* and are adopted, and whatever sessions a restart restores, while this host alone has written to its partition.        *)
THEOREM NumberOnceCorrect ==
  ASSUME Level2
  PROVE  Spec => []SignerSeqOnce
BY NumberAlways, PTL

(* An open session has decided every value its committed ledger holds, so that a late or repeated event is known.   *)
THEOREM DecidedCorrect ==
  ASSUME Level2
  PROVE  Spec => []DecidedCoversLedger
BY NumberAlways, PTL

-----------------------------------------------------------------------------
(* What is received, where nothing is ever adopted: without a repository.  *)

\* The record being sealed is of an open session, which has heard of it.
PendingHeard ==
  pc \in {"sign", "append"} =>
    /\ pending.event.session \in open
    /\ SignerValue(pending.event) \in sess[pending.event.session].received

ReceivedInv == ReceivedCoversLedger /\ PendingHeard /\ open \subseteq issued

\* A received value stays received by what hearing, deciding or sealing an event does to its session.
LEMMA HeardReceives ==
  ASSUME Level2, sess \in [Sessions -> SessionSpace], NEW e \in Events, NEW s \in Sessions
  PROVE  /\ sess[s].received \subseteq Heard(e)[s].received
         /\ s = e.session => SignerValue(e) \in Heard(e)[s].received
<1>1. e.key \in Keys /\ e.sseq \in Nat /\ e.session \in Sessions
  BY EventsAssumption DEF EventSpace
<1>2. SignerValue(e) \in UpTo(e)
  BY <1>1 DEF SignerValue, UpTo
<1>3. Heard(e) = [sess EXCEPT ![e.session].received = @ \union UpTo(e)]
  BY DEF Heard
<1> QED
  BY <1>1, <1>2, <1>3 DEF SessionSpace

LEMMA DecideReceived ==
  ASSUME NEW st \in [Sessions -> SessionSpace], NEW e \in Events, NEW s \in Sessions
  PROVE  Decide(st, e)[s].received = st[s].received
BY EventsAssumption DEF Decide, SessionSpace, EventSpace

LEMMA AccountReceived ==
  ASSUME NEW st \in [Sessions -> SessionSpace], NEW e \in Events, NEW s \in Sessions
  PROVE  Account(st, e)[s].received = st[s].received
BY EventsAssumption DEF Account, SessionSpace, EventSpace

\* Sessions only hear more, while the chain is left alone.
LEMMA ReceivedUntouched ==
  ASSUME ReceivedInv, UNCHANGED <<stored, count, open, issued>>, open \subseteq Sessions,
         \A n \in 1..count : stored[n].event.session \in Sessions,
         \A s \in Sessions : sess[s].received \subseteq sess'[s].received,
         \/ pc' \notin {"sign", "append"}
         \/ pc \in {"sign", "append"} /\ pending' = pending
         \/ /\ pending'.event.session \in open
            /\ SignerValue(pending'.event) \in sess'[pending'.event.session].received
  PROVE  ReceivedInv'
<1>1. ReceivedCoversLedger'
  BY DEF ReceivedInv, ReceivedCoversLedger
<1>2. PendingHeard'
  BY DEF ReceivedInv, PendingHeard
<1> QED
  BY <1>1, <1>2 DEF ReceivedInv

LEMMA ReceivedAside ==
  ASSUME HostShape, ReceivedInv, \A n \in 1..count : stored[n].event.session \in Sessions,
         \/ \E q : TakeUp(q) \/ Expire(q)
         \/ Interrupt \/ Countersign \/ CountersignFailed \/ SealInterrupted \/ AppendFailed
         \/ RefuseUnadmitted \/ RefuseUnverified \/ Deliver \/ TogglePersistence \/ UNCHANGED hostVars
  PROVE  ReceivedInv'
<1>1. UNCHANGED <<stored, count, open, issued, sess>>
  BY DEF TakeUp, Expire, Interrupt, Countersign, CountersignFailed, SealInterrupted, AppendFailed, RefuseUnadmitted,
     RefuseUnverified, Deliver, TogglePersistence, hostVars
<1>2. pc' \in {"sign", "append"} => pc \in {"sign", "append"} /\ pending' = pending
  BY DEF TakeUp, Expire, Interrupt, Countersign, CountersignFailed, SealInterrupted, AppendFailed, RefuseUnadmitted,
     RefuseUnverified, Deliver, TogglePersistence, hostVars, FailClosed, Raised, Answer
<1>3. open \subseteq Sessions
  BY DEF HostShape, TypeOK
<1> QED
  BY <1>1, <1>2, <1>3, ReceivedUntouched

\* Every decision on a verified event hears it.
LEMMA ReceivedDecide ==
  ASSUME Level2, HostShape, ReceivedInv, \A n \in 1..count : stored[n].event.session \in Sessions,
         DecideAttempt \/ DecideOutcome \/ FailUnavailable \/ BeginSeal
  PROVE  ReceivedInv'
<1>1. /\ pc = "handle" /\ UNCHANGED <<stored, count, open, issued>> /\ cur.event.session \in open
  BY DEF DecideAttempt, DecideOutcome, FailUnavailable, RepeatAttempt, BeginSeal, InSession,
     RefuseConcluded, RefuseReplayedAttempt, RepeatOutcome, RefuseSecondOutcome, RefuseReplayedOutcome, RefuseOrphan,
     FreshAttempt, FirstOutcome, SealableAttempt, SealableOutcome, Deciding, Refuse, Leave, FailClosed, Answer
<1>2. /\ cur.event \in Events /\ cur.event.session \in Sessions
      /\ sess \in [Sessions -> SessionSpace] /\ open \subseteq Sessions
  BY <1>1, DecidingFacts DEF HostShape, TypeOK
<1>3. PICK st \in [Sessions -> SessionSpace] : st = Heard(cur.event)
  BY <1>1, DecidingFacts DEF HostShape
<1>4. /\ \A s \in Sessions : sess[s].received \subseteq st[s].received
      /\ SignerValue(cur.event) \in st[cur.event.session].received
  BY <1>2, <1>3, HeardReceives
<1>5. \A s \in Sessions : st[s].received = sess'[s].received
  <2>1. \/ sess' = st
        \/ sess' = Decide(st, cur.event)
        \/ sess' = [st EXCEPT ![cur.event.session].accepted = @ \union {cur.event.id}]
    BY <1>3 DEF DecideAttempt, DecideOutcome, FailUnavailable, BeginSeal, RepeatAttempt, RefuseConcluded,
       RefuseReplayedAttempt, RepeatOutcome, RefuseSecondOutcome, RefuseReplayedOutcome, RefuseOrphan, Refuse, Leave
  <2>2. \A s \in Sessions :
          [st EXCEPT ![cur.event.session].accepted = @ \union {cur.event.id}][s].received = st[s].received
    BY DEF SessionSpace
  <2>3. \A s \in Sessions : Decide(st, cur.event)[s].received = st[s].received
    BY <1>2, DecideReceived
  <2> QED
    BY <2>1, <2>2, <2>3
<1>6. pc' \notin {"sign", "append"} \/ pending'.event = cur.event
  BY DEF DecideAttempt, DecideOutcome, FailUnavailable, BeginSeal, RepeatAttempt, RefuseConcluded, SealRecord,
     RefuseReplayedAttempt, RepeatOutcome, RefuseSecondOutcome, RefuseReplayedOutcome, RefuseOrphan, Refuse, Leave,
     FailClosed, Answer
<1> QED
  BY <1>1, <1>2, <1>4, <1>5, <1>6, ReceivedUntouched

\* What is committed was received before.
LEMMA ReceivedCommit ==
  ASSUME ~Durable, HostShape, ReceivedInv, Commit
  PROVE  ReceivedInv'
<1>1. /\ pc = "append" /\ pc' = "answer" /\ pending \in RecordSpace /\ count' = count + 1
      /\ UNCHANGED <<open, issued>> /\ stored' = Append(stored, pending) /\ Len(stored) = count
      /\ stored \in Seq(RecordSpace) /\ count \in Nat /\ sess \in [Sessions -> SessionSpace]
      /\ sess' = Account(Decide(sess, pending.event), pending.event) /\ open \subseteq Sessions
  BY DEF Commit, Answer, HostShape, TypeOK, ChainInv, OnlyCopy
<1>2. stored'[count + 1] = pending /\ \A n \in 1..count : stored'[n] = stored[n]
  BY <1>1
<1>3. pending.event \in Events
  BY <1>1 DEF RecordSpace
<1>4. PICK st \in [Sessions -> SessionSpace] : st = Decide(sess, pending.event)
  BY <1>1, <1>3, DecideType
<1>5. \A s \in Sessions : sess'[s].received = sess[s].received
  BY <1>1, <1>3, <1>4, DecideReceived, AccountReceived
<1>6. ReceivedCoversLedger'
  <2> SUFFICES ASSUME NEW n \in 1..(count + 1), stored'[n].event.session \in open
               PROVE  SignerValue(stored'[n].event) \in sess'[stored'[n].event.session].received
    BY <1>1 DEF ReceivedCoversLedger
  <2>1. CASE n = count + 1
    BY <1>1, <1>2, <1>5, <2>1 DEF ReceivedInv, PendingHeard
  <2>2. CASE n \in 1..count
    BY <1>1, <1>2, <1>5, <2>2 DEF ReceivedInv, ReceivedCoversLedger
  <2> QED
    BY <1>1, <2>1, <2>2
<1> QED
  BY <1>1, <1>6 DEF ReceivedInv, PendingHeard

\* A session opens with nothing sealed under it, and closes when nothing is being sealed.
LEMMA ReceivedSessions ==
  ASSUME HostShape, ReceivedInv, count <= Len(stored), NEW s \in Sessions, OpenSession(s) \/ CloseSession(s)
  PROVE  ReceivedInv'
<1>1. /\ UNCHANGED <<stored, count, pc, pending>> /\ sess' = [sess EXCEPT ![s] = NewSession]
      /\ stored \in Seq(RecordSpace) /\ count \in Nat /\ sess \in [Sessions -> SessionSpace] /\ open \subseteq Sessions
  BY DEF OpenSession, CloseSession, HostShape, TypeOK
<1>2. \A q \in Sessions \ {s} : sess'[q] = sess[q]
  BY <1>1
<1>3. CASE CloseSession(s)
  <2>1. open' = open \ {s} /\ pc = "idle" /\ UNCHANGED issued
    BY <1>3 DEF CloseSession
  <2> QED
    BY <1>1, <1>2, <2>1 DEF ReceivedInv, ReceivedCoversLedger, PendingHeard
<1>4. CASE OpenSession(s)
  <2>1. open' = open \cup {s} /\ issued' = issued \cup {s} /\ s \notin open
    BY <1>4 DEF OpenSession, ReceivedInv
  <2>2. \A n \in 1..count : stored[n].event.session # s
    BY <1>1, <1>4, RangeType DEF OpenSession, Unused
  <2>3. ReceivedCoversLedger'
    BY <1>1, <1>2, <2>1, <2>2 DEF ReceivedInv, ReceivedCoversLedger
  <2>4. PendingHeard'
    BY <1>1, <1>2, <2>1 DEF ReceivedInv, PendingHeard
  <2> QED
    BY <2>1, <2>3, <2>4 DEF ReceivedInv
<1> QED
  BY <1>3, <1>4

LEMMA ReceivedNext ==
  ASSUME Level2, ~Durable, HostShape, ReceivedInv, [Next]_hostVars
  PROVE  ReceivedInv'
<1>1. count <= Len(stored) /\ \A n \in 1..count : stored[n].event.session \in Sessions
  <2>1. stored \in Seq(RecordSpace) /\ Len(stored) = count
    BY DEF HostShape, TypeOK, ChainInv, OnlyCopy
  <2>2. \A n \in 1..count : stored[n] \in RecordSpace
    BY <2>1
  <2>3. \A r \in RecordSpace : r.event.session \in Sessions
    BY EventsAssumption DEF RecordSpace, EventSpace
  <2>4. count <= Len(stored)
    BY <2>1 DEF HostShape, TypeOK
  <2> QED
    BY <2>2, <2>3, <2>4
<1>2. ~Settle
  BY DEF Settle, SettleUnreadable, SettleAdopt, SettleForeign, SettleUnchanged, HostShape, ChainInv, OnlyCopy
<1>3. CASE (\E q \in Arrivals : TakeUp(q) \/ Expire(q)) \/ Deliver \/ UNCHANGED hostVars
  BY <1>1, <1>3, ReceivedAside
<1>4. CASE Interrupt \/ RefuseUnadmitted \/ RefuseUnverified
  BY <1>1, <1>4, ReceivedAside
<1>5. CASE DecideAttempt \/ DecideOutcome
  BY <1>1, <1>5, ReceivedDecide
<1>6. CASE Seal
  BY <1>1, <1>6, ReceivedDecide, ReceivedAside, ReceivedCommit DEF Seal
<1>7. CASE Environment
  <2>1. ~\E r \in inflight : StoreLand(r) \/ StoreLose(r)
    BY DEF HostShape, ChainInv, OnlyCopy
  <2>2. ~\E e \in Events : ForeignAppend(e)
    BY DEF ForeignAppend
  <2> QED
    BY <1>1, <1>7, <2>1, <2>2, ReceivedAside DEF Environment
<1>8. CASE Lifecycle
  BY <1>1, <1>8, ReceivedSessions DEF Lifecycle, Restart
<1> QED
  BY <1>2, <1>3, <1>4, <1>5, <1>6, <1>7, <1>8 DEF Next, Holder

(* Without a repository an open session has received every value its ledger holds, so that its next value is no gap *)
(* (_verify_signature, _seal); adopting a record is what would not have it heard.                                   *)
THEOREM ReceivedCorrect ==
  ASSUME Level2, ~Durable
  PROVE  Spec => []ReceivedCoversLedger
<1> DEFINE Inv == HostShape /\ ReceivedInv
<1>1. Init => Inv
  BY TypeInit, ChainInit DEF HostShape, Init, ReceivedInv, ReceivedCoversLedger, PendingHeard
<1>2. Inv /\ [Next]_hostVars => Inv'
  BY TypeNext, ChainNext, ReceivedNext DEF HostShape
<1>3. Inv => ReceivedCoversLedger
  BY DEF ReceivedInv
<1> HIDE DEF Inv
<1> QED
  BY <1>1, <1>2, <1>3, PTL DEF Spec

-----------------------------------------------------------------------------
(* AuditHost implements AuditLog, for any sessions, operations, keys,        *)
(* events and bounds, at either level, with or without a repository or a     *)
(* countersigner, of a host that is the only writer of its partition: what   *)
(* another writer stores is not remembered, and may be sealed again.  And    *)
(* what such a host accepted is never lost silently: closing flags what is   *)
(* unresolved, and nothing else.                                             *)

\* What the store holds takes the event as its next: AuditLog's Admissible, of the stored records.
Admits(e) ==
  IF IsAttempt(e)
  THEN \A n \in 1..Len(stored) : ~SameOperation(stored[n].event, e)
                                 /\ (IsAttempt(stored[n].event) => stored[n].event.id # e.id)
  ELSE /\ \A n \in 1..Len(stored) : SameOperation(stored[n].event, e) => IsAttempt(stored[n].event)
       /\ e.outcome = "aborted"
            \/ \E n \in 1..Len(stored) : SameOperation(stored[n].event, e) /\ IsAttempt(stored[n].event)

\* An attempt's id is stored once.
AttemptOnce ==
  \A m, n \in 1..Len(stored) :
    IsAttempt(stored[m].event) /\ IsAttempt(stored[n].event) /\ stored[m].event.id = stored[n].event.id => m = n

\* The host remembers every attempt it committed, and in an open session every outcome.
AttemptsRemembered ==
  \A n \in 1..count : IsAttempt(stored[n].event) => \E r \in sealedAttempts : r.event.id = stored[n].event.id

OutcomesRemembered ==
  \A n \in 1..count : LET e == stored[n].event IN
    ~IsAttempt(e) /\ e.session \in open => \E f \in sess[e.session].outcomes : f.id = e.id

\* An accepted attempt is stored.
AcceptedStored ==
  \A s \in Sessions : \A i \in sess[s].accepted :
    \E n \in 1..Len(stored) : IsAttempt(stored[n].event) /\ stored[n].event.session = s /\ stored[n].event.id = i

\* What could land next is admitted: the record being sealed, and every write under way.
PendingAdmitted == pc \in {"sign", "append"} /\ pending.seq = Len(stored) => Admits(pending.event)
InflightAdmitted == \A r \in inflight : r.seq = Len(stored) => Admits(r.event)

LogInv ==
  /\ AttemptOnce /\ AttemptsRemembered /\ OutcomesRemembered /\ AcceptedStored
  /\ PendingAdmitted /\ InflightAdmitted /\ NearTail

USE DEF storeVars, chainVars, sessVars, memoryVars, lockVars

LogShape == HostShape /\ MemoryInv /\ NearTail

-----------------------------------------------------------------------------
(* What sessions remember. *)

LEMMA HeardKeeps ==
  ASSUME sess \in [Sessions -> SessionSpace], NEW e \in Events, NEW s \in Sessions
  PROVE  Heard(e)[s].outcomes = sess[s].outcomes /\ Heard(e)[s].accepted = sess[s].accepted
BY EventsAssumption DEF Heard, SessionSpace, EventSpace

LEMMA DecideKeeps ==
  ASSUME NEW st \in [Sessions -> SessionSpace], NEW e \in Events, NEW s \in Sessions
  PROVE  Decide(st, e)[s].outcomes = st[s].outcomes /\ Decide(st, e)[s].accepted = st[s].accepted
BY EventsAssumption DEF Decide, SessionSpace, EventSpace

\* Accounting an event adds its operation, and forgets no other's.
LEMMA AccountAdds ==
  ASSUME NEW st \in [Sessions -> SessionSpace], NEW e \in Events, NEW s \in Sessions
  PROVE  /\ \A i \in Account(st, e)[s].accepted : i \in st[s].accepted \/ (IsAttempt(e) /\ s = e.session /\ i = e.id)
         /\ \A f \in st[s].outcomes : \E g \in Account(st, e)[s].outcomes : g.id = f.id
         /\ ~IsAttempt(e) /\ s = e.session => e \in Account(st, e)[s].outcomes
<1>0. e.session \in Sessions /\ e.id \in OpIds
  BY EventsAssumption DEF EventSpace
<1>1. CASE s # e.session
  <2>1. Account(st, e)[s] = st[s]
    BY <1>0, <1>1 DEF Account
  <2> QED
    BY <1>1, <2>1
<1>2. CASE s = e.session /\ IsAttempt(e)
  <2>1. Account(st, e)[s].accepted = st[s].accepted \union {e.id} /\ Account(st, e)[s].outcomes = st[s].outcomes
    BY <1>0, <1>2 DEF Account, SessionSpace
  <2> QED
    BY <1>2, <2>1
<1>3. CASE s = e.session /\ ~IsAttempt(e)
  <2>1. /\ Account(st, e)[s].accepted = st[s].accepted
        /\ Account(st, e)[s].outcomes = {f \in st[s].outcomes : f.id # e.id} \union {e}
    BY <1>0, <1>3 DEF Account, SessionSpace
  <2> QED
    BY <1>3, <2>1
<1> QED
  BY <1>1, <1>2, <1>3

\* What sealing or adopting an event does to the sessions.
LEMMA SealedAdds ==
  ASSUME sess \in [Sessions -> SessionSpace], NEW e \in Events, NEW s \in Sessions
  PROVE  LET now == Account(Decide(sess, e), e)[s] IN
         /\ \A i \in now.accepted : i \in sess[s].accepted \/ (IsAttempt(e) /\ s = e.session /\ i = e.id)
         /\ \A f \in sess[s].outcomes : \E g \in now.outcomes : g.id = f.id
         /\ ~IsAttempt(e) /\ s = e.session => e \in now.outcomes
<1>1. PICK st \in [Sessions -> SessionSpace] : st = Decide(sess, e)
  BY DecideType
<1>2. st[s].outcomes = sess[s].outcomes /\ st[s].accepted = sess[s].accepted
  BY <1>1, DecideKeeps
<1> QED
  BY <1>1, <1>2, AccountAdds

-----------------------------------------------------------------------------
(* Steps that leave the ledger and what is under way alone. *)

LEMMA LogKinds ==
  ASSUME LogShape
  PROVE  /\ stored \in Seq(RecordSpace) /\ count \in 0..Len(stored) /\ Len(stored) \in Nat
         /\ Len(stored) = count \/ Len(stored) = count + 1
         /\ DOMAIN stored = 1..Len(stored)
         /\ sess \in [Sessions -> SessionSpace] /\ open \subseteq Sessions
         /\ \A n \in 1..Len(stored) : stored[n] \in RecordSpace /\ stored[n].event \in Events
                                      /\ stored[n].event.session \in Sessions
<1>1. /\ stored \in Seq(RecordSpace) /\ count \in Nat /\ sess \in [Sessions -> SessionSpace] /\ open \subseteq Sessions
  BY DEF LogShape, HostShape, TypeOK
<1>2. Len(stored) \in Nat /\ DOMAIN stored = 1..Len(stored)
  BY <1>1
<1>3. count <= Len(stored) /\ Len(stored) <= count + 1
  BY DEF LogShape, HostShape, ChainInv, ChainFollowsStore, NearTail
<1>4. ASSUME NEW l \in Nat, NEW c \in Nat, c <= l, l <= c + 1
      PROVE  c \in 0..l /\ (l = c \/ l = c + 1)
  BY <1>4
<1>5. count \in 0..Len(stored) /\ (Len(stored) = count \/ Len(stored) = count + 1)
  BY <1>1, <1>2, <1>3, <1>4
<1>6. ASSUME NEW n \in 1..Len(stored)
      PROVE  stored[n] \in RecordSpace /\ stored[n].event \in Events /\ stored[n].event.session \in Sessions
  <2>1. stored[n] \in RecordSpace
    BY <1>1, <1>6
  <2>2. stored[n].event \in Events
    BY <2>1 DEF RecordSpace
  <2> QED
    BY <2>1, <2>2, EventsAssumption DEF EventSpace
<1> QED
  BY <1>1, <1>2, <1>5, <1>6

LEMMA LogUntouched ==
  ASSUME LogShape, LogInv, UNCHANGED <<stored, inflight, count, sealedAttempts>>, open' \subseteq open,
         pc' \in {"sign", "append"} => pc \in {"sign", "append"} /\ pending' = pending,
         \A s \in Sessions : sess'[s].accepted \subseteq sess[s].accepted,
         \A s \in open' : sess'[s].outcomes = sess[s].outcomes
  PROVE  LogInv'
<1>1. AttemptOnce' /\ AttemptsRemembered' /\ NearTail'
  BY DEF LogInv, AttemptOnce, AttemptsRemembered, NearTail
<1>2. OutcomesRemembered'
  BY DEF LogInv, OutcomesRemembered
<1>3. AcceptedStored'
  BY DEF LogInv, AcceptedStored
<1>4. PendingAdmitted' /\ InflightAdmitted'
  BY DEF LogInv, PendingAdmitted, InflightAdmitted, Admits
<1> QED
  BY <1>1, <1>2, <1>3, <1>4 DEF LogInv

\* The lock is taken, given up or handed on; the store loses a write; the switch is turned.
LEMMA LogAside ==
  ASSUME LogShape, LogInv,
         \/ \E q : TakeUp(q) \/ Expire(q)
         \/ SettleUnreadable \/ SettleUnchanged \/ Interrupt \/ CountersignFailed \/ SealInterrupted \/ AppendFailed
         \/ RefuseUnadmitted \/ RefuseUnverified \/ Deliver \/ TogglePersistence \/ UNCHANGED hostVars
  PROVE  LogInv'
<1>1. UNCHANGED <<stored, inflight, count, open, sess, sealedAttempts>>
  BY DEF TakeUp, Expire, SettleUnreadable, SettleUnchanged, Interrupt, CountersignFailed, SealInterrupted,
     AppendFailed, RefuseUnadmitted, RefuseUnverified, Deliver, TogglePersistence, hostVars
<1>2. pc' \in {"sign", "append"} => pc \in {"sign", "append"} /\ pending' = pending
  BY DEF TakeUp, Expire, SettleUnreadable, SettleUnchanged, Interrupt, CountersignFailed, SealInterrupted,
     AppendFailed, RefuseUnadmitted, RefuseUnverified, Deliver, TogglePersistence, hostVars, FailClosed, Raised, Answer
<1> QED
  BY <1>1, <1>2, LogUntouched

\* A refusal on the merits, a repeated outcome and a failure seal nothing, and account nothing.
LEMMA LogRefuse ==
  ASSUME LogShape, LogInv,
         \/ RefuseConcluded \/ RefuseReplayedAttempt \/ RefuseSecondOutcome \/ RefuseReplayedOutcome \/ RefuseOrphan
         \/ RepeatOutcome \/ FailUnavailable
  PROVE  LogInv'
<1>1. /\ pc = "handle" /\ pc' = "answer" /\ UNCHANGED <<stored, inflight, count, open, sealedAttempts>>
      /\ sess' = Decide(Heard(cur.event), cur.event) \/ sess' = Heard(cur.event)
  BY DEF RefuseConcluded, RefuseReplayedAttempt, RefuseSecondOutcome, RefuseReplayedOutcome, RefuseOrphan,
     RepeatOutcome, FailUnavailable, Refuse, Leave, FailClosed, Answer, SealableAttempt, SealableOutcome,
     FreshAttempt, FirstOutcome, Deciding
<1>2. cur.event \in Events /\ Heard(cur.event) \in [Sessions -> SessionSpace]
  BY <1>1, DecidingFacts DEF LogShape, HostShape
<1>3. \A s \in Sessions : sess'[s].accepted = sess[s].accepted /\ sess'[s].outcomes = sess[s].outcomes
  <2>1. PICK st \in [Sessions -> SessionSpace] : st = Heard(cur.event)
    BY <1>2
  <2>2. \A s \in Sessions : st[s].accepted = sess[s].accepted /\ st[s].outcomes = sess[s].outcomes
    BY <1>2, <2>1, HeardKeeps, LogKinds
  <2> QED
    BY <1>1, <1>2, <2>1, <2>2, DecideKeeps
<1> QED
  BY <1>1, <1>3, LogKinds, LogUntouched

\* A repeated attempt is accepted because it is stored.
LEMMA LogRepeatAttempt ==
  ASSUME LogShape, LogInv, RepeatAttempt
  PROVE  LogInv'
<1>1. /\ pc = "handle" /\ pc' = "answer" /\ UNCHANGED <<stored, inflight, count, open, sealedAttempts>>
      /\ sess' = [Heard(cur.event) EXCEPT ![cur.event.session].accepted = @ \union {cur.event.id}]
      /\ IsAttempt(cur.event)
  BY DEF RepeatAttempt, Answer, Deciding, Wellformed
<1>2. cur.event \in Events /\ cur.event.session \in Sessions /\ Heard(cur.event) \in [Sessions -> SessionSpace]
  BY <1>1, DecidingFacts DEF LogShape, HostShape
<1>3. PICK n \in 1..Len(stored) : stored[n].event = cur.event
  <2>1. PICK r \in sealedAttempts : r.event = cur.event
    BY DEF RepeatAttempt, SealedUnder
  <2>2. r \in Range(stored)
    BY <2>1 DEF LogShape, MemoryInv, MemoryInLedger
  <2> QED
    BY <2>1, <2>2, RangeType, LogKinds
<1>4. /\ \A s \in Sessions : sess'[s].outcomes = sess[s].outcomes
      /\ \A s \in Sessions : \A i \in sess'[s].accepted :
           i \in sess[s].accepted \/ (s = cur.event.session /\ i = cur.event.id)
  <2>1. PICK st \in [Sessions -> SessionSpace] : st = Heard(cur.event)
    BY <1>2
  <2>2. \A s \in Sessions : st[s].accepted = sess[s].accepted /\ st[s].outcomes = sess[s].outcomes
    BY <1>2, <2>1, HeardKeeps, LogKinds
  <2>3. sess' = [st EXCEPT ![cur.event.session].accepted = @ \union {cur.event.id}]
    BY <1>1, <2>1
  <2> QED
    BY <1>2, <2>2, <2>3 DEF SessionSpace
<1>5. AcceptedStored'
  <2> SUFFICES ASSUME NEW s \in Sessions, NEW i \in sess'[s].accepted
               PROVE  \E m \in 1..Len(stored) : /\ IsAttempt(stored[m].event) /\ stored[m].event.session = s
                                                /\ stored[m].event.id = i
    BY <1>1 DEF AcceptedStored
  <2>1. CASE i \in sess[s].accepted
    BY <2>1 DEF LogInv, AcceptedStored
  <2>2. CASE s = cur.event.session /\ i = cur.event.id
    BY <1>1, <1>3, <2>2
  <2> QED
    BY <1>4, <2>1, <2>2
<1>6. AttemptOnce' /\ AttemptsRemembered' /\ NearTail'
  BY <1>1 DEF LogInv, AttemptOnce, AttemptsRemembered, NearTail
<1>7. OutcomesRemembered'
  BY <1>1, <1>4, LogKinds DEF LogInv, OutcomesRemembered
<1>8. PendingAdmitted' /\ InflightAdmitted'
  BY <1>1 DEF LogInv, PendingAdmitted, InflightAdmitted, Admits
<1> QED
  BY <1>5, <1>6, <1>7, <1>8 DEF LogInv

-----------------------------------------------------------------------------
(* Steps that seal, land or adopt. *)

\* What the host decides to seal on a settled tail, the log admits.
LEMMA SealableAdmitted ==
  ASSUME LogShape, LogInv, SealableAttempt \/ SealableOutcome, count = Len(stored)
  PROVE  Admits(cur.event)
<1> DEFINE e == cur.event
<1>1. pc = "handle" /\ e.session \in open /\ e.session \in Sessions /\ OutcomeOf(e.session, e.id) = {}
  <2>1. SealableAttempt => OutcomeOf(e.session, e.id) = {}
    BY DEF SealableAttempt, FreshAttempt, Concluded
  <2>2. pc = "handle" /\ e.session \in open
    BY DEF SealableAttempt, SealableOutcome, FreshAttempt, FirstOutcome, Deciding, InSession
  <2> QED
    BY <2>1, <2>2, LogKinds DEF SealableOutcome, FirstOutcome
<1>2. \A n \in 1..Len(stored) : SameOperation(stored[n].event, e) => IsAttempt(stored[n].event)
  BY <1>1 DEF LogInv, OutcomesRemembered, OutcomeOf, SameOperation
<1>3. CASE SealableAttempt
  <2>1. IsAttempt(e) /\ \A r \in sealedAttempts : r.event.id # e.id
    BY <1>3 DEF SealableAttempt, FreshAttempt, Deciding, Wellformed, SealedUnder
  <2>2. \A n \in 1..Len(stored) : IsAttempt(stored[n].event) => stored[n].event.id # e.id
    BY <2>1 DEF LogInv, AttemptsRemembered
  <2> QED
    BY <1>2, <2>1, <2>2 DEF Admits, SameOperation
<1>4. CASE SealableOutcome
  <2>1. ~IsAttempt(e) /\ (e.outcome = "aborted" \/ e.id \in sess[e.session].accepted)
    BY <1>4 DEF SealableOutcome, FirstOutcome, Deciding, Wellformed, Orphaned
  <2>2. e.id \in sess[e.session].accepted =>
          \E n \in 1..Len(stored) : SameOperation(stored[n].event, e) /\ IsAttempt(stored[n].event)
    BY <1>1 DEF LogInv, AcceptedStored, SameOperation
  <2> QED
    BY <1>2, <2>1, <2>2 DEF Admits
<1> QED
  BY <1>3, <1>4

LEMMA LogBeginSeal ==
  ASSUME LogShape, LogInv, BeginSeal
  PROVE  LogInv'
<1>1. /\ UNCHANGED <<stored, count, open, sealedAttempts>> /\ sess' = Heard(cur.event)
      /\ pending' = SealRecord(cur.event, count, tail, hashes + 1)
      /\ inflight' \subseteq inflight \cup {pending'} /\ pc = "handle"
  BY DEF BeginSeal, SealableAttempt, SealableOutcome, FreshAttempt, FirstOutcome, Deciding
<1>2. pending'.event = cur.event /\ pending'.seq = count
  BY <1>1 DEF SealRecord
<1>3. \A s \in Sessions : sess'[s].accepted = sess[s].accepted /\ sess'[s].outcomes = sess[s].outcomes
  BY <1>1, DecidingFacts, HeardKeeps DEF LogShape, HostShape, TypeOK
<1>4. count = Len(stored) => Admits(cur.event)
  BY SealableAdmitted DEF BeginSeal
<1>5. \A e : Admits(e)' <=> Admits(e)
  BY <1>1 DEF Admits
<1>6. PendingAdmitted'
  BY <1>1, <1>2, <1>4, <1>5 DEF PendingAdmitted, Admits
<1>7. InflightAdmitted'
  <2> SUFFICES ASSUME NEW r \in inflight', r.seq = Len(stored) PROVE Admits(r.event)
    BY <1>1, <1>5 DEF InflightAdmitted, Admits
  <2>1. CASE r \in inflight
    BY <2>1 DEF LogInv, InflightAdmitted
  <2>2. CASE r = pending'
    BY <1>2, <1>4, <2>2
  <2> QED
    BY <1>1, <2>1, <2>2
<1>8. NearTail'
  BY <1>1, <1>2, LogKinds DEF LogInv, NearTail
<1>9. AttemptOnce' /\ AttemptsRemembered'
  BY <1>1 DEF LogInv, AttemptOnce, AttemptsRemembered
<1>10. OutcomesRemembered' /\ AcceptedStored'
  BY <1>1, <1>3, LogKinds DEF LogInv, OutcomesRemembered, AcceptedStored
<1> QED
  BY <1>6, <1>7, <1>8, <1>9, <1>10 DEF LogInv

LEMMA LogCountersign ==
  ASSUME LogShape, LogInv, Countersign
  PROVE  LogInv'
<1>1. /\ UNCHANGED <<stored, count, open, sess, pending, sealedAttempts>> /\ inflight' \subseteq inflight \cup {pending}
      /\ pc = "sign"
  BY DEF Countersign
<1>2. pending.seq = count /\ (pending.seq = Len(stored) => Admits(pending.event))
  BY <1>1 DEF LogShape, HostShape, ChainInv, PendingLinked, LogInv, PendingAdmitted
<1>3. PendingAdmitted' /\ InflightAdmitted'
  BY <1>1, <1>2 DEF LogInv, InflightAdmitted, PendingAdmitted, Admits
<1>4. NearTail'
  BY <1>1, <1>2, LogKinds DEF LogInv, NearTail
<1>5. AttemptOnce' /\ AttemptsRemembered' /\ OutcomesRemembered' /\ AcceptedStored'
  BY <1>1 DEF LogInv, AttemptOnce, AttemptsRemembered, OutcomesRemembered, AcceptedStored
<1> QED
  BY <1>3, <1>4, <1>5 DEF LogInv

\* An admitted record may follow the chain.
LEMMA AppendAdmitted ==
  ASSUME LogShape, LogInv, NEW r \in RecordSpace, stored' = Append(stored, r), Admits(r.event)
  PROVE  /\ AttemptOnce' /\ Len(stored') = Len(stored) + 1 /\ stored'[Len(stored) + 1] = r
         /\ \A n \in 1..Len(stored) : stored'[n] = stored[n]
<1>1. /\ Len(stored') = Len(stored) + 1 /\ stored'[Len(stored) + 1] = r
      /\ \A n \in 1..Len(stored) : stored'[n] = stored[n]
  BY LogKinds
<1>2. ASSUME NEW m \in 1..(Len(stored) + 1), NEW n \in 1..(Len(stored) + 1),
             IsAttempt(stored'[m].event), IsAttempt(stored'[n].event), stored'[m].event.id = stored'[n].event.id
      PROVE  m = n
  <2>1. Len(stored) \in Nat
    BY LogKinds
  <2>2. CASE m \in 1..Len(stored) /\ n \in 1..Len(stored)
    BY <1>1, <1>2, <2>2 DEF LogInv, AttemptOnce
  <2>3. CASE m = Len(stored) + 1 /\ n \in 1..Len(stored)
    BY <1>1, <1>2, <2>3 DEF Admits
  <2>4. CASE n = Len(stored) + 1 /\ m \in 1..Len(stored)
    BY <1>1, <1>2, <2>4 DEF Admits
  <2>5. CASE m = Len(stored) + 1 /\ n = Len(stored) + 1
    BY <2>5
  <2> QED
    BY <2>1, <2>2, <2>3, <2>4, <2>5
<1>3. AttemptOnce'
  BY <1>1, <1>2 DEF AttemptOnce
<1> QED
  BY <1>1, <1>3

\* The host moves on by one record: it remembers it, and accounts it to its session if that is open.
LEMMA LogAdvance ==
  ASSUME LogShape, LogInv, NEW r \in RecordSpace, AttemptOnce', count' = count + 1,
         Len(stored') = count + 1, stored'[count + 1] = r,
         \A n \in 1..Len(stored) : n <= count + 1 /\ stored'[n] = stored[n],
         inflight' \subseteq inflight, pc' \notin {"sign", "append"}, open' = open, Remember(r),
         \/ sess' = Account(Decide(sess, r.event), r.event)
         \/ sess' = sess /\ r.event.session \notin open
  PROVE  LogInv'
<1>1. r.event \in Events /\ r.event.session \in Sessions
  BY EventsAssumption DEF RecordSpace, EventSpace
<1>2. \A s \in Sessions :
        /\ \A i \in sess'[s].accepted :
             i \in sess[s].accepted \/ (IsAttempt(r.event) /\ s = r.event.session /\ i = r.event.id)
        /\ \A f \in sess[s].outcomes : \E g \in sess'[s].outcomes : g.id = f.id
        /\ ~IsAttempt(r.event) /\ s = r.event.session /\ s \in open => r.event \in sess'[s].outcomes
  BY <1>1, SealedAdds, LogKinds
<1>3. AttemptsRemembered'
  <2> SUFFICES ASSUME NEW n \in 1..(count + 1), IsAttempt(stored'[n].event)
               PROVE  \E a \in sealedAttempts' : a.event.id = stored'[n].event.id
    BY DEF AttemptsRemembered
  <2>1. CASE n = count + 1
    BY <2>1 DEF Remember
  <2>2. CASE n \in 1..count
    <3>1. PICK a \in sealedAttempts : a.event.id = stored'[n].event.id
      BY <2>2, LogKinds DEF LogInv, AttemptsRemembered
    <3> QED
      BY <3>1 DEF Remember
  <2> QED
    BY <2>1, <2>2, LogKinds
<1>4. OutcomesRemembered'
  <2> SUFFICES ASSUME NEW n \in 1..(count + 1), ~IsAttempt(stored'[n].event), stored'[n].event.session \in open
               PROVE  \E f \in sess'[stored'[n].event.session].outcomes : f.id = stored'[n].event.id
    BY DEF OutcomesRemembered
  <2>1. CASE n = count + 1
    BY <1>1, <1>2, <2>1
  <2>2. CASE n \in 1..count
    <3>1. stored'[n] = stored[n] /\ stored[n].event.session \in Sessions
      BY <2>2, LogKinds
    <3>2. PICK f \in sess[stored[n].event.session].outcomes : f.id = stored[n].event.id
      BY <2>2, <3>1 DEF LogInv, OutcomesRemembered
    <3> QED
      BY <1>2, <3>1, <3>2
  <2> QED
    BY <2>1, <2>2, LogKinds
<1>5. AcceptedStored'
  <2> SUFFICES ASSUME NEW s \in Sessions, NEW i \in sess'[s].accepted
               PROVE  \E n \in 1..(count + 1) : /\ IsAttempt(stored'[n].event) /\ stored'[n].event.session = s
                                                /\ stored'[n].event.id = i
    BY DEF AcceptedStored
  <2>1. CASE i \in sess[s].accepted
    <3>1. PICK n \in 1..Len(stored) : IsAttempt(stored[n].event) /\ stored[n].event.session = s /\ stored[n].event.id = i
      BY <2>1 DEF LogInv, AcceptedStored
    <3>2. n \in 1..(count + 1) /\ stored'[n] = stored[n]
      BY LogKinds
    <3> QED
      BY <3>1, <3>2
  <2>2. CASE IsAttempt(r.event) /\ s = r.event.session /\ i = r.event.id
    <3>1. count + 1 \in 1..(count + 1)
      BY LogKinds
    <3> QED
      BY <2>2, <3>1
  <2> QED
    BY <1>2, <2>1, <2>2
<1>6. PendingAdmitted' /\ InflightAdmitted' /\ NearTail'
  <2>1. \A w \in inflight' : w.seq <= count /\ w.seq \in Nat
    BY DEF LogInv, NearTail, LogShape, HostShape, TypeOK, RecordSpace
  <2>2. count \in Nat
    BY LogKinds
  <2> QED
    BY <2>1, <2>2 DEF PendingAdmitted, InflightAdmitted, NearTail
<1> QED
  BY <1>3, <1>4, <1>5, <1>6 DEF LogInv

LEMMA LogCommit ==
  ASSUME LogShape, LogInv, Commit
  PROVE  LogInv'
<1>1. /\ pc = "append" /\ pc' = "answer" /\ pending \in RecordSpace /\ pending.seq = count
      /\ UNCHANGED <<inflight, open>> /\ count' = count + 1 /\ Remember(pending)
      /\ sess' = Account(Decide(sess, pending.event), pending.event)
  BY DEF Commit, Answer, LogShape, HostShape, TypeOK, ChainInv, PendingLinked
<1>2. CASE Durable
  <2>1. stored' = stored /\ pending \in Range(stored)
    BY <1>2 DEF Commit
  <2>2. PICK n \in 1..Len(stored) : stored[n] = pending
    BY <2>1, RangeType, LogKinds
  <2>3. n = count + 1
    BY <1>1, <2>2, LogKinds DEF LogShape, HostShape, ChainInv, ChainFollowsStore, Linked
  <2>4. Len(stored) = count + 1 /\ stored[count + 1] = pending
    BY <2>2, <2>3, LogKinds
  <2>5. AttemptOnce'
    BY <2>1 DEF LogInv, AttemptOnce
  <2> QED
    BY <1>1, <2>1, <2>4, <2>5, LogAdvance, LogKinds
<1>3. CASE ~Durable
  <2>1. stored' = Append(stored, pending) /\ Len(stored) = count
    BY <1>3 DEF Commit, LogShape, HostShape, ChainInv, OnlyCopy
  <2>2. Admits(pending.event)
    BY <1>1, <2>1 DEF LogInv, PendingAdmitted
  <2>3. /\ AttemptOnce' /\ Len(stored') = count + 1 /\ stored'[count + 1] = pending
        /\ \A n \in 1..Len(stored) : stored'[n] = stored[n]
    BY <1>1, <2>1, <2>2, AppendAdmitted
  <2> QED
    BY <1>1, <2>1, <2>3, LogAdvance, LogKinds
<1> QED
  BY <1>2, <1>3

\* The tail is in doubt by one record at most, which is adopted.
LEMMA LogSettle ==
  ASSUME LogShape, LogInv, SettleAdopt \/ SettleForeign
  PROVE  LogInv'
<1>1. CASE SettleForeign
  BY <1>1, LogKinds DEF SettleForeign
<1>2. CASE SettleAdopt
  <2>1. PICK r \in RecordSpace : r = stored[count + 1]
    BY <1>2, LogKinds DEF SettleAdopt, Landed
  <2>2. /\ UNCHANGED <<stored, inflight, open>> /\ count' = count + 1 /\ Len(stored) = count + 1 /\ pc' = "handle"
        /\ Remember(r)
        /\ sess' = IF r.event.session \in open THEN Account(Decide(sess, r.event), r.event) ELSE sess
    BY <1>2, <2>1 DEF SettleAdopt, Landed
  <2>3. AttemptOnce'
    BY <2>2 DEF LogInv, AttemptOnce
  <2> QED
    BY <2>1, <2>2, <2>3, LogAdvance, LogKinds
<1> QED
  BY <1>1, <1>2

-----------------------------------------------------------------------------
(* The store, and the host's life. *)

LEMMA LogStore ==
  ASSUME LogShape, LogInv, NEW r \in inflight, StoreLand(r) \/ StoreLose(r)
  PROVE  LogInv'
<1>1. UNCHANGED <<count, open, sess, sealedAttempts, pc, pending>> /\ inflight' \subseteq inflight
  BY DEF StoreLand, StoreLose
<1>2. CASE StoreLose(r)
  <2>1. stored' = stored
    BY <1>2 DEF StoreLose
  <2> QED
    BY <1>1, <2>1 DEF LogInv, AttemptOnce, AttemptsRemembered, OutcomesRemembered, AcceptedStored, PendingAdmitted,
       InflightAdmitted, Admits, NearTail
<1>3. CASE StoreLand(r)
  <2>1. stored' = Append(stored, r) /\ r.seq = Len(stored) /\ r \in RecordSpace
    BY <1>3 DEF StoreLand, LogShape, HostShape, TypeOK
  <2>2. Len(stored) = count
    BY <2>1, LogKinds DEF LogInv, NearTail
  <2>3. /\ AttemptOnce' /\ Len(stored') = count + 1 /\ \A n \in 1..count : stored'[n] = stored[n]
    BY <2>1, <2>2, AppendAdmitted DEF LogInv, InflightAdmitted
  <2>4. AttemptsRemembered' /\ OutcomesRemembered'
    BY <1>1, <2>3 DEF LogInv, AttemptsRemembered, OutcomesRemembered
  <2>5. AcceptedStored'
    <3>1. \A n \in 1..count : n \in 1..(count + 1)
      BY LogKinds
    <3> QED
      BY <1>1, <2>2, <2>3, <3>1 DEF LogInv, AcceptedStored
  <2>6. PendingAdmitted' /\ InflightAdmitted' /\ NearTail'
    <3>1. \A w \in inflight' : w.seq <= count /\ w.seq \in Nat
      BY <1>1 DEF LogInv, NearTail, LogShape, HostShape, TypeOK, RecordSpace
    <3>2. pc \in {"sign", "append"} => pending.seq = count
      BY DEF LogShape, HostShape, ChainInv, PendingLinked
    <3> QED
      BY <1>1, <2>3, <3>1, <3>2, LogKinds DEF PendingAdmitted, InflightAdmitted, NearTail
  <2> QED
    BY <2>3, <2>4, <2>5, <2>6 DEF LogInv
<1> QED
  BY <1>2, <1>3

\* Sessions begin with an id no record has, and end with what they knew.
LEMMA LogSessions ==
  ASSUME LogShape, LogInv, NEW s \in Sessions, OpenSession(s) \/ CloseSession(s)
  PROVE  LogInv'
<1>1. /\ UNCHANGED <<stored, inflight, count, pc, pending, sealedAttempts>> /\ open' \subseteq open \cup {s}
      /\ sess' = [sess EXCEPT ![s] = NewSession]
  BY DEF OpenSession, CloseSession
<1>2. /\ \A q \in Sessions \ {s} : sess'[q] = sess[q]
      /\ sess'[s].accepted = {}
  BY <1>1, LogKinds DEF NewSession
<1>3. s \in open' => \A n \in 1..Len(stored) : stored[n].event.session # s
  BY RangeType, LogKinds DEF OpenSession, CloseSession, Unused
<1>4. OutcomesRemembered'
  BY <1>1, <1>2, <1>3, LogKinds DEF LogInv, OutcomesRemembered
<1>5. AcceptedStored'
  BY <1>1, <1>2 DEF LogInv, AcceptedStored
<1> QED
  BY <1>1, <1>4, <1>5 DEF LogInv, AttemptOnce, AttemptsRemembered, PendingAdmitted, InflightAdmitted, Admits, NearTail

\* What resume remembers is what is stored.
LEMMA LogRestart ==
  ASSUME LogShape, LogInv, NEW keep \in SUBSET open, NEW tracked \in SUBSET keep, Restart(keep, tracked)
  PROVE  LogInv'
<1>1. /\ UNCHANGED <<stored, inflight>> /\ count' = Len(stored) /\ open' = keep /\ pc' = "idle"
      /\ sealedAttempts' = {stored[n] : n \in {m \in DOMAIN stored : LastAttemptUnderId(m)}}
      /\ sess' = [s \in Sessions |-> IF s \in keep THEN Restored(s, s \in tracked) ELSE NewSession]
  BY DEF Restart
<1>2. \A n \in 1..Len(stored) : stored[n].event \in EventsOf(stored)
  BY RangeType, LogKinds DEF EventsOf
<1>3. AttemptsRemembered'
  <2> SUFFICES ASSUME NEW n \in 1..Len(stored), IsAttempt(stored[n].event)
               PROVE  stored[n] \in sealedAttempts'
    BY <1>1 DEF AttemptsRemembered
  <2>1. \A m \in 1..Len(stored) : IsAttempt(stored[m].event) /\ stored[m].event.id = stored[n].event.id => m = n
    BY DEF LogInv, AttemptOnce
  <2>2. LastAttemptUnderId(n)
    BY <2>1, LogKinds DEF LastAttemptUnderId
  <2> QED
    BY <1>1, <2>2, LogKinds
<1>4. OutcomesRemembered'
  <2> SUFFICES ASSUME NEW n \in 1..Len(stored), ~IsAttempt(stored[n].event), stored[n].event.session \in keep
               PROVE  stored[n].event \in sess'[stored[n].event.session].outcomes
    BY <1>1 DEF OutcomesRemembered
  <2>1. PICK e : e = stored[n].event
    OBVIOUS
  <2>2. e \in Restored(e.session, e.session \in tracked).outcomes
    BY <1>2, <2>1 DEF Restored
  <2> QED
    BY <1>1, <2>1, <2>2, LogKinds
<1>5. AcceptedStored'
  <2> SUFFICES ASSUME NEW s \in Sessions, NEW i \in sess'[s].accepted
               PROVE  \E n \in 1..Len(stored) : /\ IsAttempt(stored[n].event) /\ stored[n].event.session = s
                                                /\ stored[n].event.id = i
    BY <1>1 DEF AcceptedStored
  <2>1. s \in keep
    BY <1>1 DEF NewSession
  <2>2. i \in Restored(s, s \in tracked).accepted
    BY <1>1, <2>1
  <2>3. PICK e \in EventsOf(stored) : e.session = s /\ IsAttempt(e) /\ e.id = i
    BY <2>2 DEF Restored
  <2>4. PICK r \in Range(stored) : r.event = e
    BY DEF EventsOf
  <2> QED
    BY <2>3, <2>4, RangeType, LogKinds
<1>6. PendingAdmitted' /\ InflightAdmitted' /\ AttemptOnce'
  BY <1>1 DEF LogInv, PendingAdmitted, InflightAdmitted, Admits, AttemptOnce
<1>7. NearTail'
  BY <1>1, LogKinds DEF NearTail, LogShape, HostShape, ChainInv, InflightLinked
<1> QED
  BY <1>3, <1>4, <1>5, <1>6, <1>7 DEF LogInv

LEMMA LogInit == Init => LogInv
BY DEF Init, LogInv, AttemptOnce, AttemptsRemembered, OutcomesRemembered, AcceptedStored, PendingAdmitted,
   InflightAdmitted, NearTail, NewSession

\* No other writer's step.
Alone == ~\E e \in Events : ForeignAppend(e)

\* A partition of this host's own, or one kept in its memory.
LEMMA NobodyElse ==
  ASSUME MaxForeign = 0 \/ ~Durable, TypeOK
  PROVE  Alone
BY DEF Alone, ForeignAppend, TypeOK

LEMMA LogNext ==
  ASSUME Alone, LogShape, LogInv, [Next]_hostVars
  PROVE  LogInv'
<1>1. CASE (\E q \in Arrivals : TakeUp(q) \/ Expire(q)) \/ Deliver \/ UNCHANGED hostVars
  BY <1>1, LogAside
<1>2. CASE Settle \/ Interrupt \/ RefuseUnadmitted \/ RefuseUnverified
  BY <1>2, LogAside, LogSettle DEF Settle
<1>3. CASE DecideAttempt \/ DecideOutcome
  BY <1>3, LogRefuse, LogRepeatAttempt DEF DecideAttempt, DecideOutcome
<1>4. CASE Seal
  BY <1>4, LogRefuse, LogBeginSeal, LogCountersign, LogAside, LogCommit DEF Seal
<1>5. CASE Environment
  BY <1>5, LogStore, LogAside DEF Environment, Alone
<1>6. CASE Lifecycle
  BY <1>6, LogSessions, LogRestart DEF Lifecycle
<1> QED
  BY <1>1, <1>2, <1>3, <1>4, <1>5, <1>6 DEF Next, Holder

-----------------------------------------------------------------------------
(* Every step is a step of the log, or none. *)

\* The store grows by an admitted record only, and only its tool is told in the same step.
LEMMA StoreTakes ==
  ASSUME Alone, LogShape, LogInv, [Next]_hostVars, stored' # stored
  PROVE  \E r \in RecordSpace :
           /\ stored' = Append(stored, r) /\ Admits(r.event)
           /\ acks' = acks \/ \E n : acks' = acks \union {Ack(r.event, n)}
<1>1. CASE Commit
  <2>1. /\ pc = "append" /\ ~Durable /\ stored' = Append(stored, pending)
        /\ acks' = acks \union {Ack(pending.event, pending.seq)}
    BY <1>1 DEF Commit
  <2>2. pending \in RecordSpace /\ pending.seq = Len(stored)
    BY <2>1 DEF LogShape, HostShape, TypeOK, ChainInv, PendingLinked, OnlyCopy
  <2>3. Admits(pending.event)
    BY <2>1, <2>2 DEF LogInv, PendingAdmitted
  <2> QED
    BY <2>1, <2>2, <2>3
<1>2. CASE \E r \in inflight : StoreLand(r)
  <2>1. PICK r \in inflight : StoreLand(r)
    BY <1>2
  <2>2. r \in RecordSpace /\ stored' = Append(stored, r) /\ r.seq = Len(stored) /\ acks' = acks
    BY <2>1 DEF StoreLand, LogShape, HostShape, TypeOK
  <2>3. Admits(r.event)
    BY <2>2 DEF LogInv, InflightAdmitted
  <2> QED
    BY <2>2, <2>3
<1>3. Holder /\ ~Commit => UNCHANGED stored
  BY DEF Holder, Settle, SettleUnreadable, SettleAdopt, SettleForeign, SettleUnchanged, Interrupt,
     RefuseUnadmitted, RefuseUnverified, DecideAttempt, DecideOutcome, RepeatAttempt, RefuseConcluded,
     RefuseReplayedAttempt, RepeatOutcome, RefuseSecondOutcome, RefuseReplayedOutcome, RefuseOrphan, Refuse,
     Seal, FailUnavailable, Leave, BeginSeal, Countersign, CountersignFailed, SealInterrupted, AppendFailed
<1>4. UNCHANGED stored \/ Holder \/ \E r \in inflight : StoreLand(r)
  BY DEF Alone, Next, hostVars, TakeUp, Expire, Deliver, Environment, StoreLose, TogglePersistence, Lifecycle,
     OpenSession, CloseSession, Restart
<1> QED
  BY <1>1, <1>2, <1>3, <1>4

\* A tool is told by one event at a time.
LEMMA TellStep ==
  ASSUME LogShape, [Next]_hostVars
  PROVE  acks' = acks \/ \E e \in Events : \E n : acks' = acks \union {Ack(e, n)}
<1>1. CASE RepeatAttempt \/ RepeatOutcome
  <2>1. cur.event \in Events
    BY <1>1, DecidingFacts DEF RepeatAttempt, RepeatOutcome, Deciding, LogShape, HostShape
  <2> QED
    BY <1>1, <2>1 DEF RepeatAttempt, RepeatOutcome
<1>2. CASE Commit
  <2>1. pending.event \in Events
    BY <1>2 DEF Commit, LogShape, HostShape, TypeOK, RecordSpace
  <2> QED
    BY <1>2, <2>1 DEF Commit
<1>3. Holder /\ ~(RepeatAttempt \/ RepeatOutcome \/ Commit) => acks' = acks
  BY DEF Holder, Settle, SettleUnreadable, SettleAdopt, SettleForeign, SettleUnchanged, Interrupt,
     RefuseUnadmitted, RefuseUnverified, DecideAttempt, DecideOutcome, RefuseConcluded,
     RefuseReplayedAttempt, RefuseSecondOutcome, RefuseReplayedOutcome, RefuseOrphan, Refuse,
     Seal, FailUnavailable, Leave, BeginSeal, Countersign, CountersignFailed, SealInterrupted, AppendFailed
<1>4. acks' = acks \/ Holder
  BY DEF Next, hostVars, TakeUp, Expire, Deliver, Environment, StoreLand, StoreLose, ForeignAppend,
     TogglePersistence, Lifecycle, OpenSession, CloseSession, Restart
<1> QED
  BY <1>1, <1>2, <1>3, <1>4

\* The log a host keeps, and what tools were told of it.
LogOf(chain) == [n \in DOMAIN chain |-> chain[n].event]
Told == {a.event : a \in acks}

LEMMA LogOfAppend ==
  ASSUME NEW chain \in Seq(RecordSpace), NEW r \in RecordSpace
  PROVE  /\ LogOf(chain) \in Seq(Events)
         /\ LogOf(Append(chain, r)) = Append(LogOf(chain), r.event)
<1> DEFINE log == LogOf(chain)  longer == Append(chain, r)
<1>1. \A s \in RecordSpace : s.event \in Events
  BY DEF RecordSpace
<1>2. DOMAIN chain = 1..Len(chain) /\ \A n \in 1..Len(chain) : chain[n] \in RecordSpace
  OBVIOUS
<1>3. log = [n \in 1..Len(chain) |-> chain[n].event]
  BY <1>2 DEF LogOf
<1>4. log \in Seq(Events) /\ Len(log) = Len(chain)
  BY <1>1, <1>2, <1>3
<1>5. DOMAIN longer = 1..(Len(chain) + 1) /\ longer[Len(chain) + 1] = r
      /\ \A n \in 1..Len(chain) : longer[n] = chain[n]
  OBVIOUS
<1>6. LogOf(longer) = [n \in 1..(Len(chain) + 1) |-> longer[n].event]
  BY <1>5 DEF LogOf
<1>7. Append(log, r.event) = [n \in 1..(Len(chain) + 1) |-> IF n = Len(chain) + 1 THEN r.event ELSE log[n]]
  BY <1>4
<1>8. \A n \in 1..(Len(chain) + 1) : longer[n].event = IF n = Len(chain) + 1 THEN r.event ELSE log[n]
  BY <1>3, <1>5
<1> QED
  BY <1>4, <1>6, <1>7, <1>8

\* The log's Admissible is Admits.
LEMMA AdmissibleMeans ==
  ASSUME LogShape, NEW e \in Events, Admits(e)
  PROVE  Log!Admissible(e)
<1>1. Log!Recorded = {stored[n].event : n \in 1..Len(stored)}
  BY LogKinds DEF Log!Recorded, Log!Range
<1> QED
  BY <1>1 DEF Admits, Log!Admissible, Log!AttemptAdmissible, Log!OutcomeAdmissible, Log!IsAttempt, Log!SameOperation,
     IsAttempt, SameOperation

LEMMA StepImplements ==
  ASSUME Alone, LogShape, LogInv, AcksDurable', [Next]_hostVars
  PROVE  [Log!Next]_Log!logVars
<1>1. stored \in Seq(RecordSpace)
  BY LogKinds
<1>2. Log!logVars = <<LogOf(stored), Told>> /\ Log!logVars' = <<LogOf(stored'), Told'>>
  BY DEF Log!logVars, LogOf, Told
<1>3. \A e, n : acks' = acks \union {Ack(e, n)} => Told' = Told \union {e}
  <2>1. \A e, n : Ack(e, n).event = e
    BY DEF Ack
  <2> QED
    BY <2>1 DEF Told
<1>4. CASE stored' # stored
  <2>1. PICK r \in RecordSpace :
          /\ stored' = Append(stored, r) /\ Admits(r.event)
          /\ acks' = acks \/ \E n : acks' = acks \union {Ack(r.event, n)}
    BY <1>4, StoreTakes
  <2>2. r.event \in Events /\ Log!Admissible(r.event)
    BY <2>1, AdmissibleMeans DEF RecordSpace
  <2>3. LogOf(stored') = Append(LogOf(stored), r.event)
    BY <1>1, <2>1, LogOfAppend
  <2>4. Told' = Told \/ Told' = Told \union {r.event}
    BY <1>3, <2>1 DEF Told
  <2>5. Log!Record(r.event)
    BY <2>2, <2>3, <2>4 DEF Log!Record, LogOf, Told
  <2> QED
    BY <2>2, <2>5 DEF Log!Next
<1>5. CASE stored' = stored /\ acks' # acks
  <2>1. PICK e \in Events : \E n : acks' = acks \union {Ack(e, n)}
    BY <1>5, TellStep
  <2>2. Told' = Told \union {e}
    BY <1>3, <2>1
  <2>3. e \in Log!Recorded
    <3>1. PICK a \in acks' : a.event = e
      <4>1. PICK n : acks' = acks \union {Ack(e, n)}
        BY <2>1
      <4>2. Ack(e, n) \in acks' /\ Ack(e, n).event = e
        BY <4>1 DEF Ack
      <4> QED
        BY <4>2
    <3>2. PICK n \in DOMAIN stored : stored[n].event = e
      BY <1>5, <3>1 DEF AcksDurable
    <3> QED
      BY <3>2 DEF Log!Recorded, Log!Range
  <2>4. Log!Tell(e)
    BY <1>5, <2>2, <2>3 DEF Log!Tell, Told
  <2> QED
    BY <2>4 DEF Log!Next
<1>6. CASE stored' = stored /\ acks' = acks
  BY <1>2, <1>6 DEF Told
<1> QED
  BY <1>4, <1>5, <1>6

(* The host implements the abstract log: every record its store takes, whatever appends fail, land late or are       *)
(* adopted and however often it restarts, is one the log admits at that moment, and tools are told only of those    *)
(* (_handle_attempt, _handle_outcome, _seal, _settle_tail, resume), in a partition it alone writes to.              *)
THEOREM ImplementsCorrect ==
  ASSUME MaxForeign = 0 \/ ~Durable
  PROVE  Spec => ImplementsLog
<1> DEFINE Inv == LogShape /\ LogInv
<1>1. Init => Inv
  BY TypeInit, ChainInit, MemoryInit, LogInit DEF LogShape, HostShape, LogInv
<1>2. Inv /\ [Next]_hostVars => Inv'
  BY NobodyElse, TypeNext, ChainNext, MemoryNext, LogNext DEF LogShape, HostShape, LogInv
<1>3. Inv => AcksDurable
  BY DEF LogShape, MemoryInv
<1>4. Inv /\ AcksDurable' /\ [Next]_hostVars => [Log!Next]_Log!logVars
  BY NobodyElse, StepImplements DEF LogShape, HostShape
<1>5. Init => Log!Init
  BY DEF Init, Log!Init
<1> HIDE DEF Inv
<1> QED
  BY <1>1, <1>2, <1>3, <1>4, <1>5, PTL DEF Spec, ImplementsLog, Log!Spec

-----------------------------------------------------------------------------
(* What was accepted, and what closing flags of it. *)

\* The operation's attempt is stored, and its outcome behind it.
Followed(s, i) ==
  \E m, n \in 1..Len(stored) :
    /\ m < n /\ IsAttempt(stored[m].event) /\ ~IsAttempt(stored[n].event)
    /\ stored[m].event.session = s /\ stored[m].event.id = i
    /\ stored[n].event.session = s /\ stored[n].event.id = i

\* No outcome precedes its operation's attempt.
AttemptFirst ==
  \A m, n \in 1..Len(stored) :
    IsAttempt(stored[m].event) /\ ~IsAttempt(stored[n].event) /\ SameOperation(stored[m].event, stored[n].event)
      => m < n

\* What was accepted, an open session holds as accepted; what it holds as resolved has its outcome in the ledger.
AckedAccepted ==
  \A a \in acks : IsAttempt(a.event) /\ a.event.session \in open => a.event.id \in sess[a.event.session].accepted

ResolvedStored == \A s \in Sessions : \A i \in sess[s].resolved : Followed(s, i)

\* A record is sealed for an open session.
PendingOpen == pc \in {"sign", "append"} => pending.event.session \in open

AcceptInv == NoSilentAccept /\ AttemptFirst /\ AckedAccepted /\ ResolvedStored /\ PendingOpen

USE DEF storeVars, chainVars, sessVars, memoryVars, lockVars

-----------------------------------------------------------------------------
(* What sessions hold of their operations. *)

LEMMA HeardHolds ==
  ASSUME sess \in [Sessions -> SessionSpace], NEW e \in Events, NEW s \in Sessions
  PROVE  Heard(e)[s].accepted = sess[s].accepted /\ Heard(e)[s].resolved = sess[s].resolved
BY EventsAssumption DEF Heard, SessionSpace, EventSpace

LEMMA DecideHolds ==
  ASSUME NEW st \in [Sessions -> SessionSpace], NEW e \in Events, NEW s \in Sessions
  PROVE  Decide(st, e)[s].accepted = st[s].accepted /\ Decide(st, e)[s].resolved = st[s].resolved
BY EventsAssumption DEF Decide, SessionSpace, EventSpace

\* Accounting an attempt accepts it; accounting an outcome resolves its operation, if that was accepted.
LEMMA AccountHolds ==
  ASSUME NEW st \in [Sessions -> SessionSpace], NEW e \in Events, NEW s \in Sessions
  PROVE  /\ st[s].accepted \subseteq Account(st, e)[s].accepted
         /\ IsAttempt(e) => e.id \in Account(st, e)[e.session].accepted
         /\ \A i \in Account(st, e)[s].resolved :
              i \in st[s].resolved \/ (~IsAttempt(e) /\ s = e.session /\ i = e.id /\ i \in st[s].accepted)
<1>0. e.session \in Sessions /\ e.id \in OpIds
  BY EventsAssumption DEF EventSpace
<1>1. CASE s # e.session
  <2>1. Account(st, e)[s] = st[s]
    BY <1>0, <1>1 DEF Account
  <2>2. IsAttempt(e) => e.id \in Account(st, e)[e.session].accepted
    BY <1>0 DEF Account, SessionSpace
  <2> QED
    BY <1>1, <2>1, <2>2
<1>2. CASE s = e.session /\ IsAttempt(e)
  <2>1. Account(st, e)[s].accepted = st[s].accepted \union {e.id} /\ Account(st, e)[s].resolved = st[s].resolved
    BY <1>0, <1>2 DEF Account, SessionSpace
  <2> QED
    BY <1>2, <2>1
<1>3. CASE s = e.session /\ ~IsAttempt(e)
  <2>1. /\ Account(st, e)[s].accepted = st[s].accepted
        /\ Account(st, e)[s].resolved = st[s].resolved \union (st[s].accepted \intersect {e.id})
    BY <1>0, <1>3 DEF Account, SessionSpace
  <2> QED
    BY <1>3, <2>1
<1> QED
  BY <1>1, <1>2, <1>3

\* What sealing or adopting an event does to the sessions.
LEMMA SealedHolds ==
  ASSUME sess \in [Sessions -> SessionSpace], NEW e \in Events, NEW s \in Sessions
  PROVE  LET now == Account(Decide(sess, e), e) IN
         /\ sess[s].accepted \subseteq now[s].accepted
         /\ IsAttempt(e) => e.id \in now[e.session].accepted
         /\ \A i \in now[s].resolved :
              i \in sess[s].resolved \/ (~IsAttempt(e) /\ s = e.session /\ i = e.id /\ i \in sess[s].accepted)
<1>1. PICK st \in [Sessions -> SessionSpace] : st = Decide(sess, e)
  BY DecideType
<1>2. st[s].accepted = sess[s].accepted /\ st[s].resolved = sess[s].resolved
  BY <1>1, DecideHolds
<1> QED
  BY <1>1, <1>2, AccountHolds

-----------------------------------------------------------------------------
(* The ledger grows. *)

\* An attempt with a later outcome keeps it, and no other record is that attempt's.
LEMMA FollowedResolves ==
  ASSUME LogShape, AttemptOnce, NEW e, IsAttempt(e), Followed(e.session, e.id)
  PROVE  e \notin UnresolvedIn(stored)
<1>1. PICK m, n \in 1..Len(stored) :
        /\ m < n /\ IsAttempt(stored[m].event) /\ ~IsAttempt(stored[n].event)
        /\ stored[m].event.session = e.session /\ stored[m].event.id = e.id
        /\ stored[n].event.session = e.session /\ stored[n].event.id = e.id
  BY DEF Followed
<1>2. ASSUME NEW k \in DOMAIN stored, stored[k].event = e, IsAttempt(stored[k].event)
      PROVE  \E j \in DOMAIN stored : j > k /\ SameOperation(stored[j].event, stored[k].event) /\ ~IsAttempt(stored[j].event)
  <2>1. k = m
    BY <1>1, <1>2, LogKinds DEF AttemptOnce
  <2>2. n \in DOMAIN stored /\ n > k /\ SameOperation(stored[n].event, stored[k].event)
    BY <1>1, <1>2, <2>1, LogKinds DEF SameOperation
  <2> QED
    BY <1>1, <2>2
<1> QED
  BY <1>2 DEF UnresolvedIn

LEMMA GrowthKeeps ==
  ASSUME LogShape, LogInv, AttemptFirst,
         stored' = stored \/ \E r \in RecordSpace : stored' = Append(stored, r) /\ Admits(r.event)
  PROVE  /\ AttemptFirst'
         /\ \A s, i : Followed(s, i) => Followed(s, i)'
         /\ \A e \in EventsOf(stored) :
              IsAttempt(e) /\ e \notin UnresolvedIn(stored) => e \notin UnresolvedIn(stored')
<1>1. CASE stored' = stored
  BY <1>1 DEF AttemptFirst, Followed
<1>2. CASE \E r \in RecordSpace : stored' = Append(stored, r) /\ Admits(r.event)
  <2>1. PICK r \in RecordSpace : stored' = Append(stored, r) /\ Admits(r.event)
    BY <1>2
  <2>2. /\ Len(stored) \in Nat /\ Len(stored') = Len(stored) + 1 /\ DOMAIN stored' = 1..(Len(stored) + 1)
        /\ DOMAIN stored = 1..Len(stored)
        /\ stored'[Len(stored) + 1] = r /\ \A n \in 1..Len(stored) : stored'[n] = stored[n]
    <3>1. stored \in Seq(RecordSpace)
      BY LogKinds
    <3>2. /\ Len(stored) \in Nat /\ Len(stored') = Len(stored) + 1 /\ DOMAIN stored = 1..Len(stored)
          /\ DOMAIN stored' = 1..(Len(stored) + 1)
      BY <2>1, <3>1
    <3>3. stored'[Len(stored) + 1] = r /\ \A n \in 1..Len(stored) : stored'[n] = stored[n]
      BY <2>1, <3>1
    <3> QED
      BY <3>2, <3>3
  <2>3. AttemptFirst'
    <3> SUFFICES ASSUME NEW m \in 1..(Len(stored) + 1), NEW n \in 1..(Len(stored) + 1),
                        IsAttempt(stored'[m].event), ~IsAttempt(stored'[n].event),
                        SameOperation(stored'[m].event, stored'[n].event)
                 PROVE  m < n
      BY <2>2 DEF AttemptFirst
    <3>1. CASE m \in 1..Len(stored) /\ n \in 1..Len(stored)
      BY <2>2, <3>1 DEF AttemptFirst
    <3>2. CASE m = Len(stored) + 1 /\ n \in 1..Len(stored)
      BY <2>1, <2>2, <3>2 DEF Admits, SameOperation
    <3>3. CASE m \in 1..Len(stored) /\ n = Len(stored) + 1
      BY <2>2, <3>3
    <3> QED
      BY <2>2, <3>1, <3>2, <3>3
  <2>4. ASSUME NEW s, NEW i, Followed(s, i)
        PROVE  Followed(s, i)'
    <3>1. PICK m, n \in 1..Len(stored) :
            /\ m < n /\ IsAttempt(stored[m].event) /\ ~IsAttempt(stored[n].event)
            /\ stored[m].event.session = s /\ stored[m].event.id = i
            /\ stored[n].event.session = s /\ stored[n].event.id = i
      BY <2>4 DEF Followed
    <3>2. m \in 1..Len(stored') /\ n \in 1..Len(stored')
      BY <2>2
    <3> QED
      BY <2>2, <3>1, <3>2 DEF Followed
  <2>5. ASSUME NEW e \in EventsOf(stored), IsAttempt(e), e \notin UnresolvedIn(stored)
        PROVE  e \notin UnresolvedIn(stored')
    <3>1. PICK p \in 1..Len(stored) : stored[p].event = e
      BY RangeType, LogKinds DEF EventsOf
    <3>2. ASSUME NEW m \in DOMAIN stored', stored'[m].event = e
          PROVE  m \in 1..Len(stored)
      <4>1. r.event # e
        BY <2>1, <2>5, <3>1 DEF Admits
      <4> QED
        BY <2>2, <3>2, <4>1
    <3>3. ASSUME NEW m \in 1..Len(stored), stored[m].event = e
          PROVE  \E k \in 1..Len(stored) : k > m /\ SameOperation(stored[k].event, stored[m].event)
                                           /\ ~IsAttempt(stored[k].event)
      BY <2>2, <2>5, <3>3 DEF UnresolvedIn
    <3>4. ASSUME NEW m \in DOMAIN stored', stored'[m].event = e
          PROVE  \E k \in DOMAIN stored' : k > m /\ SameOperation(stored'[k].event, stored'[m].event)
                                           /\ ~IsAttempt(stored'[k].event)
      <4>1. m \in 1..Len(stored) /\ stored[m].event = e /\ stored'[m] = stored[m]
        BY <2>2, <3>2, <3>4
      <4>2. PICK k \in 1..Len(stored) : k > m /\ SameOperation(stored[k].event, stored[m].event)
                                        /\ ~IsAttempt(stored[k].event)
        BY <3>3, <4>1
      <4>3. k \in DOMAIN stored' /\ stored'[k] = stored[k]
        BY <2>2
      <4> QED
        BY <4>1, <4>2, <4>3
    <3> QED
      BY <3>4 DEF UnresolvedIn
  <2> QED
    BY <2>3, <2>4, <2>5
<1> QED
  BY <1>1, <1>2

\* Sessions stay open, learn and account; nothing flagged is dropped; whom the host tells holds an open session.
LEMMA AcceptGrows ==
  ASSUME LogShape, LogInv, LogShape', LogInv', AcceptInv, open' = open, anomalies \subseteq anomalies',
         stored' = stored \/ \E r \in RecordSpace : stored' = Append(stored, r) /\ Admits(r.event),
         \A a \in acks' : \/ a \in acks
                          \/ IsAttempt(a.event) => /\ a.event.session \in open
                                                   /\ a.event.id \in sess'[a.event.session].accepted,
         \A s \in Sessions : sess[s].accepted \subseteq sess'[s].accepted,
         \A s \in Sessions : \A i \in sess'[s].resolved : i \in sess[s].resolved \/ Followed(s, i)',
         pc' \in {"sign", "append"} => pending'.event.session \in open
  PROVE  AcceptInv'
<1>1. NoSilentAccept'
  <2> SUFFICES ASSUME NEW a \in acks', IsAttempt(a.event), a.event.session \notin open
               PROVE  \/ a.event \notin UnresolvedIn(stored')
                      \/ Flag(a.event, "unresolved-attempt") \in anomalies'
    BY DEF NoSilentAccept
  <2>1. a \in acks
    OBVIOUS
  <2>2. a.event \in EventsOf(stored)
    <3>1. PICK n \in DOMAIN stored : stored[n].event = a.event
      BY <2>1 DEF LogShape, MemoryInv, AcksDurable
    <3> QED
      BY <3>1, RangeType, LogKinds DEF EventsOf
  <2>3. \/ a.event \notin UnresolvedIn(stored)
        \/ Flag(a.event, "unresolved-attempt") \in anomalies
    BY <2>1 DEF AcceptInv, NoSilentAccept
  <2> QED
    BY <2>2, <2>3, GrowthKeeps DEF AcceptInv
<1>2. AttemptFirst'
  BY GrowthKeeps DEF AcceptInv
<1>3. AckedAccepted'
  BY LogKinds DEF AcceptInv, AckedAccepted
<1>4. ResolvedStored'
  BY GrowthKeeps DEF AcceptInv, ResolvedStored
<1>5. PendingOpen'
  BY DEF PendingOpen
<1> QED
  BY <1>1, <1>2, <1>3, <1>4, <1>5 DEF AcceptInv

-----------------------------------------------------------------------------
(* The steps. *)

LEMMA AcceptAside ==
  ASSUME LogShape, LogInv, LogShape', LogInv', AcceptInv,
         \/ \E q : TakeUp(q) \/ Expire(q)
         \/ SettleUnreadable \/ SettleUnchanged \/ Interrupt \/ Countersign \/ CountersignFailed \/ SealInterrupted
         \/ AppendFailed \/ RefuseUnadmitted \/ RefuseUnverified \/ Deliver \/ TogglePersistence \/ UNCHANGED hostVars
  PROVE  AcceptInv'
<1>1. UNCHANGED <<stored, open, sess, acks>> /\ anomalies \subseteq anomalies'
  BY DEF TakeUp, Expire, SettleUnreadable, SettleUnchanged, Interrupt, Countersign, CountersignFailed, SealInterrupted,
     AppendFailed, RefuseUnadmitted, RefuseUnverified, Deliver, TogglePersistence, hostVars
<1>2. pc' \in {"sign", "append"} => pc \in {"sign", "append"} /\ pending' = pending
  BY DEF TakeUp, Expire, SettleUnreadable, SettleUnchanged, Interrupt, Countersign, CountersignFailed, SealInterrupted,
     AppendFailed, RefuseUnadmitted, RefuseUnverified, Deliver, TogglePersistence, hostVars, FailClosed, Raised, Answer
<1> QED
  BY <1>1, <1>2, AcceptGrows DEF AcceptInv, PendingOpen

\* A decision that seals nothing, and the beginning of a seal.
LEMMA AcceptDecide ==
  ASSUME LogShape, LogInv, LogShape', LogInv', AcceptInv,
         \/ RefuseConcluded \/ RefuseReplayedAttempt \/ RefuseSecondOutcome \/ RefuseReplayedOutcome \/ RefuseOrphan
         \/ RepeatOutcome \/ FailUnavailable \/ BeginSeal
  PROVE  AcceptInv'
<1>1. /\ pc = "handle" /\ UNCHANGED <<stored, open>> /\ anomalies \subseteq anomalies'
      /\ sess' = Decide(Heard(cur.event), cur.event) \/ sess' = Heard(cur.event)
      /\ cur.event.session \in open
  BY DEF RefuseConcluded, RefuseReplayedAttempt, RefuseSecondOutcome, RefuseReplayedOutcome, RefuseOrphan,
     RepeatOutcome, FailUnavailable, BeginSeal, Refuse, Leave, SealableAttempt, SealableOutcome,
     FreshAttempt, FirstOutcome, Deciding, InSession
<1>2. pc' \in {"sign", "append"} => pending'.event = cur.event
  BY <1>1 DEF RefuseConcluded, RefuseReplayedAttempt, RefuseSecondOutcome, RefuseReplayedOutcome, RefuseOrphan,
     RepeatOutcome, FailUnavailable, BeginSeal, Refuse, Leave, FailClosed, Answer, SealRecord
<1>3. \A a \in acks' : a \in acks \/ ~IsAttempt(a.event)
  <2>1. CASE RepeatOutcome
    <3>1. ~IsAttempt(cur.event) /\ acks' = acks \union {Ack(cur.event, -1)}
      BY <2>1 DEF RepeatOutcome, Deciding, Wellformed
    <3>2. Ack(cur.event, -1).event = cur.event
      BY DEF Ack
    <3> QED
      BY <3>1, <3>2
  <2>2. CASE ~RepeatOutcome
    BY <2>2 DEF RefuseConcluded, RefuseReplayedAttempt, RefuseSecondOutcome, RefuseReplayedOutcome, RefuseOrphan,
       FailUnavailable, BeginSeal, Refuse, Leave
  <2> QED
    BY <2>1, <2>2
<1>4. \A s \in Sessions : sess'[s].accepted = sess[s].accepted /\ sess'[s].resolved = sess[s].resolved
  <2>1. cur.event \in Events
    BY <1>1, DecidingFacts DEF LogShape, HostShape
  <2>2. PICK st \in [Sessions -> SessionSpace] : st = Heard(cur.event)
    BY <1>1, DecidingFacts DEF LogShape, HostShape
  <2>3. \A s \in Sessions : st[s].accepted = sess[s].accepted /\ st[s].resolved = sess[s].resolved
    BY <2>1, <2>2, HeardHolds, LogKinds
  <2> QED
    BY <1>1, <2>1, <2>2, <2>3, DecideHolds
<1> QED
  BY <1>1, <1>2, <1>3, <1>4, AcceptGrows

LEMMA AcceptRepeat ==
  ASSUME LogShape, LogInv, LogShape', LogInv', AcceptInv, RepeatAttempt
  PROVE  AcceptInv'
<1>1. /\ pc = "handle" /\ pc' = "answer" /\ UNCHANGED <<stored, open>> /\ anomalies \subseteq anomalies'
      /\ sess' = [Heard(cur.event) EXCEPT ![cur.event.session].accepted = @ \union {cur.event.id}]
      /\ cur.event.session \in open
  BY DEF RepeatAttempt, Answer, Deciding, InSession
<1>2. cur.event \in Events /\ cur.event.session \in Sessions
  BY <1>1, DecidingFacts DEF LogShape, HostShape
<1>3. \A a \in acks' : a \in acks \/ a.event = cur.event
  <2>1. \A n : Ack(cur.event, n).event = cur.event
    BY DEF Ack
  <2> QED
    BY <2>1 DEF RepeatAttempt
<1>4. /\ \A s \in Sessions : sess[s].accepted \subseteq sess'[s].accepted /\ sess'[s].resolved = sess[s].resolved
      /\ cur.event.id \in sess'[cur.event.session].accepted
  <2>1. PICK st \in [Sessions -> SessionSpace] : st = Heard(cur.event)
    BY <1>1, DecidingFacts DEF LogShape, HostShape
  <2>2. \A s \in Sessions : st[s].accepted = sess[s].accepted /\ st[s].resolved = sess[s].resolved
    BY <1>2, <2>1, HeardHolds, LogKinds
  <2>3. sess' = [st EXCEPT ![cur.event.session].accepted = @ \union {cur.event.id}]
    BY <1>1, <2>1
  <2> QED
    BY <1>2, <2>2, <2>3 DEF SessionSpace
<1> QED
  BY <1>1, <1>3, <1>4, AcceptGrows

\* An outcome the host moves on by has its accepted attempt before it.
LEMMA AdvanceHolds ==
  ASSUME LogShape, LogInv, NEW r \in RecordSpace, Len(stored') = count + 1, stored'[count + 1] = r,
         \A n \in 1..Len(stored) : n <= count + 1 /\ stored'[n] = stored[n],
         sess' = Account(Decide(sess, r.event), r.event) \/ sess' = sess
  PROVE  /\ \A s \in Sessions : sess[s].accepted \subseteq sess'[s].accepted
         /\ \A s \in Sessions : \A i \in sess'[s].resolved : i \in sess[s].resolved \/ Followed(s, i)'
<1>1. r.event \in Events /\ sess \in [Sessions -> SessionSpace] /\ count \in Nat
  BY LogKinds DEF RecordSpace
<1>2. \A s \in Sessions :
        /\ sess[s].accepted \subseteq sess'[s].accepted
        /\ \A i \in sess'[s].resolved :
             \/ i \in sess[s].resolved
             \/ ~IsAttempt(r.event) /\ s = r.event.session /\ i = r.event.id /\ i \in sess[s].accepted
  BY <1>1, SealedHolds
<1>3. ASSUME NEW s \in Sessions, NEW i \in sess[s].accepted,
             ~IsAttempt(r.event), s = r.event.session, i = r.event.id
      PROVE  Followed(s, i)'
  <2>1. PICK m \in 1..Len(stored) : IsAttempt(stored[m].event) /\ stored[m].event.session = s /\ stored[m].event.id = i
    BY DEF LogInv, AcceptedStored
  <2>2. stored'[m] = stored[m] /\ m \in 1..(count + 1) /\ m # count + 1
    <3>1. m \in Nat /\ m >= 1 /\ m <= count + 1 /\ stored'[m] = stored[m]
      BY LogKinds
    <3>2. m # count + 1
      BY <1>3, <2>1, <3>1
    <3> QED
      BY <1>1, <3>1, <3>2
  <2>3. m < count + 1 /\ count + 1 \in 1..(count + 1)
    BY <1>1, <2>2
  <2> QED
    BY <1>3, <2>1, <2>2, <2>3 DEF Followed
<1> QED
  BY <1>2, <1>3

LEMMA AcceptCommit ==
  ASSUME LogShape, LogInv, LogShape', LogInv', AcceptInv, Commit
  PROVE  AcceptInv'
<1>1. /\ pc = "append" /\ pc' = "answer" /\ pending \in RecordSpace /\ pending.seq = count
      /\ UNCHANGED <<open, anomalies>>
      /\ sess' = Account(Decide(sess, pending.event), pending.event)
      /\ acks' = acks \union {Ack(pending.event, pending.seq)}
  BY DEF Commit, Answer, LogShape, HostShape, TypeOK, ChainInv, PendingLinked
<1>2. pending.event \in Events /\ pending.event.session \in open
  BY <1>1 DEF RecordSpace, AcceptInv, PendingOpen
<1>3. /\ Len(stored') = count + 1 /\ stored'[count + 1] = pending
      /\ \A n \in 1..Len(stored) : n <= count + 1 /\ stored'[n] = stored[n]
      /\ stored' = stored \/ \E r \in RecordSpace : stored' = Append(stored, r) /\ Admits(r.event)
  <2>1. CASE Durable
    <3>1. stored' = stored /\ pending \in Range(stored)
      BY <2>1 DEF Commit
    <3>2. PICK n \in 1..Len(stored) : stored[n] = pending
      BY <3>1, RangeType, LogKinds
    <3>3. n = count + 1
      BY <1>1, <3>2, LogKinds DEF LogShape, HostShape, ChainInv, ChainFollowsStore, Linked
    <3> QED
      BY <3>1, <3>2, <3>3, LogKinds
  <2>2. CASE ~Durable
    <3>1. stored' = Append(stored, pending) /\ Len(stored) = count
      BY <2>2 DEF Commit, LogShape, HostShape, ChainInv, OnlyCopy
    <3>2. Admits(pending.event)
      BY <1>1, <3>1 DEF LogInv, PendingAdmitted
    <3>3. /\ Len(stored') = count + 1 /\ stored'[count + 1] = pending
          /\ \A n \in 1..Len(stored) : stored'[n] = stored[n]
      BY <1>1, <3>1, <3>2, AppendAdmitted
    <3> QED
      BY <1>1, <3>1, <3>2, <3>3, LogKinds
  <2> QED
    BY <2>1, <2>2
<1>4. \A a \in acks' : \/ a \in acks
                       \/ IsAttempt(a.event) => /\ a.event.session \in open
                                                /\ a.event.id \in sess'[a.event.session].accepted
  <2>1. \A n : Ack(pending.event, n).event = pending.event
    BY DEF Ack
  <2>2. IsAttempt(pending.event) => pending.event.id \in sess'[pending.event.session].accepted
    BY <1>1, <1>2, SealedHolds, LogKinds
  <2> QED
    BY <1>1, <1>2, <2>1, <2>2
<1>5. /\ \A s \in Sessions : sess[s].accepted \subseteq sess'[s].accepted
      /\ \A s \in Sessions : \A i \in sess'[s].resolved : i \in sess[s].resolved \/ Followed(s, i)'
  BY <1>1, <1>3, AdvanceHolds
<1> QED
  BY <1>1, <1>3, <1>4, <1>5, AcceptGrows

LEMMA AcceptSettle ==
  ASSUME LogShape, LogInv, LogShape', LogInv', AcceptInv, SettleAdopt \/ SettleForeign
  PROVE  AcceptInv'
<1>1. CASE SettleForeign
  BY <1>1, LogKinds DEF SettleForeign
<1>2. CASE SettleAdopt
  <2>1. PICK r \in RecordSpace : r = stored[count + 1]
    BY <1>2, LogKinds DEF SettleAdopt, Landed
  <2>2. /\ UNCHANGED <<stored, open, anomalies, acks>> /\ Len(stored) = count + 1 /\ pc' = "handle"
        /\ sess' = Account(Decide(sess, r.event), r.event) \/ sess' = sess
    BY <1>2, <2>1 DEF SettleAdopt, Landed
  <2>3. /\ \A s \in Sessions : sess[s].accepted \subseteq sess'[s].accepted
        /\ \A s \in Sessions : \A i \in sess'[s].resolved : i \in sess[s].resolved \/ Followed(s, i)'
    BY <2>1, <2>2, AdvanceHolds, LogKinds
  <2> QED
    BY <2>2, <2>3, AcceptGrows
<1> QED
  BY <1>1, <1>2

\* A late write that lands is one the log admits.
LEMMA AcceptStore ==
  ASSUME LogShape, LogInv, LogShape', LogInv', AcceptInv, NEW r \in inflight, StoreLand(r) \/ StoreLose(r)
  PROVE  AcceptInv'
<1>1. UNCHANGED <<open, sess, anomalies, acks, pc, pending>>
  BY DEF StoreLand, StoreLose
<1>2. stored' = stored \/ \E w \in RecordSpace : stored' = Append(stored, w) /\ Admits(w.event)
  <2>1. r \in RecordSpace /\ (r.seq = Len(stored) => Admits(r.event))
    BY DEF LogShape, HostShape, TypeOK, LogInv, InflightAdmitted
  <2> QED
    BY <2>1 DEF StoreLand, StoreLose
<1> QED
  BY <1>1, <1>2, AcceptGrows DEF AcceptInv, PendingOpen

\* A session that opens has nobody's records, so nobody was told of any.
LEMMA AcceptOpen ==
  ASSUME LogShape, LogInv, LogShape', LogInv', AcceptInv, NEW s \in Sessions, OpenSession(s)
  PROVE  AcceptInv'
<1>1. /\ UNCHANGED <<stored, acks, anomalies, pc, pending>> /\ open' = open \cup {s}
      /\ sess' = [sess EXCEPT ![s] = NewSession]
  BY DEF OpenSession
<1>2. \A q \in Sessions : q # s => sess'[q] = sess[q]
  BY <1>1, LogKinds
<1>3. sess'[s].resolved = {}
  BY <1>1, LogKinds DEF NewSession
<1>4. \A a \in acks : a.event.session # s
  <2>1. \A n \in 1..Len(stored) : stored[n].event.session # s
    BY RangeType, LogKinds DEF OpenSession, Unused
  <2> QED
    BY <2>1, LogKinds DEF LogShape, MemoryInv, AcksDurable
<1>5. AckedAccepted'
  <2> SUFFICES ASSUME NEW a \in acks, IsAttempt(a.event), a.event.session \in open
               PROVE  a.event.id \in sess'[a.event.session].accepted
    BY <1>1, <1>4 DEF AckedAccepted
  <2> QED
    BY <1>2, <1>4, LogKinds DEF AcceptInv, AckedAccepted
<1>6. ResolvedStored'
  BY <1>1, <1>2, <1>3 DEF AcceptInv, ResolvedStored, Followed
<1>7. NoSilentAccept' /\ AttemptFirst' /\ PendingOpen'
  BY <1>1 DEF AcceptInv, NoSilentAccept, AttemptFirst, PendingOpen
<1> QED
  BY <1>5, <1>6, <1>7 DEF AcceptInv

\* Closing flags what the session accepted and did not resolve.
LEMMA AcceptClose ==
  ASSUME LogShape, LogInv, LogShape', LogInv', AcceptInv, NEW s \in Sessions, CloseSession(s)
  PROVE  AcceptInv'
<1>1. /\ UNCHANGED <<stored, acks, pc, pending>> /\ open' = open \ {s} /\ pc = "idle" /\ s \in open
      /\ anomalies' = anomalies \union
           {[session |-> s, id |-> i, kind |-> "unresolved-attempt"] : i \in sess[s].accepted \ sess[s].resolved}
      /\ sess' = [sess EXCEPT ![s] = NewSession]
  BY DEF CloseSession
<1>2. \A q \in Sessions : q # s => sess'[q] = sess[q]
  BY <1>1, LogKinds
<1>3. sess'[s].resolved = {}
  BY <1>1, LogKinds DEF NewSession
<1>4. NoSilentAccept'
  <2> SUFFICES ASSUME NEW a \in acks, IsAttempt(a.event), a.event.session \notin open'
               PROVE  \/ a.event \notin UnresolvedIn(stored)
                      \/ Flag(a.event, "unresolved-attempt") \in anomalies'
    BY <1>1 DEF NoSilentAccept, UnresolvedIn
  <2>1. CASE a.event.session \notin open
    BY <1>1, <2>1 DEF AcceptInv, NoSilentAccept
  <2>2. CASE a.event.session = s
    <3>1. a.event.id \in sess[s].accepted
      BY <1>1, <2>2 DEF AcceptInv, AckedAccepted
    <3>2. CASE a.event.id \in sess[s].resolved
      <4>1. Followed(a.event.session, a.event.id)
        BY <2>2, <3>2 DEF AcceptInv, ResolvedStored
      <4> QED
        BY <4>1, FollowedResolves DEF LogInv
    <3>3. CASE a.event.id \notin sess[s].resolved
      BY <1>1, <2>2, <3>1, <3>3 DEF Flag
    <3> QED
      BY <3>2, <3>3
  <2> QED
    BY <1>1, <2>1, <2>2
<1>5. AckedAccepted'
  BY <1>1, <1>2, LogKinds DEF AcceptInv, AckedAccepted
<1>6. ResolvedStored'
  BY <1>1, <1>2, <1>3 DEF AcceptInv, ResolvedStored, Followed
<1>7. AttemptFirst' /\ PendingOpen'
  BY <1>1 DEF AcceptInv, AttemptFirst, PendingOpen
<1> QED
  BY <1>4, <1>5, <1>6, <1>7 DEF AcceptInv

\* resume flags what the ledger leaves unresolved, and restores what it holds of the sessions kept.
LEMMA AcceptRestart ==
  ASSUME LogShape, LogInv, LogShape', LogInv', AcceptInv,
         NEW keep \in SUBSET open, NEW tracked \in SUBSET keep, Restart(keep, tracked)
  PROVE  AcceptInv'
<1>1. /\ UNCHANGED <<stored, acks>> /\ open' = keep /\ pc' = "idle"
      /\ sess' = [s \in Sessions |-> IF s \in keep THEN Restored(s, s \in tracked) ELSE NewSession]
      /\ anomalies' = {Flag(e, "unresolved-attempt") : e \in {f \in UnresolvedIn(stored) : f.session \notin keep}}
  BY DEF Restart
<1>2. NoSilentAccept'
  BY <1>1 DEF NoSilentAccept
<1>3. AckedAccepted'
  <2> SUFFICES ASSUME NEW a \in acks, IsAttempt(a.event), a.event.session \in keep
               PROVE  a.event.id \in sess'[a.event.session].accepted
    BY <1>1 DEF AckedAccepted
  <2>1. PICK e : e = a.event
    OBVIOUS
  <2>2. e \in EventsOf(stored)
    <3>1. PICK n \in DOMAIN stored : stored[n].event = e
      BY <2>1 DEF LogShape, MemoryInv, AcksDurable
    <3> QED
      BY <3>1, RangeType, LogKinds DEF EventsOf
  <2>3. e.id \in Restored(e.session, e.session \in tracked).accepted
    BY <2>1, <2>2 DEF Restored
  <2> QED
    BY <1>1, <2>1, <2>3, LogKinds
<1>4. ResolvedStored'
  <2> SUFFICES ASSUME NEW s \in Sessions, NEW i \in sess'[s].resolved
               PROVE  Followed(s, i)
    BY <1>1 DEF ResolvedStored, Followed
  <2>1. s \in keep
    BY <1>1 DEF NewSession
  <2>2. i \in Restored(s, s \in tracked).resolved
    BY <1>1, <2>1
  <2>3. PICK e, f \in EventsOf(stored) :
          /\ e.session = s /\ IsAttempt(e) /\ e.id = i
          /\ f.session = s /\ ~IsAttempt(f) /\ f.id = i
    BY <2>2 DEF Restored
  <2>4. PICK m, n \in 1..Len(stored) : stored[m].event = e /\ stored[n].event = f
    BY RangeType, LogKinds DEF EventsOf
  <2>5. m < n
    BY <2>3, <2>4 DEF AcceptInv, AttemptFirst, SameOperation
  <2> QED
    BY <2>3, <2>4, <2>5 DEF Followed
<1>5. AttemptFirst' /\ PendingOpen'
  BY <1>1 DEF AcceptInv, AttemptFirst, PendingOpen
<1> QED
  BY <1>2, <1>3, <1>4, <1>5 DEF AcceptInv

LEMMA AcceptInit == Init => AcceptInv
BY DEF Init, AcceptInv, NoSilentAccept, AttemptFirst, AckedAccepted, ResolvedStored, PendingOpen, NewSession

LEMMA AcceptNext ==
  ASSUME Alone, LogShape, LogInv, LogShape', LogInv', AcceptInv, [Next]_hostVars
  PROVE  AcceptInv'
<1>1. CASE (\E q \in Arrivals : TakeUp(q) \/ Expire(q)) \/ Deliver \/ UNCHANGED hostVars
  BY <1>1, AcceptAside
<1>2. CASE Settle \/ Interrupt \/ RefuseUnadmitted \/ RefuseUnverified
  BY <1>2, AcceptAside, AcceptSettle DEF Settle
<1>3. CASE DecideAttempt \/ DecideOutcome
  BY <1>3, AcceptDecide, AcceptRepeat DEF DecideAttempt, DecideOutcome
<1>4. CASE Seal
  BY <1>4, AcceptDecide, AcceptAside, AcceptCommit DEF Seal
<1>5. CASE Environment
  BY <1>5, AcceptStore, AcceptAside DEF Environment, Alone
<1>6. CASE Lifecycle
  BY <1>6, AcceptOpen, AcceptClose, AcceptRestart DEF Lifecycle
<1> QED
  BY <1>1, <1>2, <1>3, <1>4, <1>5, <1>6 DEF Next, Holder

LEMMA AcceptAlways ==
  ASSUME MaxForeign = 0 \/ ~Durable
  PROVE  Spec => [](LogShape /\ LogInv /\ AcceptInv)
<1> DEFINE Inv == LogShape /\ LogInv /\ AcceptInv
<1>1. Init => Inv
  BY TypeInit, ChainInit, MemoryInit, LogInit, AcceptInit DEF LogShape, HostShape, LogInv
<1>2. Inv /\ [Next]_hostVars => Inv'
  <2> SUFFICES ASSUME Inv, [Next]_hostVars PROVE Inv'
    OBVIOUS
  <2>1. LogShape' /\ LogInv'
    BY NobodyElse, TypeNext, ChainNext, MemoryNext, LogNext DEF LogShape, HostShape, LogInv
  <2> QED
    BY <2>1, NobodyElse, AcceptNext DEF LogShape, HostShape
<1> HIDE DEF Inv
<1>3. Spec => []Inv
  BY <1>1, <1>2, PTL DEF Spec
<1> QED
  BY <1>3 DEF Inv

(* An attempt the tool was told `accept` for is never lost silently (close_session, resume, _seal): once its session *)
(* is closed, its outcome follows it in the ledger or it is flagged, in a partition this host alone writes to.      *)
THEOREM AcceptCorrect ==
  ASSUME MaxForeign = 0 \/ ~Durable
  PROVE  Spec => []NoSilentAccept
<1> DEFINE Held == LogShape /\ LogInv /\ AcceptInv
<1>1. Held => NoSilentAccept
  BY DEF AcceptInv
<1>2. Spec => []Held
  BY AcceptAlways
<1> HIDE DEF Held
<1> QED
  BY <1>1, <1>2, PTL

-----------------------------------------------------------------------------
(* Closing a session flags nothing that is resolved.                       *)

\* An open session accepted every attempt its committed ledger holds, and resolved those its outcomes follow.
CommittedAccepted ==
  \A n \in 1..count : LET e == stored[n].event IN
    IsAttempt(e) /\ e.session \in open => e.id \in sess[e.session].accepted

CommittedResolved ==
  \A m, n \in 1..count : LET e == stored[m].event IN
    /\ IsAttempt(e) /\ ~IsAttempt(stored[n].event) /\ SameOperation(e, stored[n].event) /\ e.session \in open
    => e.id \in sess[e.session].resolved

CloseInv == CommittedAccepted /\ CommittedResolved

\* Accounting forgets no resolution, and an outcome resolves an operation that was accepted.
LEMMA AccountResolves ==
  ASSUME NEW st \in [Sessions -> SessionSpace], NEW e \in Events, NEW s \in Sessions
  PROVE  /\ st[s].resolved \subseteq Account(st, e)[s].resolved
         /\ ~IsAttempt(e) /\ e.id \in st[e.session].accepted => e.id \in Account(st, e)[e.session].resolved
<1>0. e.session \in Sessions /\ e.id \in OpIds
  BY EventsAssumption DEF EventSpace
<1>1. CASE IsAttempt(e)
  BY <1>0, <1>1 DEF Account, SessionSpace
<1>2. CASE ~IsAttempt(e) /\ s # e.session
  <2>1. Account(st, e)[s] = st[s]
    BY <1>0, <1>2 DEF Account
  <2>2. Account(st, e)[e.session].resolved = st[e.session].resolved \union (st[e.session].accepted \intersect {e.id})
    BY <1>0, <1>2 DEF Account, SessionSpace
  <2> QED
    BY <2>1, <2>2
<1>3. CASE ~IsAttempt(e) /\ s = e.session
  <2>1. Account(st, e)[s].resolved = st[s].resolved \union (st[s].accepted \intersect {e.id})
    BY <1>0, <1>3 DEF Account, SessionSpace
  <2> QED
    BY <1>3, <2>1
<1> QED
  BY <1>1, <1>2, <1>3

\* Sessions accept and resolve more, or close, while the chain's committed part stays.
LEMMA CloseUntouched ==
  ASSUME LogShape, CloseInv, count' = count, \A n \in 1..count : stored'[n] = stored[n], open' \subseteq open,
         \A s \in open' : sess[s].accepted \subseteq sess'[s].accepted /\ sess[s].resolved \subseteq sess'[s].resolved
  PROVE  CloseInv'
<1>1. CommittedAccepted'
  BY DEF CloseInv, CommittedAccepted
<1>2. CommittedResolved'
  BY DEF CloseInv, CommittedResolved
<1> QED
  BY <1>1, <1>2 DEF CloseInv

LEMMA CloseAside ==
  ASSUME LogShape, CloseInv,
         \/ \E q : TakeUp(q) \/ Expire(q)
         \/ SettleUnreadable \/ SettleUnchanged \/ Interrupt \/ Countersign \/ CountersignFailed \/ SealInterrupted
         \/ AppendFailed \/ RefuseUnadmitted \/ RefuseUnverified \/ Deliver \/ TogglePersistence \/ UNCHANGED hostVars
  PROVE  CloseInv'
<1>1. UNCHANGED <<stored, count, open, sess>>
  BY DEF TakeUp, Expire, SettleUnreadable, SettleUnchanged, Interrupt, Countersign, CountersignFailed, SealInterrupted,
     AppendFailed, RefuseUnadmitted, RefuseUnverified, Deliver, TogglePersistence, hostVars
<1> QED
  BY <1>1, CloseUntouched

\* What a decision hears or decides, it neither accepts nor resolves; a repeated attempt is accepted again.
LEMMA CloseDecide ==
  ASSUME LogShape, CloseInv, DecideAttempt \/ DecideOutcome \/ FailUnavailable \/ BeginSeal
  PROVE  CloseInv'
<1>1. /\ pc = "handle" /\ UNCHANGED <<stored, count, open>>
  BY DEF DecideAttempt, DecideOutcome, FailUnavailable, RepeatAttempt, BeginSeal,
     RefuseConcluded, RefuseReplayedAttempt, RepeatOutcome, RefuseSecondOutcome, RefuseReplayedOutcome, RefuseOrphan,
     FreshAttempt, FirstOutcome, SealableAttempt, SealableOutcome, Deciding, Refuse, Leave
<1>2. cur.event \in Events /\ sess \in [Sessions -> SessionSpace] /\ open \subseteq Sessions
  BY <1>1, DecidingFacts, LogKinds DEF LogShape, HostShape
<1>3. PICK st \in [Sessions -> SessionSpace] : st = Heard(cur.event)
  BY <1>1, DecidingFacts DEF LogShape, HostShape
<1>4. \A s \in Sessions : st[s].accepted = sess[s].accepted /\ st[s].resolved = sess[s].resolved
  BY <1>2, <1>3, HeardHolds
<1>5. \/ sess' = st
      \/ sess' = Decide(st, cur.event)
      \/ sess' = [st EXCEPT ![cur.event.session].accepted = @ \union {cur.event.id}]
  BY <1>3 DEF DecideAttempt, DecideOutcome, FailUnavailable, BeginSeal, RepeatAttempt, RefuseConcluded,
     RefuseReplayedAttempt, RepeatOutcome, RefuseSecondOutcome, RefuseReplayedOutcome, RefuseOrphan, Refuse, Leave
<1>6. \A s \in Sessions : /\ Decide(st, cur.event)[s].accepted = st[s].accepted
                          /\ Decide(st, cur.event)[s].resolved = st[s].resolved
  BY <1>2, DecideHolds
<1>7. \A s \in Sessions : LET now == [st EXCEPT ![cur.event.session].accepted = @ \union {cur.event.id}] IN
        st[s].accepted \subseteq now[s].accepted /\ now[s].resolved = st[s].resolved
  BY DEF SessionSpace
<1>8. \A s \in Sessions : sess[s].accepted \subseteq sess'[s].accepted /\ sess[s].resolved \subseteq sess'[s].resolved
  BY <1>4, <1>5, <1>6, <1>7
<1> QED
  BY <1>1, <1>2, <1>8, CloseUntouched

\* The host moves on by one record, which its session accounts if it is open.
LEMMA CloseAdvance ==
  ASSUME LogShape, CloseInv, AttemptFirst', NEW r \in RecordSpace, count' = count + 1, Len(stored') = count + 1,
         stored'[count + 1] = r, \A n \in 1..count : stored'[n] = stored[n], open' = open,
         \/ sess' = Account(Decide(sess, r.event), r.event)
         \/ sess' = sess /\ r.event.session \notin open
  PROVE  CloseInv'
<1>1. /\ r.event \in Events /\ r.event.session \in Sessions /\ sess \in [Sessions -> SessionSpace] /\ count \in Nat
      /\ open \subseteq Sessions
  BY LogKinds, EventsAssumption DEF RecordSpace, EventSpace
<1>2. PICK st \in [Sessions -> SessionSpace] : st = Decide(sess, r.event)
  BY <1>1, DecideType
<1>3. \A s \in Sessions : st[s].accepted = sess[s].accepted /\ st[s].resolved = sess[s].resolved
  BY <1>1, <1>2, DecideHolds
<1>4. \A s \in Sessions : /\ st[s].accepted \subseteq Account(st, r.event)[s].accepted
                          /\ st[s].resolved \subseteq Account(st, r.event)[s].resolved
  BY <1>1, AccountHolds, AccountResolves
<1>5. /\ IsAttempt(r.event) => r.event.id \in Account(st, r.event)[r.event.session].accepted
      /\ ~IsAttempt(r.event) /\ r.event.id \in st[r.event.session].accepted
           => r.event.id \in Account(st, r.event)[r.event.session].resolved
  BY <1>1, AccountHolds, AccountResolves
<1>6. /\ \A s \in Sessions : sess[s].accepted \subseteq sess'[s].accepted /\ sess[s].resolved \subseteq sess'[s].resolved
      /\ r.event.session \in open =>
           /\ IsAttempt(r.event) => r.event.id \in sess'[r.event.session].accepted
           /\ ~IsAttempt(r.event) /\ r.event.id \in sess[r.event.session].accepted
                => r.event.id \in sess'[r.event.session].resolved
  BY <1>1, <1>2, <1>3, <1>4, <1>5
<1>7. \A n \in 1..(count + 1) : n = count + 1 \/ n \in 1..count
  BY <1>1
<1>8. CommittedAccepted'
  <2> SUFFICES ASSUME NEW n \in 1..(count + 1), IsAttempt(stored'[n].event), stored'[n].event.session \in open
               PROVE  stored'[n].event.id \in sess'[stored'[n].event.session].accepted
    BY DEF CommittedAccepted
  <2>1. CASE n = count + 1
    BY <1>6, <2>1
  <2>2. CASE n \in 1..count
    BY <1>1, <1>6, <2>2 DEF CloseInv, CommittedAccepted
  <2> QED
    BY <1>7, <2>1, <2>2
<1>9. CommittedResolved'
  <2> SUFFICES ASSUME NEW m \in 1..(count + 1), NEW n \in 1..(count + 1), IsAttempt(stored'[m].event),
                      ~IsAttempt(stored'[n].event), SameOperation(stored'[m].event, stored'[n].event),
                      stored'[m].event.session \in open
               PROVE  stored'[m].event.id \in sess'[stored'[m].event.session].resolved
    BY DEF CommittedResolved
  <2>1. m < n
    BY DEF AttemptFirst
  <2>2. m \in 1..count
    BY <1>1, <2>1
  <2>3. CASE n = count + 1
    <3>1. stored[m].event.id \in sess[stored[m].event.session].accepted
      BY <2>2 DEF CloseInv, CommittedAccepted
    <3> QED
      BY <1>6, <2>2, <2>3, <3>1 DEF SameOperation
  <2>4. CASE n \in 1..count
    BY <1>1, <1>6, <2>2, <2>4 DEF CloseInv, CommittedResolved
  <2> QED
    BY <1>7, <2>3, <2>4
<1> QED
  BY <1>8, <1>9 DEF CloseInv

LEMMA CloseCommit ==
  ASSUME LogShape, CloseInv, AttemptFirst', Commit
  PROVE  CloseInv'
<1>1. /\ pending \in RecordSpace /\ pending.seq = count /\ UNCHANGED open /\ count' = count + 1
      /\ sess' = Account(Decide(sess, pending.event), pending.event)
  BY DEF Commit, LogShape, HostShape, TypeOK, ChainInv, PendingLinked
<1>2. /\ Len(stored') = count + 1 /\ stored'[count + 1] = pending
      /\ \A n \in 1..count : stored'[n] = stored[n]
  <2>1. CASE Durable
    <3>1. stored' = stored /\ pending \in Range(stored)
      BY <2>1 DEF Commit
    <3>2. PICK n \in 1..Len(stored) : stored[n] = pending
      BY <3>1, RangeType, LogKinds
    <3>3. n = count + 1
      BY <1>1, <3>2, LogKinds DEF LogShape, HostShape, ChainInv, ChainFollowsStore, Linked
    <3> QED
      BY <3>1, <3>2, <3>3, LogKinds
  <2>2. CASE ~Durable
    <3>1. stored' = Append(stored, pending) /\ Len(stored) = count /\ stored \in Seq(RecordSpace)
      BY <2>2, LogKinds DEF Commit, LogShape, HostShape, ChainInv, OnlyCopy
    <3> QED
      BY <1>1, <3>1
  <2> QED
    BY <2>1, <2>2
<1> QED
  BY <1>1, <1>2, CloseAdvance

LEMMA CloseSettle ==
  ASSUME LogShape, CloseInv, AttemptFirst', SettleAdopt \/ SettleForeign
  PROVE  CloseInv'
<1>1. CASE SettleForeign
  BY <1>1, LogKinds DEF SettleForeign
<1>2. CASE SettleAdopt
  <2>1. PICK r \in RecordSpace : r = stored[count + 1]
    BY <1>2, LogKinds DEF SettleAdopt, Landed
  <2>2. /\ UNCHANGED <<stored, open>> /\ Len(stored) = count + 1 /\ count' = count + 1
        /\ \/ sess' = Account(Decide(sess, r.event), r.event)
           \/ sess' = sess /\ r.event.session \notin open
    BY <1>2, <2>1 DEF SettleAdopt, Landed
  <2> QED
    BY <2>1, <2>2, CloseAdvance
<1> QED
  BY <1>1, <1>2

\* A late write lands past what is committed.
LEMMA CloseStore ==
  ASSUME LogShape, CloseInv, NEW r \in inflight, StoreLand(r) \/ StoreLose(r)
  PROVE  CloseInv'
<1>1. UNCHANGED <<open, sess, count>> /\ (stored' = stored \/ stored' = Append(stored, r))
  BY DEF StoreLand, StoreLose
<1>2. \A n \in 1..count : stored'[n] = stored[n]
  <2>1. r \in RecordSpace /\ stored \in Seq(RecordSpace) /\ count \in 0..Len(stored)
    BY LogKinds DEF LogShape, HostShape, TypeOK
  <2> QED
    BY <1>1, <2>1
<1> QED
  BY <1>1, <1>2, CloseUntouched

LEMMA CloseSessions ==
  ASSUME LogShape, CloseInv, NEW s \in Sessions, OpenSession(s) \/ CloseSession(s)
  PROVE  CloseInv'
<1>1. UNCHANGED <<stored, count>> /\ sess' = [sess EXCEPT ![s] = NewSession] /\ open \subseteq Sessions
  BY LogKinds DEF OpenSession, CloseSession
<1>2. \A q \in Sessions \ {s} : sess'[q] = sess[q]
  BY <1>1, LogKinds
<1>3. CASE CloseSession(s)
  <2>1. open' = open \ {s}
    BY <1>3 DEF CloseSession
  <2> QED
    BY <1>1, <1>2, <2>1, CloseUntouched
<1>4. CASE OpenSession(s)
  <2>1. open' = open \cup {s}
    BY <1>4 DEF OpenSession
  <2>2. \A n \in 1..count : stored[n].event.session # s
    BY <1>4, RangeType, LogKinds DEF OpenSession, Unused
  <2>3. CommittedAccepted'
    BY <1>1, <1>2, <2>1, <2>2 DEF CloseInv, CommittedAccepted
  <2>4. CommittedResolved'
    BY <1>1, <1>2, <2>1, <2>2 DEF CloseInv, CommittedResolved
  <2> QED
    BY <2>3, <2>4 DEF CloseInv
<1> QED
  BY <1>3, <1>4

\* A restored session accepted and resolved what its ledger says.
LEMMA CloseRestart ==
  ASSUME LogShape, CloseInv, NEW keep \in SUBSET open, NEW tracked \in SUBSET keep, Restart(keep, tracked)
  PROVE  CloseInv'
<1>1. /\ UNCHANGED stored /\ count' = Len(stored) /\ open' = keep
      /\ sess' = [s \in Sessions |-> IF s \in keep THEN Restored(s, s \in tracked) ELSE NewSession]
  BY DEF Restart
<1>2. \A n \in 1..Len(stored) : stored[n].event \in EventsOf(stored) /\ stored[n].event.session \in Sessions
  BY RangeType, LogKinds DEF EventsOf
<1>3. ASSUME NEW n \in 1..Len(stored), IsAttempt(stored[n].event), stored[n].event.session \in keep
      PROVE  stored[n].event.id \in sess'[stored[n].event.session].accepted
  <2>1. PICK e \in EventsOf(stored) : e = stored[n].event
    BY <1>2
  <2>2. e.id \in Restored(e.session, e.session \in tracked).accepted
    BY <1>3, <2>1 DEF Restored
  <2> QED
    BY <1>1, <1>2, <1>3, <2>1, <2>2
<1>4. ASSUME NEW m \in 1..Len(stored), NEW n \in 1..Len(stored), IsAttempt(stored[m].event),
             ~IsAttempt(stored[n].event), SameOperation(stored[m].event, stored[n].event),
             stored[m].event.session \in keep
      PROVE  stored[m].event.id \in sess'[stored[m].event.session].resolved
  <2>1. PICK e, f \in EventsOf(stored) : e = stored[m].event /\ f = stored[n].event
    BY <1>2
  <2>2. e.id \in Restored(e.session, e.session \in tracked).resolved
    BY <1>4, <2>1 DEF Restored, SameOperation
  <2> QED
    BY <1>1, <1>2, <1>4, <2>1, <2>2
<1> QED
  BY <1>1, <1>3, <1>4 DEF CloseInv, CommittedAccepted, CommittedResolved

LEMMA CloseNext ==
  ASSUME Alone, LogShape, CloseInv, AttemptFirst', [Next]_hostVars
  PROVE  CloseInv'
<1>1. CASE (\E q \in Arrivals : TakeUp(q) \/ Expire(q)) \/ Deliver \/ UNCHANGED hostVars
  BY <1>1, CloseAside
<1>2. CASE Settle \/ Interrupt \/ RefuseUnadmitted \/ RefuseUnverified
  BY <1>2, CloseAside, CloseSettle DEF Settle
<1>3. CASE DecideAttempt \/ DecideOutcome
  BY <1>3, CloseDecide
<1>4. CASE Seal
  BY <1>4, CloseDecide, CloseAside, CloseCommit DEF Seal
<1>5. CASE Environment
  BY <1>5, CloseStore, CloseAside DEF Environment, Alone
<1>6. CASE Lifecycle
  BY <1>6, CloseSessions, CloseRestart DEF Lifecycle
<1> QED
  BY <1>1, <1>2, <1>3, <1>4, <1>5, <1>6 DEF Next, Holder

\* Only closing a session, and a restart that does not keep it, ends it.
LEMMA WhatEnds ==
  ASSUME [Next]_hostVars, NEW s \in open, s \notin open'
  PROVE  CloseSession(s) \/ \E keep \in SUBSET open : \E tracked \in SUBSET keep : Restart(keep, tracked)
<1>1. CASE (\E q \in Arrivals : TakeUp(q) \/ Expire(q)) \/ Deliver \/ Environment \/ UNCHANGED hostVars
  BY <1>1 DEF TakeUp, Expire, Deliver, Environment, StoreLand, StoreLose, ForeignAppend, TogglePersistence, hostVars
<1>2. CASE Settle \/ Interrupt \/ RefuseUnadmitted \/ RefuseUnverified \/ DecideAttempt \/ DecideOutcome
  BY <1>2 DEF Settle, SettleUnreadable, SettleAdopt, SettleForeign, SettleUnchanged, Interrupt,
     RefuseUnadmitted, RefuseUnverified, DecideAttempt, DecideOutcome, RepeatAttempt, RefuseConcluded,
     RefuseReplayedAttempt, RepeatOutcome, RefuseSecondOutcome, RefuseReplayedOutcome, RefuseOrphan, Refuse
<1>3. CASE Seal
  BY <1>3 DEF Seal, FailUnavailable, Leave, BeginSeal, Countersign, CountersignFailed, SealInterrupted, AppendFailed,
     Commit
<1>4. CASE Lifecycle
  BY <1>4 DEF Lifecycle, OpenSession, CloseSession
<1> QED
  BY <1>1, <1>2, <1>3, <1>4 DEF Next, Holder

\* A session that ends while the host's position is the ledger's flags what the ledger leaves unresolved.
LEMMA FlagsRightly ==
  ASSUME LogShape, LogInv, CloseInv, count = Len(stored), [Next]_hostVars, NEW s \in open, s \notin open'
  PROVE  ~FalselyFlagged(s)
<1> SUFFICES ASSUME NEW e \in EventsOf(stored), e.session = s, IsAttempt(e),
                    Flag(e, "unresolved-attempt") \in anomalies' \ anomalies, e \notin UnresolvedIn(stored)
             PROVE  FALSE
  BY DEF FalselyFlagged
<1>1. PICK n \in 1..Len(stored) : stored[n].event = e
  BY RangeType, LogKinds DEF EventsOf
<1>2. CASE CloseSession(s)
  <2>1. e.id \notin sess[s].resolved
    BY <1>2 DEF CloseSession, Flag
  <2>2. PICK k \in 1..Len(stored) : SameOperation(stored[k].event, stored[n].event) /\ ~IsAttempt(stored[k].event)
    BY <1>1, LogKinds DEF UnresolvedIn
  <2>3. e.id \in sess[e.session].resolved
    BY <1>1, <2>2 DEF CloseInv, CommittedResolved, SameOperation
  <2> QED
    BY <2>1, <2>3
<1>3. CASE \E keep \in SUBSET open : \E tracked \in SUBSET keep : Restart(keep, tracked)
  <2>1. PICK f \in UnresolvedIn(stored) : Flag(f, "unresolved-attempt") = Flag(e, "unresolved-attempt")
    BY <1>3 DEF Restart
  <2>2. PICK p \in 1..Len(stored) : stored[p].event = f /\ IsAttempt(f)
    BY LogKinds DEF UnresolvedIn
  <2>3. f.id = e.id
    BY <2>1 DEF Flag
  <2>4. p = n
    BY <1>1, <2>2, <2>3 DEF LogInv, AttemptOnce
  <2> QED
    BY <1>1, <2>2, <2>4
<1> QED
  BY <1>2, <1>3, WhatEnds

(* A session that ends while every stored record is committed flags no attempt whose outcome is in the ledger       *)
(* (close_session, resume): a doubtful tail is the only way to a false flag, in a partition of the host's own.      *)
THEOREM CommittedCloseCorrect ==
  ASSUME MaxForeign = 0 \/ ~Durable
  PROVE  Spec => [][count = Len(stored) => \A s \in open \ open' : ~FalselyFlagged(s)]_hostVars
<1> DEFINE Held == LogShape /\ LogInv /\ AcceptInv
           Rightly == count = Len(stored) => \A s \in open \ open' : ~FalselyFlagged(s)
<1>1. Init => CloseInv
  BY DEF Init, CloseInv, CommittedAccepted, CommittedResolved
<1>2. Held /\ Held' /\ CloseInv /\ [Next]_hostVars => CloseInv'
  BY NobodyElse, CloseNext DEF LogShape, HostShape, AcceptInv
<1>3. Held /\ CloseInv /\ [Next]_hostVars => Rightly
  BY FlagsRightly
<1>4. Spec => []Held
  BY AcceptAlways
<1> HIDE DEF Held, Rightly
<1>5. Spec => [][Rightly]_hostVars
  BY <1>1, <1>2, <1>3, <1>4, PTL DEF Spec
<1> QED
  BY <1>5 DEF Rightly

(* Without a repository closing flags only attempts that have no sealed terminal outcome, as close_session says.    *)
THEOREM CloseCorrect ==
  ASSUME ~Durable
  PROVE  Spec => CloseFlagsOnlyUnresolved
<1> DEFINE Held == LogShape /\ LogInv /\ AcceptInv
           Committed == count = Len(stored)
           Rightly == \A s \in open \ open' : ~FalselyFlagged(s)
<1>1. Held => Committed
  BY DEF LogShape, HostShape, ChainInv, OnlyCopy
<1>2. Spec => []Held
  BY AcceptAlways
<1>3. Spec => [][Committed => Rightly]_hostVars
  BY CommittedCloseCorrect
<1> HIDE DEF Held, Committed, Rightly
<1>4. Spec => [][Rightly]_hostVars
  BY <1>1, <1>2, <1>3, PTL
<1> QED
  BY <1>4 DEF Rightly, CloseFlagsOnlyUnresolved
===============================================================================
