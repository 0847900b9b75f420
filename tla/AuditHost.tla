------------------------------ MODULE AuditHost ------------------------------
(***************************************************************************)
(* AuditHost (host.py) over its Ledger (ledger.py) and a LedgerRepository  *)
(* (storage/): the receiver that decides every attempt and outcome of one  *)
(* partition and seals the valid ones into one hash chain.                 *)
(*                                                                         *)
(* Handlers run one at a time under the partition's lock, but they await   *)
(* inside it: the tail read, the countersigner and the append.  `pc` is    *)
(* where the lock's holder stands, and every await is a step boundary.  A  *)
(* record handed to the repository is in `inflight` until the store takes  *)
(* or loses it, whatever the host was told meanwhile: a RepositoryError or *)
(* a cancellation does not say whether the record landed, and it may still *)
(* land later.  The store is conditional on seq (storage/repository.py).   *)
(***************************************************************************)
EXTENDS AuditEvents

CONSTANTS
  Level2,         \* the capability's level is L2
  Countersigned,  \* the capability's countersign is "host"
  Durable,        \* a repository is configured
  NoRequest,      \* no handler holds the lock
  NoRecord,       \* nothing is being sealed
  Arrivals,       \* the requests bindings may hand the host
  MaxSeals,       \* bound: records computed in a behaviour
  MaxForeign      \* bound: records another writer computes

\* What a binding hands the host: the entry point, and whether the call it came on is another session's.
Requests == [event: Events, entry: {"attempt", "outcome"}, misrouted: BOOLEAN]

ASSUME HostAssumption ==
  /\ Level2 \in BOOLEAN
  /\ Countersigned \in BOOLEAN
  /\ Durable \in BOOLEAN
  /\ NoRequest \notin Requests
  /\ NoRecord \notin RecordSpace
  /\ Arrivals \subseteq Requests
  /\ MaxSeals \in Nat
  /\ MaxForeign \in Nat

VARIABLES
  \* the repository, and the writes it has been sent and not yet taken or lost
  stored, inflight,
  \* the Ledger: _count and _tail_hash; `hashes` is the last record hash drawn
  count, tail, hashes,
  \* _tail_uncertain, persistence_available
  uncertain, available,
  \* _issued, the ids in _sessions, and what each open session holds
  issued, open, sess,
  \* _sealed_attempts (its records) and _sealed_digests (the events)
  sealedAttempts, sealedDigests,
  \* _anomalies
  anomalies,
  \* the lock's holder: its step, the request, the record being sealed, the answer it returns
  pc, cur, pending, verdict,
  \* what the tools were told is in the ledger: accept, sealed or repeat (grows only)
  acks,
  \* records another writer has added
  foreign

storeVars  == <<stored, inflight, foreign>>
chainVars  == <<count, tail, hashes>>
sessVars   == <<issued, open, sess>>
memoryVars == <<sealedAttempts, sealedDigests>>
lockVars   == <<pc, cur, pending, verdict>>
hostVars   == <<stored, inflight, foreign, count, tail, hashes, uncertain, available, issued, open,
                sess, sealedAttempts, sealedDigests, anomalies, pc, cur, pending, verdict, acks>>

-----------------------------------------------------------------------------
(* One audit session (_Session).  `decided` holds the signer_seq values decided per key, `received` *)
(* every value up to the highest received per key (none for a key not heard from yet).             *)

SignerValues == Keys \X (0..MaxSignerSeq)

SessionSpace == [decided: SUBSET SignerValues, received: SUBSET SignerValues,
                 accepted: SUBSET OpIds, resolved: SUBSET OpIds, outcomes: SUBSET Events]

NewSession == [decided |-> {}, received |-> {}, accepted |-> {}, resolved |-> {}, outcomes |-> {}]

SignerValue(e) == <<e.key, e.sseq>>

UpTo(e) == {e.key} \X (0..e.sseq)

\* The outcome sealed for an operation of a session, as a set of at most one.
OutcomeOf(s, id) == {e \in sess[s].outcomes : e.id = id}

\* A host that notes a received value only when it is the next expected one.
HeardInOrder(e) ==
  IF Level2 /\ (e.sseq = 0 \/ <<e.key, e.sseq - 1>> \in sess[e.session].received)
  THEN [sess EXCEPT ![e.session].received = @ \union UpTo(e)] ELSE sess

\* The session's state once the event's signature verified: the highest signer_seq received.
Heard(e) ==
  IF Level2 THEN [sess EXCEPT ![e.session].received = @ \union UpTo(e)] ELSE sess

\* _decide, on session states `st`.
Decide(st, e) ==
  IF Level2 THEN [st EXCEPT ![e.session].decided = @ \union {SignerValue(e)}] ELSE st

\* Accounting that takes a correlated refusal for no terminal outcome.
AccountNoRefusal(st, e) ==
  IF IsAttempt(e)
  THEN [st EXCEPT ![e.session].accepted = @ \union {e.id}]
  ELSE [st EXCEPT ![e.session].outcomes = {f \in @ : f.id # e.id} \union {e},
                  ![e.session].resolved = @ \union (IF e.outcome = "aborted" THEN {} ELSE {e.id})]

\* What sealing `e` does to its session: an accepted attempt, or an operation's terminal outcome.
Account(st, e) ==
  IF IsAttempt(e)
  THEN [st EXCEPT ![e.session].accepted = @ \union {e.id}]
  ELSE [st EXCEPT ![e.session].outcomes = {f \in @ : f.id # e.id} \union {e},
                  ![e.session].resolved = @ \union (st[e.session].accepted \intersect {e.id})]

-----------------------------------------------------------------------------
(* Anomalies (_flag).  The code's entry holds id and kind; the session is kept to tell flags apart. *)

Flag(e, kind) == [session |-> e.session, id |-> e.id, kind |-> kind]

Kinds == {"schema-invalid", "replay-detected", "signature-invalid", "signer-seq-gap",
          "orphaned-outcome", "unresolved-attempt"}

AnomalySpace == [session: Sessions, id: OpIds, kind: Kinds]

\* A received value past the next expected one, or a first value other than 0.
GapFlags(e) ==
  IF Level2 /\ e.sseq > 0 /\ <<e.key, e.sseq - 1>> \notin sess[e.session].received
  THEN {Flag(e, "signer-seq-gap")} ELSE {}

-----------------------------------------------------------------------------
(* How a handler ends: the lock is released and the binding gets the answer. *)

Verdicts == {"none", "accept", "reject", "unavailable", "sealed", "repeat", "refused",
             "not-recorded", "raised"}

\* The tool is told an attempt's position; of an outcome only that it is sealed (no position, -1).
Ack(e, n) == [event |-> e, seq |-> IF IsAttempt(e) THEN n ELSE -1]

\* An answer that forgets the request it belongs to before the lock is released.
AnswerUnaddressed(v) == /\ pc' = "answer" /\ verdict' = v
                        /\ pending' = NoRecord /\ cur' = NoRequest

Answer(v) == /\ pc' = "answer" /\ verdict' = v
             /\ pending' = NoRecord /\ UNCHANGED cur

\* Failing closed: the attempt is `unavailable`, the outcome is `not-recorded`.
FailClosed == Answer(IF cur.entry = "attempt" THEN "unavailable" ELSE "not-recorded")

\* An exception or a cancellation leaves the handler; the binding gets no answer.
Raised == Answer("raised")

-----------------------------------------------------------------------------
Init ==
  /\ stored = <<>> /\ inflight = {} /\ foreign = 0
  /\ count = 0 /\ tail = Genesis /\ hashes = Genesis
  /\ uncertain = FALSE /\ available = TRUE
  /\ issued = {} /\ open = {} /\ sess = [s \in Sessions |-> NewSession]
  /\ sealedAttempts = {} /\ sealedDigests = {}
  /\ anomalies = {} /\ acks = {}
  /\ pc = "idle" /\ cur = NoRequest /\ pending = NoRecord /\ verdict = "none"

(***************************************************************************)
(* Sessions.  open_session takes no lock; close_session does.  From taking *)
(* up a request to its first await ("handle") nothing else runs, and with  *)
(* a Level-2 verifier the session was looked up before that await.  An id  *)
(* minted by uuid4 is not one an earlier process used.                     *)
(***************************************************************************)
Unused(s) == \A r \in Range(stored) \union inflight : r.event.session # s

OpenSession(s) ==
  /\ pc # "handle"
  /\ s \notin issued /\ Unused(s)
  /\ issued' = issued \union {s} /\ open' = open \union {s}
  /\ sess' = [sess EXCEPT ![s] = NewSession]
  /\ UNCHANGED <<storeVars, chainVars, uncertain, available, memoryVars, anomalies, lockVars, acks>>

\* Closing without waiting for the lock.
CloseSessionUnlocked(s) ==
  /\ pc # "handle" /\ s \in open
  /\ open' = open \ {s}
  /\ anomalies' = anomalies \union
       {[session |-> s, id |-> i, kind |-> "unresolved-attempt"] :
          i \in sess[s].accepted \ sess[s].resolved}
  /\ sess' = [sess EXCEPT ![s] = NewSession]
  /\ UNCHANGED <<storeVars, chainVars, uncertain, available, issued, memoryVars, lockVars, acks>>

\* An accepted attempt with no terminal outcome the host knows of is flagged.
CloseSession(s) ==
  /\ pc = "idle" /\ s \in open
  /\ open' = open \ {s}
  /\ anomalies' = anomalies \union
       {[session |-> s, id |-> i, kind |-> "unresolved-attempt"] :
          i \in sess[s].accepted \ sess[s].resolved}
  /\ sess' = [sess EXCEPT ![s] = NewSession]
  /\ UNCHANGED <<storeVars, chainVars, uncertain, available, issued, memoryVars, lockVars, acks>>

\* The integrator's own switch, read once by a handler, before it seals: switching it between
\* handlers covers every order.
TogglePersistence ==
  /\ pc = "idle"
  /\ available' = ~available
  /\ UNCHANGED <<storeVars, chainVars, uncertain, sessVars, memoryVars, anomalies, lockVars, acks>>

(***************************************************************************)
(* Taking the lock: an expired attempt is answered at once, and a doubtful *)
(* tail is read back before anything is decided.                           *)
(***************************************************************************)
TakeUp(q) ==
  /\ pc = "idle"
  /\ cur' = q
  /\ pc' = IF uncertain /\ Durable THEN "settle" ELSE "handle"
  /\ UNCHANGED <<storeVars, chainVars, uncertain, available, sessVars, memoryVars, anomalies,
                 pending, verdict, acks>>

\* The binding's deadline passed while the attempt waited for the lock: nothing is decided.
Expire(q) ==
  /\ pc = "idle" /\ q.entry = "attempt"
  /\ cur' = q /\ pc' = "answer" /\ verdict' = "unavailable"
  /\ UNCHANGED <<storeVars, chainVars, uncertain, available, sessVars, memoryVars, anomalies,
                 pending, acks>>

SettleUnreadable ==
  /\ pc = "settle"
  /\ FailClosed
  /\ UNCHANGED <<storeVars, chainVars, uncertain, available, sessVars, memoryVars, anomalies, acks>>

Landed == Len(stored) = count + 1 /\ stored[count + 1].prev = tail

\* _remember: an attempt is kept under its id.
Remember(r) ==
  /\ sealedDigests' = sealedDigests \union {r.event}
  /\ sealedAttempts' = IF IsAttempt(r.event)
                       THEN {a \in sealedAttempts : a.event.id # r.event.id} \union {r}
                       ELSE sealedAttempts

\* Adoption that does not remember the record.
SettleAdoptForgetting ==
  /\ pc = "settle" /\ Landed
  /\ LET r == stored[count + 1]
     IN /\ count' = count + 1 /\ tail' = r.hash
        /\ sess' = IF r.event.session \in open
                   THEN Account(Decide(sess, r.event), r.event) ELSE sess
  /\ uncertain' = FALSE /\ pc' = "handle"
  /\ UNCHANGED <<storeVars, hashes, available, issued, open, memoryVars, anomalies, cur, pending,
                 verdict, acks>>

\* Adoption that does not decide the record's signer_seq.
SettleAdoptUndecided ==
  /\ pc = "settle" /\ Landed
  /\ LET r == stored[count + 1]
     IN /\ count' = count + 1 /\ tail' = r.hash
        /\ Remember(r)
        /\ sess' = IF r.event.session \in open THEN Account(sess, r.event) ELSE sess
  /\ uncertain' = FALSE /\ pc' = "handle"
  /\ UNCHANGED <<storeVars, hashes, available, issued, open, anomalies, cur, pending, verdict, acks>>

\* _adopt: the record that did land is accounted to its session, if that is still open.
SettleAdopt ==
  /\ pc = "settle" /\ Landed
  /\ LET r == stored[count + 1]
     IN /\ count' = count + 1 /\ tail' = r.hash
        /\ Remember(r)
        /\ sess' = IF r.event.session \in open
                   THEN Account(Decide(sess, r.event), r.event) ELSE sess
  /\ uncertain' = FALSE /\ pc' = "handle"
  /\ UNCHANGED <<storeVars, hashes, available, issued, open, anomalies, cur, pending, verdict, acks>>

\* Going on from the stored tail, at the position after the host's own.
SettleForeignByOne ==
  /\ pc = "settle" /\ Len(stored) > count + 1
  /\ count' = count + 1 /\ tail' = HashBefore(stored, Len(stored))
  /\ uncertain' = FALSE /\ pc' = "handle"
  /\ UNCHANGED <<storeVars, hashes, available, sessVars, memoryVars, anomalies, cur, pending,
                 verdict, acks>>

\* Another writer went past this host's tail: go on from what is stored, remembering none of it.
SettleForeign ==
  /\ pc = "settle" /\ Len(stored) > count + 1
  /\ count' = Len(stored) /\ tail' = HashBefore(stored, Len(stored))
  /\ uncertain' = FALSE /\ pc' = "handle"
  /\ UNCHANGED <<storeVars, hashes, available, sessVars, memoryVars, anomalies, cur, pending,
                 verdict, acks>>

SettleUnchanged ==
  /\ pc = "settle" /\ ~Landed /\ Len(stored) <= count + 1
  /\ uncertain' = FALSE /\ pc' = "handle"
  /\ UNCHANGED <<storeVars, chainVars, available, sessVars, memoryVars, anomalies, cur, pending,
                 verdict, acks>>

\* Cancelled before anything is decided: at the tail read, or at the Level-2 verifier.
Interrupt ==
  /\ pc = "settle" \/ (pc = "handle" /\ Level2)
  /\ Raised
  /\ UNCHANGED <<storeVars, chainVars, uncertain, available, sessVars, memoryVars, anomalies, acks>>

(***************************************************************************)
(* Deciding the request: structure, session and signature first.           *)
(***************************************************************************)
Wellformed(q) == q.event.wellformed /\ (IsAttempt(q.event) <=> q.entry = "attempt")

InSession(q) == q.event.session \in open /\ ~q.misrouted

Verified(e) == Level2 => e.sig = "verifies"

Refusal == IF cur.entry = "attempt" THEN "reject" ELSE "refused"

\* _admit: not well-formed, or not of the open session it arrived on.
RefuseUnadmitted ==
  /\ pc = "handle" /\ ~(Wellformed(cur) /\ InSession(cur))
  /\ anomalies' = anomalies \union
       {Flag(cur.event, IF Wellformed(cur) THEN "replay-detected" ELSE "schema-invalid")}
  /\ Answer(Refusal)
  /\ UNCHANGED <<storeVars, chainVars, uncertain, available, sessVars, memoryVars, acks>>

\* _verify_signature: unsigned, an unknown key or a bad signature; nothing is received or decided.
RefuseUnverified ==
  /\ pc = "handle" /\ Wellformed(cur) /\ InSession(cur) /\ ~Verified(cur.event)
  /\ anomalies' = anomalies \union {Flag(cur.event, "signature-invalid")}
  /\ Answer(Refusal)
  /\ UNCHANGED <<storeVars, chainVars, uncertain, available, sessVars, memoryVars, acks>>

\* The event is the session's own and its signature holds.
Deciding(entry) ==
  /\ pc = "handle" /\ cur.entry = entry
  /\ Wellformed(cur) /\ InSession(cur) /\ Verified(cur.event)

\* A refusal on the merits is a decision on the event's signer_seq.
Refuse(kind) ==
  /\ sess' = Decide(Heard(cur.event), cur.event)
  /\ anomalies' = anomalies \union GapFlags(cur.event) \union {Flag(cur.event, kind)}
  /\ Answer(Refusal)
  /\ UNCHANGED <<storeVars, chainVars, uncertain, available, issued, open, memoryVars, acks>>

\* Undecided: the signature counts as received, and nothing else happened.
Leave ==
  /\ sess' = Heard(cur.event)
  /\ anomalies' = anomalies \union GapFlags(cur.event)
  /\ FailClosed
  /\ UNCHANGED <<storeVars, chainVars, uncertain, available, issued, open, memoryVars, acks>>

\* _check_replay.
Replayed(e) == Level2 /\ SignerValue(e) \in sess[e.session].decided

SealedUnder(id) == {r \in sealedAttempts : r.event.id = id}

(***************************************************************************)
(* _handle_attempt.                                                        *)
(***************************************************************************)
\* A byte-identical repeat of a sealed attempt is answered from the ledger.
RepeatAttempt ==
  /\ Deciding("attempt")
  /\ \E r \in SealedUnder(cur.event.id) :
       /\ r.event = cur.event
       /\ acks' = acks \union {Ack(cur.event, r.seq)}
  /\ sess' = [Heard(cur.event) EXCEPT ![cur.event.session].accepted = @ \union {cur.event.id}]
  /\ anomalies' = anomalies \union GapFlags(cur.event)
  /\ Answer("accept")
  /\ UNCHANGED <<storeVars, chainVars, uncertain, available, issued, open, memoryVars>>

\* The id is sealed with other bytes, or its operation has a sealed outcome.
Concluded(e) ==
  \/ \E r \in SealedUnder(e.id) : r.event # e
  \/ SealedUnder(e.id) = {} /\ OutcomeOf(e.session, e.id) # {}

RefuseConcluded ==
  /\ Deciding("attempt") /\ Concluded(cur.event)
  /\ Refuse("replay-detected")

FreshAttempt ==
  Deciding("attempt") /\ SealedUnder(cur.event.id) = {} /\ ~Concluded(cur.event)

RefuseReplayedAttempt ==
  /\ FreshAttempt /\ Replayed(cur.event)
  /\ Refuse("replay-detected")

SealableAttempt == FreshAttempt /\ ~Replayed(cur.event)

(***************************************************************************)
(* _handle_outcome.                                                        *)
(***************************************************************************)
KnownOutcome(e) == e \in OutcomeOf(e.session, e.id) \/ e \in sealedDigests

\* A byte-identical repeat does nothing.
RepeatOutcome ==
  /\ Deciding("outcome") /\ KnownOutcome(cur.event)
  /\ sess' = Heard(cur.event)
  /\ anomalies' = anomalies \union GapFlags(cur.event)
  /\ acks' = acks \union {Ack(cur.event, -1)}
  /\ Answer("repeat")
  /\ UNCHANGED <<storeVars, chainVars, uncertain, available, issued, open, memoryVars>>

\* A second, different outcome of one operation.
RefuseSecondOutcome ==
  /\ Deciding("outcome") /\ ~KnownOutcome(cur.event)
  /\ OutcomeOf(cur.event.session, cur.event.id) # {}
  /\ Refuse("replay-detected")

FirstOutcome ==
  /\ Deciding("outcome") /\ ~KnownOutcome(cur.event)
  /\ OutcomeOf(cur.event.session, cur.event.id) = {}

RefuseReplayedOutcome ==
  /\ FirstOutcome /\ Replayed(cur.event)
  /\ Refuse("replay-detected")

\* success or failed for an attempt this host did not accept; `aborted` is a refusal and is sealed.
Orphaned(e) == e.outcome # "aborted" /\ e.id \notin sess[e.session].accepted

RefuseOrphan ==
  /\ FirstOutcome /\ ~Replayed(cur.event) /\ Orphaned(cur.event)
  /\ Refuse("orphaned-outcome")

SealableOutcome == FirstOutcome /\ ~Replayed(cur.event) /\ ~Orphaned(cur.event)

(***************************************************************************)
(* _seal: compute the record, countersign it, append it, commit it.        *)
(***************************************************************************)
FailUnavailable ==
  /\ SealableAttempt \/ SealableOutcome
  /\ ~available
  /\ Leave

\* Ledger.seal, then the countersigner, the repository, or neither is awaited.
BeginSeal ==
  /\ SealableAttempt \/ SealableOutcome
  /\ available
  /\ hashes < MaxSeals
  /\ sess' = Heard(cur.event)
  /\ anomalies' = anomalies \union GapFlags(cur.event)
  /\ hashes' = hashes + 1
  /\ LET r == SealRecord(cur.event, count, tail, hashes + 1)
     IN /\ pending' = r
        /\ inflight' = IF Durable /\ ~Countersigned THEN inflight \union {r} ELSE inflight
  /\ pc' = IF Countersigned THEN "sign" ELSE "append"
  /\ UNCHANGED <<stored, foreign, count, tail, uncertain, available, issued, open, memoryVars,
                 cur, verdict, acks>>

Countersign ==
  /\ pc = "sign"
  /\ inflight' = IF Durable THEN inflight \union {pending} ELSE inflight
  /\ pc' = "append"
  /\ UNCHANGED <<stored, foreign, chainVars, uncertain, available, sessVars, memoryVars, anomalies,
                 cur, pending, verdict, acks>>

\* The signer failed: nothing was written, so the tail is not in doubt.
CountersignFailed ==
  /\ pc = "sign"
  /\ FailClosed
  /\ UNCHANGED <<storeVars, chainVars, uncertain, available, sessVars, memoryVars, anomalies, acks>>

\* Cancelled at the countersigner or at the append: the write is ambiguous.
SealInterrupted ==
  /\ pc = "sign" \/ (pc = "append" /\ Durable)
  /\ uncertain' = TRUE
  /\ Raised
  /\ UNCHANGED <<storeVars, chainVars, available, sessVars, memoryVars, anomalies, acks>>

\* RepositoryError: the record landed and the answer was lost, or its seq was taken, or it is under way.
AppendFailed ==
  /\ pc = "append" /\ Durable
  /\ uncertain' = TRUE
  /\ FailClosed
  /\ UNCHANGED <<storeVars, chainVars, available, sessVars, memoryVars, anomalies, acks>>

\* Committing and answering without waiting for the repository to have the record.
CommitUnconfirmed ==
  /\ pc = "append"
  /\ IF Durable THEN UNCHANGED stored ELSE stored' = Append(stored, pending)
  /\ count' = count + 1 /\ tail' = pending.hash
  /\ Remember(pending)
  /\ sess' = Account(Decide(sess, pending.event), pending.event)
  /\ acks' = acks \union {Ack(pending.event, pending.seq)}
  /\ Answer(IF cur.entry = "attempt" THEN "accept" ELSE "sealed")
  /\ UNCHANGED <<inflight, foreign, hashes, uncertain, available, issued, open, anomalies>>

\* Ledger.commit and _remember, then the decision is accounted and answered.
Commit ==
  /\ pc = "append"
  /\ IF Durable THEN pending \in Range(stored) /\ UNCHANGED stored
                ELSE stored' = Append(stored, pending)
  /\ count' = count + 1 /\ tail' = pending.hash
  /\ Remember(pending)
  /\ sess' = Account(Decide(sess, pending.event), pending.event)
  /\ acks' = acks \union {Ack(pending.event, pending.seq)}
  /\ Answer(IF cur.entry = "attempt" THEN "accept" ELSE "sealed")
  /\ UNCHANGED <<inflight, foreign, hashes, uncertain, available, issued, open, anomalies>>

\* The lock is released and the answer handed to the binding.
Deliver ==
  /\ pc = "answer"
  /\ pc' = "idle" /\ verdict' = "none" /\ cur' = NoRequest
  /\ UNCHANGED <<storeVars, chainVars, uncertain, available, sessVars, memoryVars, anomalies,
                 pending, acks>>

(***************************************************************************)
(* The repository (storage/): a write lands if its seq is the next free    *)
(* position, whenever the store gets to it, or never.                      *)
(***************************************************************************)
StoreLand(r) ==
  /\ r \in inflight /\ r.seq = Len(stored)
  /\ stored' = Append(stored, r)
  /\ inflight' = inflight \ {r}
  /\ UNCHANGED <<foreign, chainVars, uncertain, available, sessVars, memoryVars, anomalies,
                 lockVars, acks>>

StoreLose(r) ==
  /\ r \in inflight
  /\ inflight' = inflight \ {r}
  /\ UNCHANGED <<stored, foreign, chainVars, uncertain, available, sessVars, memoryVars, anomalies,
                 lockVars, acks>>

\* Another process appends to the same partition, conditionally too.
ForeignAppend(e) ==
  /\ Durable /\ foreign < MaxForeign /\ hashes < MaxSeals
  /\ stored' = Append(stored, SealRecord(e, Len(stored), HashBefore(stored, Len(stored)), hashes + 1))
  /\ hashes' = hashes + 1 /\ foreign' = foreign + 1
  /\ UNCHANGED <<inflight, count, tail, uncertain, available, sessVars, memoryVars, anomalies,
                 lockVars, acks>>

(***************************************************************************)
(* The process dies at any point and AuditHost.resume continues the chain. *)
(* `keep` are the sessions named in open_sessions, `tracked` those of them *)
(* whose signer_tracker was kept.  Writes under way survive the process.   *)
(***************************************************************************)
\* A session restored from its tracker alone.
RestoredFromTracker(s, tracked) ==
  LET sealed == {e \in EventsOf(stored) : e.session = s}
      known  == {e.id : e \in {f \in sealed : IsAttempt(f)}}
      ended  == {e \in sealed : ~IsAttempt(e)}
  IN [decided  |-> IF tracked THEN sess[s].decided ELSE {},
      received |-> IF tracked THEN sess[s].received ELSE {},
      accepted |-> known,
      resolved |-> known \intersect {e.id : e \in ended},
      outcomes |-> ended]

\* _restored_session, with OpenSession.signers merged in for a tracked session.
Restored(s, tracked) ==
  LET sealed == {e \in EventsOf(stored) : e.session = s}
      known  == {e.id : e \in {f \in sealed : IsAttempt(f)}}
      ended  == {e \in sealed : ~IsAttempt(e)}
  IN [decided  |-> {SignerValue(e) : e \in sealed}
                     \union (IF tracked THEN sess[s].decided ELSE {}),
      received |-> (UNION {UpTo(e) : e \in sealed})
                     \union (IF tracked THEN sess[s].received ELSE {}),
      accepted |-> known,
      resolved |-> known \intersect {e.id : e \in ended},
      outcomes |-> ended]

LastAttemptUnderId(n) ==
  /\ IsAttempt(stored[n].event)
  /\ ~\E m \in DOMAIN stored : m > n /\ IsAttempt(stored[m].event) /\ stored[m].event.id = stored[n].event.id

Restart(keep, tracked) ==
  /\ Durable
  /\ count' = Len(stored) /\ tail' = HashBefore(stored, Len(stored))
  /\ sealedAttempts' = {stored[n] : n \in {m \in DOMAIN stored : LastAttemptUnderId(m)}}
  /\ sealedDigests' = EventsOf(stored)
  /\ issued' = {e.session : e \in EventsOf(stored)} \union keep
  /\ open' = keep
  /\ sess' = [s \in Sessions |-> IF s \in keep THEN Restored(s, s \in tracked) ELSE NewSession]
  /\ anomalies' = {Flag(e, "unresolved-attempt") :
                     e \in {f \in UnresolvedIn(stored) : f.session \notin keep}}
  /\ uncertain' = FALSE /\ available' = TRUE
  /\ pc' = "idle" /\ cur' = NoRequest /\ pending' = NoRecord /\ verdict' = "none"
  /\ UNCHANGED <<storeVars, hashes, acks>>

-----------------------------------------------------------------------------
\* What the lock's holder does between taking a request up and answering it.
Settle == SettleUnreadable \/ SettleAdopt \/ SettleForeign \/ SettleUnchanged

DecideAttempt == RepeatAttempt \/ RefuseConcluded \/ RefuseReplayedAttempt

DecideOutcome ==
  RepeatOutcome \/ RefuseSecondOutcome \/ RefuseReplayedOutcome \/ RefuseOrphan

Seal == \/ FailUnavailable \/ BeginSeal \/ Countersign \/ CountersignFailed \/ SealInterrupted
        \/ AppendFailed \/ Commit

Holder == \/ Settle \/ Interrupt \/ RefuseUnadmitted \/ RefuseUnverified
          \/ DecideAttempt \/ DecideOutcome \/ Seal

\* The repository and everyone else who writes to it.
Environment ==
  \/ \E r \in inflight : StoreLand(r) \/ StoreLose(r)
  \/ \E e \in Events : ForeignAppend(e)
  \/ TogglePersistence

Lifecycle ==
  \/ \E s \in Sessions : OpenSession(s) \/ CloseSession(s)
  \/ \E keep \in SUBSET open : \E tracked \in SUBSET keep : Restart(keep, tracked)

Next == \/ \E q \in Arrivals : TakeUp(q) \/ Expire(q)
        \/ Holder \/ Deliver \/ Environment \/ Lifecycle

Spec == Init /\ [][Next]_hostVars

-----------------------------------------------------------------------------
(* Properties.                                                             *)

\* Every variable holds a value of its kind, and the lock's holder has the record its step needs.
TypeOK ==
  /\ stored \in Seq(RecordSpace) /\ inflight \in SUBSET RecordSpace /\ foreign \in Nat
  /\ count \in Nat /\ tail \in Nat /\ hashes \in Nat
  /\ uncertain \in BOOLEAN /\ available \in BOOLEAN
  /\ issued \in SUBSET Sessions /\ open \in SUBSET Sessions
  /\ sess \in [Sessions -> SessionSpace]
  /\ sealedAttempts \in SUBSET RecordSpace /\ sealedDigests \in SUBSET Events
  /\ anomalies \in SUBSET AnomalySpace
  /\ acks \in SUBSET [event: Events, seq: Nat \union {-1}]
  /\ pc \in {"idle", "settle", "handle", "sign", "append", "answer"}
  /\ cur \in Requests \union {NoRequest} /\ (pc # "idle" => cur \in Requests)
  /\ pending \in RecordSpace \union {NoRecord} /\ (pc \in {"sign", "append"} => pending \in RecordSpace)
  /\ verdict \in Verdicts

\* The stored chain is one unforked hash chain, and the host's position and tail (Ledger._count,
\* _tail_hash) are a point of it, however an append failed, landed late or was raced (_settle_tail).
ChainFollowsStore ==
  /\ Linked(stored)
  /\ count <= Len(stored)
  /\ tail = HashBefore(stored, count)

\* A write under way and the record being sealed link where the chain will take them.
InflightLinked ==
  \A r \in inflight : r.seq <= Len(stored) /\ r.prev = HashBefore(stored, r.seq)

PendingLinked == pc \in {"sign", "append"} => pending.seq = count /\ pending.prev = tail

\* Without a repository the chain in memory is the only copy, and nothing is ever in doubt.
OnlyCopy == ~Durable => Len(stored) = count /\ inflight = {} /\ pc # "settle"

\* The inductive strengthening of ChainFollowsStore.
ChainInv == ChainFollowsStore /\ InflightLinked /\ PendingLinked /\ OnlyCopy

\* Whatever a tool was told is in the ledger - an `accept` at its seq, a `sealed` or `repeat` outcome -
\* is stored there, across failed appends, cancellations and restarts (handle_attempt, record_outcome).
AcksDurable ==
  \A a \in acks : \E n \in DOMAIN stored : /\ stored[n].event = a.event
                                           /\ IsAttempt(a.event) => a.seq = n - 1

\* What the host remembers to answer a repeat from is in the ledger; with AcksDurable, inductive.
MemoryInLedger ==
  /\ sealedAttempts \subseteq Range(stored)
  /\ sealedDigests \subseteq EventsOf(stored)
  /\ \A s \in Sessions : sess[s].outcomes \subseteq EventsOf(stored)

\* An attempt the tool was told `accept` for is never lost silently: once its session is closed, by
\* close_session or by a restart, a terminal outcome follows it in the ledger or it is flagged.
NoSilentAccept ==
  \A a \in acks : IsAttempt(a.event) /\ a.event.session \notin open =>
    \/ a.event \notin UnresolvedIn(stored)
    \/ Flag(a.event, "unresolved-attempt") \in anomalies

\* What this host numbers and decides holds while it is the only writer of its partition: another
\* writer's records are not remembered (_settle_tail), and their values may be sealed again.
OnlyWriter == foreign = 0

\* No value of one key and session is stored twice.
ValuesOnce ==
  \A m, n \in DOMAIN stored :
    LET e == stored[m].event  f == stored[n].event
    IN e.session = f.session /\ e.key = f.key /\ e.sseq = f.sseq => m = n

\* The tracker of an open session has decided every value committed for it.
ValuesDecided ==
  \A n \in 1..count : stored[n].event.session \in open =>
    SignerValue(stored[n].event) \in sess[stored[n].event.session].decided

\* No signer_seq of one key and session is sealed twice, through failed appends, adopted records and
\* restored sessions alike (_decide, _check_replay, _adopt, _restored_session).
SignerSeqOnce == OnlyWriter => ValuesOnce

\* An open session has decided what its ledger holds, which is what makes a late or repeated event
\* recognizable (_decide, _adopt, _restored_session).
DecidedCoversLedger == OnlyWriter => ValuesDecided

\* A committed value was also received, so the next value is no gap: _adopt's docstring accounts an
\* adopted record "as sealing it here would have (section 6.3, section 7.4)".
ReceivedCoversLedger ==
  \A n \in 1..count : stored[n].event.session \in open =>
    SignerValue(stored[n].event) \in sess[stored[n].event.session].received

\* What close_session flags has no terminal outcome in the ledger: its docstring calls it an attempt
\* "that has no sealed terminal outcome".
FalselyFlagged(s) ==
  \E e \in EventsOf(stored) : /\ e.session = s /\ IsAttempt(e)
                              /\ Flag(e, "unresolved-attempt") \in anomalies' \ anomalies
                              /\ e \notin UnresolvedIn(stored)

CloseFlagsOnlyUnresolved == [][\A s \in open \ open' : ~FalselyFlagged(s)]_hostVars

\* The same of a session that closes while the host knows the tail to be in doubt: record_outcome
\* and handle_attempt settle the tail first, and the docstring makes no exception for closing.
CloseInDoubt == [][uncertain => \A s \in open \ open' : ~FalselyFlagged(s)]_hostVars

\* The host implements the abstract log: what the store takes is admissible there, at the moment it
\* lands, and what tools are told is recorded.
Log == INSTANCE AuditLog WITH log  <- [n \in DOMAIN stored |-> stored[n].event],
                              told <- {a.event : a \in acks}

ImplementsLog == Log!Spec
=============================================================================
