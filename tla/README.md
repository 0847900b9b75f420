# A TLA+ verification of the Auditable MCP SDK (Python)

The SDK lets a tool attest each internal operation *before* it performs it, and lets a host seal those
attestations into a hash-chained ledger. Its promises are about order and loss: no operation runs that
is not recorded, no record is forked, forged or repeated, and whatever is missing can be seen to be
missing. They have to hold while appends fail ambiguously, tasks are cancelled at any await, answers
come too late, processes die, and frames are lost. These modules model the parts of the code that carry
those promises, check them with TLC and prove the central ones with TLAPS.

Paths below are relative to `src/src/auditable_mcp/`; line ranges of every definition are in
`PROJECT.json` under `map`.

## 1. The system

| component | code | state it keeps | operations | what makes it hard |
|---|---|---|---|---|
| audit host | `host.py` | open sessions with their decided and received `signer_seq` values, accepted attempts, terminal outcomes; what is sealed; the anomaly set; whether the tail is in doubt | `open_session`, `close_session`, `handle_attempt`, `record_outcome`, `resume` | awaits inside the lock (tail read, verifier, countersigner, append); ambiguous appends; cancellation; restart |
| ledger, repository | `ledger.py`, `storage/` | position and tail hash; the stored records | `seal`, `commit`, `resume_from`; conditional `append`, `load_tail`, `read_all` | a failed append may still land, at any later time; a second writer |
| tool session | `session.py` | next `signer_seq`, the section's lock, each action's stage | `AuditedAction.__aenter__`, `__aexit__`, the abort | concurrent actions of one call; signer failures; timeouts; cancellation |
| verifier | `verify.py`, `hashing.py` | none (one pass over the records) | `verify_chain`, `verify_ledger`, `unaccounted_signer_seq` | must find every alteration and raise no false alarm |
| MCP seam, tool side | `mcp/seam.py` `McpAuditTransport` | calls in flight, rounds out, held final frames, idle sessions | attempts and outcomes in rounds (§6.4) or requests (§6.5), retries, cancellation, eviction | late, duplicated and missing retries; a handler that ends while a round is out |
| MCP seam, host side | `mcp/seam.py` `McpAuditReceiver` | calls, one lane of jobs per session, held rounds | following rounds under a deadline, sealing left-over outcomes, closing | deadline against work in progress; cancellation; closing the connection |
| HTTP entry | `mcp/http.py` `AuditedStreamableHTTP` | held calls, the tokens of their rounds, requests in flight | opening a call, serving a round's retry or forwarding it, checking parameter headers, closing (eviction, idle bound, disconnect, end) | a token is consumed before an await and restored after; retries race, also across instances; a forwarded retry's fate may be unknown; closing against work in progress |
| key registries | `l2/keys.py`, `l2/verification.py` | keys, revocations | register, revoke, load a JWK Set | revocation must not be lifted; loading is all or nothing |
| negotiation | `capability.py`, `degradation.py` | none | comparing two declarations, choosing a transport | a pure table |
| reconciliation | `l2/reconcile.py` | observations | set difference per session | a pure function |

Interaction: a tool's `AuditedAction` hands an event to a transport (`InProcessTransport` or an
`McpAuditCall`); the binding hands it to the host's `AuditEndpoint` together with the session of the
call it came on; the host answers an attempt with `accept`, `reject` or `unavailable` and answers an
outcome with nothing. The host seals through the `Ledger` into a `LedgerRepository`. A verifier later
reads the repository and an anchored digest, and shares no state with the host. Over Streamable HTTP each
call is held on an in-memory connection with the tool's seam behind it, and the entry asks that seam
(`running`, `undelivered`) before it closes a call.

Correctness, per component: the host forks no chain, tells no tool of a record that is not stored, seals no
operation or number twice and leaves no accepted attempt unresolved without a flag; a tool acts on nothing
that is not recorded and every action ends; the seams answer every request once, lose no outcome and act on
no grant that is late, replayed or another's; the entry resumes a round once, tells a refusal only of what
was not performed and closes no call at work; a verifier misses no alteration an anchor covers and raises no
false alarm; registries lift no revocation.

`PROJECT.json` lists the hazards of this code under `hazards`, each at its line, with the properties
that cover it or why none does.

## 2. The modules

```
AuditEvents  <-- AuditLog            (abstract: what a host promises)
     ^              ^
     |              | refinement (ImplementsLog)
     +--------- AuditHost <-- AuditHost_proofs
                    ^   ^                    ^
                    |   |                    +-- AuditSession_proofs
          MCAuditHost   AuditSession <-- MCAuditSession, AuditSession_proofs

ToolSeam <-- MCToolSeam, ToolSeam_proofs    HttpEntry <-- MCHttpEntry, HttpEntry_proofs
HostSeam <-- MCHostSeam, HostSeam_proofs

SignerAccounting <-- ChainVerify, SignerLedger <-- ChainVerify_proofs
ChainVerify, SignerLedger, KeyRegistry <-- MCVerify     KeyRegistry <-- KeyRegistry_proofs

Induction (lemmas) <-- ChainVerify_proofs, HttpEntry_proofs, HostSeam_proofs
```

* **AuditEvents** — events and sealed records. An event keeps the fields the host and the verifier
  test; `body` stands for the rest, so equality of records is equality of canonical bytes. A record hash
  is a number drawn fresh at every seal: SHA-256 is taken to be collision-free.
* **AuditLog** — the abstract specification: one append-only log in which an operation has at most one
  attempt and one terminal outcome, in that order, and nobody is told an event is recorded that is not.
  It knows no lock, no write under way and no restart.
* **AuditHost** — `AuditHost` over its ledger and repository. `pc` is the step of the handler that holds
  the partition's lock (`_lock`) and every await is a step boundary:
  `idle -> (settle) -> handle -> (sign) -> append -> answer -> idle`.
  `inflight` holds records handed to the repository and not yet taken or lost, and a record stays there
  whatever the host was told (`AppendFailed`, `SealInterrupted`) or whether it died (`Restart`).
  `decided` and `received` are `_Session`'s; `received` is the set of values up to the highest received.
* **AuditSession** — the tool side of one call over that host: `SessionNumbering`, each `AuditedAction`
  as a small machine (`new, claim, sign, sent, check, body, done, cancelled`), and the wire in between.
  It EXTENDS AuditHost: every step of the composition is a step of the host, of an action, or of both
  (`HostTakes`, `Answered`).
* **ToolSeam** — `McpAuditTransport` under §6.4. `call` is `_ToolCall` field for field, `waiting`,
  `cancelled`, `session` and `idle` are the seam's tables; a token is a call and the place of its round among
  the call's frames, and `RoundOpen` is membership in `_rounds`. Events carry their number, so events that go
  out together are a set. One action is one stretch of code between two awaits:
  `EndRound` is the task `_schedule_round` starts, `AcceptRetry` and `RefuseRetry` are `_take_call` for a
  retry, `Conclude` is the handler's frame in `_outbound`. Handlers, operations and hosts are free.
* **HostSeam** — `McpAuditReceiver`, the other end of that wire. `call` is `_HostCall`; `lane` and `work` are
  a session's `_Lane` and the job it has taken up, with `_RoundWork` in it; `held`, `owed` and `sweep` are
  `_held`, `_owed` and the loops of `_on_close`. A round's work is over when it is done or at its deadline
  (`WaitOver`), whatever the endpoint still has of it (`desk`); what follows is one disjunct per way on:
  the retry (`GoesBack`), the client (`GoesUp`), nothing (`EndedMeanwhile`), the end (`Abandoned`).
  `_cancel` finds a call (`Cancel`) or does not (`CancelNotFound`, while `_abandon` waits for the end of a round
  it has detached). `Stopped` is a cancellation around the seam, after which only `_on_close` takes jobs.
  `EndDrain` is the end of its first loop, `CloseSession` a turn of its last; a session is `cut` if its job was
  cut at the bound, and whether its worker has stopped by the time it is looked at is then free.
* **HttpEntry** — the instances of `AuditedStreamableHTTP` in one deployment. `sessions` and `tokens` are each
  instance's `_sessions` (in order of use) and `_tokens`, `conn` a call's `_CallConnection`, `seam` what the
  entry can see of the tool behind it. A POST goes through `unsent, (forwarding), (listing), asking,
  (relaying), over`, and an action is the run of code between two of its awaits: `First` and `Retry` are
  `_serve_opening` and `_serve_retry` up to their first await, `Listed` the way on from the parameter check,
  `Deliver` and `Cancel` the two ends of `_exchange`; `Arrive`, `NotDelivered`, `BreakOff` and `Relay` are the
  forwarder's outcomes; `Expire` and `Leave` are `_expire` and the end of `run()`. A token is a call and which of
  its rounds it names; `served` is history. Clients retry any round they were given, at any
  instance, with the wrong principal, session or headers too, and leave at any time.
* **ChainVerify** — `verify_chain` as a recursive function, record by record, over a symbolic chain: a hash is the term of what it
  covers, a countersignature the term of what it signs. A conforming host seals, storage is then altered. The
  missing values that no refusal accounts for are issues of the report, as in the code (`GapIssues`).
* **SignerAccounting** — `_missing_runs` and `unaccounted_signer_seq` as recursive functions of a sequence of
  events, beside the set-theoretic meaning of "explained by a refusal" (`Explainable`). `RunsBelow` is the loop over the sorted
  values, `Refusals` the sorted list (its k-th entry has fewer than k refusals below it and at least k up to it),
  `TakeAll` the loop over that list. **SignerLedger** builds every small ledger for it, also those no host would seal.
* **KeyRegistry** — `KeyRegistry` of `l2/keys.py` for three registries: a host's and an auditor's of tool
  keys, a tool's of host keys. `keys[r]` is `_keys`; `jwks` holds the sets rendered so far, which may be
  loaded late (`LoadJwks` of an older set) or joined. `Loadable` is the rehearsal, `Loaded` what it leaves;
  a call that raises changes nothing and is no step. `Verify` and `Check` are the two readings of
  `l2/verification.py`: of a new event, and of a sealed one. `confirmed` and `retired` are history.
  ChainVerify, SignerLedger and KeyRegistry share no state; MCVerify runs them in one instance, in
  which a behaviour takes the steps of one of them.
* The **MC** modules define the events of the instances.
  Definitions that are a variant of the one beside them (`CloseSessionUnlocked`, `HeardInOrder`, ...)
  are mistakes the code does not make. They take part in no specification: each property has one that
  breaks it (`mutants` in `PROJECT.json`), which shows the property depends on the code's choice.

### What the abstractions assume

* A session id is fresh (`Unused`): `open_session` mints a uuid4.
* `_rejected_ids` changes only the wording of an anomaly and is left out; so is `Ledger._records`,
  which nothing but the `records` property reads. The anomaly's detail text is left out.
* `persistence_available` is switched between handlers only: a handler reads it once, before it seals.
* Storage takes a record only at its own `seq` (`storage/repository.py`, the contract of `append`).
* `AuditSession` runs without restarts and without `persistence_available` switching; a host process that
  dies ends the call, and what restarts do is checked in AuditHost. An outcome is handed to the wire and
  not waited for, as both MCP bindings do. The wire keeps order, as one connection and one lane do.
* In `ToolSeam` an operation's number is given where its event is handed over; that it is given once is
  `AuditSession`'s subject. A host retries a request for input only of a call it did not cancel.
  `ClosingLosesNothing` counts an operation as under way from the step in which its wait returns.
* In `HostSeam` the endpoint's lock is a queue per session, and nothing relates one session's records to
  another's. A call's tool reports in its results (§6.4) or in messages (§6.5), not in both: mixed in one
  call, an outcome left over at a deadline is queued behind a message that came after it. Left out are
  events that name no call in flight, one `requestState` used by two calls, and the client's retry of an
  evicted round, which is a new call.
* In `HttpEntry` the tool behind its seam is free: it asks for rounds (the seam's, or its own), concludes, runs an
  operation past its round and may end. The seam's promises to the entry are `ToolSeam`'s properties. Left out
  are the validation every POST passes before any of this, the JSON or SSE form of an answer, notifications,
  and GET, DELETE and unaudited requests, which the official handler serves: none touches a held call. One
  connection's requests reach the tool in the order they were written.
* `AuditSession` builds an event for every number within `MaxSignerSeq` (`SessionAssumption`, `EventOf`).
* Countersignatures cannot be forged, in `ChainVerify`: alterations move, cut or remove them.
* In `KeyRegistry` operators register a key only with registries of its role; documents are joined from
  rendered sets, so members a load refuses as malformed are left out. A registry lives in memory: a process
  that starts anew from an older set knows only what that set says, and no property speaks of it.

## 3. The runs

| run | instance | what it shows |
|---|---|---|
| `host_l1` | Level 1, countersigned, durable; one operation with two different outcomes and two different attempts; a misrouted request; 3 seals | **ImplementsLog**: what lands in the store is admissible at the moment it lands, and tools are told only what is recorded. **NoSilentAccept**: once its session is closed, an accepted attempt is resolved or flagged |
| `host_l2` | Level 2, durable; two operations that use the same two `signer_seq` values; a second writer; 3 seals | **ChainFollowsStore** and **AcksDurable**, the second writer's record or none; **SignerSeqOnce** and **DecidedCoversLedger** while it has written none; **TypeOK** |
| `host_memory` | Level 2, countersigned, no repository; two sessions with one operation id, a bad signature; 4 seals | **ReceivedCoversLedger**, **CloseFlagsOnlyUnresolved** |
| `session` | two concurrent Level-2 actions over a durable, countersigning host; 4 seals | **AuditBeforeAct**, **NoSilentAct**, **HonestNeverReplayed**, **EveryActionEnds** (liveness), **CallTypeOK** |
| `tool_seam` | §6.4, one held call: a call with two operations at once, or with one beside another session's call, or beside the request of its own session that answers its request for input | **ActsOnlyIfGranted** (no replayed, late or misdirected retry runs a body), **OneFramePerRequest**, **OutcomesNoLaterThanResult**, **ClosingLosesNothing** (what `running` and `undelivered` promise to whoever closes the connection), **EventsOnceInOrder** (across rounds and requests, unless the session was evicted), **RequestsAnswered** (liveness), **SeamTypeOK** (with: the seam's tables agree with its calls) |
| `host_seam` | a call with rounds (an outcome, alone or behind an attempt), rounds for the client, a round without `requestState`; beside it a call that holds the one place for a held round; or a call under §6.5 | **OutcomesReachHost** (in order, before the session's close, the left-over ones too), **GrantsTold** (what is cut off at the deadline is never granted, what is not reached is never recorded), **ClientToldOnce**, **ClosingLogsLosses**, **CallsGoOn** (liveness), **HostSeamTypeOK** (with: a close is the last job of its lane) |
| `http_entry` | two instances that hold one call each, two sessions, three POSTs, two rounds; one oddity in a behaviour: a request that is misdirected or whose headers are checked, a client that leaves, or an instance that ends | **TokenServedOnce** (retries that race at two instances, or through the parameter check), **RefusedNotServed** (a refusal, forwarded or not, is never of something performed), **RoundStaysOpen** (a retry that came to nothing leaves its round to be retried), **EntryCutsNothing** (eviction, the idle bound and closing cut no work short), **IdleCallsClose**, **PostsAnswered** (liveness), **EntryTypeOK** (with: the tables agree with the calls held) |
| `verify` | chains of three records, of which values are missing that one refusal explains, or none, three alterations; or every ledger of three events with values up to 4; or three registries, three keys, two key_ids, two rendered sets | **HonestChainVerifies** (a sealed chain verifies exactly if its refusals can account for what is missing), **AnchoredMeansUnaltered**, **SignedMeansPrefix**; **AccountsForRefusals** (the greedy matching is optimal and sound); **EvidenceLasts** (what was confirmed stays checkable), **RevokedConfirmsNothing** (no older set lifts a revocation) |
| `host_close_in_doubt`, `host_late_adopt`, `session_cancel` | as `host_l1`, `host_l2`, `session` | violations, section 5 |
| `host_seam_close` | two calls, one round with one attempt each | a violation, section 5 |

### Bounds

`MaxSeals` bounds the records computed, not the records stored: three are an attempt, its outcome and
one more that fails or lands late, which is what it takes for a doubtful record to be adopted, raced or
lost and for a later event to meet it. `MaxForeign = 1`: the second writer matters by moving the tail
once; the host treats a tail two past its own as it treats one. `MaxSignerSeq` leaves room for one value
per event of the instance. In `session` two actions emit at most four events, so four values and four
seals bound nothing. In `tool_seam` one held call is enough for the second to evict the first, and two
requests of a call for a round to be answered and another to go out; the third is an error behind a round of
outcomes, and comes up beside the session's second request. `MCToolSeam` keeps the three situations to
behaviours of their own, as `MCHostSeam` does with §6.5. In `host_seam` one round per call puts the second
over the limit, one held round lets each of two calls evict the other, and two events leave one in progress
and one over at a deadline; beside the other call a result carries at most one event. In `http_entry` three
requests are two retries of one round beside the call it came from, or a call that makes room for another and
the retry of either; two rounds make the first one stale; one oddity at a time, since each meets the retries
that race and the evictions already. In `verify` three records are an operation and one more, in every order a
host can seal; three alterations can drop, replace and recompute. Three events of one key and session cover
one run split by another and one refusal choosing between two runs. Two key_ids of two keys are a rotation and
a rebinding; of two rendered sets one can be older than the other or contradict it. `FewEntries` keeps the
registries to four entries in all, two registries full, and `key_id`s are symmetric; the theorems of
section 4 need neither bound.

Deadlock is checked in the host runs. It is not in `session`, `tool_seam`, `host_seam` and `http_entry` (the
calls end, the connection closes, the POSTs are used up), nor in `verify` (a bounded construction ends).

### Fairness

`ToolSeam` assumes that the event loop runs the rounds scheduled on it (`EndRound`) and that handlers
conclude, nothing of retries, answers or timeouts: a round may stay out for ever, a request may not stay
unanswered. `HostSeam` assumes that a session's lane and the endpoint's work for it go on (a wait has a
deadline, the endpoint answers, and writing a retry or a frame to the client returns), nothing of the tool, the
client or the connection.
`HttpEntry` assumes that a task that can go on does (`Deliver`, `Relay`), that a listing's wait is bounded
(`Listed`: `request_timeout`), that the idle bound passes (`Expire`), that a forwarded request arrives or
fails to leave, and that the tool answers, which is `RequestsAnswered` of `ToolSeam`; nothing of clients.
`AuditSession` states weak fairness of the host's handler, of its taking up of requests,
of the delivery of its answer, and per action of its emission and of its body. The event loop runs every
ready task, the lock of anyio is first-come, first-served, and the awaits on a signer, a store or a body
are assumed to return; nothing is assumed of timeouts, cancellations, losses or of the store's landing a
write. `EveryActionEnds` then says that an action that reached its emission ends.

## 4. The proofs

`AuditHost_proofs` proves, for every value of the constants allowed by `EventsAssumption` and
`HostAssumption` (any sessions, operations, keys, events and arrivals, either level, with or without a
countersigner or a repository, any bound):

* **TypeCorrect** — `Spec => []TypeOK`.
* **ChainCorrect** — `Spec => []ChainFollowsStore`. The invariant is not inductive: that the host's tail
  is a point of the stored chain says nothing of what will land next. `ChainInv` adds that every write
  under way links where the chain will take it (`InflightLinked`), that the record being sealed links to
  the tail (`PendingLinked`), and that without a repository nothing is ever in doubt (`OnlyCopy`).
  `StoreLand` then keeps the chain linked because a write lands only at its own `seq`, and `SettleAdopt`
  and `SettleForeign` leave the tail on the chain because they read it there.
* **AcksCorrect** — `Spec => []AcksDurable`. It needs `MemoryInLedger`: the host answers repeats from
  what it remembers, so what it remembers must be stored. The chain only grows, so what was true of it
  stays true across a restart.

At Level 2, while the host has been the only writer of its partition (`OnlyWriter`, which both properties
assume; another writer's records are not remembered, and their values may be sealed again):

* **NumberOnceCorrect**, **DecidedCorrect** — `Spec => []SignerSeqOnce` and `Spec => []DecidedCoversLedger`.
  A session decides a value when it commits or adopts, but the record may be in the store by then:
  `NumberInv` adds that the record being sealed (`PendingFresh`) and every write that could land now
  (`InflightFresh`) carry a value the chain does not hold, and that at most one stored record lies past the
  host's position (`NearTail`), the one the next event adopts. `Restart` then finds every stored value.
* **ReceivedCorrect** — `Spec => []ReceivedCoversLedger`, without a repository. With one it is false, which is
  the second finding of section 5: the theorem says adoption is all that breaks it.

It also proves, at either level, where no other writer appends to a partition that outlives
its host (`MaxForeign = 0`, or no repository):

* **ImplementsCorrect** — `Spec => ImplementsLog`: AuditHost implements AuditLog. `LogInv` says that the host
  remembers every attempt it committed and, in an open session, every outcome (`AttemptsRemembered`,
  `OutcomesRemembered`), that what a session accepted is stored (`AcceptedStored`), and that whatever could
  land next is admitted by what is stored now (`PendingAdmitted`, `InflightAdmitted`): a record computed on a
  tail that has moved on can never land, which is why a late write needs no second look. Then `StoreStep` maps
  each growth of the store to `Log!Record`, `TellStep` each answer to `Log!Tell`, and all else stutters.
* **AcceptCorrect** — `Spec => []NoSilentAccept`. `AcceptInv` adds that an open session holds everything it told
  tools to be accepted (`AckedAccepted`), that what it holds as resolved has its outcome behind its attempt
  (`ResolvedStored`, `AttemptFirst`), and that records are sealed for open sessions only (`PendingOpen`), so
  closing flags enough; a restart flags from the ledger itself.
* **CommittedCloseCorrect**, **CloseCorrect** — closing flags not too much. `CloseInv` says that every committed
  attempt of an open session is accepted there and every committed outcome resolved (`CommittedAccepted`,
  `CommittedResolved`). So a session that ends while all that is stored is committed flags no attempt whose
  outcome is stored; without a repository nothing else can be, hence `Spec => [][CloseFlagsOnlyUnresolved]`
  there. The first finding of section 5 is the case left: a close while the tail is in doubt.

`AuditSession_proofs` proves, for any number of concurrent actions over any host (`SessionAssumption`):

* **CallTypeCorrect** — `CallSpec => []CallTypeOK`.
* **AuditBeforeActCorrect** — `CallSpec => []AuditBeforeAct`. The host's invariants carry over to the
  composition (`HostInv`: the call only chooses what the host is asked), the ledger only grows
  (`LedgerGrows`), and `AnswerInv` follows an accept from the host's answer through the wire to the action
  that awaits it: wherever an accept is, its attempt is stored.
* **NoSilentActCorrect** — `CallSpec => []NoSilentAct`. Nobody but the call's host writes, so `AcceptInv` holds
  of the composition too, and `AnswerInv` says that what an action was granted the host has acknowledged.
* **HonestCorrect** — `CallSpec => HonestNeverReplayed`, for calls at either level with any number of actions. The
  property is about one step; what makes it hold is the whole line of events from the ledger to the wire.
  `HonestInv` says of a call nobody cancelled: every event in the tool's, the wire's or the host's hands is of this
  call, and its action does not send it again (`Emitted`, in `SentInv`); an event of the ledger or under way to it
  precedes the request the host is deciding, and that everything still on the wire, in its order (`LineInv`), where
  `Before` is both an attempt before its outcome and a smaller `signer_seq`; no value a session has decided is
  that of an event still to be decided (`ValuesInv`). Its steps are of two kinds. The host's hand the line on and
  decide in its order (`Learns`, `HonestKept`). The tool's move one action forward without giving a number back
  (`Advances`, `UsedStays`, `EmittedStays`), and what it then sends is last (`NewIsLast`). A cancellation is the
  one step that gives a number back after it was sent: hence the property's condition, and the finding.

`ToolSeam_proofs` proves, from `SeamAssumption` alone, that ToolSeam's specification implies `[]SeamTypeOK`,
`[]OneFramePerRequest`, `[]OutcomesNoLaterThanResult`, `[]ActsOnlyIfGranted` and `[]ClosingLosesNothing`
(**SeamTypeCorrect**, **OneFrameCorrect**, **OutcomesCorrect**, **GrantedCorrect**, **ClosingCorrect**). One
invariant, `SeamInv`, carries all of them. Its larger half speaks of one call at a time (`CallOK`): a call at work
has either a request to answer or a round out, never both (`Exchange`); a request has at most one frame and the
one to be answered has none (`OneFrame`); a call ends in a fixed order (`Ending`, `FinalEnds`); an outcome taken is
buffered or written (`TakenKept`); who acts is open (`ActingOpen`). So a step that touches one call needs a proof
for that call only (the lemmas on `EndRound`, `AcceptRetry` and so on), and every other call is as it was. The rest
ties the seam's tables to the calls (`WaitingOK`, `IdleOK`, `SessionsOK`) and grants to the rounds that asked
for them (`GrantsOK`, `StartedOK`).

The order of events rests on `SeamInv` and says more of the numbers. **OwnEventsCorrect** is `Spec => []OwnOrder`, for
any sessions: a call's frames ascend, what is pending comes after them, and while the call is at work its session's
next number is above all of them; a session is forgotten only with nobody at work in it, so no numbering starts again
under a call. **EventsCorrect**, `Spec => []EventsOnceInOrder`, goes across the requests of a session and needs
`ChainAssumption`: a session's requests form a chain, because a host opens a session for each call it sends and pops
what it holds for a request for input when one retry takes it (`mcp/seam.py:1708`, `1726`). Without it the property is
false: of two requests at work in one session the one that concludes last decides whether the numbering is kept
(`_release`), and a third would start it again. `ChainOK` says that each request follows one that has ended and that a
session has one last request; `ChainOrder` that the events of a request follow those of the one before it, and that
while the last one may still be continued (`MayGoOn`: it is at work, or it asked for input or will) its session is
known and numbers on from it. The only step that forgets such a session is an eviction, which `restarted` notes. A step
emits one event (`EmitStep`), opens a request, or does neither (`QuietStep`, `KindsOfStep`): all but the first two are
shown quiet once, action by action, and the order is argued for three kinds of step.

`HostSeam_proofs` proves, from `SeamAssumption` alone (any calls, whatever their tools write, and any bounds):

* **HostSeamTypeCorrect** — `Spec => []HostSeamTypeOK`, whose last conjuncts are the discipline of the lanes.
* **ToldOnceCorrect** — `Spec => ClientToldOnce`: one frame for each request at most, and after a cancellation none
  but the error of a round that was being abandoned by then.
* **GrantsCorrect** — `Spec => []GrantsTold`.
* **OutcomesCorrect** — `Spec => []OutcomesReachHost`.
* **LossesCorrect** — `ResultsReport => (Spec => []ClosingLogsLosses)`.

The first two rest on `TurnInv`: at most one party has a call's turn. A call's request is open at its tool, or its round
waits in the lane, is being worked on, or is held for its client, and only one of these (`OneTurn`); its closing job
is the last of its lane and the lane of what is closed is empty (`LaneRuns`); the lane waits for one entry of the
endpoint's queue at most (`OneAwaited`); the client is owed a frame of every call in flight that it does not hold,
and of a round given up (`TurnsTold`). That the turn goes back to the tool needs `SendInv`, that a lane which sends
a retry has nothing left to hand over. A step of one call leaves the others' turns alone (`TurnSame`), but for
`GoesUp`, which may evict another call's round; `Stopped`, `CloseConnection` and `EndDrain` touch every call.

Grants need `PlaceInv`: an event is in one place, on its way from the lane through the work to the endpoint and the
log, or adrift, or dropped (`Apart`), and what has been handed over arrived before what has not (`Ordered`), so new
events are behind all of it. It is `Ordered` only because behind a round that carries events the lane holds none
(`RoundsAlone`): the outcomes left over at a deadline go to the end of the lane. That in turn is why a tool may report
in its results or in messages of their own, never in both (`SeamAssumption`, after §6.4 and §6.5). `GrantsKept` then
says of each call that what is granted, held for a retry or accepted so far was recorded and is not late, that while the
call goes on every recorded attempt is among these or late, and that an attempt nobody waits for is late: it may
still be recorded, and nothing grants it.

Order needs `OrderInv`, which holds until the host is stopped or the sessions are closed from outside their lanes: log
and queue ascend, what is recorded came before what is queued, a close is at the endpoint only while its lane waits for
it and only behind everything else, and an outcome that arrived is recorded, queued, on its way or dropped with a
skipped round. It uses `PlaceInv` for the place of the next event handed over (`Ordered`) and `OneAwaited` for the
close: the lane hands its session over only when the endpoint has nothing of it that is waited for.

Losses need a count: a session that is not closed yet has at most `owed` outcomes received and not recorded
(`LossInv`). An outcome recorded is one of them, because it is at the endpoint once and not yet in the log (`Apart`),
so both sides go down by one. But the count also goes down for an attempt handed over as an outcome, which happens
to an attempt in a final result only; hence `ReportInv`, and the hypothesis `ResultsReport` that no tool writes such a
result. It is what `OutcomesNoLaterThanResult` proves of the tool's side; section 5 has what happens without it.

`HttpEntry_proofs` proves, for any instances, sessions and bounds:

* **RefusalCorrect** — `Spec => []RefusedNotServed`. `RefusalInv` says a request before its entry is not
  served, its waiter never holds a refusal, and a refusal on its way back is of a request that was not served.
* **ServedOnceCorrect** — `Spec => []TokenServedOnce`. A retry claims its round from the moment it consumes
  the token. `TokenInv` says claims are unique, a token is indexed only where its call is held and only while
  nobody claims it, and a new round's token is one nobody has: consuming before the first await and
  restoring only from a retry that was not written keep it so.
* **RoundStaysOpenCorrect** — `Spec => []RoundStaysOpen`, the other direction. `RoundInv` adds that an open call is
  in its instance's table (`OpenHeld`) and that a round out has its token indexed or a claim that ends by
  serving or by restoring it (`OutRetriable`).
* **CutsNothingCorrect** — `Spec => []EntryCutsNothing`. `CutInv` adds to `TokenInv` that a request that was cut off
  belongs to a call its tool or its instance ended (`CutOffsEnded`), that a call no request opened has nothing to lose
  (`Unopened`), and what eviction and expiry may cost (`LossesFew`).
* **EntryTypeCorrect** — `Spec => []EntryTypeOK`, which says more than a type: an instance's line is exactly its open
  calls, one of a session and within the bound, and the tokens it indexes are of their newest rounds. `HeldInv` follows
  the lines through use, eviction and closing (`WithoutLine` says what is left of a line, by induction along it).
  `NewestInv` says that whatever was let through is of its call's newest round (`ListingNewest`, `RequestNewest`): so when
  a round goes out, nobody holds the token of the one before (`NewestRound`).

`KeyRegistry_proofs` proves, for any registries, keys and key_ids, from `RegistryAssumption` alone:

* **EvidenceCorrect**, **RevocationCorrect**, **SeparationCorrect** — `RegistrySpec` implies
  `[]EvidenceLasts`, `[]RevokedConfirmsNothing` and `[]NoToolCountersigns`. The invariant `RegistryInv`
  says what a rendered set carries with it (`SetsCarry`: its members bind the keys of the evidence and are
  marked revoked), that what is known revoked is held revoked, and that a registry binds keys of its role.
  The lemmas `RegisteredGrows`, `RevokedGrows` and `LoadedGrows` say of each operation that entries only
  grow: no key_id is rebound or dropped, no revocation lifted.

`ChainVerify_proofs` proves, for chains of any length, altered any number of times:

* **HonestChainCorrect** — no false alarm, and none left out: a sealed chain verifies exactly if the refusals in it can
  account together for every value missing from it. `ChainInv` says what a conforming host seals: records numbered and
  linked (`SealedWell`), values of `signer_seq` used once (`NumberedOnce`), attempts ahead of their outcomes
  (`AttemptedFirst`). By induction along the chain, the pass has then met exactly the records behind it and found
  nothing (`SealedPasses`); what remains is the accounting, which leaves no value over exactly if all of them can be
  explained (`GapsReported`, from the lemmas of AccountingCorrect).
* **AnchoredCorrect** — no alteration passes an anchored digest. A pass without issues means each record holds the
  hash of the one before; equal hashes at the end then give equal records one step earlier, down to the genesis.
* **SignedCorrect** — where countersignatures are required a chain that passes is a prefix of the sealed one: a
  countersignature covers its record's place, link and event, and only sealed records were signed.
* **VerifyTypeCorrect** — the module's type invariant.
* **AccountingCorrect** — of SignerLedger: `LedgerSpec` implies `[]AccountsForRefusals`, for ledgers of any
  length and any values. A fact of every ledger rather than of its steps, so the invariant is only that it holds sealed
  events (`LedgerOK`); the argument is about the algorithm. `MissingAreRuns`: the pass leaves ascending runs that hold
  exactly the missing values. `TakeFirstTakes`: a refusal takes the smallest value left, if that is below its own. By
  induction over the sorted refusals, what the first k took is the lower end of the missing values (`LeftIsAbove`), the
  first k can explain it (`TakenExplained`), and they can explain no larger set (`TakenMost`): if the k-th took a value,
  any set explained by k loses its largest member to it; if it took none, all that k refusals can explain is gone.

`Induction` proves the induction these need as lemmas about sets of naturals (`NaturalInduction`,
`BoundedInduction`), from the fact that a non-empty set of naturals has a least member (`LeastNumber`); so a fact
about a recursive function is proved of the set of arguments it holds for.

Each result is proved as three facts (initial states, one lemma per group of actions, the invariant implies the
property) and closed by temporal reasoning. Every invariant of the passing runs is proved. Only model-checked:

* Liveness, and what depends on ENABLED: out of this prover's reach, as are `RECURSIVE` operators and the folds of the
  library, which take operators as arguments.

## 5. What the checks found

Four places where the code does not do what its own documentation says; each has a run that ends in the
counterexample.

1. `host_close_in_doubt`: `close_session` (`host.py:522-538`) does not settle a doubtful tail. If an
   outcome's append fails ambiguously but lands, and the call ends next, its attempt is flagged
   `unresolved-attempt` although the ledger holds its outcome; the docstring says only attempts with "no
   sealed terminal outcome" are.
2. `host_late_adopt`: `_adopt` (`host.py:389-407`) decides an adopted record's `signer_seq` but does not
   count it as received. After a restart with the session kept open, a record that lands late is adopted
   and the session's next honest value is flagged `signer-seq-gap`; the docstring says adoption accounts
   a record "as sealing it here would have".
3. `session_cancel`: a cancellation while an action awaits its answer leaves the number it used to the
   next event (`session.py:167-173`), which the host refuses as a replay; the comment says such a number
   "is still unused". `HonestNeverReplayed` holds of calls in which nothing is cancelled.
4. `host_seam_close`: after a cancellation around the seam, `_on_close` does the jobs the workers left behind, until
   its bound expires. A lane it had not come to by then has no entry in `undone`, and one it had come to was emptied
   into jobs that were cut: either way no job counts as left (`mcp/seam.py:2216-2235`), and unless an outcome is owed
   the session is closed without a word. The docstring says "each such session is logged by id rather than dropped
   in silence". No outcome is lost so (`ClosingLogsLosses`), but an attempt may be: it is never recorded, nor granted.

Worth knowing, not counted as findings:

* A round still queued in its lane when the client cancels the call is passed over, and the outcomes it
  carries are neither sealed nor logged (`mcp/seam.py:1961`), while one already taken up has its outcomes
  sealed ahead of the close. `SkipRound` models it, and `OutcomesReachHost` excepts it.
* `_seal_outcome` takes one off `_owed` also for an attempt in a final result, which `_inbound` did not
  count (`mcp/seam.py:1887`, `2283`). If the seam's tasks are cancelled from around it and the bound of
  closing then cuts the outcome behind that attempt, nothing is logged of the loss. The instance of
  `host_seam` has no such result; with one, `ClosingLogsLosses` fails.
* A client that cancels while `_abandon` waits for the end of a round is given the error of that round all the same
  (`mcp/seam.py:1829`, `2098-2107`): the call was detached before the wait, so `_cancel` does not find it.
* After another writer extended the partition, the host goes on without remembering any of the records it
  skipped, its own included (`host.py:379-384`).
* An outcome whose send raises leaves its number unused, while an attempt whose send raises uses it
  (`session.py:421-440`, `391-395`).

## 6. What is left

Worth adding, in this order:

1. **Verifier** — the identity, signature and version checks of `verify_chain` and `verify_ledger`.
2. **HostSeam** — one `requestState` used by two calls, and §6.5 events that name no call in flight.

### Not modelled

* **Negotiation, degradation, reconciliation** — `capability.py`, `degradation.py`, `l2/reconcile.py`: a
  comparison of two declarations, a choice from a table, a set difference. They keep no state and meet no
  other actor; a model would be the table again, and its properties would restate it.
* **The verifier's identity and version checks** — each is a comparison of one record with what the verifier
  was given, independent of the chain and of the other checks.
* **Event content** — validation, number formatting, salted commitments and canonical bytes are data; the
  models use only that equal bytes are equal records.
* **Signatures and keys** — formats, encodings and calls to a cloud KMS. In the models a signature says who
  made it and what it covers.
* **HTTP framing** — validation of POSTs, server-sent events, notifications, and what the official handler
  serves: section 2.
* **Integration helpers** — a decorator, a clock, exports; `walk/` is a demonstration of the library.
