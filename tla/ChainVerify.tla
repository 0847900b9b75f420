----------------------------- MODULE ChainVerify -----------------------------
(***************************************************************************)
(* verify_chain (verify.py) over a countersigned ledger: a conforming host *)
(* seals a chain (ledger.py, host.py), the storage is then altered, and    *)
(* the verifier reads what is left.                                        *)
(*                                                                         *)
(* A record hash is the term <<event, seq, previous hash>>, so hashes are  *)
(* equal exactly when all they cover is.  A countersignature is the term   *)
(* of what it signs; only the host makes one, and whoever alters the       *)
(* storage can only move or remove those it made.                          *)
(***************************************************************************)
EXTENDS Integers, Sequences, FiniteSets, SequencesExt, SignerAccounting

CONSTANTS
  Events,          \* [id, outcome, sseq, canonical, refusing]: one key and session
  MaxRecords,      \* bound: records sealed
  MaxAlterations   \* bound: alterations of the storage

ASSUME VerifyAssumption ==
  /\ MaxRecords \in Nat /\ MaxAlterations \in Nat
  /\ \A e \in Events : e.sseq \in 0..MaxValue

VARIABLES
  sealed,      \* the chain as the host sealed it
  records,     \* what the storage holds
  alterations  \* how often it was altered (-1 while the host still seals)

vars == <<sealed, records, alterations>>

GenesisHash == <<>>

\* compute_record_hash and countersignature_payload.
RecordHash(e, seq, prev) == <<e, seq, prev>>

Payload(r) == <<r.seq, r.prev, r.hash>>

\* A record carries no countersignature, or only a part of the triple.
NoSignature == <<>>
PartOfOne == <<"part">>

IsAttempt(e) == e.outcome = "attempted"

-----------------------------------------------------------------------------
(* The verifier.  One pass keeps the recomputed link, the attempts seen    *)
(* and the values numbered, and collects issues as <<position, kind>>.     *)

\* Trusting the stored hash.
RecomputedAsStored(r, link) == r.hash

Recomputed(r, link) == RecordHash(r.event, r.seq, link)

\* The link to a record that cannot be canonicalized is the hash stored with it.
LinkAfter(r, link) == IF r.event.canonical THEN Recomputed(r, link) ELSE r.hash

PositionIssues(r, n) == IF r.seq # n - 1 THEN {"seq-gap"} ELSE {}

HashIssues(r, link) ==
  IF ~r.event.canonical THEN {"schema-invalid"}
  ELSE IF r.prev # link \/ r.hash # Recomputed(r, link) THEN {"record-hash-mismatch"} ELSE {}

\* An outcome without an attempt before it, unless it is a sealed refusal.
CorrelationIssues(r, attempted) ==
  IF ~IsAttempt(r.event) /\ r.event.id \notin attempted /\ r.event.outcome # "aborted"
  THEN {"orphaned-outcome"} ELSE {}

NumberIssues(r, numbered) == IF r.event.sseq \in numbered THEN {"replay-detected"} ELSE {}

\* A record without a countersignature is never an issue.
CountersignIssuesIfPresent(r, required) ==
  IF \/ r.signature = PartOfOne
     \/ r.signature \notin {NoSignature, PartOfOne} /\ r.event.canonical /\ r.signature # Payload(r)
  THEN {"host-signature-invalid"} ELSE {}

\* Decided by the signature alone: absent is a state unless one is required, a part of one is never.
CountersignIssues(r, required) ==
  IF \/ r.signature = NoSignature /\ required
     \/ r.signature = PartOfOne
     \/ r.signature \notin {NoSignature, PartOfOne} /\ r.event.canonical /\ r.signature # Payload(r)
  THEN {"host-signature-invalid"} ELSE {}

Pass(acc, r, required) ==
  LET n == acc.next
      found == PositionIssues(r, n) \union HashIssues(r, acc.link)
                 \union CorrelationIssues(r, acc.attempted) \union NumberIssues(r, acc.numbered)
                 \union CountersignIssues(r, required)
  IN [next      |-> n + 1,
      link      |-> LinkAfter(r, acc.link),
      attempted |-> acc.attempted \union (IF IsAttempt(r.event) THEN {r.event.id} ELSE {}),
      numbered  |-> acc.numbered \union {r.event.sseq},
      issues    |-> acc.issues \union {<<n, kind>> : kind \in found}]

\* The pass over the records: the last recomputed link and the issues found on the way.
Passed(chain, required) ==
  LET after[n \in 0..Len(chain)] ==
        IF n = 0 THEN [next |-> 1, link |-> GenesisHash, attempted |-> {}, numbered |-> {}, issues |-> {}]
        ELSE Pass(after[n - 1], chain[n], required)
  IN after[Len(chain)]

EventsOf(chain) == [n \in DOMAIN chain |-> chain[n].event]

\* Every missing value is reported, refused or not.
GapIssuesOfRefusals(chain) == {<<0, "signer-seq-gap">> : run \in Range(MissingRuns(EventsOf(chain)))}

\* A missing value no sealed refusal accounts for is an issue of no one record (position 0).
GapIssues(chain) == {<<0, "signer-seq-gap">> : run \in Range(UnaccountedRuns(EventsOf(chain)))}

\* `required`: the chain is known to be countersigned (countersignature_required).
Report(chain, required) ==
  LET end == Passed(chain, required)
  IN [digest |-> end.link, issues |-> end.issues \union GapIssues(chain)]

\* The digest is the last recomputed link.
Digest(chain) == Report(chain, FALSE).digest

Ok(chain, required) == Report(chain, required).issues = {}

OkAgainst(chain, anchor, required) == Ok(chain, required) /\ Digest(chain) = anchor

-----------------------------------------------------------------------------
(* A conforming host seals (AuditHost); every record it seals is           *)
(* canonicalizable, in its operation's order, and numbered once.           *)

Conforming(e) ==
  /\ e.canonical
  /\ \A n \in DOMAIN sealed :
       /\ sealed[n].event.sseq # e.sseq
       /\ IsAttempt(e) => sealed[n].event.id # e.id
       /\ sealed[n].event.id = e.id => IsAttempt(sealed[n].event)
  /\ IsAttempt(e) \/ e.outcome = "aborted" \/ \E n \in DOMAIN sealed : sealed[n].event.id = e.id

Seal(e) ==
  /\ alterations = -1 /\ Len(sealed) < MaxRecords
  /\ Conforming(e)
  /\ LET prev == IF sealed = <<>> THEN GenesisHash ELSE Last(sealed).hash
         r    == [event |-> e, seq |-> Len(sealed), prev |-> prev, hash |-> RecordHash(e, Len(sealed), prev)]
     IN sealed' = Append(sealed, [event |-> r.event, seq |-> r.seq, prev |-> r.prev, hash |-> r.hash,
                                  signature |-> Payload(r)])
  /\ records' = sealed'
  /\ UNCHANGED alterations

Audit == alterations = -1 /\ alterations' = 0 /\ UNCHANGED <<sealed, records>>

-----------------------------------------------------------------------------
(* The storage is altered: one record, one link, the order or the length,  *)
(* or everything from a record on, recomputed to look sealed.              *)

Altering ==
  /\ alterations >= 0 /\ alterations < MaxAlterations
  /\ alterations' = alterations + 1
  /\ UNCHANGED sealed

ReplaceEvent(n, e) == Altering /\ records' = [records EXCEPT ![n].event = e]

DropRecord(n) == Altering /\ records' = RemoveAt(records, n)

SwapRecords(n) ==
  /\ Altering /\ n < Len(records)
  /\ records' = [records EXCEPT ![n] = records[n + 1], ![n + 1] = records[n]]

\* The countersignature is removed, wholly or in part, or taken from another record.
MoveSignature(n, m) == Altering /\ records' = [records EXCEPT ![n].signature = records[m].signature]

StripSignature(n) == Altering /\ \E s \in {NoSignature, PartOfOne} : records' = [records EXCEPT ![n].signature = s]

\* Positions, links and hashes from record n on are recomputed to fit.
Relinked(chain, n) ==
  LET fit[k \in 0..Len(chain)] ==
        IF k < n THEN SubSeq(chain, 1, k)
        ELSE LET before == fit[k - 1]
                 prev   == IF k = 1 THEN GenesisHash ELSE before[k - 1].hash
             IN Append(before, [event |-> chain[k].event, seq |-> k - 1, prev |-> prev,
                                hash |-> RecordHash(chain[k].event, k - 1, prev),
                                signature |-> chain[k].signature])
  IN fit[Len(chain)]

Relink(n) == Altering /\ records' = Relinked(records, n)

Alter ==
  \E n \in DOMAIN records :
    \/ \E e \in Events : ReplaceEvent(n, e)
    \/ \E m \in DOMAIN records : MoveSignature(n, m)
    \/ DropRecord(n) \/ SwapRecords(n) \/ StripSignature(n) \/ Relink(n)

Init == sealed = <<>> /\ records = <<>> /\ alterations = -1

Next == (\E e \in Events : Seal(e)) \/ Audit \/ Alter

Spec == Init /\ [][Next]_vars

-----------------------------------------------------------------------------
(* Properties.                                                             *)

\* Contents: what a record hash covers.
Contents(chain) == [n \in DOMAIN chain |-> <<chain[n].event, chain[n].seq>>]

\* The storage holds the sealed chain until it is altered, which the bounds keep.
TypeOK ==
  /\ Len(sealed) <= MaxRecords /\ alterations \in -1..MaxAlterations
  /\ alterations <= 0 => records = sealed
  /\ \A n \in DOMAIN records : records[n].event \in Events /\ records[n].seq \in Nat

\* A chain a conforming host sealed verifies, countersigned and against its own digest, exactly when the refusals
\* sealed in it can account together for every value missing from it: verify_chain raises no false alarm, and an
\* event suppressed before it was sealed, which no hash or countersignature shows, is not passed over.
HonestChainVerifies ==
  alterations <= 0 =>
    (OkAgainst(records, Digest(sealed), TRUE) <=> Explainable(EventsOf(sealed), Missing(EventsOf(sealed))))

\* Against the anchored digest, a chain that verifies holds exactly the events that were sealed, in order:
\* an alteration cannot hide behind the hashes it stores (verify_chain recomputes over the recomputed link).
AnchoredMeansUnaltered ==
  OkAgainst(records, Digest(sealed), FALSE) => Contents(records) = Contents(sealed)

\* Where countersignatures are required no anchor is needed: a chain that verifies is a prefix of the sealed
\* one, and only cutting off its end goes unnoticed (countersignature_required).
SignedMeansPrefix ==
  Ok(records, TRUE) => IsPrefix(Contents(records), Contents(sealed))

=============================================================================
