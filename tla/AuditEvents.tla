----------------------------- MODULE AuditEvents -----------------------------
(***************************************************************************)
(* The vocabulary the audit modules share: the events a tool emits about   *)
(* one operation, and the sealed records that hold them in a ledger.       *)
(*                                                                         *)
(* An event is abstracted to the fields the host and the verifier tell     *)
(* apart.  `body` stands for every other field, so two events are the same *)
(* bytes (the same digest, section 8.3) exactly when the records are       *)
(* equal.  A record hash is a number drawn fresh at every seal: SHA-256    *)
(* over the event, the position, the host timestamp and the previous hash  *)
(* is taken to be collision-free, and 0 is the genesis hash.               *)
(***************************************************************************)
EXTENDS Integers, Sequences, FiniteSetsExt

CONSTANTS
  Sessions,      \* audit session ids (one tools/call each)
  OpIds,         \* operation ids: an attempt and its outcome share one
  Keys,          \* key ids of the tools' signing keys
  MaxSignerSeq,  \* largest signer_seq an event carries (bound)
  Bodies,        \* what distinguishes two events that agree on the rest
  Events         \* the events that may be emitted

Outcomes == {"attempted", "success", "failed", "aborted"}

\* What the Level-2 verifier says of an event's signature fields.
Signatures == {"verifies", "fails", "absent"}

EventSpace == [session: Sessions, id: OpIds, outcome: Outcomes, key: Keys,
               sseq: 0..MaxSignerSeq, sig: Signatures,
               wellformed: BOOLEAN, body: Bodies]

ASSUME EventsAssumption ==
  /\ MaxSignerSeq \in Nat
  /\ Events \subseteq EventSpace

IsAttempt(e) == e.outcome = "attempted"

SameOperation(e, f) == e.session = f.session /\ e.id = f.id

-----------------------------------------------------------------------------
(* Sealed records and chains (ledger.py).                                  *)

Genesis == 0

RecordSpace == [event: Events, seq: Nat, prev: Nat, hash: Nat \ {Genesis}]

\* Ledger.seal: the record at position `seq`, linked to the tail hash.
SealRecord(e, seq, tail, hash) ==
  [event |-> e, seq |-> seq, prev |-> tail, hash |-> hash]

\* The hash the record at 0-based position n must link to; at n = Len(chain), the digest of the chain.
HashBefore(chain, n) == IF n = 0 THEN Genesis ELSE chain[n].hash

\* Every record sits at its own position and links to the one before it.
Linked(chain) ==
  \A n \in DOMAIN chain : /\ chain[n].seq = n - 1
                          /\ chain[n].prev = HashBefore(chain, n - 1)

EventsOf(chain) == {r.event : r \in Range(chain)}

\* An attempt with no terminal outcome of its own session and id after it.
UnresolvedIn(chain) ==
  {chain[n].event : n \in {m \in DOMAIN chain :
     /\ IsAttempt(chain[m].event)
     /\ \A k \in DOMAIN chain : k > m /\ SameOperation(chain[k].event, chain[m].event)
                                  => IsAttempt(chain[k].event)}}
=============================================================================
