----------------------------- MODULE KeyRegistry -----------------------------
(***************************************************************************)
(* The registries of public keys (l2/keys.py) and the two verifiers that   *)
(* resolve a key_id in one (l2/verification.py): a host's and an auditor's *)
(* registry of tool keys, a tool's registry of host keys, and the JWK Sets *)
(* that carry entries between them.  A set once rendered stays around, so  *)
(* it can be loaded long after the registry it came from has moved on, and *)
(* a deployment may join several into one.                                 *)
(*                                                                         *)
(* A key is the role of its holder, its algorithm and a name.  A signature *)
(* is the key that made it: it verifies against an entry that binds the    *)
(* same key.  Operators register a key only with registries of its role:   *)
(* that is the trust anchor, established outside the code.                 *)
(***************************************************************************)
EXTENDS Integers, FiniteSets

CONSTANTS
  KeyIds,        \* key_id values
  Keys,          \* [role, algorithm, name]
  Algorithms,    \* SignatureAlgorithm
  Registries,    \* the deployment's registries
  RoleOf,        \* the role each was created for
  MaxSets,       \* bound: JWK Sets rendered
  MaxConfirmed   \* bound: events confirmed

Roles == {"tool", "host"}

ASSUME RegistryAssumption ==
  /\ RoleOf \in [Registries -> Roles]
  /\ \A k \in Keys : k.role \in Roles /\ k.algorithm \in Algorithms
  /\ MaxSets \in Nat /\ MaxConfirmed \in Nat

VARIABLES
  keys,       \* _keys of each registry: a function on the key_ids it binds
  jwks,       \* the JWK Sets rendered so far
  confirmed,  \* history: per registry, the events it confirmed, or learned of with a set
  retired     \* history: per registry, the key_ids revoked there, or known revoked with a set

registryVars == <<keys, jwks, confirmed, retired>>

Entries == [key: Keys, algorithm: Algorithms, revoked: BOOLEAN]

SignedEvents == [key_id: KeyIds, signer: Keys]

Jwks == [members: SUBSET [kid: KeyIds, role: Roles, entry: Entries],
         confirmed: SUBSET SignedEvents, retired: SUBSET KeyIds]

RegistryTypeOK ==
  /\ DOMAIN keys = Registries
  /\ \A r \in Registries : DOMAIN keys[r] \subseteq KeyIds /\ \A i \in DOMAIN keys[r] : keys[r][i] \in Entries
  /\ jwks \subseteq Jwks
  /\ confirmed \in [Registries -> SUBSET SignedEvents]
  /\ retired \in [Registries -> SUBSET KeyIds]

RegistryInit ==
  /\ keys = [r \in Registries |-> <<>>]
  /\ jwks = {}
  /\ confirmed = [r \in Registries |-> {}]
  /\ retired = [r \in Registries |-> {}]

-----------------------------------------------------------------------------
(* Registration, on the entries of one registry.                           *)

\* _is_key_of: a key of the entry's algorithm.
IsKeyOf(key, algorithm) == key.algorithm = algorithm

\* The key_id is free, or bound to the same key and algorithm.
Registrable(held, id, key, algorithm) ==
  /\ IsKeyOf(key, algorithm)
  /\ id \in DOMAIN held => held[id].key = key /\ held[id].algorithm = algorithm

\* A bound key_id keeps its entry, a revocation included.
Registered(held, id, key, algorithm) ==
  [i \in DOMAIN held \cup {id} |->
     IF i \in DOMAIN held THEN held[i] ELSE [key |-> key, algorithm |-> algorithm, revoked |-> FALSE]]

Revoked(held, id) == [held EXCEPT ![id].revoked = TRUE]

-----------------------------------------------------------------------------
(* JWK Sets.                                                               *)

\* public_jwk, for every entry: the role and a revocation travel with the key.
Rendered(r) == {[kid |-> i, role |-> RoleOf[r], entry |-> keys[r][i]] : i \in DOMAIN keys[r]}

\* The rehearsal registers every member: each is of this registry's role and consistent with what it
\* holds and with the rest of the set.  Otherwise the whole set is refused.
Loadable(r, members) ==
  /\ \A m \in members : m.role = RoleOf[r] /\ Registrable(keys[r], m.kid, m.entry.key, m.entry.algorithm)
  /\ \A m, n \in members : m.kid = n.kid => m.entry.key = n.entry.key /\ m.entry.algorithm = n.entry.algorithm

\* What the registry and the set say of a key_id; of one key, if the set is loadable.
Copies(r, members, id) ==
  {m.entry : m \in {n \in members : n.kid = id}} \cup {keys[r][i] : i \in DOMAIN keys[r] \cap {id}}

\* The set's own revocation state replaces the registry's.
LoadedAsRendered(r, members) ==
  [i \in DOMAIN keys[r] \cup {m.kid : m \in members} |->
     IF \E m \in members : m.kid = i THEN (CHOOSE m \in members : m.kid = i).entry ELSE keys[r][i]]

\* Entries are added, and a member marked revoked revokes; an unrevoked one lifts nothing.
Loaded(r, members) ==
  [i \in DOMAIN keys[r] \cup {m.kid : m \in members} |->
     LET bound == CHOOSE e \in Copies(r, members, i) : TRUE
     IN [key |-> bound.key, algorithm |-> bound.algorithm,
         revoked |-> \E e \in Copies(r, members, i) : e.revoked]]

\* public_key_of, for every member of a document joined from rendered sets: what was rendered is read.
Read(sets) == UNION {s.members : s \in sets}

PublicKeys(r) == {keys[r][i].key : i \in DOMAIN keys[r]}

\* assert_registries_disjoint: by key, not by key_id, and revoked entries count.
RegistriesDisjoint(t, h) == PublicKeys(t) \cap PublicKeys(h) = {}

-----------------------------------------------------------------------------
(* The verifiers.                                                          *)

\* get: the entry, revoked or not.  current: only one that may confirm something new.
Held(r) == DOMAIN keys[r]

Current(r) == {i \in DOMAIN keys[r] : ~keys[r][i].revoked}

\* The reason a new event is rejected for; a countersignature is confirmed exactly when there is none.
RejectReason(r, e) ==
  IF e.key_id \notin Current(r) THEN "unknown-key"
  ELSE IF keys[r][e.key_id].key # e.signer THEN "signature-invalid" ELSE "none"

\* A sealed record is read like a new event.
CheckCurrent(r, e) == RejectReason(r, e) = "none"

\* check: a sealed record is read against the entry, revoked or not.
Check(r, e) == e.key_id \in Held(r) /\ keys[r][e.key_id].key = e.signer

-----------------------------------------------------------------------------
(* Actions.  A call that raises leaves the registry as it was.             *)

Register(r) ==
  \E id \in KeyIds, key \in {k \in Keys : k.role = RoleOf[r]}, algorithm \in Algorithms :
    /\ Registrable(keys[r], id, key, algorithm)
    /\ keys' = [keys EXCEPT ![r] = Registered(@, id, key, algorithm)]
    /\ UNCHANGED <<jwks, confirmed, retired>>

Revoke(r) ==
  \E id \in DOMAIN keys[r] :
    /\ keys' = [keys EXCEPT ![r] = Revoked(@, id)]
    /\ retired' = [retired EXCEPT ![r] = @ \cup {id}]
    /\ UNCHANGED <<jwks, confirmed>>

ToJwks(r) ==
  LET set == [members |-> Rendered(r), confirmed |-> confirmed[r], retired |-> retired[r]]
  IN /\ Cardinality(jwks \cup {set}) <= MaxSets
     /\ jwks' = jwks \cup {set}
     /\ UNCHANGED <<keys, confirmed, retired>>

LoadJwks(r) ==
  \E sets \in SUBSET jwks \ {{}} :
    LET members == Read(sets)
    IN /\ Loadable(r, members)
       /\ keys' = [keys EXCEPT ![r] = Loaded(r, members)]
       /\ confirmed' = [confirmed EXCEPT ![r] = @ \cup UNION {s.confirmed : s \in sets}]
       /\ retired' = [retired EXCEPT ![r] = @ \cup UNION {s.retired : s \in sets}]
       /\ UNCHANGED jwks

\* verify: a new event, or a new accept's countersignature, whoever signed it.
Verify(r) ==
  \E e \in SignedEvents :
    /\ RejectReason(r, e) = "none"
    /\ Cardinality(UNION {confirmed[q] : q \in Registries} \cup {e}) <= MaxConfirmed
    /\ confirmed' = [confirmed EXCEPT ![r] = @ \cup {e}]
    /\ UNCHANGED <<keys, jwks, retired>>

RegistryNext ==
  \E r \in Registries : Register(r) \/ Revoke(r) \/ ToJwks(r) \/ LoadJwks(r) \/ Verify(r)

RegistrySpec == RegistryInit /\ [][RegistryNext]_registryVars

-----------------------------------------------------------------------------
(* Properties.                                                             *)

\* What was confirmed while its key was valid stays evidence: the registry that confirmed it, and every
\* registry provisioned from it since, still checks it, through rotations, revocations and the loading
\* of older sets (keys.py: "the records it signed while valid still verify").
EvidenceLasts == \A r \in Registries : \A e \in confirmed[r] : Check(r, e)

\* Revocation is forward-only: a key revoked in a registry, or in one it was provisioned from since,
\* confirms nothing new there, whatever is registered again or loaded from an older set.
RevokedConfirmsNothing ==
  \A r \in Registries : \A e \in SignedEvents : e.key_id \in retired[r] => RejectReason(r, e) = "unknown-key"

\* No tool countersigns: however entries travel, a registry of tool keys and one of host keys share no
\* key, so assert_registries_disjoint never finds one ("A tool holding a key the countersignature registry
\* binds to a host can countersign its own records").
NoToolCountersigns ==
  \A t, h \in Registries : RoleOf[t] = "tool" /\ RoleOf[h] = "host" => RegistriesDisjoint(t, h)
=============================================================================
