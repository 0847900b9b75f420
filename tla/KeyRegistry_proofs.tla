-------------------------- MODULE KeyRegistry_proofs --------------------------
(***************************************************************************)
(* Proofs about the key registries, for any registries, keys and key_ids.  *)
(* Entries only grow: a key_id once bound keeps its key, and a revocation  *)
(* stays.  What travels with a set is carried by its members, so loading   *)
(* it brings the evidence and the revocations along.                       *)
(***************************************************************************)
EXTENDS KeyRegistry, TLAPS

-----------------------------------------------------------------------------
(* Entries grow.                                                           *)

\* Every binding of `held` is in `next`, with its revocation.
Grows(held, next) ==
  \A i \in DOMAIN held :
    i \in DOMAIN next /\ next[i].key = held[i].key /\ (held[i].revoked => next[i].revoked)

\* Entries of a registry: bindings of key_ids to keys of its role.
Bindings(held, role) ==
  DOMAIN held \subseteq KeyIds /\ \A i \in DOMAIN held : held[i] \in Entries /\ held[i].key.role = role

\* Registering adds a binding and disturbs none (KeyRegistry.register).
LEMMA RegisteredGrows ==
  ASSUME NEW held, NEW role, Bindings(held, role), NEW id \in KeyIds, NEW key \in Keys, key.role = role,
         NEW algorithm \in Algorithms
  PROVE  Grows(held, Registered(held, id, key, algorithm)) /\ Bindings(Registered(held, id, key, algorithm), role)
  BY DEF Grows, Bindings, Registered, Entries

\* Revoking keeps every binding (KeyRegistry.revoke).
LEMMA RevokedGrows ==
  ASSUME NEW held, NEW role, Bindings(held, role), NEW id \in DOMAIN held
  PROVE  /\ Grows(held, Revoked(held, id)) /\ Bindings(Revoked(held, id), role)
         /\ DOMAIN Revoked(held, id) = DOMAIN held /\ Revoked(held, id)[id].revoked
  BY DEF Grows, Bindings, Revoked, Entries

\* Loading a set its registry accepts disturbs no binding, and binds and revokes what the set does
\* (KeyRegistry.load_jwks).
LEMMA LoadedGrows ==
  ASSUME NEW r \in Registries, Bindings(keys[r], RoleOf[r]),
         NEW members \in SUBSET [kid: KeyIds, role: Roles, entry: Entries],
         \A m \in members : m.entry.key.role = m.role, Loadable(r, members)
  PROVE  /\ Grows(keys[r], Loaded(r, members)) /\ Bindings(Loaded(r, members), RoleOf[r])
         /\ \A m \in members : /\ m.kid \in DOMAIN Loaded(r, members)
                               /\ Loaded(r, members)[m.kid].key = m.entry.key
                               /\ m.entry.revoked => Loaded(r, members)[m.kid].revoked
<1> DEFINE copies(i) == Copies(r, members, i)
           after == Loaded(r, members)
<1>1. DOMAIN after = DOMAIN keys[r] \cup {m.kid : m \in members}
  BY DEF Loaded
<1>2. ASSUME NEW i \in DOMAIN after
      PROVE  /\ copies(i) # {}
             /\ \A e \in copies(i) : e \in Entries /\ e.key.role = RoleOf[r]
             /\ \A e, f \in copies(i) : e.key = f.key
             /\ i \in KeyIds
  <2>1. copies(i) # {} /\ i \in KeyIds
    BY <1>1, <1>2 DEF Copies, Bindings
  <2>2. \A e \in copies(i) : e \in Entries /\ e.key.role = RoleOf[r]
    BY DEF Copies, Bindings, Loadable
  <2>3. \A e, f \in copies(i) : e.key = f.key
    BY DEF Copies, Loadable, Registrable
  <2>. QED BY <2>1, <2>2, <2>3
<1>3. ASSUME NEW i \in DOMAIN after
      PROVE  /\ after[i] \in Entries /\ after[i].key.role = RoleOf[r]
             /\ \A e \in copies(i) : after[i].key = e.key /\ (e.revoked => after[i].revoked)
  <2> DEFINE told == \E f \in copies(i) : f.revoked
             bound == CHOOSE e \in copies(i) : TRUE
  <2>1. bound \in copies(i)
    BY <1>2, <1>3
  <2>2. after[i] = [key |-> bound.key, algorithm |-> bound.algorithm, revoked |-> told]
    BY <1>1, <1>3 DEF Loaded
  <2>3. PICK b : b = bound
    OBVIOUS
  <2>4. PICK t \in BOOLEAN : t <=> told
    OBVIOUS
  <2>5. after[i] = [key |-> b.key, algorithm |-> b.algorithm, revoked |-> t]
    BY <2>2, <2>3, <2>4
  <2>6. after[i] \in Entries /\ after[i].key = b.key /\ after[i].revoked = t
    <3> HIDE DEF after, bound, told
    <3>. QED BY <1>2, <2>1, <2>3, <2>5 DEF Entries
  <2>. QED BY <1>2, <2>1, <2>3, <2>4, <2>6
<1>4. Grows(keys[r], after)
  <2>1. \A i \in DOMAIN keys[r] : keys[r][i] \in copies(i)
    BY DEF Copies
  <2>. QED BY <1>1, <1>3, <2>1 DEF Grows
<1>5. Bindings(after, RoleOf[r])
  BY <1>2, <1>3 DEF Bindings
<1>6. ASSUME NEW m \in members
      PROVE  m.kid \in DOMAIN after /\ after[m.kid].key = m.entry.key /\ (m.entry.revoked => after[m.kid].revoked)
  <2>1. m.kid \in DOMAIN after /\ m.entry \in copies(m.kid)
    BY <1>1, <1>6 DEF Copies
  <2>. QED BY <2>1, <1>3
<1>. QED BY <1>4, <1>5, <1>6

-----------------------------------------------------------------------------
(* The inductive invariant.                                                *)

\* Every registry holds keys of its role.
RolesKept ==
  /\ DOMAIN keys = Registries
  /\ \A r \in Registries : Bindings(keys[r], RoleOf[r])

\* Every rendered set is well formed, and its members bind the keys of the evidence and carry the
\* revocations that travel with it.
SetsCarry ==
  \A s \in jwks :
    /\ s \in Jwks
    /\ \A m \in s.members : m.entry.key.role = m.role
    /\ \A e \in s.confirmed : \E m \in s.members : m.kid = e.key_id /\ m.entry.key = e.signer
    /\ \A i \in s.retired : \E m \in s.members : m.kid = i /\ m.entry.revoked

\* What is known revoked is held revoked.
RetiredHeld == \A r \in Registries : \A i \in retired[r] : i \in DOMAIN keys[r] /\ keys[r][i].revoked

HistoryTypeOK ==
  confirmed \in [Registries -> SUBSET SignedEvents] /\ retired \in [Registries -> SUBSET KeyIds]

RegistryInv == HistoryTypeOK /\ RolesKept /\ SetsCarry /\ RetiredHeld /\ EvidenceLasts

\* A registry whose entries grow keeps the evidence and the revocations it holds.
LEMMA GrowthKeeps ==
  ASSUME RegistryInv, NEW r \in Registries, NEW next, Grows(keys[r], next)
  PROVE  /\ \A e \in confirmed[r] : e.key_id \in DOMAIN next /\ next[e.key_id].key = e.signer
         /\ \A i \in retired[r] : i \in DOMAIN next /\ next[i].revoked
  BY DEF RegistryInv, RetiredHeld, EvidenceLasts, Check, Held, Grows

\* The initial registries are empty.
LEMMA RegistryInvInit == RegistryInit => RegistryInv
<1>. SUFFICES ASSUME RegistryInit PROVE RegistryInv
  OBVIOUS
<1>1. \A r \in Registries : DOMAIN keys[r] = {}
  BY DEF RegistryInit
<1>2. HistoryTypeOK /\ SetsCarry /\ RetiredHeld /\ EvidenceLasts
  BY DEF RegistryInit, HistoryTypeOK, SetsCarry, RetiredHeld, EvidenceLasts
<1>3. RolesKept
  BY <1>1 DEF RegistryInit, RolesKept, Bindings
<1>. QED BY <1>2, <1>3 DEF RegistryInv

\* Every call keeps the invariant.
LEMMA RegistryInvNext == RegistryInv /\ [RegistryNext]_registryVars => RegistryInv'
<1>. SUFFICES ASSUME RegistryInv, [RegistryNext]_registryVars PROVE RegistryInv'
  OBVIOUS
<1>. USE DEF RegistryInv
<1>0. \A r \in Registries : RoleOf[r] \in Roles
  BY RegistryAssumption
<1>1. ASSUME NEW r \in Registries, Register(r) PROVE RegistryInv'
  <2>1. PICK id \in KeyIds, key \in Keys, algorithm \in Algorithms :
          /\ key.role = RoleOf[r]
          /\ keys' = [keys EXCEPT ![r] = Registered(keys[r], id, key, algorithm)]
          /\ UNCHANGED <<jwks, confirmed, retired>>
    BY <1>1 DEF Register
  <2> DEFINE next == Registered(keys[r], id, key, algorithm)
  <2>2. Grows(keys[r], next) /\ Bindings(next, RoleOf[r])
    BY <2>1, RegisteredGrows DEF RolesKept
  <2>3. \A q \in Registries : keys'[q] = IF q = r THEN next ELSE keys[q]
    BY <2>1 DEF RolesKept
  <2>. HIDE DEF next
  <2>4. RolesKept'
    BY <2>1, <2>2, <2>3 DEF RolesKept
  <2>5. HistoryTypeOK' /\ SetsCarry'
    BY <2>1 DEF HistoryTypeOK, SetsCarry
  <2>6. RetiredHeld' /\ EvidenceLasts'
    BY <2>1, <2>2, <2>3, GrowthKeeps DEF RetiredHeld, EvidenceLasts, Check, Held
  <2>. QED BY <2>4, <2>5, <2>6
<1>2. ASSUME NEW r \in Registries, Revoke(r) PROVE RegistryInv'
  <2>1. PICK id \in DOMAIN keys[r] :
          /\ keys' = [keys EXCEPT ![r] = Revoked(keys[r], id)]
          /\ retired' = [retired EXCEPT ![r] = retired[r] \cup {id}]
          /\ UNCHANGED <<jwks, confirmed>>
    BY <1>2 DEF Revoke
  <2> DEFINE next == Revoked(keys[r], id)
  <2>2. Grows(keys[r], next) /\ Bindings(next, RoleOf[r]) /\ id \in DOMAIN next /\ next[id].revoked
    BY <2>1, RevokedGrows DEF RolesKept
  <2>3. \A q \in Registries : keys'[q] = IF q = r THEN next ELSE keys[q]
    BY <2>1 DEF RolesKept
  <2>4. id \in KeyIds
    BY <2>1 DEF RolesKept, Bindings
  <2>. HIDE DEF next
  <2>5. RolesKept'
    BY <2>1, <2>2, <2>3 DEF RolesKept
  <2>6. HistoryTypeOK' /\ SetsCarry'
    BY <2>1, <2>4 DEF HistoryTypeOK, SetsCarry
  <2>7. RetiredHeld' /\ EvidenceLasts'
    BY <2>1, <2>2, <2>3, GrowthKeeps DEF RetiredHeld, EvidenceLasts, Check, Held, HistoryTypeOK
  <2>. QED BY <2>5, <2>6, <2>7
<1>3. ASSUME NEW r \in Registries, ToJwks(r) PROVE RegistryInv'
  <2> DEFINE set == [members |-> Rendered(r), confirmed |-> confirmed[r], retired |-> retired[r]]
  <2>1. jwks' = jwks \cup {set} /\ UNCHANGED <<keys, confirmed, retired>>
    BY <1>3 DEF ToJwks
  <2>2. Rendered(r) \subseteq [kid: KeyIds, role: Roles, entry: Entries]
    BY <1>0 DEF Rendered, RolesKept, Bindings
  <2>3. set \in Jwks
    BY <2>2 DEF Jwks, HistoryTypeOK
  <2>4. /\ \A m \in Rendered(r) : m.entry.key.role = m.role
        /\ \A e \in confirmed[r] : \E m \in Rendered(r) : m.kid = e.key_id /\ m.entry.key = e.signer
        /\ \A i \in retired[r] : \E m \in Rendered(r) : m.kid = i /\ m.entry.revoked
    <3>1. ASSUME NEW i \in DOMAIN keys[r]
          PROVE  \E m \in Rendered(r) : m.kid = i /\ m.entry = keys[r][i]
      <4>1. [kid |-> i, role |-> RoleOf[r], entry |-> keys[r][i]] \in Rendered(r)
        BY <3>1 DEF Rendered
      <4>. QED BY <4>1
    <3>2. \A m \in Rendered(r) : m.entry.key.role = m.role
      BY DEF Rendered, RolesKept, Bindings
    <3>3. \A e \in confirmed[r] : \E m \in Rendered(r) : m.kid = e.key_id /\ m.entry.key = e.signer
      BY <3>1 DEF EvidenceLasts, Check, Held
    <3>4. ASSUME NEW i \in retired[r]
          PROVE  \E m \in Rendered(r) : m.kid = i /\ m.entry.revoked
      <4>1. i \in DOMAIN keys[r] /\ keys[r][i].revoked
        BY DEF RetiredHeld
      <4>2. PICK m \in Rendered(r) : m.kid = i /\ m.entry = keys[r][i]
        BY <3>1, <4>1
      <4>. QED BY <4>1, <4>2
    <3>. QED BY <3>2, <3>3, <3>4
  <2>5. SetsCarry'
    BY <2>1, <2>3, <2>4 DEF SetsCarry
  <2>. QED BY <2>1, <2>5 DEF HistoryTypeOK, RolesKept, RetiredHeld, EvidenceLasts, Check, Held
<1>4. ASSUME NEW r \in Registries, LoadJwks(r) PROVE RegistryInv'
  <2>1. PICK sets \in SUBSET jwks :
          /\ Loadable(r, Read(sets))
          /\ keys' = [keys EXCEPT ![r] = Loaded(r, Read(sets))]
          /\ confirmed' = [confirmed EXCEPT ![r] = confirmed[r] \cup UNION {s.confirmed : s \in sets}]
          /\ retired' = [retired EXCEPT ![r] = retired[r] \cup UNION {s.retired : s \in sets}]
          /\ UNCHANGED jwks
    BY <1>4 DEF LoadJwks
  <2> DEFINE members == Read(sets)
             next == Loaded(r, members)
  <2>2. /\ members \in SUBSET [kid: KeyIds, role: Roles, entry: Entries]
        /\ \A m \in members : m.entry.key.role = m.role
    BY <2>1 DEF Read, SetsCarry, Jwks
  <2>3. /\ Grows(keys[r], next) /\ Bindings(next, RoleOf[r])
        /\ \A m \in members : /\ m.kid \in DOMAIN next /\ next[m.kid].key = m.entry.key
                              /\ m.entry.revoked => next[m.kid].revoked
    BY <2>1, <2>2, LoadedGrows DEF RolesKept
  <2>4. \A q \in Registries : keys'[q] = IF q = r THEN next ELSE keys[q]
    BY <2>1 DEF RolesKept
  <2>5. ASSUME NEW s \in sets
        PROVE  /\ \A e \in s.confirmed : e.key_id \in DOMAIN next /\ next[e.key_id].key = e.signer
               /\ \A i \in s.retired : i \in DOMAIN next /\ next[i].revoked
               /\ s.confirmed \subseteq SignedEvents /\ s.retired \subseteq KeyIds
    <3>1. s.members \subseteq members
      BY <2>5 DEF Read
    <3>. HIDE DEF next, members
    <3>. QED BY <2>1, <2>3, <2>5, <3>1 DEF SetsCarry, Jwks
  <2>. HIDE DEF next, members
  <2>6. RolesKept'
    BY <2>1, <2>3, <2>4 DEF RolesKept
  <2>7. HistoryTypeOK' /\ SetsCarry'
    <3>1. /\ UNION {s.confirmed : s \in sets} \subseteq SignedEvents
          /\ UNION {s.retired : s \in sets} \subseteq KeyIds
      BY <2>5
    <3>. QED BY <2>1, <3>1 DEF HistoryTypeOK, SetsCarry
  <2>8. /\ \A q \in Registries \ {r} : confirmed'[q] = confirmed[q] /\ retired'[q] = retired[q]
        /\ \A e \in confirmed'[r] : e.key_id \in DOMAIN next /\ next[e.key_id].key = e.signer
        /\ \A i \in retired'[r] : i \in DOMAIN next /\ next[i].revoked
    BY <2>1, <2>3, <2>5, GrowthKeeps DEF HistoryTypeOK
  <2>9. RetiredHeld' /\ EvidenceLasts'
    BY <2>4, <2>8 DEF RetiredHeld, EvidenceLasts, Check, Held
  <2>. QED BY <2>6, <2>7, <2>9
<1>5. ASSUME NEW r \in Registries, Verify(r) PROVE RegistryInv'
  <2>1. PICK e \in SignedEvents :
          /\ RejectReason(r, e) = "none"
          /\ confirmed' = [confirmed EXCEPT ![r] = confirmed[r] \cup {e}]
          /\ UNCHANGED <<keys, jwks, retired>>
    BY <1>5 DEF Verify
  <2>2. Check(r, e)
    BY <2>1 DEF RejectReason, Check, Current, Held
  <2>3. HistoryTypeOK' /\ RolesKept' /\ SetsCarry' /\ RetiredHeld'
    BY <2>1 DEF HistoryTypeOK, RolesKept, SetsCarry, RetiredHeld
  <2>4. EvidenceLasts'
    BY <2>1, <2>2 DEF EvidenceLasts, Check, Held, HistoryTypeOK
  <2>. QED BY <2>3, <2>4
<1>6. CASE UNCHANGED registryVars
  BY <1>6 DEF registryVars, HistoryTypeOK, RolesKept, SetsCarry, RetiredHeld, EvidenceLasts, Check, Held
<1>. QED BY <1>1, <1>2, <1>3, <1>4, <1>5, <1>6 DEF RegistryNext

\* The invariant holds in every behaviour.
LEMMA RegistryInvariant == RegistrySpec => []RegistryInv
<1>. QED BY RegistryInvInit, RegistryInvNext, PTL DEF RegistrySpec

-----------------------------------------------------------------------------
(* The theorems.                                                           *)

\* What a registry confirmed, or learned of with a set, it checks for ever, through rotations,
\* revocations and older sets (KeyRegistryVerifier.check over KeyRegistry.load_jwks).
THEOREM EvidenceCorrect == RegistrySpec => []EvidenceLasts
<1>1. RegistryInv => EvidenceLasts
  BY DEF RegistryInv
<1>. QED BY <1>1, RegistryInvariant, PTL

\* A key known revoked confirms nothing new (KeyRegistry.current after revoke and load_jwks).
THEOREM RevocationCorrect == RegistrySpec => []RevokedConfirmsNothing
<1>1. RegistryInv => RevokedConfirmsNothing
  BY DEF RegistryInv, RetiredHeld, RevokedConfirmsNothing, RejectReason, Current
<1>. QED BY <1>1, RegistryInvariant, PTL

\* A registry of tool keys and one of host keys share no key (load_jwks' comparison of roles).
THEOREM SeparationCorrect == RegistrySpec => []NoToolCountersigns
<1>1. RegistryInv => NoToolCountersigns
  <2>1. \A r \in Registries : RolesKept => \A k \in PublicKeys(r) : k.role = RoleOf[r]
    BY DEF RolesKept, Bindings, PublicKeys
  <2>. QED BY <2>1 DEF RegistryInv, NoToolCountersigns, RegistriesDisjoint
<1>. QED BY <1>1, RegistryInvariant, PTL
=============================================================================
