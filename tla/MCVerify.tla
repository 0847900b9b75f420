------------------------------- MODULE MCVerify -------------------------------
(***************************************************************************)
(* The verifier's parts, which share no state: chains of up to three       *)
(* records of two operations, the sealed events of one key and session     *)
(* taken alone, and the key registries.  A behaviour builds one of them.   *)
(***************************************************************************)
EXTENDS ChainVerify, SignerLedger, KeyRegistry

Ev(i, o, n, c) == [id |-> i, outcome |-> o, sseq |-> n, canonical |-> c, refusing |-> o = "aborted"]

\* An operation, an attempt and its abort, a refusal that shares a number with an outcome, and an event outside the
\* canonical domain: values are missing that one refusal explains, or two, or none, for an abort of a sealed attempt
\* refuses nothing.
VerifyEvents ==
  {Ev("a", "attempted", 0, TRUE), Ev("a", "success", 1, TRUE), Ev("c", "aborted", 1, TRUE),
   Ev("b", "attempted", 2, TRUE), Ev("b", "aborted", 3, TRUE), Ev("a", "success", 1, FALSE)}

\* Two tool keys, of one algorithm each, and a host's.
ToolKey == [role |-> "tool", algorithm |-> "ed25519", name |-> "t1"]
RotatedKey == [role |-> "tool", algorithm |-> "es256", name |-> "t2"]
HostKey == [role |-> "host", algorithm |-> "ed25519", name |-> "h"]

VerifyKeys == {ToolKey, RotatedKey, HostKey}

\* A host and an auditor hold tool keys; a tool holds host keys.
VerifyRoles == [r \in {"host", "auditor", "tool"} |-> IF r = "tool" THEN "host" ELSE "tool"]

\* key_ids are only compared.
KeyIdSymmetry == Permutations(KeyIds)

\* Bound: entries over all registries.
FewEntries == Cardinality({<<r, i>> \in Registries \X KeyIds : i \in DOMAIN keys[r]}) <= 4

VerifyInit == Init /\ LedgerInit /\ RegistryInit

ChainIdle == sealed = <<>> /\ alterations = -1

RegistriesIdle == jwks = {} /\ \A r \in Registries : keys[r] = <<>>

VerifyNext ==
  \/ ledger = <<>> /\ RegistriesIdle /\ Next /\ UNCHANGED <<ledger, registryVars>>
  \/ ChainIdle /\ RegistriesIdle /\ LedgerNext /\ UNCHANGED <<vars, registryVars>>
  \/ ChainIdle /\ ledger = <<>> /\ RegistryNext /\ UNCHANGED <<vars, ledger>>

VerifySpec == VerifyInit /\ [][VerifyNext]_<<vars, ledger, registryVars>>

=============================================================================
