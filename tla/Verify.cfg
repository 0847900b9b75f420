\* Countersigned chains of up to three records, altered up to three times; and every ledger of one key
\* and session: three events with values up to 4, of two operations.  And two key_ids, three keys and
\* three registries, with up to two sets rendered and one event confirmed.
SPECIFICATION VerifySpec
CONSTANTS
  Events <- VerifyEvents
  MaxRecords = 3
  MaxAlterations = 3
  Ids = {"a", "b"}
  MaxValue = 4
  MaxSealed = 3
  KeyIds = {k1, k2}
  Keys <- VerifyKeys
  Algorithms = {"ed25519", "es256"}
  Registries = {"host", "auditor", "tool"}
  RoleOf <- VerifyRoles
  MaxSets = 2
  MaxConfirmed = 1
SYMMETRY KeyIdSymmetry
CONSTRAINT FewEntries
INVARIANTS HonestChainVerifies AnchoredMeansUnaltered SignedMeansPrefix
  AccountsForRefusals EvidenceLasts RevokedConfirmsNothing
CHECK_DEADLOCK FALSE
