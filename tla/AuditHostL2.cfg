\* Level 2, durable, a second writer: one session's signer_seq values and the chain through failed
\* and late appends and another process's record.
SPECIFICATION Spec
CONSTANTS
  Sessions = {"s1"}
  OpIds = {"a", "b"}
  Keys = {"k1"}
  MaxSignerSeq = 1
  Bodies = {0}
  Events <- L2Events
  Arrivals <- L2Arrivals
  Level2 = TRUE
  Countersigned = FALSE
  Durable = TRUE
  NoRequest = NoRequest
  NoRecord = NoRecord
  MaxSeals = 3
  MaxForeign = 1
INVARIANTS TypeOK ChainFollowsStore AcksDurable SignerSeqOnce DecidedCoversLedger
