\* Level 2: a record under way at a restart lands after resume has read the chain.
SPECIFICATION Spec
CONSTANTS
  Sessions = {"s1"}
  OpIds = {"a", "b"}
  Keys = {"k1"}
  MaxSignerSeq = 1
  Bodies = {0}
  Events <- L2Events
  Arrivals <- L2Arrivals
  Level2 = TRUE
  Countersigned = FALSE
  Durable = TRUE
  NoRequest = NoRequest
  NoRecord = NoRecord
  MaxSeals = 3
  MaxForeign = 0
INVARIANT ReceivedCoversLedger
