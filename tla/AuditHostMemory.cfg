\* No repository: Level 2, countersigned, two sessions that use one operation id.
SPECIFICATION Spec
CONSTANTS
  Sessions = {"s1", "s2"}
  OpIds = {"a", "b"}
  Keys = {"k1"}
  MaxSignerSeq = 1
  Bodies = {0}
  Events <- MemoryEvents
  Arrivals <- MemoryArrivals
  Level2 = TRUE
  Countersigned = TRUE
  Durable = FALSE
  NoRequest = NoRequest
  NoRecord = NoRecord
  MaxSeals = 4
  MaxForeign = 0
INVARIANTS ReceivedCoversLedger
PROPERTIES CloseFlagsOnlyUnresolved
