\* Level 1, countersigned, durable: failed and late appends, cancellations, restarts.
SPECIFICATION Spec
CONSTANTS
  Sessions = {"s1"}
  OpIds = {"a"}
  Keys = {"k1"}
  MaxSignerSeq = 0
  Bodies = {0,1}
  Events <- L1Events
  Arrivals <- L1Arrivals
  Level2 = FALSE
  Countersigned = TRUE
  Durable = TRUE
  NoRequest = NoRequest
  NoRecord = NoRecord
  MaxSeals = 3
  MaxForeign = 0
INVARIANTS NoSilentAccept
PROPERTIES ImplementsLog
