\* Two concurrent Level-2 actions: timeouts, cancellations, lost frames, failed and late appends.
SPECIFICATION CallSpec
CONSTANTS
  Sessions = {"s1"}
  OpIds = {"a", "b"}
  Keys = {"k1"}
  MaxSignerSeq = 3
  Bodies = {0}
  Events <- CallEvents
  Arrivals <- NoArrivals
  Level2 = TRUE
  Countersigned = TRUE
  Durable = TRUE
  NoRequest = NoRequest
  NoRecord = NoRecord
  NoOp = NoOp
  TheSession = "s1"
  TheKey = "k1"
  MaxSeals = 4
  MaxForeign = 0
INVARIANTS CallTypeOK AuditBeforeAct NoSilentAct
PROPERTIES HonestNeverReplayed EveryActionEnds
CHECK_DEADLOCK FALSE
