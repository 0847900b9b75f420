\* Level 2: an action is cancelled while the host decides its attempt.
SPECIFICATION CallSpec
CONSTANTS
  Sessions = {"s1"}
  OpIds = {"a", "b"}
  Keys = {"k1"}
  MaxSignerSeq = 3
  Bodies = {0}
  Events <- CallEvents
  Arrivals <- NoArrivals
  Level2 = TRUE
  Countersigned = FALSE
  Durable = TRUE
  NoRequest = NoRequest
  NoRecord = NoRecord
  NoOp = NoOp
  TheSession = "s1"
  TheKey = "k1"
  MaxSeals = 4
  MaxForeign = 0
INVARIANT NumberUnheard
CHECK_DEADLOCK FALSE
