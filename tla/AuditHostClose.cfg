\* Level 1: an outcome whose append fails ambiguously before its session closes.
SPECIFICATION Spec
CONSTANTS
  Sessions = {"s1"}
  OpIds = {"a"}
  Keys = {"k1"}
  MaxSignerSeq = 0
  Bodies = {0,1}
  Events <- L1Events
  Arrivals <- L1Arrivals
  Level2 = FALSE
  Countersigned = FALSE
  Durable = TRUE
  NoRequest = NoRequest
  NoRecord = NoRecord
  MaxSeals = 3
  MaxForeign = 0
PROPERTY CloseInDoubt
