\* Operations of one call at once, beside another session's call, or a request for input and the one that answers it.
SPECIFICATION SeamSpec
CONSTANTS
  Calls = {"c1", "c2", "c3"}
  Ops = {a, b, d, e}
  Sessions = {"s1", "s2"}
  NoCall = NoCall a = a b = b d = d e = e
  CallOf <- SeamCallOf
  SessionOf <- SeamSessionOf
  After <- SeamAfter
  MaxHeld = 1
  MaxRequests = 3
INVARIANTS SeamTypeOK OneFramePerRequest OutcomesNoLaterThanResult ActsOnlyIfGranted ClosingLosesNothing EventsOnceInOrder
PROPERTIES RequestsAnswered
CHECK_DEADLOCK FALSE
