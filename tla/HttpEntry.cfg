SPECIFICATION EntrySpec
CONSTANTS
  Instances = {"i1", "i2"}
  Sessions = {"s1", "s2"}
  MaxPosts = 3
  MaxRounds = 2
  MaxHeldCalls = 1
INVARIANTS EntryTypeOK RefusedNotServed TokenServedOnce RoundStaysOpen EntryCutsNothing
PROPERTIES IdleCallsClose PostsAnswered
CHECK_DEADLOCK FALSE
