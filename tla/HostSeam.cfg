SPECIFICATION SeamSpec
CONSTANTS
  rich = rich
  plain = plain
  streamed = streamed
  Calls = {rich, plain, streamed}
  Frames <- SeamFrames
  MaxRounds = 1
  MaxHeld = 1
  MaxEvents = 2
INVARIANTS HostSeamTypeOK OutcomesReachHost GrantsTold ClosingLogsLosses
PROPERTIES ClientToldOnce CallsGoOn
CHECK_DEADLOCK FALSE
