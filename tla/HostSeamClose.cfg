SPECIFICATION Spec
CONSTANTS
  rich = rich
  plain = plain
  streamed = streamed
  Calls = {rich, plain}
  Frames <- AttemptFrames
  MaxRounds = 1
  MaxHeld = 1
  MaxEvents = 1
INVARIANT ClosingLogsUndone
CHECK_DEADLOCK FALSE
