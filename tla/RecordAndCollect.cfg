CONSTANTS
  Chars = {a, b}
  MaxFrames = 3
  Failures = {"connect", "start", "source", "feed", "stop", "finish", "read", "close", "answer", "chunk", "final"}
SPECIFICATION FairSpec
INVARIANTS
  HeardInOrder
  ScreenIsSpoken
PROPERTIES
  QuietAfterOk
  StopEnds
CHECK_DEADLOCK FALSE
