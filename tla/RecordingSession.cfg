CONSTANTS
  RecordCalls = {r1, r2}
  TranslateCalls = {t1}
  UiCalls = {u1}
  Failures = {"prepare", "audio", "connect", "record", "drain"}
SPECIFICATION FairSessionSpec
INVARIANTS
  GuardOwned
  HudGoneWhenIdle
PROPERTIES
  StopKept
  SerialSpec
  ToggleEndsSession
CHECK_DEADLOCK FALSE
