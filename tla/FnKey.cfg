CONSTANTS
  RecordCalls = {1, 2}
  TranslateCalls = {}
  UiCalls = {}
  Failures = {"record"}
  SingleKey = TRUE
  Repost = TRUE
  MaxPress = 2
  MaxDrops = 1
SPECIFICATION FairSpec
INVARIANTS
  TimersAreCurrent
PROPERTIES
  ToggleReleaseNeverStops
  ReleaseAnswered
CHECK_DEADLOCK FALSE
