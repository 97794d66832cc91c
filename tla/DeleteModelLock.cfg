CONSTANTS
  Prefs = {"zh", "en"}
  Models = {"small", "large"}
  Recommended = "small"
  OldUrls = {""}
  Copied = {None}
  Parts = 4
  Savers = {"saver"}
  MaxOps = 1
  MaxFaults = 0
  MaxCrashes = 0
  None = None
SPECIFICATION FairSpec
PROPERTIES
  CommandsEnd
CHECK_DEADLOCK FALSE
