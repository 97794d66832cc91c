CONSTANTS
  Prefs = {"zh", "en"}
  Models = {"small", "large"}
  Recommended = "small"
  OldUrls = {"good", "bad"}
  Copied = {None}
  Parts = 2
  Savers = {"saver"}
  MaxOps = 2
  MaxFaults = 1
  MaxCrashes = 1
  None = None
SPECIFICATION Spec
INVARIANTS
  SavedIsWhatRuns
  
  ChoiceKept
CHECK_DEADLOCK FALSE
