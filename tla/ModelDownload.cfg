CONSTANTS
  LlmCalls = {l1}
  AsrCalls = {a1}
  NFiles = 2
  NSources = 3
  Size = 2
  Cuts = {1, 2}
  Stale = {2}
  NoRange = {3}
  MaxCrashes = 1
  MaxDeletes = 1
SPECIFICATION FairSpec
INVARIANTS
  OneGoodInstall
  FailoverInstalls
PROPERTIES
  ReportIsTrue
  AsrInstallReported
CHECK_DEADLOCK FALSE
