CONSTANTS
  Machines <- MCMachines
  Here <- MCHere
  Broken <- MCBroken
  MaxCalls = 2
  MaxFaults = 1
  MaxEdits = 2
  None = None
SPECIFICATION Spec
INVARIANTS
  ResidentBounded
  DeletedIsGone
  TranslateHasEngine
  SuiteRuns
CHECK_DEADLOCK FALSE
