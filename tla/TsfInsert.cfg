CONSTANTS
  Texts = 2
  Profiles = {"pinyin", "us"}
  MaxSwitches = 1
  MaxCrashes = 1
  None = None
SPECIFICATION Spec
INVARIANTS
  CommittedIsTrue
  NotLeftInOpenIme
CHECK_DEADLOCK FALSE
