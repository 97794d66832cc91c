CONSTANTS
  Names = {ann, bob}
  Empty = Empty
  Aliases = {"mail", "post"}
  English = {"post"}
  BuiltinPacks <- MCBuiltinPacks
  UserPack = "user"
  MaxEdits = 2
  MaxSaves = 2
  MaxCrashes = 1
  None = None
SPECIFICATION Spec
INVARIANTS
  
  CombosFollowName
SYMMETRY NameSymmetry
CHECK_DEADLOCK FALSE
