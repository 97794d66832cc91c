CONSTANTS
  a = a
  b = b
  tr = tr
  ask = ask
  here = here
  there = there
  Wake = wake
  Filler = filler
  Rewritten = rewritten
  ShortText = 1
  MaxSessions = 2
  Packs <- MCPacks
  Spoken <- MCSpoken
  Contexts <- MCContexts
SPECIFICATION FairFinalSpec
INVARIANTS
  FinalTypeOK
  TextKept
  CloudLast
  EscIsOwn
PROPERTIES
  InsertionEnds
CHECK_DEADLOCK FALSE
