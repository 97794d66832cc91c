CONSTANTS
  Platform = "windows"
  Texts <- MCTexts
  Stored <- MCStored
  Taken <- MCTaken
  Packs <- MCPacks
  MaxSaves = 1
  MaxPolishes = 1
  MaxKeys = 2
  None = None
SPECIFICATION HotkeysSpec
INVARIANTS
  RegisteredIsRouted
PROPERTIES
  EdgesAlternate
CHECK_DEADLOCK FALSE
