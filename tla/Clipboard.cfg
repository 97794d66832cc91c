CONSTANTS
  Pastes = {1, 2, 3}
  Text <- Distinct
  Original = original
  Copies = {copy1, copy2}
  NonText = {copy2}
  NoText = none
  RestoreClipboard = TRUE
  Scenarios <- All
SPECIFICATION FairSpec
INVARIANTS
  PendingHasThread
  RestoreIsSound
  PasteDelivers
PROPERTIES
  FallbackTextStays
  ClipboardComesBack
CHECK_DEADLOCK FALSE
