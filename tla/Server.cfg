CONSTANTS
  r1 = r1
  r2 = r2
  r3 = r3
  chat = chat
  code = code
  None = None
  Mixed = Mixed
  Request <- MCRequest
  Model <- MCModel
  Slots <- MCSlots
  Limit = 1
  Admitted = 3
  Keys <- MCKeys
  Reuses = TRUE
SPECIFICATION ServerSpec
SYMMETRY Requests
CHECK_DEADLOCK FALSE
INVARIANTS
  SlotsAreSound
  PinnedStaysOpen
  LimitComesBack
  NobodySleepsBesideAFreeSlot
