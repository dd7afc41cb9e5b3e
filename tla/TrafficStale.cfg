SPECIFICATION Spec
CONSTANTS
  a1 = a1
  a2 = a2
  Addr <- MCAddr
  NoAddr = NoAddr
  Reports <- MCJumps
  MAX_TRACKING_OBJECTS = 2
  ENTRY_EXPIRATION_TIME = 1
  EXPORT_EXPIRATION_TIME = 1
  APRS_EXPORT_AIRCRAFT = 0
  ogn_range = 4
  ogn_itrackbit = FALSE
  ogn_istealthbit = TRUE
  SyncTimes = {}
  MaxClock = 4
  MaxHeard = 4
INVARIANT FoundIsNewest
