SPECIFICATION Spec
CONSTANTS
  a1 = a1
  a2 = a2
  Addr <- MCAddr
  NoAddr = NoAddr
  Reports <- MCSteady
  MAX_TRACKING_OBJECTS = 2
  ENTRY_EXPIRATION_TIME = 2
  EXPORT_EXPIRATION_TIME = 1
  APRS_EXPORT_AIRCRAFT = 1
  ogn_range = 4
  ogn_itrackbit = FALSE
  ogn_istealthbit = TRUE
  SyncTimes = {3}
  MaxClock = 4
  MaxHeard = 5
INVARIANT OnlyInvalidWithheld
