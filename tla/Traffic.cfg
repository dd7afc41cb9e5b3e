SPECIFICATION Spec
CONSTANTS
  a1 = a1
  a2 = a2
  Addr <- MCAddr
  NoAddr = NoAddr
  Reports <- MCReports
  MAX_TRACKING_OBJECTS = 2
  ENTRY_EXPIRATION_TIME = 2
  EXPORT_EXPIRATION_TIME = 1
  APRS_EXPORT_AIRCRAFT = 1
  ogn_range = 4
  ogn_itrackbit = FALSE
  ogn_istealthbit = TRUE
  SyncTimes = {0, 3}
  MaxClock = 3
  MaxHeard = 3
INVARIANTS TypeOK SentConfirmed SentInOrder
PROPERTIES FreshReportKept FilterSpec
