SPECIFICATION FairSpec
CONSTANTS
  APRS_REGISTER_REC = 9
  APRS_CHECK_KEEPALIVE_TIME = 2
  APRS_CHECK_WIFI_TIME = 5
  TIME_TO_REREG = 1
  SILENCE = 4
  AP_TIME = 3
  ogn_rxidle = 2
  ogn_sleepmode = TRUE
  StaticPosition = TRUE
  SERVER_PERIOD = 1
  Window = 1
  PassTime = 1
INVARIANTS TypeOK FlagsAgree DeadLinkBound 
PROPERTIES SessionKept StaysRegistered 
