SPECIFICATION Spec
CONSTANTS
  APRS_REGISTER_REC = 16
  APRS_CHECK_KEEPALIVE_TIME = 2
  APRS_CHECK_WIFI_TIME = 15
  TIME_TO_REREG = 1
  SILENCE = 6
  AP_TIME = 6
  ogn_rxidle = 3
  ogn_sleepmode = FALSE
  StaticPosition = FALSE
  SERVER_PERIOD = 1
  Window = 1
  PassTime = 1
PROPERTY OnlySilentDropped
