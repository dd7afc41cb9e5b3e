SPECIFICATION Spec
CONSTANTS
  SECOND = 10
  SLOT1_START = 4
  SLOT1_ADVANCE = 1
  SLOT_DURATION = 4
  TX_INTERVAL = {6, 9, 13}
  GnssFails = TRUE
  Recovery = 23
  MaxStall = 12
INVARIANTS TypeOK HopsAgain OncePerSlot
PROPERTIES SilentWithoutPulse
