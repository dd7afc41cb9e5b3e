SPECIFICATION FairSpec
CONSTANTS
  ognrelay_enable = TRUE
  ognrelay_base = FALSE
  Hopping = TRUE
  Hops = {0, 1}
  RELAY_CHANNEL = 4
  MaxHeard = 3
INVARIANTS TypeOK NotDeaf FlagsSeen DeliveredOnce RelayedOnce NotStuck
PROPERTIES NotCutOff TransmitAdvances TransmitEnds Listens
