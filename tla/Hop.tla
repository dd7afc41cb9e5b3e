---------------------------------- MODULE Hop ----------------------------------
(***************************************************************************)
(* The slots of the radio: RF_SetChannel and the interval between           *)
(* transmissions (RF.cpp), for the LEGACY protocol in the European band,    *)
(* where slot 0 is channel 0 and slot 1 is channel 1.  Time is measured in  *)
(* tenths of a second.  A second begins with the pulse of the GNSS receiver *)
(* (PPS); slot 0 is 400 to 800 ms after it, slot 1 is 800 to 1200 ms after   *)
(* it.                                                                     *)
(*                                                                         *)
(* The code keeps the times TimeReference (the beginning of slot 0),         *)
(* TimeReference_2 (of slot 1), TxTimeMarker and that of the pulse; the      *)
(* model keeps the time since each of them, negative when it lies ahead and *)
(* up to the largest value the code compares it with.                       *)
(***************************************************************************)
EXTENDS Integers

CONSTANTS
  SECOND,         \* 1000 ms
  SLOT1_START,    \* beginning of slot 0 after the pulse
  SLOT1_ADVANCE,  \* the station is there so much earlier
  SLOT_DURATION,
  TX_INTERVAL,    \* times between two transmissions to choose from
  GnssFails,      \* may the pulse fail and the fix be lost?
  Recovery,       \* time without a stall after which all is well again
  MaxStall        \* bound of the model: the longest pass of the loop

ASSUME TimesAssumption ==
  /\ SECOND \in Nat /\ SLOT1_START \in Nat /\ SLOT1_ADVANCE \in Nat
  /\ SLOT_DURATION \in Nat /\ TX_INTERVAL \subseteq Nat
  /\ Recovery \in Nat /\ MaxStall \in Nat
  /\ SLOT1_ADVANCE <= SLOT1_START
ASSUME GnssAssumption == GnssFails \in BOOLEAN

VARIABLES
  pc,         \* "loop" before RF_SetChannel, "ground" after it
  passed,     \* has there been a pass since the last tick?
  stalled,    \* ticks of this pass
  second,     \* time since the true beginning of the second
  fix,        \* does GNSS have a fix?
  pulse,      \* time since the last pulse
  reference,  \* time since TimeReference
  reference2, \* time since TimeReference_2
  Slot,
  channel,    \* the channel the radio is on
  tx,         \* time since TxTimeMarker
  TxRandomValue,
  calm,       \* history: time since a stall or a failure of GNSS
  sent        \* history: transmissions in this slot

clocks == <<second, pulse, reference, reference2, tx>>

vars == <<pc, passed, stalled, fix, clocks, Slot, channel, TxRandomValue, calm, sent>>

-------------------------------------------------------------------------------

Advanced == SLOT1_START - SLOT1_ADVANCE       \* slot 0 from the driver's view
Second == Advanced + SLOT_DURATION + SLOT1_ADVANCE       \* ... and slot 1

(* Both slots begin within the second, a protocol's interval is at least as   *)
(* long as a slot, and all is well again when a whole second has followed    *)
(* the first pulse, and slot 0 has begun once more.                        *)
ASSUME RecoveryAssumption ==
  /\ Second < SECOND /\ Advanced < Second
  /\ \A n \in TX_INTERVAL : n >= Second - Advanced /\ n >= SECOND + Advanced - Second
  /\ Recovery >= 2 * SECOND + Advanced

(* The slot a station that hears the pulse has to be in.                    *)
TrueSlot == IF second \in Advanced .. Second - 1 THEN 0 ELSE 1

(* A time past is counted up to "limit".                                    *)
Later(t, limit) == IF t < limit THEN t + 1 ELSE t

(* The first pass has announced the station (ognbase.ino:340).              *)
Init ==
  /\ pc = "loop" /\ passed = FALSE /\ stalled = 0
  /\ second \in 0 .. SECOND - 1
  /\ fix = TRUE /\ pulse = second
  /\ reference = SECOND /\ reference2 = SECOND
  /\ Slot = 0 /\ channel = 0
  /\ tx = 0 /\ TxRandomValue \in TX_INTERVAL
  /\ calm = 0 /\ sent = 1

-------------------------------------------------------------------------------
(* RF_SetChannel. *)

(* One call of it, at the beginning of a pass of the loop.                  *)
Pass == /\ pc = "loop"
        /\ pc' = "ground" /\ passed' = TRUE /\ stalled' = 0
        /\ UNCHANGED <<fix, second, pulse, sent>>

(* Mutant: the advance is added. *)
NewSecondLate ==
  /\ Pass
  /\ fix /\ reference >= SECOND
  /\ reference' = pulse - (SLOT1_START + SLOT1_ADVANCE)
  /\ reference' < SECOND
  /\ Slot' = 0 /\ channel' = 0
  /\ tx' = reference'
  /\ TxRandomValue' \in SLOT1_ADVANCE .. SLOT1_ADVANCE + SLOT_DURATION - 1
  /\ UNCHANGED <<reference2, calm>>

(* The time of a new slot 0 is taken from the last pulse; it may lie ahead. *)
NewSecond ==
  /\ Pass
  /\ fix /\ reference >= SECOND
  /\ reference' = pulse - Advanced
  /\ reference' < SECOND
  /\ Slot' = 0 /\ channel' = 0
  /\ tx' = reference'
  /\ TxRandomValue' \in SLOT1_ADVANCE .. SLOT1_ADVANCE + SLOT_DURATION - 1
  /\ UNCHANGED <<reference2, calm>>

(* Mutant: the radio hops and sends on. *)
PulseIgnored ==
  /\ Pass
  /\ fix /\ reference >= SECOND
  /\ reference' = pulse - Advanced
  /\ reference' >= SECOND
  /\ Slot' = 0 /\ channel' = 0
  /\ UNCHANGED <<reference2, tx, TxRandomValue, calm>>

(* The pulse has stopped: no hop, and nothing is sent.                      *)
PulseLost ==
  /\ Pass
  /\ fix /\ reference >= SECOND
  /\ reference' = pulse - Advanced
  /\ reference' >= SECOND
  /\ Slot' = 0
  /\ tx' = 0
  /\ UNCHANGED <<reference2, channel, TxRandomValue, calm>>

(* Mutant: slot 1 is counted from the pass that finds it. *)
SlotFromPass ==
  /\ Pass
  /\ fix /\ reference < SECOND /\ reference2 >= SECOND
  /\ reference2' = 0
  /\ Slot' = 1 /\ channel' = 1
  /\ tx' = reference2'
  /\ TxRandomValue' \in 0 .. SLOT_DURATION - 1
  /\ UNCHANGED <<reference, calm>>

(* The comparison with SECOND is signed, and true of the slot 1 of a second *)
(* ago even when TimeReference lies ahead.                                  *)
SecondSlot ==
  /\ Pass
  /\ fix /\ reference < SECOND /\ reference2 >= SECOND
  /\ reference2' = reference - (SLOT_DURATION + SLOT1_ADVANCE)
  /\ Slot' = 1 /\ channel' = 1
  /\ tx' = reference2'
  /\ TxRandomValue' \in 0 .. SLOT_DURATION - 1
  /\ UNCHANGED <<reference, calm>>

SameSlot ==
  /\ Pass
  /\ fix /\ reference < SECOND /\ reference2 < SECOND
  /\ UNCHANGED <<reference, reference2, Slot, channel, tx, TxRandomValue, calm>>

(* Without a fix there are no slots, but the channel is set.                *)
NoFix ==
  /\ Pass
  /\ ~fix
  /\ channel' = Slot
  /\ calm' = 0
  /\ UNCHANGED <<reference, reference2, Slot, tx, TxRandomValue>>

-------------------------------------------------------------------------------
(* The rest of the pass. *)

(* The difference is unsigned: a marker that lies ahead is long ago.        *)
IntervalOver == tx < 0 \/ tx > TxRandomValue

(* Mutant: the interval of the slot, not that of the protocol. *)
TransmitSoon ==
  /\ pc = "ground" /\ IntervalOver
  /\ tx' = 0 /\ TxRandomValue' \in 0 .. SLOT_DURATION - 1
  /\ channel' = 0
  /\ sent' = Later(sent, 2)
  /\ pc' = "loop"
  /\ UNCHANGED <<passed, stalled, fix, second, pulse, reference, reference2, Slot, calm>>

(* A relay sends a packet it has received, and leaves channel 0 set.        *)
Transmit ==
  /\ pc = "ground" /\ IntervalOver
  /\ tx' = 0 /\ TxRandomValue' \in TX_INTERVAL
  /\ channel' = 0
  /\ sent' = Later(sent, 2)
  /\ pc' = "loop"
  /\ UNCHANGED <<passed, stalled, fix, second, pulse, reference, reference2, Slot, calm>>

NothingToSend ==
  /\ pc = "ground"
  /\ pc' = "loop"
  /\ UNCHANGED <<passed, stalled, fix, clocks, Slot, channel, TxRandomValue, calm, sent>>

(* 100 ms go by: many short passes, or a part of a long one.  The interrupt *)
(* of the pulse comes in any case.                                          *)
Tick ==
  /\ \/ pc = "loop" /\ passed /\ calm' = Later(calm, Recovery)
     \/ stalled < MaxStall /\ calm' = 0
  /\ passed' = FALSE
  /\ stalled' = IF pc = "loop" /\ passed THEN stalled ELSE stalled + 1
  /\ second' = IF second = SECOND - 1 THEN 0 ELSE second + 1
  /\ pulse' = IF second' = 0 THEN 0 ELSE Later(pulse, SECOND + Advanced)
  /\ reference' = Later(reference, SECOND)
  /\ reference2' = Later(reference2, SECOND)
  /\ tx' = Later(tx, 2 * SECOND)
  /\ sent' = IF second' \in {Advanced, Second} THEN 0 ELSE sent
  /\ UNCHANGED <<pc, fix, Slot, channel, TxRandomValue>>

(* ... unless GNSS has failed.                                             *)
TickWithoutPulse ==
  /\ GnssFails
  /\ pc = "loop" /\ passed
  /\ second = SECOND - 1 /\ second' = 0
  /\ pulse' = Later(pulse, SECOND + Advanced)
  /\ passed' = FALSE
  /\ calm' = 0
  /\ reference' = Later(reference, SECOND)
  /\ reference2' = Later(reference2, SECOND)
  /\ tx' = Later(tx, 2 * SECOND)
  /\ UNCHANGED <<pc, stalled, fix, Slot, channel, TxRandomValue, sent>>

(* A fix is found by GNSS_loop, at the end of a pass, and ages at any time. *)
ChangeFix ==
  /\ GnssFails
  /\ fix \/ pc = "loop"
  /\ fix' = ~fix
  /\ calm' = 0
  /\ UNCHANGED <<pc, passed, stalled, clocks, Slot, channel, TxRandomValue, sent>>

Next ==
  \/ NewSecond \/ PulseLost \/ SecondSlot \/ SameSlot \/ NoFix
  \/ Transmit \/ NothingToSend
  \/ Tick \/ TickWithoutPulse \/ ChangeFix

Spec == Init /\ [][Next]_vars

-------------------------------------------------------------------------------
(* Properties. *)

(* Type correctness, with the ranges of the times: a beginning of a slot    *)
(* never lies further ahead than it is after the pulse.                     *)
TypeOK ==
  /\ pc \in {"loop", "ground"} /\ passed \in BOOLEAN /\ stalled \in 0 .. MaxStall
  /\ second \in 0 .. SECOND - 1 /\ fix \in BOOLEAN
  /\ pulse \in 0 .. SECOND + Advanced
  /\ reference \in -Advanced .. SECOND
  /\ reference2 \in -Second .. SECOND
  /\ Slot \in {0, 1} /\ channel \in {0, 1}
  /\ tx \in -Second .. 2 * SECOND
  /\ TxRandomValue \in Nat
  /\ calm \in 0 .. Recovery /\ sent \in 0 .. 2

InTrueSlot == channel = TrueSlot

(* However long the loop was held up and whatever GNSS did, some time later *)
(* every pass leaves a station that has not sent in this slot on the        *)
(* channel of the slot, although each reference is derived from another.    *)
HopsAgain == pc = "ground" /\ passed /\ calm >= Recovery /\ sent = 0 => InTrueSlot

(* A station that is not held up sends once per slot at most, although      *)
(* every new slot sets the interval to a shorter one (RF.cpp:241, 250).     *)
OncePerSlot == calm >= Recovery => sent <= 1

(* "has PPS stopped ? if so no Tx" (RF.cpp:234-236): with a fix but without *)
(* the pulse a station that is not held up sends nothing.                   *)
SilentWithoutPulse ==
  [][pulse = SECOND + Advanced /\ fix /\ passed /\ stalled = 0 => sent' <= sent]_vars

===============================================================================
