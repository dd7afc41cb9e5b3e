--------------------------- MODULE ReceptionProofs -----------------------------
(***************************************************************************)
(* Theorems about the reception of packets of the legacy protocol: those   *)
(* of the clock carry over, and what is decoded with the right key is near *)
(* the truth.                                                              *)
(***************************************************************************)
EXTENDS Reception, ClockProofs, LegacyProofs

(* A report is what legacy_decode makes of a packet.                       *)
Decoded == report # NoReport => \E p \in Packets : report = legacy_decode(p)

LEMMA ReceptionIsClock == ReceptionSpec => Spec
<1>1. ReceptionInit => Init
  BY DEF ReceptionInit
<1>2. [ReceptionNext]_rvars => [Next]_vars
  BY DEF ReceptionNext, rvars, Receive, Next
<1> QED BY <1>1, <1>2, PTL DEF ReceptionSpec, Spec

LEMMA DecodedHolds == ReceptionSpec => []Decoded
<1>1. ReceptionInit => Decoded
  BY DEF ReceptionInit, Decoded
<1>2. Decoded /\ [ReceptionNext]_rvars => Decoded'
  <2> SUFFICES ASSUME Decoded, [ReceptionNext]_rvars PROVE Decoded'
    OBVIOUS
  <2>1. CASE report' = NoReport \/ report' = report
    BY <2>1 DEF Decoded, legacy_decode
  <2>2. ASSUME NEW p \in Packets, report' = legacy_decode(p)
        PROVE  Decoded'
    BY <2>2 DEF Decoded, legacy_decode
  <2> QED BY <2>1, <2>2 DEF ReceptionNext, Receive, rvars
<1> QED BY <1>1, <1>2, PTL DEF ReceptionSpec

-------------------------------------------------------------------------------
(* Type correctness of the clock, while packets are received.               *)
THEOREM TypeCorrect == ReceptionSpec => []TypeOK
BY ReceptionIsClock, ClockTypeCorrect

(* The clock is never ahead of the truth (GNSSTimeSync, PickGNSSFix).       *)
THEOREM NeverAheadHolds == ReceptionSpec => []NeverAhead
BY ReceptionIsClock, ClockNeverAhead

(* A setting of the clock (GNSSTimeSync) gives the time of day but for what  *)
(* a sentence may wait.                                                    *)
THEOREM SetNearHolds == ReceptionSpec => SetNear
BY ReceptionIsClock, ClockSetNear

(* Undisturbed, the clock is right again after two periods and three stalls. *)
THEOREM WrongBoundHolds == ReceptionSpec => []WrongBound
BY ReceptionIsClock, ClockWrongBound

(* legacy_decode: with the 19 bits of a latitude or the 20 of a longitude,   *)
(* the position of a report is less than a step below that of the packet,   *)
(* for every station and every aircraft within half a period of it.         *)
THEOREM NearTruthHolds ==
  ASSUME BitsPeriod \in {LatPeriod, LonPeriod}
  PROVE  ReceptionSpec => []NearTruth
<1>1. Decoded => NearTruth
  <2> SUFFICES ASSUME NEW p \in Packets, report = legacy_decode(p),
                      InRange(report.of.pos, Reference, BitsPeriod)
               PROVE  report.of.pos - report.pos \in 0 .. Step - 1
    BY DEF Decoded, NearTruth
  <2>1. /\ p.pos \in Int /\ Reference \in Int
        /\ report.of.pos = p.pos
        /\ report.pos = restored(lowBits(p.pos, BitsPeriod), Reference, BitsPeriod)
    BY ReceptionAssumption DEF ReceptionAssumption, legacy_decode
  <2>2. CASE BitsPeriod = LatPeriod
    BY <2>1, <2>2, LatitudeRestored
  <2>3. CASE BitsPeriod = LonPeriod
    BY <2>1, <2>3, LongitudeRestored
  <2> QED BY <2>2, <2>3
<1> QED BY <1>1, DecodedHolds, PTL

(* legacy_encode, legacy_decode: the two speeds of a report are those of the *)
(* packet but for the common exponent, for all speeds.                      *)
THEOREM SpeedKeptHolds == ReceptionSpec => []SpeedKept
<1>1. Decoded => SpeedKept
  <2> SUFFICES ASSUME NEW p \in Packets, report = legacy_decode(p)
               PROVE  Faithful(report.of.speed4, report.of.vs10)
    BY DEF Decoded, SpeedKept
  <2>1. report.of = p /\ p.speed4 \in Nat /\ p.vs10 \in Int
    BY ReceptionAssumption DEF ReceptionAssumption, legacy_decode
  <2> QED BY <2>1, SpeedsFaithful
<1> QED BY <1>1, DecodedHolds, PTL

===============================================================================
