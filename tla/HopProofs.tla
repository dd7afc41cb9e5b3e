------------------------------- MODULE HopProofs -------------------------------
(***************************************************************************)
(* Theorems about the slots, for any length of second, slots, intervals    *)
(* and stalls.  After a disturbance the times of the driver settle in       *)
(* three steps: with the first pulse that comes on time every pass leaves  *)
(* both references within a second of the truth (Settled); after the whole *)
(* second that follows each agrees with its slot (Regular); and when slot 0 *)
(* has begun once more, so do the slot, the channel and the transmissions   *)
(* (OnTime).                                                               *)
(***************************************************************************)
EXTENDS Hop, TLAPS

(* At all times the driver's times are off by whole seconds only, as far as *)
(* they are told apart, and slot 0 is not of a later pulse than the last.   *)
Aligned ==
  /\ pulse < SECOND + Advanced => pulse = second \/ pulse = second + SECOND
  /\ reference < SECOND =>
       reference = second - Advanced \/ reference = second - Advanced + SECOND
  /\ reference2 < SECOND =>
       reference2 = second - Second \/ reference2 = second - Second + SECOND
  /\ reference >= pulse - Advanced

(* "calm > second": the second has begun since the last disturbance.        *)
Settled ==
  /\ ~fix => calm <= 1 /\ (passed => calm = 0)
  /\ calm > 0 /\ ~passed => pc = "loop"
  /\ calm > second =>
       /\ pulse = second
       /\ passed => reference < SECOND
       /\ second \notin {0, Advanced} =>
            reference < SECOND /\ (passed => reference2 < SECOND)

(* Time since the last beginning of slot 0, and of slot 1.                  *)
SinceSlot0 == IF second < Advanced THEN second - Advanced + SECOND ELSE second - Advanced
SinceSlot1 == IF second < Second THEN second - Second + SECOND ELSE second - Second

(* ... and the second before it, too.                                      *)
Regular ==
  calm > second + SECOND =>
    /\ reference = IF second = Advanced /\ ~passed THEN SECOND ELSE SinceSlot0
    /\ reference2 = IF second = Second /\ ~passed THEN SECOND ELSE SinceSlot1

Recovered ==
  \/ second >= Advanced /\ calm > second + SECOND
  \/ calm > second + 2 * SECOND

SinceSlot == IF TrueSlot = 0 THEN SinceSlot0 ELSE SinceSlot1

OnTime ==
  Recovered =>
    IF second \in {Advanced, Second} /\ ~passed THEN sent = 0
    ELSE /\ Slot = TrueSlot
         /\ sent = 0 => channel = Slot
         /\ sent <= 1
         /\ sent = 1 => tx \in 0 .. SinceSlot /\ TxRandomValue \in TX_INTERVAL

(* A pass that finds the pulse gone for good sets the time of the last      *)
(* transmission to the present.                                            *)
Silent ==
  pc = "ground" /\ passed /\ fix /\ pulse = SECOND + Advanced => tx = 0

IInv == TypeOK /\ Aligned /\ Settled /\ Regular /\ OnTime /\ Silent

-------------------------------------------------------------------------------
LEMMA Bounds ==
  /\ SECOND \in Nat /\ Advanced \in Nat /\ Second \in Nat
  /\ Advanced < Second /\ Second < SECOND
  /\ SLOT_DURATION \in Nat /\ SLOT1_ADVANCE \in Nat
  /\ SLOT_DURATION + SLOT1_ADVANCE = Second - Advanced
  /\ Recovery \in Nat /\ MaxStall \in Nat /\ Recovery >= 2 * SECOND + Advanced
  /\ \A n \in TX_INTERVAL :
       n \in Nat /\ n >= Second - Advanced /\ n >= SECOND + Advanced - Second
BY TimesAssumption, RecoveryAssumption, SMT
   DEF TimesAssumption, RecoveryAssumption, Advanced, Second

LEMMA InitIInv == Init => IInv
<1> SUFFICES ASSUME Init PROVE IInv
  OBVIOUS
<1> USE Bounds DEF Init
<1>1. TypeOK
  <2>1. TxRandomValue \in Nat
    OBVIOUS
  <2>2. /\ second \in 0 .. SECOND - 1 /\ pulse \in 0 .. SECOND + Advanced
        /\ reference \in -Advanced .. SECOND /\ reference2 \in -Second .. SECOND
        /\ tx \in -Second .. 2 * SECOND
    BY SMT
  <2>3. stalled \in 0 .. MaxStall /\ calm \in 0 .. Recovery /\ sent \in 0 .. 2
    BY SMT
  <2> QED BY <2>1, <2>2, <2>3 DEF TypeOK
<1>2. Aligned
  BY SMT DEF Aligned
<1>3. Settled /\ Silent
  BY SMT DEF Settled, Silent
<1>4. Regular /\ OnTime
  BY SMT DEF Regular, OnTime, Recovered
<1> QED BY <1>1, <1>2, <1>3, <1>4 DEF IInv

LEMMA TypeStep == TypeOK /\ [Next]_vars => TypeOK'
<1> SUFFICES ASSUME TypeOK, [Next]_vars PROVE TypeOK'
  OBVIOUS
<1> USE Bounds
<1>1. CASE NewSecond
  BY <1>1, SMT DEF NewSecond, Pass, TypeOK
<1>2. CASE PulseLost
  BY <1>2, SMT DEF PulseLost, Pass, TypeOK
<1>3. CASE SecondSlot
  BY <1>3, SMT DEF SecondSlot, Pass, TypeOK
<1>4. CASE SameSlot
  BY <1>4, SMT DEF SameSlot, Pass, TypeOK
<1>5. CASE NoFix
  BY <1>5, SMT DEF NoFix, Pass, TypeOK
<1>6. CASE Transmit
  BY <1>6, SMT DEF Transmit, Later, IntervalOver, TypeOK
<1>7. CASE NothingToSend
  BY <1>7, SMT DEF NothingToSend, clocks, TypeOK
<1>8. CASE Tick
  <2>1. /\ second' \in 0 .. SECOND - 1 /\ pulse' \in 0 .. SECOND + Advanced
        /\ reference' \in -Advanced .. SECOND /\ reference2' \in -Second .. SECOND
        /\ tx' \in -Second .. 2 * SECOND
    BY <1>8, SMT DEF Tick, Later, TypeOK
  <2>2. stalled' \in 0 .. MaxStall /\ calm' \in 0 .. Recovery /\ sent' \in 0 .. 2
    BY <1>8, SMT DEF Tick, Later, TypeOK
  <2>3. pc' = pc /\ passed' = FALSE /\ fix' = fix /\ Slot' = Slot /\ channel' = channel
        /\ TxRandomValue' = TxRandomValue
    BY <1>8 DEF Tick
  <2> QED BY <2>1, <2>2, <2>3 DEF TypeOK
<1>9. CASE TickWithoutPulse
  <2>1. /\ second' \in 0 .. SECOND - 1 /\ pulse' \in 0 .. SECOND + Advanced
        /\ reference' \in -Advanced .. SECOND /\ reference2' \in -Second .. SECOND
        /\ tx' \in -Second .. 2 * SECOND
    BY <1>9, SMT DEF TickWithoutPulse, Later, TypeOK
  <2>2. stalled' \in 0 .. MaxStall /\ calm' \in 0 .. Recovery /\ sent' \in 0 .. 2
    BY <1>9, SMT DEF TickWithoutPulse, Later, TypeOK
  <2>3. pc' = pc /\ passed' = FALSE /\ fix' = fix /\ Slot' = Slot /\ channel' = channel
        /\ TxRandomValue' = TxRandomValue
    BY <1>9 DEF TickWithoutPulse
  <2> QED BY <2>1, <2>2, <2>3 DEF TypeOK
<1>10. CASE ChangeFix
  BY <1>10, SMT DEF ChangeFix, clocks, TypeOK
<1>11. CASE UNCHANGED vars
  BY <1>11, SMT DEF vars, clocks, TypeOK
<1> QED BY <1>1, <1>2, <1>3, <1>4, <1>5, <1>6, <1>7, <1>8, <1>9, <1>10, <1>11 DEF Next

LEMMA AlignedStep == TypeOK /\ Aligned /\ [Next]_vars => Aligned'
<1> SUFFICES ASSUME TypeOK /\ Aligned, [Next]_vars PROVE Aligned'
  OBVIOUS
<1> USE Bounds
<1>1. CASE NewSecond
  BY <1>1, SMT DEF NewSecond, Pass, TypeOK, Aligned
<1>2. CASE PulseLost
  BY <1>2, SMT DEF PulseLost, Pass, TypeOK, Aligned
<1>3. CASE SecondSlot
  BY <1>3, SMT DEF SecondSlot, Pass, TypeOK, Aligned
<1>4. CASE SameSlot
  BY <1>4, SMT DEF SameSlot, Pass, TypeOK, Aligned
<1>5. CASE NoFix
  BY <1>5, SMT DEF NoFix, Pass, TypeOK, Aligned
<1>6. CASE Transmit
  BY <1>6, SMT DEF Transmit, Later, IntervalOver, TypeOK, Aligned
<1>7. CASE NothingToSend
  BY <1>7, SMT DEF NothingToSend, clocks, TypeOK, Aligned
<1>8. CASE Tick
  BY <1>8, SMT DEF Tick, Later, TypeOK, Aligned
<1>9. CASE TickWithoutPulse
  BY <1>9, SMT DEF TickWithoutPulse, Later, TypeOK, Aligned
<1>10. CASE ChangeFix
  BY <1>10, SMT DEF ChangeFix, clocks, TypeOK, Aligned
<1>11. CASE UNCHANGED vars
  BY <1>11, SMT DEF vars, clocks, TypeOK, Aligned
<1> QED BY <1>1, <1>2, <1>3, <1>4, <1>5, <1>6, <1>7, <1>8, <1>9, <1>10, <1>11 DEF Next

LEMMA SettledStep == TypeOK /\ Aligned /\ Settled /\ [Next]_vars => Settled'
<1> SUFFICES ASSUME TypeOK /\ Aligned /\ Settled, [Next]_vars PROVE Settled'
  OBVIOUS
<1> USE Bounds
<1>1. CASE NewSecond
  BY <1>1, SMT DEF NewSecond, Pass, TypeOK, Aligned, Settled
<1>2. CASE PulseLost
  BY <1>2, SMT DEF PulseLost, Pass, TypeOK, Aligned, Settled
<1>3. CASE SecondSlot
  BY <1>3, SMT DEF SecondSlot, Pass, TypeOK, Aligned, Settled
<1>4. CASE SameSlot
  BY <1>4, SMT DEF SameSlot, Pass, TypeOK, Aligned, Settled
<1>5. CASE NoFix
  BY <1>5, SMT DEF NoFix, Pass, TypeOK, Aligned, Settled
<1>6. CASE Transmit
  BY <1>6, SMT DEF Transmit, Later, IntervalOver, TypeOK, Aligned, Settled
<1>7. CASE NothingToSend
  BY <1>7, SMT DEF NothingToSend, clocks, TypeOK, Aligned, Settled
<1>8. CASE Tick
  BY <1>8, SMT DEF Tick, Later, TypeOK, Aligned, Settled
<1>9. CASE TickWithoutPulse
  BY <1>9, SMT DEF TickWithoutPulse, Later, TypeOK, Aligned, Settled
<1>10. CASE ChangeFix
  BY <1>10, SMT DEF ChangeFix, clocks, TypeOK, Aligned, Settled
<1>11. CASE UNCHANGED vars
  BY <1>11, SMT DEF vars, clocks, TypeOK, Aligned, Settled
<1> QED BY <1>1, <1>2, <1>3, <1>4, <1>5, <1>6, <1>7, <1>8, <1>9, <1>10, <1>11 DEF Next

LEMMA RegularStep == TypeOK /\ Aligned /\ Settled /\ Regular /\ [Next]_vars => Regular'
<1> SUFFICES ASSUME TypeOK /\ Aligned /\ Settled /\ Regular, [Next]_vars PROVE Regular'
  OBVIOUS
<1> USE Bounds
<1>1. CASE NewSecond
  BY <1>1, SMT DEF NewSecond, Pass, TypeOK, Aligned, Settled, Regular, SinceSlot0, SinceSlot1
<1>2. CASE PulseLost
  BY <1>2, SMT DEF PulseLost, Pass, TypeOK, Aligned, Settled, Regular, SinceSlot0, SinceSlot1
<1>3. CASE SecondSlot
  BY <1>3, SMT DEF SecondSlot, Pass, TypeOK, Aligned, Settled, Regular, SinceSlot0, SinceSlot1
<1>4. CASE SameSlot
  BY <1>4, SMT DEF SameSlot, Pass, TypeOK, Aligned, Settled, Regular, SinceSlot0, SinceSlot1
<1>5. CASE NoFix
  BY <1>5, SMT DEF NoFix, Pass, TypeOK, Aligned, Settled, Regular, SinceSlot0, SinceSlot1
<1>6. CASE Transmit
  BY <1>6, SMT DEF Transmit, Later, IntervalOver, TypeOK, Aligned, Settled, Regular, SinceSlot0, SinceSlot1
<1>7. CASE NothingToSend
  BY <1>7, SMT DEF NothingToSend, clocks, TypeOK, Aligned, Settled, Regular, SinceSlot0, SinceSlot1
<1>8. CASE Tick
  BY <1>8, SMT DEF Tick, Later, TypeOK, Aligned, Settled, Regular, SinceSlot0, SinceSlot1
<1>9. CASE TickWithoutPulse
  BY <1>9, SMT DEF TickWithoutPulse, Later, TypeOK, Aligned, Settled, Regular, SinceSlot0, SinceSlot1
<1>10. CASE ChangeFix
  BY <1>10, SMT DEF ChangeFix, clocks, TypeOK, Aligned, Settled, Regular, SinceSlot0, SinceSlot1
<1>11. CASE UNCHANGED vars
  BY <1>11, SMT DEF vars, clocks, TypeOK, Aligned, Settled, Regular, SinceSlot0, SinceSlot1
<1> QED BY <1>1, <1>2, <1>3, <1>4, <1>5, <1>6, <1>7, <1>8, <1>9, <1>10, <1>11 DEF Next

LEMMA OnTimeStep == TypeOK /\ Settled /\ Regular /\ OnTime /\ [Next]_vars => OnTime'
<1> SUFFICES ASSUME TypeOK /\ Settled /\ Regular /\ OnTime, [Next]_vars PROVE OnTime'
  OBVIOUS
<1> USE Bounds
<1>1. CASE NewSecond
  BY <1>1, SMT DEF NewSecond, Pass, TypeOK, Settled, Regular, OnTime, Recovered, TrueSlot, SinceSlot, SinceSlot0, SinceSlot1
<1>2. CASE PulseLost
  BY <1>2, SMT DEF PulseLost, Pass, TypeOK, Settled, Regular, OnTime, Recovered, TrueSlot, SinceSlot, SinceSlot0, SinceSlot1
<1>3. CASE SecondSlot
  BY <1>3, SMT DEF SecondSlot, Pass, TypeOK, Settled, Regular, OnTime, Recovered, TrueSlot, SinceSlot, SinceSlot0, SinceSlot1
<1>4. CASE SameSlot
  BY <1>4, SMT DEF SameSlot, Pass, TypeOK, Settled, Regular, OnTime, Recovered, TrueSlot, SinceSlot, SinceSlot0, SinceSlot1
<1>5. CASE NoFix
  BY <1>5, SMT DEF NoFix, Pass, TypeOK, Settled, Regular, OnTime, Recovered, TrueSlot, SinceSlot, SinceSlot0, SinceSlot1
<1>6. CASE Transmit
  BY <1>6, SMT DEF Transmit, Later, IntervalOver, TypeOK, Settled, Regular, OnTime, Recovered, TrueSlot, SinceSlot, SinceSlot0, SinceSlot1
<1>7. CASE NothingToSend
  BY <1>7, SMT DEF NothingToSend, clocks, TypeOK, Settled, Regular, OnTime, Recovered, TrueSlot, SinceSlot, SinceSlot0, SinceSlot1
<1>8. CASE Tick
  BY <1>8, SMT DEF Tick, Later, TypeOK, Settled, Regular, OnTime, Recovered, TrueSlot, SinceSlot, SinceSlot0, SinceSlot1
<1>9. CASE TickWithoutPulse
  BY <1>9, SMT DEF TickWithoutPulse, Later, TypeOK, Settled, Regular, OnTime, Recovered, TrueSlot, SinceSlot, SinceSlot0, SinceSlot1
<1>10. CASE ChangeFix
  BY <1>10, SMT DEF ChangeFix, clocks, TypeOK, Settled, Regular, OnTime, Recovered, TrueSlot, SinceSlot, SinceSlot0, SinceSlot1
<1>11. CASE UNCHANGED vars
  BY <1>11, SMT DEF vars, clocks, TypeOK, Settled, Regular, OnTime, Recovered, TrueSlot, SinceSlot, SinceSlot0, SinceSlot1
<1> QED BY <1>1, <1>2, <1>3, <1>4, <1>5, <1>6, <1>7, <1>8, <1>9, <1>10, <1>11 DEF Next

LEMMA SilentStep == TypeOK /\ Aligned /\ Silent /\ [Next]_vars => Silent'
<1> SUFFICES ASSUME TypeOK /\ Aligned /\ Silent, [Next]_vars PROVE Silent'
  OBVIOUS
<1> USE Bounds
<1>1. CASE NewSecond
  BY <1>1, SMT DEF NewSecond, Pass, TypeOK, Aligned, Silent
<1>2. CASE PulseLost
  BY <1>2, SMT DEF PulseLost, Pass, TypeOK, Aligned, Silent
<1>3. CASE SecondSlot
  BY <1>3, SMT DEF SecondSlot, Pass, TypeOK, Aligned, Silent
<1>4. CASE SameSlot
  BY <1>4, SMT DEF SameSlot, Pass, TypeOK, Aligned, Silent
<1>5. CASE NoFix
  BY <1>5, SMT DEF NoFix, Pass, TypeOK, Aligned, Silent
<1>6. CASE Transmit
  BY <1>6, SMT DEF Transmit, Later, IntervalOver, TypeOK, Aligned, Silent
<1>7. CASE NothingToSend
  BY <1>7, SMT DEF NothingToSend, clocks, TypeOK, Aligned, Silent
<1>8. CASE Tick
  BY <1>8, SMT DEF Tick, Later, TypeOK, Aligned, Silent
<1>9. CASE TickWithoutPulse
  BY <1>9, SMT DEF TickWithoutPulse, Later, TypeOK, Aligned, Silent
<1>10. CASE ChangeFix
  BY <1>10, SMT DEF ChangeFix, clocks, TypeOK, Aligned, Silent
<1>11. CASE UNCHANGED vars
  BY <1>11, SMT DEF vars, clocks, TypeOK, Aligned, Silent
<1> QED BY <1>1, <1>2, <1>3, <1>4, <1>5, <1>6, <1>7, <1>8, <1>9, <1>10, <1>11 DEF Next

-------------------------------------------------------------------------------
(* The inductive invariant of the slots (RF.cpp:220-255, 345-376).         *)
THEOREM HopInvariant == Spec => []IInv
<1>1. IInv /\ [Next]_vars => IInv'
  BY TypeStep, AlignedStep, SettledStep, RegularStep, OnTimeStep, SilentStep DEF IInv
<1> QED BY InitIInv, <1>1, PTL DEF Spec

(* Type correctness, and the ranges of all times.                          *)
THEOREM TypeCorrect == Spec => []TypeOK
<1>1. IInv => TypeOK
  BY DEF IInv
<1> QED BY HopInvariant, <1>1, PTL

(* The right channel again, some time after any disturbance, in every pass  *)
(* of a station that has not sent in the slot.                             *)
THEOREM HopsAgainHolds == Spec => []HopsAgain
<1>1. IInv => HopsAgain
  BY Bounds, SMT
     DEF IInv, TypeOK, OnTime, Recovered, HopsAgain, InTrueSlot
<1> QED BY HopInvariant, <1>1, PTL

(* At most one transmission in a slot, although slots shorten the interval. *)
THEOREM OncePerSlotHolds == Spec => []OncePerSlot
<1>1. IInv => OncePerSlot
  BY Bounds, SMT DEF IInv, TypeOK, OnTime, Recovered, OncePerSlot
<1> QED BY HopInvariant, <1>1, PTL

(* No transmission when the pulse has stopped.                             *)
THEOREM SilentWithoutPulseHolds == Spec => SilentWithoutPulse
<1>1. IInv /\ [Next]_vars =>
        [pulse = SECOND + Advanced /\ fix /\ passed /\ stalled = 0 => sent' <= sent]_vars
  <2> SUFFICES ASSUME IInv, Next, pulse = SECOND + Advanced, fix, passed, stalled = 0
               PROVE  sent' <= sent
    BY DEF vars
  <2> USE Bounds DEF IInv, TypeOK
  <2>1. ~Transmit
    <3> SUFFICES ASSUME Transmit PROVE FALSE
      OBVIOUS
    <3>1. tx = 0
      BY Zenon DEF Transmit, Silent
    <3> QED BY <3>1, SMT DEF Transmit, IntervalOver
  <2>2. CASE Tick
    BY <2>2, SMT DEF Tick
  <2>3. CASE sent' = sent
    BY <2>3, SMT
  <2> QED BY <2>1, <2>2, <2>3
          DEF Next, NewSecond, PulseLost, SecondSlot, SameSlot, NoFix, Pass,
              NothingToSend, TickWithoutPulse, ChangeFix
<1> QED BY HopInvariant, <1>1, PTL DEF Spec, SilentWithoutPulse

===============================================================================
