----------------------------- MODULE LegacyProofs ------------------------------
(***************************************************************************)
(* The positions of the legacy protocol are restored right, for every      *)
(* position of a station and of an aircraft within half a period.          *)
(***************************************************************************)
EXTENDS Legacy, TLAPS

(* Two numbers with the same remainder that are less than a period apart.  *)
LEMMA LatDifference ==
  ASSUME NEW a \in Int, NEW b \in Int,
         a - b < 262144, -262144 <= a - b
  PROVE  LET d == ((a % 524288) - b) % 524288
         IN  (IF d >= 262144 THEN d - 524288 ELSE d) = a - b
BY SMTT(30)

LEMMA LonDifference ==
  ASSUME NEW a \in Int, NEW b \in Int,
         a - b < 524288, -524288 <= a - b
  PROVE  LET d == ((a % 1048576) - b) % 1048576
         IN  (IF d >= 524288 THEN d - 1048576 ELSE d) = a - b
BY SMTT(30)

LEMMA Rounded ==
  ASSUME NEW x \in Int
  PROVE  /\ rounded(x) \in Int
         /\ x - 128 * rounded(x) \in 0 .. 127
BY SMTT(30) DEF rounded, Step

(* legacy_decode: a latitude that is less than half a period of 19 bits     *)
(* (3.3 degrees, 370 km) away is restored to less than a step below the truth. *)
THEOREM LatitudeRestored ==
  ASSUME NEW x \in Int, NEW ref \in Int, InRange(x, ref, LatPeriod)
  PROVE  x - restored(lowBits(x, LatPeriod), ref, LatPeriod) \in 0 .. Step - 1
<1>1. rounded(x) \in Int /\ rounded(ref) \in Int
  BY Rounded
<1>2. rounded(x) - rounded(ref) < 262144 /\ -262144 <= rounded(x) - rounded(ref)
  BY <1>1, SMT DEF InRange, LatPeriod
<1>3. restored(lowBits(x, LatPeriod), ref, LatPeriod) = 128 * rounded(x)
  <2> DEFINE d == ((rounded(x) % 524288) - rounded(ref)) % 524288
  <2>1. (IF d >= 262144 THEN d - 524288 ELSE d) = rounded(x) - rounded(ref)
    BY <1>1, <1>2, LatDifference
  <2>2. restored(lowBits(x, LatPeriod), ref, LatPeriod)
          = 128 * ((IF d >= 262144 THEN d - 524288 ELSE d) + rounded(ref))
    BY SMT DEF restored, lowBits, LatPeriod, Step
  <2> QED BY <1>1, <2>1, <2>2
<1> QED BY <1>3, Rounded DEF Step

(* The same of a longitude, of 20 bits.                                     *)
THEOREM LongitudeRestored ==
  ASSUME NEW x \in Int, NEW ref \in Int, InRange(x, ref, LonPeriod)
  PROVE  x - restored(lowBits(x, LonPeriod), ref, LonPeriod) \in 0 .. Step - 1
<1>1. rounded(x) \in Int /\ rounded(ref) \in Int
  BY Rounded
<1>2. rounded(x) - rounded(ref) < 524288 /\ -524288 <= rounded(x) - rounded(ref)
  BY <1>1, SMT DEF InRange, LonPeriod
<1>3. restored(lowBits(x, LonPeriod), ref, LonPeriod) = 128 * rounded(x)
  <2> DEFINE d == ((rounded(x) % 1048576) - rounded(ref)) % 1048576
  <2>1. (IF d >= 524288 THEN d - 1048576 ELSE d) = rounded(x) - rounded(ref)
    BY <1>1, <1>2, LonDifference
  <2>2. restored(lowBits(x, LonPeriod), ref, LonPeriod)
          = 128 * ((IF d >= 524288 THEN d - 1048576 ELSE d) + rounded(ref))
    BY SMT DEF restored, lowBits, LonPeriod, Step
  <2> QED BY <1>1, <2>1, <2>2
<1> QED BY <1>3, Rounded DEF Step

LEMMA Weights ==
  /\ weight(0) = 1 /\ weight(1) = 2 /\ weight(2) = 4 /\ weight(3) = 8
BY SMT DEF weight

(* legacy_encode, legacy_decode: whatever the speeds are, both fit into      *)
(* their bits, and what is decoded is less than the step of the exponent     *)
(* below what was clamped.                                                 *)
THEOREM SpeedsFaithful ==
  ASSUME NEW speed4 \in Nat, NEW vs10 \in Int
  PROVE  Faithful(speed4, vs10)
<1>1. clampSpeed(speed4) \in 0 .. 1023 /\ clampVs(vs10) \in -4096 .. 4095
  BY SMT DEF clampSpeed, clampVs, speedMax, vsMax, vsMin
<1> DEFINE s == clampSpeed(speed4)
           v == clampVs(vs10)
           fits(n) == n = 3 \/ ~TooBig(s \div weight(n), v \div weight(n))
           m == CHOOSE n \in 0 .. 3 : fits(n) /\ \A k \in 0 .. n - 1 : ~fits(k)
<1> HIDE DEF s, v
<1>2. \E n \in 0 .. 3 : fits(n) /\ \A k \in 0 .. n - 1 : ~fits(k)
  <2> HIDE DEF fits
  <2>1. fits(3)
    BY DEF fits
  <2>2. CASE fits(0)
    BY <2>2, SMT
  <2>3. CASE ~fits(0) /\ fits(1)
    BY <2>3, SMT
  <2>4. CASE ~fits(0) /\ ~fits(1) /\ fits(2)
    BY <2>4, SMT
  <2>5. CASE ~fits(0) /\ ~fits(1) /\ ~fits(2)
    BY <2>1, <2>5, SMT
  <2> QED BY <2>2, <2>3, <2>4, <2>5
<1>3. m \in 0 .. 3 /\ fits(m)
  <2> HIDE DEF fits
  <2> QED BY <1>2
<1> HIDE DEF m
<1>4. s \in 0 .. 1023 /\ v \in -4096 .. 4095
  BY <1>1 DEF s, v
<1>5. /\ s \div weight(m) \in 0 .. 127
      /\ v \div weight(m) \in -512 .. 511
      /\ s - (s \div weight(m)) * weight(m) \in 0 .. weight(m) - 1
      /\ v - (v \div weight(m)) * weight(m) \in 0 .. weight(m) - 1
  <2>1. CASE m = 0
    <3>1. weight(m) = 1
      BY <2>1, Weights
    <3>2. ~TooBig(s \div 1, v \div 1)
      BY <1>3, <2>1, <3>1, SMT
    <3>3. s \div 1 = s /\ v \div 1 = v
      BY <1>4, SMT
    <3>4. s \in 0 .. 127 /\ v \in -512 .. 511
      <4>1. ~TooBig(s, v)
        BY <3>2, <3>3
      <4>2. ~(s > 127) /\ ~(v > 511) /\ ~(v < -512)
        BY <4>1 DEF TooBig
      <4>3. s \in Int /\ v \in Int /\ 0 <= s
        BY <1>4, SMT
      <4>4. s \in 0 .. 127
        BY <4>2, <4>3, SMT
      <4>5. v \in -512 .. 511
        BY <4>2, <4>3, SMT
      <4> QED BY <4>4, <4>5
    <3>5. s - s * 1 = 0 /\ v - v * 1 = 0
      BY <1>4, SMT
    <3>6. 0 \in 0 .. 1 - 1
      BY SMT
    <3> QED BY <3>1, <3>3, <3>4, <3>5, <3>6
  <2>2. CASE m = 1
    <3>1. weight(m) = 2
      BY <2>2, Weights
    <3>2. ~TooBig(s \div 2, v \div 2)
      BY <1>3, <2>2, <3>1, SMT
    <3> QED BY <1>4, <3>1, <3>2, SMT DEF TooBig
  <2>3. CASE m = 2
    <3>1. weight(m) = 4
      BY <2>3, Weights
    <3>2. ~TooBig(s \div 4, v \div 4)
      BY <1>3, <2>3, <3>1, SMT
    <3> QED BY <1>4, <3>1, <3>2, SMT DEF TooBig
  <2>4. CASE m = 3
    <3>1. weight(m) = 8
      BY <2>4, Weights
    <3> QED BY <1>4, <3>1, SMT
  <2> QED BY <1>3, <2>1, <2>2, <2>3, <2>4
<1>6. encode(speed4, vs10) = Scaled(s, v, m)
  BY DEF encode, m, s, v
<1> QED BY <1>5, <1>6 DEF Faithful, Scaled, decodedSpeed, decodedVs, s, v

===============================================================================
