-------------------------------- MODULE Legacy --------------------------------
(***************************************************************************)
(* The arithmetic of the legacy protocol (Protocol_Legacy.cpp), without    *)
(* state.  A coordinate is an integer of 1e-7 degrees.  A packet carries   *)
(* the low bits of the coordinate in steps of 128, and the receiver takes  *)
(* the one of the coordinates with these bits that is next to its own      *)
(* reference.  Speeds are carried with a common exponent "smult".          *)
(* Integers of the code are 32 bits wide; the period of the low bits       *)
(* divides 2^32, so that the unsigned remainder is the mathematical one.   *)
(***************************************************************************)
EXTENDS Integers

Step == 128

LatPeriod == 524288       \* 19 bits
LonPeriod == 1048576      \* 20 bits

(* Key changes every 64 s; a packet is lost to who counts another window.  *)
KeyWindow(timestamp, length) == timestamp \div length

-------------------------------------------------------------------------------
(* Positions. *)

(* An arithmetic shift to the right by 7.                                  *)
rounded(x) == x \div Step

(* The bits of a coordinate that a packet carries.                         *)
lowBits(x, period) == rounded(x) % period

(* Mutant: the upper half is not folded down. *)
restoredUnfolded(bits, ref, period) ==
  LET d == (bits - rounded(ref)) % period
  IN  Step * (d + rounded(ref))

(* The coordinate next to ref with these low bits.                         *)
restored(bits, ref, period) ==
  LET d == (bits - rounded(ref)) % period
  IN  Step * ((IF d >= period \div 2 THEN d - period ELSE d) + rounded(ref))

(* In how many steps two coordinates may differ and be told apart.         *)
InRange(x, ref, period) ==
  /\ rounded(x) - rounded(ref) < period \div 2
  /\ -(period \div 2) <= rounded(x) - rounded(ref)

-------------------------------------------------------------------------------
(* Speeds: a quarter of m/s and a tenth of m/s, clamped to what three       *)
(* halvings can bring into 7 and 10 bits.                                  *)

speedMax == 8 * 128 - 1
vsMax == 8 * 512 - 1
vsMin == -8 * 512

clampSpeed(speed4) == IF speed4 > speedMax THEN speedMax ELSE speed4

clampVs(vs10) == IF vs10 > vsMax THEN vsMax
                 ELSE IF vs10 < vsMin THEN vsMin ELSE vs10

(* Mutant: only the horizontal speed is looked at. *)
TooFast(speed4, vs10) == speed4 > 127

TooBig(speed4, vs10) == speed4 > 127 \/ vs10 > 511 \/ vs10 < -512

(* 1 << smult *)
weight(smult) ==
  CASE smult = 0 -> 1 [] smult = 1 -> 2 [] smult = 2 -> 4 [] smult = 3 -> 8

Scaled(speed4, vs10, smult) ==
  [smult |-> smult,
   speed |-> speed4 \div weight(smult),
   vs |-> vs10 \div weight(smult)]

(* Two loops, first for the one and then for the other speed, halve both    *)
(* until both fit: the least exponent with which they do, 3 at most.        *)
encode(speed4, vs10) ==
  LET s == clampSpeed(speed4)
      v == clampVs(vs10)
      fits(n) == n = 3 \/ ~TooBig(s \div weight(n), v \div weight(n))
  IN  Scaled(s, v, CHOOSE n \in 0 .. 3 : fits(n) /\ \A k \in 0 .. n - 1 : ~fits(k))

decodedSpeed(packet) == packet.speed * weight(packet.smult)
decodedVs(packet) == packet.vs * weight(packet.smult)

(* Both fit into their bits, and what is lost is less than the step of the   *)
(* exponent.                                                               *)
Faithful(speed4, vs10) ==
  LET p == encode(speed4, vs10)
  IN  /\ p.speed \in 0 .. 127 /\ p.vs \in -512 .. 511
      /\ clampSpeed(speed4) - decodedSpeed(p) \in 0 .. weight(p.smult) - 1
      /\ clampVs(vs10) - decodedVs(p) \in 0 .. weight(p.smult) - 1

===============================================================================
