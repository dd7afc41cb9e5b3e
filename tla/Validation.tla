------------------------------ MODULE Validation ------------------------------
(***************************************************************************)
(* The packet validation database of PVALID.cpp: the array "ac" of the     *)
(* reports validated last, used as a queue (a new entry goes to the last   *)
(* index, a shift drops the first one), and the check isPacketValid makes  *)
(* of a report against the entry it finds for the same aircraft.           *)
(*                                                                         *)
(* Positions are points of a line, one unit standing for the precision of  *)
(* a fix at rest; the great-circle formula of distance() is their absolute *)
(* difference.  Speeds are units per second.  The packet counter of an     *)
(* entry only reaches the log and is left out.                             *)
(***************************************************************************)
EXTENDS Integers

CONSTANTS
  Addr,                 \* aircraft addresses other than 0x000000
  NoAddr,               \* the address 0x000000, which marks an empty entry
  MAX_TRACKING_OBJECTS  \* length of ac and of Container (15 in the code)

ASSUME AddrAssumption == NoAddr \notin Addr
ASSUME SizeAssumption == MAX_TRACKING_OBJECTS \in Nat \ {0}

Slots == 1 .. MAX_TRACKING_OBJECTS

(* What an entry remembers of a report. *)
EntryOf(r) == [addr |-> r.addr, pos |-> r.pos, ts |-> r.ts]

EmptyEntry == [addr |-> NoAddr, pos |-> 0, ts |-> 0]

(***************************************************************************)
(* The movement check.                                                     *)
(***************************************************************************)
distance(p, q) == IF p < q THEN q - p ELSE p - q

(* The precision allowed to an aircraft that reports no speed: 10 m. *)
GpsPrecision == 1

(* Conversion of a double to int truncates toward zero; time may run back. *)
calcMaxDistance(speed, timeDiff) ==
  LET d == speed * timeDiff * 12
  IN  IF speed = 0 THEN GpsPrecision
      ELSE IF d >= 0 THEN d \div 10 ELSE -((-d) \div 10)

(* Report r can follow entry (or report) e of the same aircraft. *)
Plausible(e, r) ==
  distance(r.pos, e.pos) <= calcMaxDistance(r.speed, r.ts - e.ts)

(***************************************************************************)
(* The queue.                                                              *)
(***************************************************************************)
cleanUpPacket(ac, i) == [ac EXCEPT ![i].addr = NoAddr]

(* Every entry moves one index down; the last one stays where it is, too. *)
shiftPackets(ac) ==
  [i \in Slots |-> IF i < MAX_TRACKING_OBJECTS THEN ac[i + 1] ELSE ac[i]]

appendPacket(ac, r) == [ac EXCEPT ![MAX_TRACKING_OBJECTS] = EntryOf(r)]

(***************************************************************************)
(* isPacketValid(r): its verdict and the database it leaves.               *)
(***************************************************************************)
Known(ac, a) == \E i \in Slots : ac[i].addr = a

(* The loop stops at the lowest index that holds the address. *)
IsFound(ac, a, i) == ac[i].addr = a /\ \A j \in 1 .. i - 1 : ac[j].addr # a

Found(ac, a) == CHOOSE i \in Slots : IsFound(ac, a, i)

(* Mutant: a first packet is accepted. *)
acceptsUnknown(ac, r) ==
  ~Known(ac, r.addr) \/ \E i \in Slots : IsFound(ac, r.addr, i) /\ Plausible(ac[i], r)

isPacketValid(ac, r) ==
  \E i \in Slots : IsFound(ac, r.addr, i) /\ Plausible(ac[i], r)

AfterValidation(ac, r) ==
  LET freed == cleanUpPacket(ac, Found(ac, r.addr))
  IN  IF ~Known(ac, r.addr) THEN appendPacket(shiftPackets(ac), r)
      ELSE IF isPacketValid(ac, r) THEN appendPacket(shiftPackets(freed), r)
      ELSE shiftPackets(freed)

===============================================================================
