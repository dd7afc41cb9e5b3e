------------------------------- MODULE Reception -------------------------------
(***************************************************************************)
(* A packet of the legacy protocol meets the clock and the position of the *)
(* station.  The key of a packet depends on the window of time it was sent *)
(* in, and the sender's clock is right; the station decodes it with the    *)
(* stamp of its last pass, "now()" at the end of GNSS_loop, and restores   *)
(* the position next to its own.  A packet is received at the start of a   *)
(* pass, before the sentences of GNSS are read.                            *)
(***************************************************************************)
EXTENDS Clock, Legacy

CONSTANTS
  Window,      \* seconds a key is used (64)
  BitsPeriod,  \* period of the low bits of a coordinate
  Reference,   \* the station's own coordinate
  Packets,     \* packets in the air: [pos, speed4, vs10]
  NoReport

ASSUME ReceptionAssumption ==
  /\ Window \in Nat \ {0} /\ Day % Window = 0
  /\ BitsPeriod \in Nat \ {0} /\ Reference \in Int
  /\ \A p \in Packets : p.pos \in Int /\ p.speed4 \in Nat /\ p.vs10 \in Int

VARIABLE report    \* what the last reception decoded

rvars == <<vars, report>>

(* The clock when it was read last, as the second of a day.                *)
timestamp == second - lag - stall

SameKey == KeyWindow(timestamp, Window) = KeyWindow(second, Window)

(* With the right key the position and the speeds are those of the packet.  *)
legacy_decode(p) ==
  LET packet == encode(p.speed4, p.vs10)
  IN  [of |-> p,
       pos |-> restored(lowBits(p.pos, BitsPeriod), Reference, BitsPeriod),
       speed4 |-> decodedSpeed(packet), vs10 |-> decodedVs(packet)]

(* With a wrong one any bits come out, and half of them pass the parity;    *)
(* nothing is said of these.                                               *)
Receive(p) ==
  /\ BeginPass
  /\ report' = IF SameKey THEN legacy_decode(p) ELSE NoReport

ReceptionInit == Init /\ report = NoReport

ReceptionNext ==
  \/ Next /\ report' = NoReport
  \/ \E p \in Packets : Receive(p)

ReceptionSpec == ReceptionInit /\ [][ReceptionNext]_rvars

-------------------------------------------------------------------------------
(* Properties. *)

(* A position within half a period of the station is restored to less than  *)
(* a step below the truth, on either side of the station and of zero.       *)
NearTruth ==
  report # NoReport /\ InRange(report.of.pos, Reference, BitsPeriod)
    => report.of.pos - report.pos \in 0 .. Step - 1

(* Both speeds fit into their bits whatever they are, and lose less than the *)
(* step of their common exponent.                                          *)
SpeedKept ==
  report # NoReport => Faithful(report.of.speed4, report.of.vs10)

===============================================================================
