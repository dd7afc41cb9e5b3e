------------------------------- MODULE MCTraffic ------------------------------
(***************************************************************************)
(* Instances of the traffic pipeline small enough for TLC.                 *)
(***************************************************************************)
EXTENDS Traffic

CONSTANTS a1, a2

MCAddr == {a1, a2}

Rep(a, p, v, m) == [addr |-> a, pos |-> p, speed |-> v, masked |-> m]

(* An aircraft at rest, or moving and maybe out of reach of where it was;   *)
(* one with the stealth or no-track bit set; a packet with address 0.       *)
MCReports == {Rep(a1, 1, 0, FALSE), Rep(a1, 3, 2, FALSE), Rep(a2, 1, 0, TRUE),
              Rep(NoAddr, 1, 0, FALSE)}

(* Two aircraft at rest, seen again and again.                              *)
MCSteady == {Rep(a1, 1, 0, FALSE), Rep(a2, 1, 0, FALSE)}

(* An aircraft at rest and one that claims to be at rest but moves on.      *)
MCJumps == {Rep(a1, 1, 0, FALSE), Rep(a2, 1, 0, FALSE), Rep(a2, 3, 0, FALSE)}

===============================================================================
