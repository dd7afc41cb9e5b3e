----------------------------- MODULE MCReception ------------------------------
(***************************************************************************)
(* An instance of Reception for TLC: a station just south of the equator   *)
(* (or west of Greenwich) with a period of 8 steps of 128, aircraft on     *)
(* either side up to the border of the period and one beyond, and speeds   *)
(* at the borders of the exponents.                                        *)
(***************************************************************************)
EXTENDS Reception

MCReference == -200

Packet(x, s, v) == [pos |-> x, speed4 |-> s, vs10 |-> v]

MCPackets ==
  {Packet(-768, 0, 0), Packet(-641, 127, 511), Packet(-257, 128, 512),
   Packet(-1, 255, -512), Packet(0, 256, -513), Packet(255, 1023, 4095),
   Packet(600, 100, -4096)}

===============================================================================
