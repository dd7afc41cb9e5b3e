------------------------------- MODULE MCConfig --------------------------------
(***************************************************************************)
(* An instance of Config for TLC: a configuration of a station, one of a   *)
(* relay, and one without access points; a latitude that the page rounds   *)
(* to zero, and a place GNSS finds that differs from all configured.       *)
(***************************************************************************)
EXTENDS Config

MCPositions == {0, 4, 10}

Configured(w, r, x, y) == [wifi |-> w, relay |-> r, lat |-> x, lon |-> y]

MCUploads ==
  {Configured("good", FALSE, 4, 10), Configured("bad", TRUE, 10, 10),
   Configured("none", FALSE, 0, 0)}

MCFix == [lat |-> 10, lon |-> 4]

===============================================================================
