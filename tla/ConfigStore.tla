----------------------------- MODULE ConfigStore -------------------------------
(***************************************************************************)
(* What the storage of the configuration promises: a start finds the whole *)
(* of what was stored last, or nothing if a writing of the file was broken *)
(* off; a form changes what it shows and nothing else.                     *)
(***************************************************************************)

CONSTANTS
  Positions,  \* coordinates a form may bring
  Networks,   \* names of access points a form may bring
  Uploads,    \* contents of files that may be uploaded
  None        \* nothing that can be read

VARIABLES stored, writing

store == <<stored, writing>>

Init ==
  /\ stored \in Uploads \union {None}
  /\ writing = FALSE

Begin ==
  /\ ~writing
  /\ writing' = TRUE
  /\ UNCHANGED stored

Replace ==
  /\ writing
  /\ stored' \in Uploads
  /\ writing' = FALSE

Amend ==
  /\ writing /\ stored # None
  /\ \E wifi \in Networks, lat \in Positions, lon \in Positions :
       stored' = [stored EXCEPT !.wifi = wifi, !.lat = lat, !.lon = lon]
  /\ writing' = FALSE

(* Power is lost, a write fails, an upload is broken off.                  *)
Lose ==
  /\ writing
  /\ stored' = None
  /\ writing' = FALSE

Erase ==
  /\ ~writing
  /\ stored' = None
  /\ UNCHANGED writing

Next == Begin \/ Replace \/ Amend \/ Lose \/ Erase

Spec == Init /\ [][Next]_store

===============================================================================
