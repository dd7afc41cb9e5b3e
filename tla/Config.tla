-------------------------------- MODULE Config ---------------------------------
(***************************************************************************)
(* The configuration: the file /config.json in the flash (config.cpp), its *)
(* copy in RAM, the page and the forms of the web server (Web.cpp), which  *)
(* runs in a task of its own beside the loop, and the start (WiFi.cpp).    *)
(*                                                                         *)
(* A configuration has what forms and GNSS change, the access point "wifi" *)
(* and the position, and "relay", which stands for all that no form shows. *)
(* Coordinates are in thousandths of a degree.  The handler of a form is   *)
(*                                                                         *)
(*   idle -> lat -> lon -> load [-> getlat -> getlon -> write] -> reset    *)
(*                     `-> erase -------------------------------^          *)
(***************************************************************************)
EXTENDS Integers

CONSTANTS
  Positions,  \* coordinates
  Uploads,    \* configurations that may be uploaded, or be there at first
  Fix,        \* the position GNSS finds: [lat, lon]
  Torn,       \* contents of a file that was not written to its end
  Absent,     \* no file
  NoForm,     \* the page for an upload, which has no form
  NoUpload

(* An access point that exists, one that does not or has no name, and a      *)
(* file without access points.                                             *)
Networks == {"good", "bad"}

Configs == [wifi : Networks \union {"none"}, relay : BOOLEAN,
            lat : Positions, lon : Positions]

(* Two decimals, rounded.                                                  *)
RoundTwo(x) == ((x + 5) \div 10) * 10

ASSUME ConfigAssumption ==
  /\ Positions \subseteq Int /\ 0 \in Positions
  /\ \A x \in Positions : RoundTwo(x) \in Positions
  /\ Uploads \subseteq Configs
  /\ Fix \in [lat : Positions, lon : Positions]
  /\ Torn \notin Configs /\ Absent \notin Configs /\ Torn # Absent
  /\ NoUpload \notin Uploads

VARIABLES
  file,     \* /config.json
  index,    \* is there an /index.html?
  mode,     \* "boot", "sta", "ap" (setup mode), "relay", "dark" (no Wi-Fi)
  wifi, lat, lon,  \* ogn_ssid[0], ogn_lat, ogn_lon
  page,     \* the form as it was made at the start, or NoForm
  position_is_set,
  fixing,   \* the loop at a fix: "no", "lat", "lon"
  web,      \* the handler of a form
  sent,     \* the form sent: [wifi, lat, lon, erase, known]
  doc,      \* the document the handler writes
  upload,   \* the configuration being uploaded
  before    \* history: what the file was before it was written to

store == <<file, index, doc, upload, before>>
ram == <<wifi, lat, lon>>
loop == <<mode, page, position_is_set, fixing>>
handler == <<web, sent>>

vars == <<store, ram, loop, handler>>

Reachable == mode \in {"sta", "ap", "relay"}

Whole == file \notin {Torn, Absent}

-------------------------------------------------------------------------------
(* Starts. *)

Init ==
  /\ file \in Uploads \union {Absent}
  /\ index \in BOOLEAN
  /\ mode = "boot"
  /\ wifi = "bad" /\ lat = 0 /\ lon = 0
  /\ page = NoForm /\ position_is_set = FALSE /\ fixing = "no"
  /\ web = "idle" /\ sent = NoForm
  /\ doc = Absent /\ upload = NoUpload /\ before = Absent

(* Power off, the reset button or any reset: RAM is lost.                  *)
Restarted ==
  /\ mode' = "boot"
  /\ wifi' = "bad" /\ lat' = 0 /\ lon' = 0
  /\ page' = NoForm /\ position_is_set' = FALSE /\ fixing' = "no"
  /\ web' = "idle" /\ sent' = NoForm
  /\ doc' = Absent /\ upload' = NoUpload /\ before' = Absent

PowerLoss == Restarted /\ UNCHANGED <<file, index>>

(* Web_setup: the page shows the position with two decimals, and no longer  *)
(* changes.                                                                *)
Web_setup ==
  page' = IF index
          THEN [wifi |-> wifi', lat |-> RoundTwo(lat'), lon |-> RoundTwo(lon')]
          ELSE NoForm

(* OGN_read_config: nothing is taken from a file without access points.     *)
Usable == Whole /\ file.wifi # "none"

(* Mutant: setup mode is for a station that has no file yet. *)
BootIfAbsent ==
  /\ mode = "boot" /\ file = Absent
  /\ mode' = "ap"
  /\ UNCHANGED <<store, ram, handler, position_is_set, fixing>>
  /\ Web_setup

(* setup() with a file that cannot be used: setup mode.                     *)
BootUnread ==
  /\ mode = "boot" /\ ~Usable
  /\ mode' = "ap"
  /\ UNCHANGED <<store, ram, handler, position_is_set, fixing>>
  /\ Web_setup

Read == wifi' = file.wifi /\ lat' = file.lat /\ lon' = file.lon

BootConnected ==
  /\ mode = "boot" /\ Usable
  /\ ~file.relay /\ file.wifi = "good"
  /\ Read
  /\ mode' = "sta"
  /\ Web_setup
  /\ UNCHANGED <<store, handler, position_is_set, fixing>>

(* The access point is not there within 10 s, or does not exist.            *)
BootAlone ==
  /\ mode = "boot" /\ Usable
  /\ Read
  /\ mode' = IF file.relay THEN "relay" ELSE "ap"
  /\ Web_setup
  /\ UNCHANGED <<store, handler, position_is_set, fixing>>

Boot == BootUnread \/ BootConnected \/ BootAlone

(* Mutant: not when a form is there to be filled in. *)
ApResetIfNoForm ==
  /\ mode = "ap" /\ page = NoForm
  /\ PowerLoss

(* Setup mode ends after 300 s.                                            *)
ApReset ==
  /\ mode = "ap"
  /\ PowerLoss

(* A relay turns its Wi-Fi off after 60 s; a handler at work goes on.       *)
WifiOff ==
  /\ mode = "relay"
  /\ mode' = "dark"
  /\ UNCHANGED <<store, ram, handler, page, position_is_set, fixing>>

-------------------------------------------------------------------------------
(* The loop. *)

UsePosition ==
  /\ mode # "boot"
  /\ fixing = "no" /\ ~position_is_set
  /\ lat # 0 /\ lon # 0
  /\ position_is_set' = TRUE
  /\ UNCHANGED <<store, ram, handler, mode, page, fixing>>

(* Mutant: a position is taken from GNSS whenever there is none. *)
MayFixAgain == lat = 0 /\ lon = 0

MayFix == lat = 0 /\ lon = 0 /\ ~position_is_set

(* A fix and no position: the test, then one assignment after the other,    *)
(* while the handler of a form may assign the same variables.               *)
FixBegin ==
  /\ mode # "boot"
  /\ fixing = "no" /\ MayFix
  /\ fixing' = "lat"
  /\ UNCHANGED <<store, ram, handler, mode, page, position_is_set>>

FixLat ==
  /\ fixing = "lat"
  /\ lat' = Fix.lat
  /\ fixing' = "lon"
  /\ UNCHANGED <<store, wifi, lon, handler, mode, page, position_is_set>>

FixLon ==
  /\ fixing = "lon"
  /\ lon' = Fix.lon
  /\ fixing' = "no" /\ position_is_set' = TRUE
  /\ UNCHANGED <<store, wifi, lat, handler, mode, page>>

-------------------------------------------------------------------------------
(* The handler of a form (/get), and OGN_save_config. *)

(* Fields are sent as shown, or edited.                                    *)
Submit ==
  /\ Reachable /\ web = "idle" /\ page # NoForm
  /\ sent' \in [wifi : Networks, lat : Positions, lon : Positions,
                erase : BOOLEAN, known : {position_is_set}]
  /\ web' = "lat"
  /\ UNCHANGED <<store, ram, loop>>

SetLat ==
  /\ web = "lat"
  /\ lat' = sent.lat
  /\ web' = "lon"
  /\ UNCHANGED <<store, wifi, lon, loop, sent>>

SetLon ==
  /\ web = "lon"
  /\ lon' = sent.lon /\ wifi' = sent.wifi
  /\ web' = IF sent.erase THEN "erase" ELSE "load"
  /\ UNCHANGED <<store, lat, loop, sent>>

(* SPIFFS.format: all files are gone, and an upload with them.              *)
Format ==
  /\ file' = Absent /\ index' = FALSE /\ upload' = NoUpload
  /\ before' = Absent /\ doc' = Absent

Erase ==
  /\ web = "erase"
  /\ Format
  /\ web' = "reset"
  /\ UNCHANGED <<ram, loop, sent>>

(* Without a file there is nothing to change, and the form is lost.         *)
LoadAbsent ==
  /\ web = "load" /\ file = Absent
  /\ web' = "reset"
  /\ UNCHANGED <<store, ram, loop, sent>>

(* Mutant: what was read is not looked at. *)
LoadUnchecked ==
  /\ web = "load" /\ file = Torn
  /\ doc' = file /\ before' = file
  /\ web' = "getlat"
  /\ UNCHANGED <<file, index, upload, ram, loop, sent>>

LoadTorn ==
  /\ web = "load" /\ file = Torn
  /\ Format
  /\ web' = "reset"
  /\ UNCHANGED <<ram, loop, sent>>

(* Mutant: a new document is written, not the one that was read. *)
LoadNothing ==
  /\ web = "load" /\ Whole
  /\ doc' = [wifi |-> "bad", relay |-> FALSE, lat |-> 0, lon |-> 0]
  /\ before' = file
  /\ file' = Torn
  /\ web' = "getlat"
  /\ UNCHANGED <<index, upload, ram, loop, sent>>

(* The file is opened to be written, and is empty from here on.             *)
Load ==
  /\ web = "load" /\ Whole
  /\ doc' = file /\ before' = file
  /\ file' = Torn
  /\ web' = "getlat"
  /\ UNCHANGED <<index, upload, ram, loop, sent>>

GetLat ==
  /\ web = "getlat"
  /\ doc' = [doc EXCEPT !.lat = lat]
  /\ web' = "getlon"
  /\ UNCHANGED <<file, index, upload, before, ram, loop, sent>>

GetLon ==
  /\ web = "getlon"
  /\ doc' = [doc EXCEPT !.lon = lon, !.wifi = wifi]
  /\ web' = "write"
  /\ UNCHANGED <<file, index, upload, before, ram, loop, sent>>

(* A write that fails is not looked at.                                    *)
Write ==
  /\ web = "write"
  /\ file' \in {doc, Torn}
  /\ web' = "reset"
  /\ UNCHANGED <<index, doc, upload, before, ram, loop, sent>>

HandlerReset ==
  /\ web = "reset"
  /\ PowerLoss

Form == \/ SetLat \/ SetLon \/ Erase \/ LoadAbsent \/ LoadTorn \/ Load
        \/ GetLat \/ GetLon \/ Write \/ HandlerReset

-------------------------------------------------------------------------------
(* Uploads (/doUpload): parts of a file come between other requests; one    *)
(* upload at a time is a bound of the model.                               *)

UploadBegin ==
  /\ Reachable /\ web = "idle" /\ upload = NoUpload
  /\ upload' \in Uploads
  /\ before' = file
  /\ file' = Torn
  /\ UNCHANGED <<index, doc, ram, loop, handler>>

(* What the writes return is not looked at.                                *)
UploadEnd ==
  /\ Reachable /\ web = "idle" /\ upload # NoUpload
  /\ file' \in {upload, Torn}
  /\ upload' = NoUpload
  /\ UNCHANGED <<index, doc, before, ram, loop, handler>>

UploadBroken ==
  /\ web = "idle" /\ upload # NoUpload
  /\ upload' = NoUpload
  /\ UNCHANGED <<file, index, doc, before, ram, loop, handler>>

UploadIndex ==
  /\ Reachable /\ web = "idle"
  /\ index' = TRUE
  /\ UNCHANGED <<file, doc, upload, before, ram, loop, handler>>

-------------------------------------------------------------------------------
Next ==
  \/ PowerLoss \/ Boot \/ ApReset \/ WifiOff
  \/ UsePosition \/ FixBegin \/ FixLat \/ FixLon
  \/ Submit \/ Form
  \/ UploadBegin \/ UploadEnd \/ UploadBroken \/ UploadIndex

(* The station starts when it has power, the timer of setup mode runs, and  *)
(* an access point that exists is found in the end.                        *)
Spec ==
  /\ Init /\ [][Next]_vars
  /\ WF_vars(Boot)
  /\ WF_vars(ApReset)
  /\ SF_vars(BootConnected)

-------------------------------------------------------------------------------
(* Properties. *)

TypeOK ==
  /\ file \in Configs \union {Torn, Absent}
  /\ index \in BOOLEAN
  /\ mode \in {"boot", "sta", "ap", "relay", "dark"}
  /\ wifi \in Networks /\ lat \in Positions /\ lon \in Positions
  /\ page \in [wifi : Networks, lat : Positions, lon : Positions] \union {NoForm}
  /\ position_is_set \in BOOLEAN
  /\ fixing \in {"no", "lat", "lon"}
  /\ web \in {"idle", "lat", "lon", "load", "getlat", "getlon", "write", "erase", "reset"}
  /\ web # "idle" => sent \in [wifi : Networks, lat : Positions, lon : Positions,
                               erase : BOOLEAN, known : BOOLEAN]
  /\ doc \in Configs \union {Absent}
  /\ upload \in Uploads \union {NoUpload}
  /\ before \in Configs \union {Torn, Absent}

(* A form that comes when the position is known is saved as it was sent,    *)
(* whatever the loop does with the position meanwhile (ognbase.ino:383-430, *)
(* Web.cpp:343-425).                                                       *)
SavedAsSent ==
  web = "reset" /\ Whole /\ sent.known
    => file.wifi = sent.wifi /\ file.lat = sent.lat /\ file.lon = sent.lon

(* The file is being written to.                                           *)
Writing == upload # NoUpload \/ web \in {"getlat", "getlon", "write"}

Readable(contents) == IF contents = Torn THEN Absent ELSE contents

(* The storage of the configuration implements ConfigStore: the settings no *)
(* form shows survive all forms, and a file that cannot be read is always   *)
(* one whose writing was broken off.                                       *)
Store == INSTANCE ConfigStore
           WITH None <- Absent, writing <- Writing,
                stored <- Readable(IF Writing THEN before ELSE file)

StoreSpec == Store!Spec

(* Whatever writes broken off and formats have left in the flash, setup()    *)
(* knows what to do with it, setup mode can be left, and a form that has    *)
(* come gets to its reset; and a file that can be used always gives the     *)
(* connection another chance (WiFi.cpp:120-206, config.cpp:421-500).        *)
NeverStuck ==
  /\ mode = "boot" => ENABLED <<Boot>>_vars
  /\ mode = "boot" /\ Usable /\ ~file.relay /\ file.wifi = "good"
       => ENABLED <<BootConnected>>_vars
  /\ mode = "ap" => ENABLED <<ApReset>>_vars
  /\ web # "idle" => ENABLED <<Form>>_vars

(* While the file is of use and the station not a relay, it connects to its *)
(* access point again and again, whatever was lost, torn or uploaded before *)
(* (WiFi_setup, ognbase.ino:356-371).                                      *)
Recovers ==
  <>[](Whole /\ file.wifi = "good" /\ ~file.relay /\ mode \notin {"relay", "dark"})
    => []<>(mode = "sta")

(* index.html:100 and 104, step="0.000001": a form sent back with the       *)
(* position as it is shown does not change the position.                   *)
UntouchedPositionKept ==
  web = "reset" /\ Whole /\ sent.known
  /\ sent.lat = RoundTwo(before.lat) /\ sent.lat = page.lat
  /\ sent.lon = RoundTwo(before.lon) /\ sent.lon = page.lon
    => file.lat = before.lat /\ file.lon = before.lon

===============================================================================
