------------------------------- MODULE Traffic --------------------------------
(***************************************************************************)
(* Reception, traffic table and APRS export of a base station: ParseData   *)
(* and ClearExpired (Traffic.cpp), OGN_APRS_Export (APRS.cpp) with the     *)
(* validation database (PVALID.cpp), in the order ground() calls them      *)
(* (ognbase.ino).  One pass of ground() runs through the phases            *)
(*                                                                         *)
(*   receive -> stamp -> decide -> [ export ... -> clean ] -> clear        *)
(*                                                                         *)
(* An iteration of the export loop is a step of its own; time passes        *)
(* between steps.  The station sits at position 0.                         *)
(***************************************************************************)
EXTENDS Validation, Sequences

CONSTANTS
  Reports,                \* what a packet may decode to: [addr, pos, speed, masked]
  ENTRY_EXPIRATION_TIME,  \* seconds a report stays in the table
  EXPORT_EXPIRATION_TIME, \* seconds a report may be exported
  APRS_EXPORT_AIRCRAFT,   \* seconds between two export passes
  ogn_range,              \* reports from this distance on are not exported
  SyncTimes,              \* what GNSS or NTP may set the clock to
  ogn_itrackbit, ogn_istealthbit,  \* configured to ignore both bits?
  MaxClock,               \* bound of the model: largest value of now()
  MaxHeard                \* bound of the model: number of packets decoded

ASSUME ReportsAssumption ==
  Reports \subseteq [addr : Addr \cup {NoAddr}, pos : Int, speed : Nat,
                     masked : BOOLEAN]
ASSUME TimesAssumption ==
  /\ ENTRY_EXPIRATION_TIME \in Nat
  /\ EXPORT_EXPIRATION_TIME \in Nat
  /\ APRS_EXPORT_AIRCRAFT \in Nat
  /\ ogn_range \in Nat
  /\ MaxClock \in Nat
  /\ SyncTimes \subseteq 0 .. MaxClock
  /\ MaxHeard \in Nat
ASSUME BitsAssumption == ogn_itrackbit \in BOOLEAN /\ ogn_istealthbit \in BOOLEAN

VARIABLES
  Container,    \* the traffic table; "id" is the report's index in heard
  ac,           \* the validation database
  clock,        \* now(), set by GNSS or NTP, counting seconds between
  timestamp,    \* ThisAircraft.timestamp, which a decoded report is given
  sinceExport,  \* seconds() - ExportTimeOGN, up to the period
  phase,        \* where in the pass of ground() the program is
  ix,           \* index of the export loop
  this_moment,  \* now() when the export pass began
  heard,        \* history: the reports decoded
  sent          \* history: the reports handed to the APRS connection

vars == <<Container, ac, clock, timestamp, sinceExport, phase, ix,
          this_moment, heard, sent>>

exportVars == <<ix, this_moment>>

(* The abstract filter sees the two histories and nothing of the tables.    *)
Filter == INSTANCE ReportFilter WITH heard <- heard, sent <- sent

EmptyFO == [addr |-> NoAddr, pos |-> 0, speed |-> 0, masked |-> FALSE,
            ts |-> 0, id |-> 0]

-------------------------------------------------------------------------------
(* The traffic table. *)

Expired(slot, t) == t - slot.ts > ENTRY_EXPIRATION_TIME

(* ParseData's first loop stops at the first slot that holds the aircraft  *)
(* or a report expired by now; an empty slot carries the time 0.           *)
Takes(i, fo) == Container[i].addr = fo.addr \/ Expired(Container[i], clock)

IsPlace(i, fo) == Takes(i, fo) /\ \A j \in 1 .. i - 1 : ~Takes(j, fo)

(* Mutant: doubles are not looked for. *)
StoredOnly(i, fo) == [Container EXCEPT ![i] = fo]

(* The report is stored, and its aircraft deleted from the slots after it. *)
Stored(i, fo) ==
  [j \in Slots |->
     IF j = i THEN fo
     ELSE IF j > i /\ Container[j].addr = fo.addr THEN EmptyFO
     ELSE Container[j]]

(* A slot the export loop does not skip. *)
Exportable(slot) ==
  /\ slot.addr # NoAddr
  /\ this_moment - slot.ts <= EXPORT_EXPIRATION_TIME
  /\ distance(0, slot.pos) < ogn_range

(* Mutant: one of the two settings is enough. *)
TransmittableIfEither(slot) == ~slot.masked \/ ogn_itrackbit \/ ogn_istealthbit

(* "masked" stands for stealth or no_track. *)
Transmittable(slot) == ~slot.masked \/ (ogn_itrackbit /\ ogn_istealthbit)

-------------------------------------------------------------------------------

Init ==
  /\ Container = [i \in Slots |-> EmptyFO]
  /\ ac = [i \in Slots |-> EmptyEntry]
  /\ clock = 0
  /\ timestamp = 0
  /\ sinceExport = 0
  /\ phase = "receive"
  /\ ix = 1
  /\ this_moment = 0
  /\ heard = << >>
  /\ sent = << >>

(* A packet is received and decoded; with no place in the table it is lost. *)
ParseData ==
  /\ phase = "receive"
  /\ Len(heard) < MaxHeard
  /\ \E r \in Reports :
       LET fo == [addr |-> r.addr, pos |-> r.pos, speed |-> r.speed,
                  masked |-> r.masked, ts |-> timestamp, id |-> Len(heard) + 1]
       IN  /\ heard' = Append(heard, [addr |-> r.addr, pos |-> r.pos,
                                      speed |-> r.speed, masked |-> r.masked,
                                      ts |-> timestamp])
           /\ \/ \E i \in Slots : IsPlace(i, fo) /\ Container' = Stored(i, fo)
              \/ /\ \A i \in Slots : ~Takes(i, fo)
                 /\ UNCHANGED Container
  /\ phase' = "stamp"
  /\ UNCHANGED <<ac, clock, timestamp, sinceExport, exportVars, sent>>

(* Nothing received, or no position known, or the packet fails to decode. *)
NoPacket ==
  /\ phase = "receive"
  /\ phase' = "stamp"
  /\ UNCHANGED <<Container, ac, clock, timestamp, sinceExport, exportVars,
                 heard, sent>>

(* GNSS_loop may set the clock, forward or back, before it is read. *)
TimeSync ==
  /\ phase = "stamp"
  /\ clock' \in SyncTimes
  /\ UNCHANGED <<Container, ac, timestamp, sinceExport, phase, exportVars,
                 heard, sent>>

Stamp ==
  /\ phase = "stamp"
  /\ timestamp' = clock
  /\ phase' = "decide"
  /\ UNCHANGED <<Container, ac, clock, sinceExport, exportVars, heard, sent>>

(* The time has come and the station is registered (module Session). *)
BeginExport ==
  /\ phase = "decide"
  /\ sinceExport >= APRS_EXPORT_AIRCRAFT
  /\ this_moment' = clock
  /\ ix' = 1
  /\ phase' = "export"
  /\ UNCHANGED <<Container, ac, clock, timestamp, sinceExport, heard, sent>>

(* Not due, or not registered with the server. *)
NoExport ==
  /\ phase = "decide"
  /\ phase' = "clear"
  /\ UNCHANGED <<Container, ac, clock, timestamp, sinceExport, exportVars,
                 heard, sent>>

(* Mutant: the loop runs one slot too far. *)
AdvanceTooFar == /\ ix' = ix + 1
                 /\ phase' = IF ix > MAX_TRACKING_OBJECTS THEN "clean" ELSE "export"

Advance == /\ ix' = ix + 1
           /\ phase' = IF ix = MAX_TRACKING_OBJECTS THEN "clean" ELSE "export"

SkipSlot ==
  /\ phase = "export"
  /\ ~Exportable(Container[ix])
  /\ Advance
  /\ UNCHANGED <<Container, ac, clock, timestamp, sinceExport, this_moment,
                 heard, sent>>

ExportSlot ==
  /\ phase = "export"
  /\ Exportable(Container[ix])
  /\ isPacketValid(ac, Container[ix])
  /\ ac' = AfterValidation(ac, Container[ix])
  /\ sent' = IF Transmittable(Container[ix])
             THEN Append(sent, Container[ix].id) ELSE sent
  /\ Advance
  /\ UNCHANGED <<Container, clock, timestamp, sinceExport, this_moment, heard>>

(* A report that is not valid ends the loop: the "break" of the source. *)
BreakOff ==
  /\ phase = "export"
  /\ Exportable(Container[ix])
  /\ ~isPacketValid(ac, Container[ix])
  /\ ac' = AfterValidation(ac, Container[ix])
  /\ phase' = "clean"
  /\ UNCHANGED <<Container, clock, timestamp, sinceExport, exportVars, heard,
                 sent>>

(* Mutant: the table is kept. *)
KeepContainers ==
  /\ phase = "clean"
  /\ sinceExport' = 0
  /\ ix' = 1 /\ this_moment' = 0
  /\ phase' = "clear"
  /\ UNCHANGED <<Container, ac, clock, timestamp, heard, sent>>

(* The export empties the table, whatever it has exported. *)
CleanContainers ==
  /\ phase = "clean"
  /\ Container' = [i \in Slots |-> EmptyFO]
  /\ sinceExport' = 0
  /\ ix' = 1 /\ this_moment' = 0
  /\ phase' = "clear"
  /\ UNCHANGED <<ac, clock, timestamp, heard, sent>>

(* Mutant: the shorter of the two times. *)
ClearUnexportable ==
  /\ phase = "clear"
  /\ Container' = [i \in Slots |->
                     IF timestamp - Container[i].ts > EXPORT_EXPIRATION_TIME
                     THEN EmptyFO ELSE Container[i]]
  /\ phase' = "receive"
  /\ UNCHANGED <<ac, clock, timestamp, sinceExport, exportVars, heard, sent>>

ClearExpired ==
  /\ phase = "clear"
  /\ Container' = [i \in Slots |->
                     IF Container[i].addr # NoAddr /\ Expired(Container[i], timestamp)
                     THEN EmptyFO ELSE Container[i]]
  /\ phase' = "receive"
  /\ UNCHANGED <<ac, clock, timestamp, sinceExport, exportVars, heard, sent>>

(* Time passes; the phases from the export to the end of the pass do not    *)
(* read the clock, so that ticks there need no steps of their own.          *)
Tick ==
  /\ phase \in {"receive", "stamp", "decide"}
  /\ clock < MaxClock
  /\ clock' = clock + 1
  /\ sinceExport' = IF sinceExport < APRS_EXPORT_AIRCRAFT
                    THEN sinceExport + 1 ELSE sinceExport
  /\ UNCHANGED <<Container, ac, timestamp, phase, exportVars, heard, sent>>

Next ==
  \/ ParseData \/ NoPacket \/ TimeSync \/ Stamp
  \/ BeginExport \/ NoExport
  \/ SkipSlot \/ ExportSlot \/ BreakOff
  \/ CleanContainers \/ ClearExpired
  \/ Tick

Spec == Init /\ [][Next]_vars

-------------------------------------------------------------------------------
(* Properties. *)

PassPhases == {"receive", "stamp", "decide", "export", "clean", "clear"}

Fix == [addr : Addr \cup {NoAddr}, pos : Int, ts : Int]

Slot == [addr : Addr \cup {NoAddr}, pos : Int, speed : Int, masked : BOOLEAN,
         ts : Int, id : Nat]

(* Type correctness of the pipeline's state; the export loop only looks at *)
(* slots that exist.                                                       *)
TypeOK ==
  /\ Container \in [Slots -> Slot]
  /\ ac \in [Slots -> Fix]
  /\ clock \in Int /\ timestamp \in Int /\ this_moment \in Int
  /\ sinceExport \in Nat
  /\ phase \in PassPhases
  /\ ix \in Nat
  /\ phase = "export" => ix \in Slots
  /\ heard \in Seq(Filter!HeardReport)
  /\ sent \in Seq(Nat)

(* No aircraft is ever in two slots of the traffic table ("detect and      *)
(* delete double IDs", Traffic.cpp:193), although a report may be stored   *)
(* in an expired slot before the one its aircraft already has.             *)
NoDoubles ==
  \A i, j \in Slots :
    Container[i].addr = Container[j].addr /\ Container[i].addr # NoAddr => i = j

(* A position reaches the server only when an earlier packet of the same   *)
(* aircraft was received from which it can be reached ("Minimum two        *)
(* packets must be received and validated, otherwise position data not     *)
(* transmitted", README.md:67), through all the shifting of the database   *)
(* and whatever the clock does.                                            *)
SentConfirmed == \A k \in DOMAIN sent : Filter!Confirmed(sent[k])

(* The server never gets a report of an aircraft twice, nor one older than *)
(* a report it already has: reports of an aircraft leave in the order they *)
(* came in, across any number of export passes.                            *)
SentInOrder ==
  \A k, m \in DOMAIN sent :
    k < m /\ heard[sent[k]].addr = heard[sent[m]].addr => sent[k] < sent[m]

(* Between two export passes a report that has not expired is only ever    *)
(* given up for a newer one of the same aircraft: neither a full table, a  *)
(* report of another aircraft nor ClearExpired, which goes by the time of  *)
(* the pass and not by the clock, drops it.                                *)
FreshReportKept ==
  [][phase # "clean" =>
       \A i \in Slots :
         Container[i].addr # NoAddr /\ ~Expired(Container[i], clock) =>
           \E j \in Slots : /\ Container'[j].addr = Container[i].addr
                            /\ Container'[j].id >= Container[i].id]_vars

(* Whatever the tables do, the pipeline only releases what the abstract    *)
(* filter lets through: confirmed, showable, and in order.                 *)
FilterSpec == Filter!Spec

(* What README.md:67 says, "calculate the flight distance from last two    *)
(* position packets": of several database entries of an aircraft, the one  *)
(* the search finds is the newest.                                         *)
FoundIsNewest ==
  \A i, j \in Slots :
    i < j /\ ac[i].addr = ac[j].addr /\ ac[i].addr # NoAddr => ac[i].ts >= ac[j].ts

(* What README.md:67 says, only data that is not validated is withheld:    *)
(* when an export pass empties the table, no report left in it would have  *)
(* passed the validation.                                                  *)
OnlyInvalidWithheld ==
  phase = "clean" =>
    \A i \in Slots : i > ix /\ Exportable(Container[i])
                      => ~isPacketValid(ac, Container[i])

===============================================================================
