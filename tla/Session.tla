-------------------------------- MODULE Session -------------------------------
(***************************************************************************)
(* The session of a base station with the APRS server: the registration,   *)
(* supervision and restart logic of ground() (ognbase.ino) with            *)
(* OGN_APRS_Register, OGN_APRS_check_messages and OGN_APRS_check_Wifi      *)
(* (APRS.cpp), the TCP client they use (Platform_ESP32.cpp) and WiFi_setup *)
(* (WiFi.cpp).  A pass of ground() goes through the phases                 *)
(*                                                                         *)
(*   receive -> register [-> failed] -> check -> wifi -> sleep -> receive  *)
(*                                                                         *)
(* A reset and a wake-up from deep sleep go through the phase "boot".  The *)
(* code keeps the time of the last occasion of everything; the model keeps *)
(* the time since, up to the largest value the code compares it with.  The *)
(* time a pass takes is counted at its start.                              *)
(*                                                                         *)
(* The network is hostile until the environment becomes "stable", and that *)
(* it may do at any time; from then on Wi-Fi and server answer and stay.   *)
(***************************************************************************)
EXTENDS Integers

CONSTANTS
  APRS_REGISTER_REC,         \* seconds between two registrations
  APRS_CHECK_KEEPALIVE_TIME, \* seconds between two looks for messages
  APRS_CHECK_WIFI_TIME,      \* seconds between two looks at the Wi-Fi
  TIME_TO_REREG,             \* seconds to wait after a failed registration
  SILENCE,                   \* seconds without a packet before a reconnect (60)
  AP_TIME,                   \* seconds in setup mode before a reset (300)
  ogn_rxidle,                \* seconds without traffic before sleep
  ogn_sleepmode,             \* may the station sleep at all?
  StaticPosition,            \* is the position configured (or found by GNSS)?
  SERVER_PERIOD,             \* seconds between two lines of a stable server
  Window,                    \* reads (of 511 bytes) that the TCP window holds
  PassTime                   \* bound of the model: ticks per pass of ground()

ASSUME TimesAssumption ==
  /\ APRS_REGISTER_REC \in Nat /\ APRS_CHECK_KEEPALIVE_TIME \in Nat
  /\ APRS_CHECK_WIFI_TIME \in Nat /\ TIME_TO_REREG \in Nat
  /\ SILENCE \in Nat /\ AP_TIME \in Nat /\ ogn_rxidle \in Nat
  /\ SERVER_PERIOD \in Nat /\ PassTime \in Nat \ {0}
  /\ Window \in Nat \ {0}
(* A look for messages is rarer than a pass of the loop, and two of them may *)
(* find nothing (20 and 60 s in the code).                                 *)
ASSUME PassAssumption ==
  /\ PassTime < APRS_CHECK_KEEPALIVE_TIME
  /\ 2 * (APRS_CHECK_KEEPALIVE_TIME + PassTime - 1) <= SILENCE
ASSUME ConfigAssumption == ogn_sleepmode \in BOOLEAN /\ StaticPosition \in BOOLEAN

VARIABLES
  phase,            \* where in the pass the program is
  ground_registred, \* the loop's view: 1 registered, -1 just failed, 0 not
  aprs_registred,   \* the APRS client's view
  position_is_set,
  wifi,             \* "sta" connected, "lost" not connected, "ap" setup mode
  client,           \* the TCP client: "closed", "open", "silent" (the server
                    \* is gone without a word), "dropped" (and we were told)
  inbox,            \* reads it takes to empty what was received
  age,              \* seconds since each of Timers
  stable,           \* has the network come to rest?
  ticks,            \* ticks of this pass
  deadFor,          \* history: seconds registered without a live connection
  outage            \* history: seconds of stability without a usable session

Timers == {"register", "check", "wifi", "packet", "boot", "rx", "failure", "line"}

(* An age counts up to the largest value that matters. *)
Top == [register |-> APRS_REGISTER_REC, check |-> APRS_CHECK_KEEPALIVE_TIME,
        wifi |-> APRS_CHECK_WIFI_TIME, packet |-> SILENCE + 1,
        boot |-> AP_TIME + 1, rx |-> IF ogn_sleepmode THEN ogn_rxidle ELSE 0,
        failure |-> TIME_TO_REREG, line |-> SERVER_PERIOD]

program == <<ground_registred, aprs_registred, position_is_set>>
network == <<wifi, client, inbox>>
history == <<stable, deadFor, outage>>

vars == <<phase, program, network, age, ticks, history>>

Due(timer) == age[timer] >= Top[timer]

-------------------------------------------------------------------------------
(* Everything in RAM is lost by a reset and by deep sleep; the time since   *)
(* the last failed registration is the observer's and goes on.             *)
Ages(failure) == [t \in Timers |-> IF t = "failure" THEN failure ELSE 0]

Init ==
  /\ phase = "boot"
  /\ ground_registred = 0 /\ aprs_registred = 0 /\ position_is_set = FALSE
  /\ wifi = "lost" /\ client = "closed" /\ inbox = 0
  /\ age = Ages(TIME_TO_REREG)
  /\ stable = FALSE
  /\ ticks = 0
  /\ deadFor = 0 /\ outage = 0

Reset ==
  /\ phase' = "boot"
  /\ ground_registred' = 0 /\ aprs_registred' = 0 /\ position_is_set' = FALSE
  /\ wifi' = "lost" /\ client' = "closed" /\ inbox' = 0
  /\ age' = Ages(age["failure"])

(* WiFi_setup: a station if an access point answers, else setup mode.       *)
Boot ==
  /\ phase = "boot"
  /\ wifi' \in IF stable THEN {"sta"} ELSE {"sta", "ap"}
  /\ phase' = "receive"
  /\ ticks' = 0
  /\ UNCHANGED <<program, client, inbox, age, history>>

(* Setup mode ends in a reset.                                             *)
LeaveSetup ==
  /\ phase = "receive"
  /\ wifi = "ap" /\ Due("boot")
  /\ Reset
  /\ UNCHANGED <<ticks, history>>

(* RF_Receive: traffic only counts when the position is known; then the     *)
(* position is taken from the configuration, or from GNSS when it has one. *)
Receive ==
  /\ phase = "receive"
  /\ ~(wifi = "ap" /\ Due("boot"))
  /\ age' \in {age} \cup (IF position_is_set THEN {[age EXCEPT !["rx"] = 0]} ELSE {})
  /\ position_is_set' \in IF StaticPosition THEN {TRUE} ELSE {position_is_set, TRUE}
  /\ phase' = "register"
  /\ UNCHANGED <<ground_registred, aprs_registred, network, ticks, history>>

-------------------------------------------------------------------------------
(* Registration. *)

(* Mutants: registers by the timer alone; by the timer of the looks. *)
RegisterByTimer == Due("register") /\ position_is_set /\ wifi # "ap"

RegisterAtLook ==
  (Due("check") \/ ground_registred = 0) /\ position_is_set /\ wifi # "ap"

MustRegister ==
  /\ Due("register") \/ ground_registred = 0
  /\ position_is_set
  /\ wifi # "ap"

(* The server answers the ping and the connect; login and position are      *)
(* sent.  A stable server answers the login at once.                       *)
RegisterSucceeds ==
  /\ phase = "register" /\ MustRegister
  /\ wifi = "sta"
  /\ client' = "open" /\ inbox' = 0
  /\ aprs_registred' = 1 /\ ground_registred' = 1
  /\ age' = [age EXCEPT !["register"] = 0, !["line"] = SERVER_PERIOD]
  /\ phase' = "check"
  /\ deadFor' = 0
  /\ UNCHANGED <<position_is_set, wifi, ticks, stable, outage>>

(* No answer; a connection there was is left as it is.                      *)
RegisterFails ==
  /\ phase = "register" /\ MustRegister
  /\ ~(stable /\ wifi = "sta")
  /\ aprs_registred' = 0 /\ ground_registred' = -1
  /\ age' = [age EXCEPT !["register"] = 0]
  /\ phase' = "failed"
  /\ UNCHANGED <<position_is_set, network, ticks, history>>

NoRegistration ==
  /\ phase = "register" /\ ~MustRegister
  /\ phase' = "check"
  /\ UNCHANGED <<program, network, age, ticks, history>>

(* Mutant: the marker of the failure is never cleared. *)
AfterFailureStuck ==
  /\ phase = "failed" /\ wifi = "sta"
  /\ age' = [age EXCEPT !["failure"] = 0]
  /\ phase' = "check"
  /\ UNCHANGED <<program, network, ticks, history>>

(* Without Wi-Fi the station resets.  The wait of TIME_TO_REREG seconds     *)
(* that follows tests the marker set on the line before it, so that it is  *)
(* over at once.                                                           *)
AfterFailure ==
  /\ phase = "failed"
  /\ \/ /\ wifi = "sta"
        /\ ground_registred' = 0
        /\ age' = [age EXCEPT !["failure"] = 0]
        /\ phase' = "check"
        /\ UNCHANGED <<aprs_registred, position_is_set, network>>
     \/ /\ wifi # "sta"
        /\ Reset
  /\ UNCHANGED <<ticks, history>>

-------------------------------------------------------------------------------
(* Supervision. *)

connected == client \in {"open", "silent"}

(* Mutants: an empty read counts as a packet; no read does. *)
EmptyReadCounts == IF connected THEN 0 ELSE age["packet"]

NoReadCounts == age["packet"]

(* What a look for messages leaves; a connection given up takes all along. *)
Unread == IF connected /\ inbox > 0 THEN inbox - 1 ELSE 0

(* Seconds since a packet, as OGN_APRS_check_messages sees them after it    *)
(* has read what there was.                                                *)
PacketAge == IF connected /\ inbox > 0 THEN 0 ELSE age["packet"]

(* Mutant: the loop does not take over what the client found. *)
CheckIgnored ==
  /\ phase = "check"
  /\ Due("check") /\ ground_registred = 1
  /\ LET silent == PacketAge > SILENCE
     IN  /\ client' = IF silent \/ ~connected THEN "closed" ELSE client
         /\ aprs_registred' = IF silent THEN 0 ELSE aprs_registred
  /\ inbox' = Unread
  /\ age' = [age EXCEPT !["packet"] = PacketAge, !["check"] = 0]
  /\ phase' = "wifi"
  /\ UNCHANGED <<ground_registred, position_is_set, wifi, ticks, history>>

CheckMessages ==
  /\ phase = "check"
  /\ Due("check") /\ ground_registred = 1
  /\ LET silent == PacketAge > SILENCE
     IN  /\ client' = IF silent \/ ~connected THEN "closed" ELSE client
         /\ aprs_registred' = IF silent THEN 0 ELSE aprs_registred
         /\ ground_registred' = aprs_registred'
  /\ inbox' = Unread
  /\ age' = [age EXCEPT !["packet"] = PacketAge, !["check"] = 0]
  /\ phase' = "wifi"
  /\ UNCHANGED <<position_is_set, wifi, ticks, history>>

NoCheck ==
  /\ phase = "check"
  /\ ~(Due("check") /\ ground_registred = 1)
  /\ phase' = "wifi"
  /\ UNCHANGED <<program, network, age, ticks, history>>

(* OGN_APRS_check_Wifi; restarting the station interface is in vain within  *)
(* the 100 ms it is given, so that a lost Wi-Fi means a reset.             *)
CheckWifi ==
  /\ phase = "wifi"
  /\ Due("wifi")
  /\ \/ /\ wifi = "sta"
        /\ age' = [age EXCEPT !["wifi"] = 0]
        /\ phase' = "sleep"
        /\ UNCHANGED <<program, network>>
     \/ /\ wifi # "sta"
        /\ Reset
  /\ UNCHANGED <<ticks, history>>

NoWifiCheck ==
  /\ phase = "wifi" /\ ~Due("wifi")
  /\ phase' = "sleep"
  /\ UNCHANGED <<program, network, age, ticks, history>>

(* Deep sleep ends in a boot like any other.                               *)
Sleep ==
  /\ phase = "sleep"
  /\ ogn_sleepmode /\ Due("rx")
  /\ Reset
  /\ UNCHANGED <<ticks, history>>

StayAwake ==
  /\ phase = "sleep"
  /\ ~(ogn_sleepmode /\ Due("rx"))
  /\ phase' = "receive"
  /\ ticks' = 0
  /\ UNCHANGED <<program, network, age, history>>

Loop ==
  \/ Boot \/ LeaveSetup \/ Receive
  \/ RegisterSucceeds \/ RegisterFails \/ NoRegistration \/ AfterFailure
  \/ CheckMessages \/ NoCheck \/ CheckWifi \/ NoWifiCheck
  \/ Sleep \/ StayAwake

-------------------------------------------------------------------------------
(* The environment. *)

Alive == client = "open" /\ wifi = "sta"

(* A line the server sends reaches the station: one read takes it together  *)
(* with what came before, or it needs a read of its own.                   *)
ServerLine ==
  /\ Alive
  /\ \/ inbox > 0 /\ UNCHANGED inbox
     \/ inbox < Window /\ inbox' = inbox + 1
  /\ age' = [age EXCEPT !["line"] = 0]
  /\ UNCHANGED <<phase, program, wifi, client, ticks, history>>

LoseWifi ==
  /\ wifi = "sta" /\ ~stable
  /\ wifi' = "lost"
  /\ UNCHANGED <<phase, program, client, inbox, age, ticks, history>>

(* The station interface may find its access point again by itself.        *)
RegainWifi ==
  /\ wifi = "lost" /\ phase # "boot"
  /\ wifi' = "sta"
  /\ deadFor' = IF client = "open" THEN 0 ELSE deadFor
  /\ UNCHANGED <<phase, program, client, inbox, age, ticks, stable, outage>>

(* The server goes away, and the station learns of it or does not.          *)
ServerGone ==
  /\ ~stable
  /\ client = "open"
  /\ client' \in IF wifi = "sta" THEN {"silent", "dropped"} ELSE {"silent"}
  /\ UNCHANGED <<phase, program, wifi, inbox, age, ticks, history>>

(* What is sent into a silent connection may be answered with a reset.      *)
NoticeGone ==
  /\ client = "silent" /\ wifi = "sta"
  /\ client' = "dropped"
  /\ UNCHANGED <<phase, program, wifi, inbox, age, ticks, history>>

Stabilise ==
  /\ ~stable
  /\ stable' = TRUE
  /\ UNCHANGED <<phase, program, network, age, ticks, deadFor, outage>>

(* Both histories are only counted to one more than their bounds.           *)
DeadLimit == SILENCE + (Window + 1) * (APRS_CHECK_KEEPALIVE_TIME + PassTime - 1)

OutageLimit == IF DeadLimit > AP_TIME THEN DeadLimit + 4 * PassTime
               ELSE AP_TIME + 4 * PassTime

UpTo(n, limit) == IF n < limit THEN n + 1 ELSE n

Tick ==
  /\ phase \in {"boot", "receive"} /\ ticks < PassTime
  /\ ~(stable /\ Alive /\ Due("line"))
  /\ ticks' = ticks + 1
  /\ age' = [t \in Timers |-> UpTo(age[t], Top[t])]
  /\ deadFor' = IF ground_registred = 1 /\ ~Alive
                THEN UpTo(deadFor, DeadLimit + 1) ELSE 0
  /\ outage' = IF stable /\ ~(ground_registred = 1 /\ Alive)
               THEN UpTo(outage, OutageLimit + 1) ELSE 0
  /\ UNCHANGED <<phase, program, network, stable>>

(* After 49.7 days seconds() falls back to 0: the unsigned differences to    *)
(* all times kept before it are then larger than any period.               *)
Wrap ==
  /\ phase = "receive" /\ wifi # "ap" /\ Due("boot")
  /\ age' = [t \in Timers |-> CASE t = "boot" -> 0
                               [] t \in {"failure", "line"} -> age[t]
                               [] OTHER -> Top[t]]
  /\ UNCHANGED <<phase, program, network, ticks, history>>

Environment ==
  \/ Wrap \/ ServerLine \/ LoseWifi \/ RegainWifi \/ ServerGone \/ NoticeGone
  \/ Stabilise \/ Tick

Next == Loop \/ Environment

(* The processor runs, passes do not all take no time, and what a live      *)
(* connection carries arrives.                                             *)
Fairness == WF_vars(Loop) /\ SF_vars(Tick) /\ WF_vars(ServerLine)

Spec == Init /\ [][Next]_vars

FairSpec == Spec /\ Fairness

-------------------------------------------------------------------------------
(* Properties. *)

Phases == {"boot", "receive", "register", "failed", "check", "wifi", "sleep"}

(* Type correctness; in particular the loop never leaves the registration   *)
(* with the transient values of ground_registred.                          *)
TypeOK ==
  /\ phase \in Phases
  /\ ground_registred \in {-1, 0, 1} /\ aprs_registred \in {0, 1}
  /\ ground_registred = -1 <=> phase = "failed"
  /\ position_is_set \in BOOLEAN /\ stable \in BOOLEAN
  /\ wifi \in {"sta", "lost", "ap"}
  /\ client \in {"closed", "open", "silent", "dropped"}
  /\ inbox \in 0 .. Window
  /\ age \in [Timers -> Nat] /\ \A t \in Timers : age[t] <= Top[t]
  /\ ticks \in 0 .. PassTime
  /\ deadFor \in Nat /\ outage \in Nat

(* The loop and the APRS client keep a flag each; the loop never believes  *)
(* in a session the client has given up, in setup mode or without position. *)
FlagsAgree ==
  ground_registred = 1 => aprs_registred = 1 /\ position_is_set /\ wifi # "ap"

(* A connection that died, with or without notice, is given up after a      *)
(* bounded time, even if lines received before are read much later, and no *)
(* report can be exported into the void for longer (APRS.cpp:170).         *)
DeadLinkBound == deadFor <= DeadLimit

(* Once Wi-Fi and server are there to stay, the station has a usable        *)
(* session within a bounded time, from whatever state the trouble left it  *)
(* in: setup mode, a dead connection not yet noticed, a reset under way.   *)
OutageBound == outage <= OutageLimit

(* ... and keeps it, if it does not go to sleep for ever again: neither the *)
(* periodic registration nor the supervision goes on tearing it down.       *)
StaysRegistered ==
  <>stable /\ <>[][~Sleep /\ ~Wrap]_vars => <>[](ground_registred = 1 /\ Alive)

(* The longest time between two looks for messages. *)
Round == APRS_CHECK_KEEPALIVE_TIME + PassTime - 1

(* A bound of the time since the last look, as the age of it is capped.     *)
SinceCheck == IF age["check"] < APRS_CHECK_KEEPALIVE_TIME THEN age["check"]
              ELSE APRS_CHECK_KEEPALIVE_TIME - 1 + ticks

Up == ground_registred = 1 /\ Alive

(* A session that has come to rest.  What waits in the inbox is read at the *)
(* next look; a registration that throws it away comes soon after a packet, *)
(* or not before that look.  With nothing in the inbox the last packet is    *)
(* no older than the last line, or the station has registered just now, and *)
(* the packets it had before last until the next look finds a new line.     *)
Settled ==
  /\ stable /\ Up
  /\ inbox > 0 => \/ age["packet"] <= SERVER_PERIOD + SinceCheck
                  \/ age["register"] <= SinceCheck
  /\ inbox = 0 => \/ age["packet"] <= age["line"]
                  \/ /\ age["register"] = 0 /\ Due("line")
                     /\ age["packet"] <= SERVER_PERIOD + Round

ReadsLine == stable /\ Up /\ inbox > 0 /\ CheckMessages

(* What StaysRegistered comes down to, step by step: once a line of the      *)
(* stable server has been read, nothing the loop does gives the session up  *)
(* but sleep and the wrap of seconds() - not the periodic registration,     *)
(* which throws away what was received (APRS.cpp:124-163) just before the   *)
(* look that would miss it (APRS.cpp:170).                                 *)
SessionKept ==
  [][Settled \/ ReadsLine => Settled' \/ Sleep \/ Wrap]_vars

(* A station that sleeps when it hears nothing registers after every        *)
(* wake-up.                                                                *)
RegistersAgain == <>stable => []<>(ground_registred = 1)

(* The message of APRS.cpp:172, "no packet since > 60 seconds": only a      *)
(* connection that was silent for so long is given up.                     *)
OnlySilentDropped ==
  [][ground_registred = 1 /\ ground_registred' = 0 /\ phase = "check"
       => age["register"] > SILENCE]_vars

===============================================================================
