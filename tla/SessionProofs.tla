----------------------------- MODULE SessionProofs -----------------------------
(***************************************************************************)
(* Proofs about the session with the server, for any times, any length of  *)
(* a pass and any size of the TCP window.                                  *)
(***************************************************************************)
EXTENDS Session, TLAPS

(* What the rounds cost in which the lines left over are read.             *)
ReadTime(n) == (Window - n) * Round

(* A station that boots has no session. *)
BootUnregistered == phase = "boot" => ground_registred = 0 /\ client = "closed"

(* A registered station that has passed the look for messages has made it,  *)
(* or it was not due.                                                      *)
CheckNotMissed ==
  ground_registred = 1 /\ phase \in {"wifi", "sleep"}
    => age["check"] < APRS_CHECK_KEEPALIVE_TIME

AliveIsNotDead == Alive => deadFor = 0

(* The time a dead link went unnoticed: while lines are left, one round for *)
(* each that was read; then the silence, and the round that finds it.       *)
DeadTime ==
  ground_registred = 1 =>
    /\ inbox > 0 => deadFor <= ReadTime(inbox) + SinceCheck
    /\ inbox = 0 => /\ deadFor <= ReadTime(0) + SILENCE + SinceCheck
                    /\ age["packet"] <= SILENCE =>
                         deadFor <= ReadTime(0) + age["packet"]

(* The inductive invariant. *)
IInv == /\ TypeOK
        /\ FlagsAgree
        /\ BootUnregistered
        /\ CheckNotMissed
        /\ AliveIsNotDead
        /\ DeadTime
        /\ DeadLinkBound

-------------------------------------------------------------------------------
(* Facts about the operators. *)

(* The largest age of each timer. *)
LEMMA TopFields ==
  /\ Top["register"] = APRS_REGISTER_REC /\ Top["check"] = APRS_CHECK_KEEPALIVE_TIME
  /\ Top["wifi"] = APRS_CHECK_WIFI_TIME  /\ Top["packet"] = SILENCE + 1
  /\ Top["boot"] = AP_TIME + 1           /\ Top["failure"] = TIME_TO_REREG
  /\ Top["line"] = SERVER_PERIOD         /\ Top["rx"] \in {0, ogn_rxidle}
BY DEF Top

(* ... is a number. *)
LEMMA TopType == \A t \in Timers : Top[t] \in Nat
BY TopFields, TimesAssumption DEF Timers

(* One age set to 0. *)
LEMMA AgeReset ==
  ASSUME NEW a \in [Timers -> Nat], \A t \in Timers : a[t] <= Top[t],
         NEW s \in Timers
  PROVE  LET b == [a EXCEPT ![s] = 0]
         IN  /\ b \in [Timers -> Nat]
             /\ \A t \in Timers : b[t] <= Top[t]
BY TopType

(* The ages a reset leaves. *)
LEMMA AgesType ==
  ASSUME NEW f \in Nat, f <= TIME_TO_REREG
  PROVE  /\ Ages(f) \in [Timers -> Nat]
         /\ \A t \in Timers : Ages(f)[t] <= Top[t]
BY TopFields, TopType DEF Ages

(* The time since the last look is that of a round at most. *)
LEMMA RoundBound ==
  ASSUME TypeOK
  PROVE  Round \in Nat /\ SinceCheck \in Nat /\ SinceCheck <= Round
<1>1. age["check"] \in Nat
  BY DEF TypeOK, Timers
<1>2. ticks \in Nat /\ ticks <= PassTime
  BY TimesAssumption DEF TypeOK
<1> QED
  BY <1>1, <1>2, TimesAssumption, PassAssumption DEF Round, SinceCheck

(* Each line read costs a round more. *)
LEMMA ReadTimes ==
  ASSUME NEW n \in Nat, n <= Window
  PROVE  /\ ReadTime(n) \in Nat
         /\ n > 0 => /\ ReadTime(n - 1) = ReadTime(n) + Round
                     /\ ReadTime(n) + Round <= ReadTime(0)
<1>1. Window \in Nat /\ Round \in Nat
  BY TimesAssumption, PassAssumption DEF Round
<1>2. \A a, b \in Nat : a * b \in Nat
  OBVIOUS
<1>3. Window - n \in Nat
  BY <1>1
<1>4. ReadTime(n) \in Nat
  BY <1>1, <1>2, <1>3 DEF ReadTime
<1>5. ASSUME n > 0
      PROVE  /\ ReadTime(n - 1) = ReadTime(n) + Round
             /\ ReadTime(n) + Round <= ReadTime(0)
  <2>1. n - 1 \in Nat
    BY <1>5
  <2>2. (n - 1) * Round \in Nat
    BY <1>1, <1>2, <2>1
  <2>3. ReadTime(n - 1) = ReadTime(n) + Round
    BY <1>1 DEF ReadTime
  <2>4. ReadTime(0) = ReadTime(n - 1) + (n - 1) * Round
    BY <1>1, <2>1 DEF ReadTime
  <2> QED
    BY <1>1, <1>4, <2>2, <2>3, <2>4
<1> QED
  BY <1>4, <1>5

(* A link that is not dead has been dead for no time. *)
LEMMA NoDeadTime ==
  ASSUME TypeOK, deadFor = 0
  PROVE  DeadTime
<1>1. SinceCheck \in Nat /\ inbox \in Nat /\ inbox <= Window
  BY RoundBound DEF TypeOK
<1>2. ReadTime(inbox) \in Nat /\ ReadTime(0) \in Nat
  BY <1>1, ReadTimes, TimesAssumption
<1>3. age["packet"] \in Nat
  BY DEF TypeOK, Timers
<1> QED
  BY <1>1, <1>2, <1>3, TimesAssumption DEF DeadTime

(* The same of the next state. *)
LEMMA RoundBoundNext ==
  ASSUME TypeOK'
  PROVE  Round \in Nat /\ SinceCheck' \in Nat /\ SinceCheck' <= Round
<1>1. age'["check"] \in Nat
  BY DEF TypeOK, Timers
<1>2. ticks' \in Nat /\ ticks' <= PassTime
  BY TimesAssumption DEF TypeOK
<1>3. CASE age'["check"] < APRS_CHECK_KEEPALIVE_TIME
  <2>1. SinceCheck' = age'["check"]
    BY <1>3 DEF SinceCheck
  <2> QED
    BY <1>1, <1>3, <2>1, TimesAssumption, PassAssumption DEF Round
<1>4. CASE ~(age'["check"] < APRS_CHECK_KEEPALIVE_TIME)
  <2>1. SinceCheck' = APRS_CHECK_KEEPALIVE_TIME - 1 + ticks'
    BY <1>4 DEF SinceCheck
  <2>2. Round \in Nat /\ PassTime \in Nat /\ APRS_CHECK_KEEPALIVE_TIME - 1 \in Nat
    BY TimesAssumption, PassAssumption DEF Round
  <2>3. Round = APRS_CHECK_KEEPALIVE_TIME - 1 + PassTime
    BY TimesAssumption DEF Round
  <2> QED
    BY <1>2, <2>1, <2>2, <2>3
<1> QED
  BY <1>3, <1>4

(* ... and of a link that is alive in the next state. *)
LEMMA NoDeadTimeNext ==
  ASSUME TypeOK', deadFor' = 0
  PROVE  DeadTime'
<1>1. SinceCheck' \in Nat /\ inbox' \in Nat /\ inbox' <= Window
  BY RoundBoundNext DEF TypeOK
<1>2. ReadTime(inbox') \in Nat /\ ReadTime(0) \in Nat
  BY <1>1, ReadTimes, TimesAssumption
<1>3. age'["packet"] \in Nat
  BY DEF TypeOK, Timers
<1> QED
  BY <1>1, <1>2, <1>3, TimesAssumption DEF DeadTime, ReadTime

(* A step that lets no time pass and reads nothing. *)
LEMMA SameDeadTime ==
  ASSUME DeadTime,
         deadFor' = deadFor, inbox' = inbox,
         age'["check"] = age["check"], age'["packet"] = age["packet"],
         ground_registred' = 1 =>
           /\ ground_registred = 1
           /\ ticks' = ticks \/ age["check"] < APRS_CHECK_KEEPALIVE_TIME
  PROVE  DeadTime'
<1>1. ground_registred' = 1 => SinceCheck' = SinceCheck
  BY DEF SinceCheck
<1> QED
  BY <1>1 DEF DeadTime, ReadTime

(* A reset leaves no session. *)
LEMMA ResetStep ==
  ASSUME IInv, Reset, UNCHANGED <<ticks, history>>
  PROVE  IInv'
<1>1. TypeOK'
  <2>1. age["failure"] \in Nat /\ age["failure"] <= TIME_TO_REREG
    BY TopFields DEF IInv, TypeOK, Timers
  <2>2. age' \in [Timers -> Nat] /\ \A t \in Timers : age'[t] <= Top[t]
    BY <2>1, AgesType DEF Reset
  <2>3. inbox' \in 0 .. Window
    BY TimesAssumption DEF Reset
  <2>4. \A t \in Timers : (age[t] <= Top[t])'
    BY <2>2 DEF Top
  <2>5. /\ phase' \in Phases
        /\ ground_registred' = 0 /\ ground_registred' # -1 /\ phase' # "failed"
        /\ position_is_set' = FALSE /\ aprs_registred' = 0
        /\ wifi' = "lost" /\ client' = "closed"
    BY DEF Reset, Phases
  <2> QED
    BY <2>2, <2>3, <2>4, <2>5 DEF IInv, TypeOK, Phases, history
<1>2. FlagsAgree' /\ BootUnregistered' /\ CheckNotMissed' /\ DeadTime'
  BY DEF Reset, FlagsAgree, BootUnregistered, CheckNotMissed, DeadTime
<1>3. AliveIsNotDead' /\ DeadLinkBound'
  BY DEF IInv, Reset, AliveIsNotDead, Alive, DeadLinkBound, DeadLimit, history
<1> QED
  BY <1>1, <1>2, <1>3 DEF IInv

(* Boot keeps the invariant. *)
LEMMA BootStep == IInv /\ Boot => IInv'
<1> SUFFICES ASSUME IInv, Boot PROVE IInv'
  OBVIOUS
<1>1. ground_registred = 0 /\ ground_registred' = 0
  BY DEF IInv, BootUnregistered, Boot, program
<1>2. TypeOK'
  BY TimesAssumption DEF IInv, Boot, TypeOK, Phases, Top, program, history
<1>3. FlagsAgree' /\ BootUnregistered' /\ CheckNotMissed' /\ DeadTime'
  BY <1>1 DEF Boot, FlagsAgree, BootUnregistered, CheckNotMissed, DeadTime
<1>4. AliveIsNotDead' /\ DeadLinkBound'
  <2>1. client # "open"
    BY DEF IInv, BootUnregistered, Boot
  <2> QED
    BY <2>1 DEF IInv, Boot, AliveIsNotDead, DeadLinkBound, DeadLimit, Alive, history
<1> QED
  BY <1>2, <1>3, <1>4 DEF IInv

(* LeaveSetup keeps the invariant. *)
LEMMA LeaveSetupStep == IInv /\ LeaveSetup => IInv'
BY ResetStep DEF LeaveSetup, history

(* Receive keeps the invariant. *)
LEMMA ReceiveStep == IInv /\ Receive => IInv'
<1> SUFFICES ASSUME IInv, Receive PROVE IInv'
  OBVIOUS
<1>1. TypeOK'
  <2>1. age' \in {age, [age EXCEPT !["rx"] = 0]}
    BY DEF Receive
  <2>2. age' \in [Timers -> Nat] /\ \A t \in Timers : age'[t] <= Top[t]
    <3>1. age \in [Timers -> Nat] /\ \A t \in Timers : age[t] <= Top[t]
      BY DEF IInv, TypeOK
    <3> QED
      BY <2>1, <3>1, AgeReset DEF Timers
  <2> QED
    BY <2>2, ConfigAssumption DEF IInv, Receive, TypeOK, Phases, Top, network, history
<1>2. FlagsAgree' /\ BootUnregistered' /\ CheckNotMissed'
  BY DEF IInv, Receive, FlagsAgree, BootUnregistered, CheckNotMissed, network,
         history
<1>3. AliveIsNotDead' /\ DeadLinkBound'
  BY DEF IInv, Receive, AliveIsNotDead, Alive, DeadLinkBound, DeadLimit, network,
         history
<1>4. DeadTime'
  BY SameDeadTime DEF IInv, Receive, TypeOK, Timers, network, history
<1> QED
  BY <1>1, <1>2, <1>3, <1>4 DEF IInv

(* RegisterFails keeps the invariant. *)
LEMMA RegisterFailsStep == IInv /\ RegisterFails => IInv'
<1> SUFFICES ASSUME IInv, RegisterFails PROVE IInv'
  OBVIOUS
<1>1. TypeOK'
  <2>1. age \in [Timers -> Nat] /\ \A t \in Timers : age[t] <= Top[t]
    BY DEF IInv, TypeOK
  <2>2. age' \in [Timers -> Nat] /\ \A t \in Timers : age'[t] <= Top[t]
    BY <2>1, AgeReset DEF RegisterFails, Timers
  <2> QED
    BY <2>2 DEF IInv, RegisterFails, TypeOK, Phases, Top, network, history
<1>2. FlagsAgree' /\ BootUnregistered' /\ CheckNotMissed'
  BY DEF IInv, RegisterFails, FlagsAgree, BootUnregistered, CheckNotMissed, network,
         history
<1>3. AliveIsNotDead' /\ DeadLinkBound'
  BY DEF IInv, RegisterFails, AliveIsNotDead, Alive, DeadLinkBound, DeadLimit,
         network, history
<1>4. DeadTime'
  BY SameDeadTime DEF IInv, RegisterFails, TypeOK, Timers, network, history
<1> QED
  BY <1>1, <1>2, <1>3, <1>4 DEF IInv

(* NoRegistration keeps the invariant. *)
LEMMA NoRegistrationStep == IInv /\ NoRegistration => IInv'
<1> SUFFICES ASSUME IInv, NoRegistration PROVE IInv'
  OBVIOUS
<1>1. TypeOK'
  BY DEF IInv, NoRegistration, TypeOK, Phases, Top, program, network, history
<1>2. FlagsAgree' /\ BootUnregistered' /\ CheckNotMissed'
  BY DEF IInv, NoRegistration, FlagsAgree, BootUnregistered, CheckNotMissed,
         program, network, history
<1>3. AliveIsNotDead' /\ DeadLinkBound'
  BY DEF IInv, NoRegistration, AliveIsNotDead, Alive, DeadLinkBound, DeadLimit,
         program, network, history
<1>4. DeadTime'
  BY SameDeadTime DEF IInv, NoRegistration, program, network, history
<1> QED
  BY <1>1, <1>2, <1>3, <1>4 DEF IInv

(* NoCheck keeps the invariant. *)
LEMMA NoCheckStep == IInv /\ NoCheck => IInv'
<1> SUFFICES ASSUME IInv, NoCheck PROVE IInv'
  OBVIOUS
<1>1. TypeOK'
  BY DEF IInv, NoCheck, TypeOK, Phases, Top, program, network, history
<1>2. FlagsAgree' /\ BootUnregistered'
  BY DEF IInv, NoCheck, FlagsAgree, BootUnregistered, program, network
<1>3. CheckNotMissed'
  <2>1. age["check"] \in Nat /\ age' = age
    BY DEF IInv, TypeOK, Timers, NoCheck
  <2>2. Due("check") <=> age["check"] >= APRS_CHECK_KEEPALIVE_TIME
    BY TopFields DEF Due
  <2> QED
    BY <2>1, <2>2, TimesAssumption DEF NoCheck, CheckNotMissed, program
<1>4. AliveIsNotDead' /\ DeadLinkBound'
  BY DEF IInv, NoCheck, AliveIsNotDead, Alive, DeadLinkBound, DeadLimit, program,
         network, history
<1>5. DeadTime'
  BY SameDeadTime DEF IInv, NoCheck, program, network, history
<1> QED
  BY <1>1, <1>2, <1>3, <1>4, <1>5 DEF IInv

(* NoWifiCheck keeps the invariant. *)
LEMMA NoWifiCheckStep == IInv /\ NoWifiCheck => IInv'
<1> SUFFICES ASSUME IInv, NoWifiCheck PROVE IInv'
  OBVIOUS
<1>1. TypeOK'
  BY DEF IInv, NoWifiCheck, TypeOK, Phases, Top, program, network, history
<1>2. FlagsAgree' /\ BootUnregistered' /\ CheckNotMissed'
  BY DEF IInv, NoWifiCheck, FlagsAgree, BootUnregistered, CheckNotMissed, program,
         network, history
<1>3. AliveIsNotDead' /\ DeadLinkBound'
  BY DEF IInv, NoWifiCheck, AliveIsNotDead, Alive, DeadLinkBound, DeadLimit,
         program, network, history
<1>4. DeadTime'
  BY SameDeadTime DEF IInv, NoWifiCheck, program, network, history
<1> QED
  BY <1>1, <1>2, <1>3, <1>4 DEF IInv

(* Sleep keeps the invariant. *)
LEMMA SleepStep == IInv /\ Sleep => IInv'
BY ResetStep DEF Sleep, history

(* StayAwake keeps the invariant. *)
LEMMA StayAwakeStep == IInv /\ StayAwake => IInv'
<1> SUFFICES ASSUME IInv, StayAwake PROVE IInv'
  OBVIOUS
<1>1. TypeOK'
  BY TimesAssumption DEF IInv, StayAwake, TypeOK, Phases, Top, program, network,
                         history
<1>2. FlagsAgree' /\ BootUnregistered' /\ CheckNotMissed'
  BY DEF IInv, StayAwake, FlagsAgree, BootUnregistered, CheckNotMissed, program,
         network, history
<1>3. AliveIsNotDead' /\ DeadLinkBound'
  BY DEF IInv, StayAwake, AliveIsNotDead, Alive, DeadLinkBound, DeadLimit, program,
         network, history
<1>4. DeadTime'
  BY SameDeadTime DEF IInv, StayAwake, CheckNotMissed, program, network, history
<1> QED
  BY <1>1, <1>2, <1>3, <1>4 DEF IInv

(* LoseWifi keeps the invariant. *)
LEMMA LoseWifiStep == IInv /\ LoseWifi => IInv'
<1> SUFFICES ASSUME IInv, LoseWifi PROVE IInv'
  OBVIOUS
<1>1. TypeOK'
  BY DEF IInv, LoseWifi, TypeOK, Top, program, history
<1>2. FlagsAgree' /\ BootUnregistered' /\ CheckNotMissed'
  BY DEF IInv, LoseWifi, FlagsAgree, BootUnregistered, CheckNotMissed, program,
         history
<1>3. AliveIsNotDead' /\ DeadLinkBound'
  BY DEF IInv, LoseWifi, AliveIsNotDead, Alive, DeadLinkBound, DeadLimit, program,
         history
<1>4. DeadTime'
  BY SameDeadTime DEF IInv, LoseWifi, program, history
<1> QED
  BY <1>1, <1>2, <1>3, <1>4 DEF IInv

(* ServerGone keeps the invariant. *)
LEMMA ServerGoneStep == IInv /\ ServerGone => IInv'
<1> SUFFICES ASSUME IInv, ServerGone PROVE IInv'
  OBVIOUS
<1>1. TypeOK'
  BY DEF IInv, ServerGone, TypeOK, Top, program, history
<1>2. FlagsAgree' /\ BootUnregistered' /\ CheckNotMissed'
  BY DEF IInv, ServerGone, FlagsAgree, BootUnregistered, CheckNotMissed, program,
         history
<1>3. AliveIsNotDead' /\ DeadLinkBound'
  BY DEF IInv, ServerGone, AliveIsNotDead, Alive, DeadLinkBound, DeadLimit, program,
         history
<1>4. DeadTime'
  BY SameDeadTime DEF IInv, ServerGone, program, history
<1> QED
  BY <1>1, <1>2, <1>3, <1>4 DEF IInv

(* NoticeGone keeps the invariant. *)
LEMMA NoticeGoneStep == IInv /\ NoticeGone => IInv'
<1> SUFFICES ASSUME IInv, NoticeGone PROVE IInv'
  OBVIOUS
<1>1. TypeOK'
  BY DEF IInv, NoticeGone, TypeOK, Top, program, history
<1>2. FlagsAgree' /\ BootUnregistered' /\ CheckNotMissed'
  BY DEF IInv, NoticeGone, FlagsAgree, BootUnregistered, CheckNotMissed, program,
         history
<1>3. AliveIsNotDead' /\ DeadLinkBound'
  BY DEF IInv, NoticeGone, AliveIsNotDead, Alive, DeadLinkBound, DeadLimit, program,
         history
<1>4. DeadTime'
  BY SameDeadTime DEF IInv, NoticeGone, program, history
<1> QED
  BY <1>1, <1>2, <1>3, <1>4 DEF IInv

(* Stabilise keeps the invariant. *)
LEMMA StabiliseStep == IInv /\ Stabilise => IInv'
<1> SUFFICES ASSUME IInv, Stabilise PROVE IInv'
  OBVIOUS
<1>1. TypeOK'
  BY DEF IInv, Stabilise, TypeOK, Top, program, network
<1>2. FlagsAgree' /\ BootUnregistered' /\ CheckNotMissed'
  BY DEF IInv, Stabilise, FlagsAgree, BootUnregistered, CheckNotMissed, program,
         network
<1>3. AliveIsNotDead' /\ DeadLinkBound'
  BY DEF IInv, Stabilise, AliveIsNotDead, Alive, DeadLinkBound, DeadLimit, program,
         network
<1>4. DeadTime'
  BY SameDeadTime DEF IInv, Stabilise, program, network
<1> QED
  BY <1>1, <1>2, <1>3, <1>4 DEF IInv

(* AfterFailure keeps the invariant. *)
LEMMA AfterFailureStep == IInv /\ AfterFailure => IInv'
<1> SUFFICES ASSUME IInv, AfterFailure PROVE IInv'
  OBVIOUS
<1>1. CASE Reset
  BY <1>1, ResetStep DEF AfterFailure
<1>2. CASE ~Reset
  <2>1. /\ ground_registred' = 0
        /\ age' = [age EXCEPT !["failure"] = 0]
        /\ phase' = "check"
        /\ UNCHANGED <<aprs_registred, position_is_set, network, ticks, history>>
    BY <1>2 DEF AfterFailure
  <2>2. TypeOK'
    <3>1. age' \in [Timers -> Nat] /\ \A t \in Timers : age'[t] <= Top[t]
      <4>1. age \in [Timers -> Nat] /\ \A t \in Timers : age[t] <= Top[t]
        BY DEF IInv, TypeOK
      <4> QED
        BY <2>1, <4>1, AgeReset DEF Timers
    <3> QED
      BY <2>1, <3>1 DEF IInv, AfterFailure, TypeOK, Phases, Top, network, history
  <2>3. FlagsAgree' /\ BootUnregistered' /\ CheckNotMissed' /\ DeadTime'
    BY <2>1 DEF FlagsAgree, BootUnregistered, CheckNotMissed, DeadTime
  <2>4. AliveIsNotDead' /\ DeadLinkBound'
    BY <2>1 DEF IInv, AliveIsNotDead, DeadLinkBound, DeadLimit, Alive, network, history
  <2> QED
    BY <2>2, <2>3, <2>4 DEF IInv
<1> QED
  BY <1>1, <1>2

(* CheckWifi keeps the invariant. *)
LEMMA CheckWifiStep == IInv /\ CheckWifi => IInv'
<1> SUFFICES ASSUME IInv, CheckWifi PROVE IInv'
  OBVIOUS
<1>1. CASE Reset
  BY <1>1, ResetStep DEF CheckWifi
<1>2. CASE ~Reset
  <2>1. /\ phase = "wifi" /\ phase' = "sleep"
        /\ age' = [age EXCEPT !["wifi"] = 0]
        /\ UNCHANGED <<program, network, ticks, history>>
    BY <1>2 DEF CheckWifi
  <2>2. TypeOK'
    <3>1. age' \in [Timers -> Nat] /\ \A t \in Timers : age'[t] <= Top[t]
      <4>1. age \in [Timers -> Nat] /\ \A t \in Timers : age[t] <= Top[t]
        BY DEF IInv, TypeOK
      <4> QED
        BY <2>1, <4>1, AgeReset DEF Timers
    <3> QED
      BY <2>1, <3>1 DEF IInv, TypeOK, Phases, Top, program, network, history
  <2>3. FlagsAgree' /\ BootUnregistered' /\ CheckNotMissed'
    BY <2>1 DEF IInv, TypeOK, Timers, FlagsAgree, BootUnregistered, CheckNotMissed,
                program, network
  <2>4. AliveIsNotDead' /\ DeadLinkBound'
    BY <2>1 DEF IInv, AliveIsNotDead, Alive, DeadLinkBound, DeadLimit, program,
                network, history
  <2>5. DeadTime'
    BY <2>1, SameDeadTime DEF IInv, TypeOK, Timers, program, network, history
  <2> QED
    BY <2>2, <2>3, <2>4, <2>5 DEF IInv
<1> QED
  BY <1>1, <1>2

(* RegisterSucceeds keeps the invariant. *)
LEMMA RegisterSucceedsStep == IInv /\ RegisterSucceeds => IInv'
<1> SUFFICES ASSUME IInv, RegisterSucceeds PROVE IInv'
  OBVIOUS
<1>1. TypeOK'
  <2> DEFINE a == [age EXCEPT !["register"] = 0]
  <2>1. a \in [Timers -> Nat] /\ \A t \in Timers : a[t] <= Top[t]
    <3>1. age \in [Timers -> Nat] /\ \A t \in Timers : age[t] <= Top[t]
      BY DEF IInv, TypeOK
    <3> QED
      BY <3>1, AgeReset DEF Timers
  <2>2. age' = [a EXCEPT !["line"] = SERVER_PERIOD]
    BY DEF RegisterSucceeds
  <2>3. age' \in [Timers -> Nat] /\ \A t \in Timers : age'[t] <= Top[t]
    BY <2>1, <2>2, TopFields, TimesAssumption DEF Timers
  <2>4. inbox' \in 0 .. Window
    BY TimesAssumption DEF RegisterSucceeds
  <2> QED
    BY <2>3, <2>4 DEF IInv, RegisterSucceeds, TypeOK, Phases, Top
<1>2. FlagsAgree' /\ BootUnregistered' /\ CheckNotMissed'
  BY DEF RegisterSucceeds, MustRegister, FlagsAgree, BootUnregistered, CheckNotMissed
<1>3. deadFor' = 0
  BY DEF RegisterSucceeds
<1>4. AliveIsNotDead' /\ DeadLinkBound'
  <2>1. deadFor <= DeadLimit /\ deadFor \in Nat
    BY DEF IInv, TypeOK, DeadLinkBound
  <2>2. DeadLimit \in Int
    BY TimesAssumption, PassAssumption DEF DeadLimit
  <2> QED
    BY <1>3, <2>1, <2>2 DEF AliveIsNotDead, DeadLinkBound, DeadLimit
<1>5. DeadTime'
  BY <1>1, <1>3, NoDeadTimeNext
<1> QED
  BY <1>1, <1>2, <1>4, <1>5 DEF IInv

(* What is read has cost a round at most since the look before.             *)
LEMMA CheckMessagesStep == IInv /\ CheckMessages => IInv'
<1> SUFFICES ASSUME IInv, CheckMessages PROVE IInv'
  OBVIOUS
<1> DEFINE n == inbox
<1>1. /\ n \in Nat /\ n <= Window
      /\ age \in [Timers -> Nat] /\ \A t \in Timers : age[t] <= Top[t]
  BY TimesAssumption DEF IInv, TypeOK
<1>2. /\ PacketAge \in Nat /\ PacketAge <= SILENCE + 1
      /\ PacketAge \in {0, age["packet"]}
  BY <1>1, TimesAssumption DEF PacketAge, Timers, Top
<1>3. inbox' = IF connected /\ n > 0 THEN n - 1 ELSE 0
  BY <1>1 DEF CheckMessages, Unread
<1>4. age'["check"] = 0 /\ age'["packet"] = PacketAge
  BY <1>1 DEF CheckMessages, Timers
<1>5. /\ aprs_registred \in {0, 1} /\ aprs_registred' \in {0, 1}
      /\ ground_registred' = aprs_registred'
      /\ client' \in {"closed", client}
  BY DEF IInv, TypeOK, CheckMessages
<1>6. TypeOK'
  <2>1. /\ age' \in [Timers -> Nat] /\ \A t \in Timers : age'[t] <= Top[t]
    <3> DEFINE a == [age EXCEPT !["packet"] = PacketAge]
    <3>1. a \in [Timers -> Nat] /\ \A t \in Timers : a[t] <= Top[t]
      BY <1>1, <1>2, TopFields DEF Timers
    <3>2. age' = [a EXCEPT !["check"] = 0]
      BY DEF CheckMessages
    <3> QED
      BY <3>1, <3>2, TopType DEF Timers
  <2>2. inbox' <= Window
    BY <1>1, <1>3, TimesAssumption
  <2> QED
    BY <1>3, <1>5, <2>1, <2>2 DEF IInv, TypeOK, CheckMessages, Phases, history
<1>7. FlagsAgree' /\ BootUnregistered'
  BY <1>5 DEF IInv, CheckMessages, FlagsAgree, BootUnregistered
<1>8. CheckNotMissed'
  BY <1>4, PassAssumption, TimesAssumption DEF CheckNotMissed
<1>9. AliveIsNotDead' /\ DeadLinkBound'
  BY <1>5 DEF IInv, CheckMessages, AliveIsNotDead, Alive, DeadLinkBound, DeadLimit,
              history
<1>10. DeadTime'
  <2> SUFFICES ASSUME ground_registred' = 1
               PROVE  /\ inbox' > 0 => deadFor <= ReadTime(inbox')
                      /\ inbox' = 0 => deadFor <= ReadTime(0) + PacketAge
                      /\ PacketAge <= SILENCE
    <3>1. SinceCheck' = 0
      BY <1>4, PassAssumption, TimesAssumption DEF SinceCheck
    <3>2. deadFor' = deadFor /\ deadFor \in Nat
      BY DEF IInv, TypeOK, CheckMessages, history
    <3>3. inbox' \in Nat /\ inbox' <= Window
      BY <1>6 DEF TypeOK
    <3>4. ReadTime(inbox') \in Nat /\ ReadTime(0) \in Nat
      BY <3>3, ReadTimes, TimesAssumption
    <3> QED
      BY <1>2, <1>4, <3>1, <3>2, <3>3, <3>4, TimesAssumption DEF DeadTime, ReadTime
  <2>1. PacketAge <= SILENCE
    BY <1>2, <1>5, TimesAssumption DEF CheckMessages
  <2>2. ground_registred = 1
    BY DEF CheckMessages
  <2>3. /\ SinceCheck \in Nat /\ SinceCheck <= Round /\ Round \in Nat
        /\ deadFor \in Nat
    BY RoundBound DEF IInv, TypeOK
  <2>4. ReadTime(n) \in Nat /\ ReadTime(0) \in Nat
    BY <1>1, ReadTimes, TimesAssumption
  <2>5. CASE n > 0
    <3>1. deadFor <= ReadTime(n) + Round
      BY <2>2, <2>3, <2>4, <2>5 DEF IInv, DeadTime
    <3>2. deadFor <= ReadTime(0) /\ deadFor <= ReadTime(n - 1)
      BY <1>1, <2>3, <2>4, <2>5, <3>1, ReadTimes
    <3> QED
      BY <1>2, <1>3, <2>1, <2>3, <2>4, <2>5, <3>2
  <2>6. n = 0 => (age["packet"] <= SILENCE => deadFor <= ReadTime(0) + age["packet"])
    BY <2>2 DEF IInv, DeadTime
  <2>7. CASE n = 0
    <3>1. PacketAge = age["packet"] /\ inbox' = 0
      BY <1>1, <1>3, <2>7 DEF PacketAge
    <3>2. age["packet"] <= SILENCE => deadFor <= ReadTime(0) + age["packet"]
      BY <2>7, <2>6
    <3>3. deadFor <= ReadTime(0) + PacketAge
      BY <2>1, <3>1, <3>2
    <3> QED
      BY <2>1, <3>1, <3>3
  <2> QED
    BY <1>1, <2>5, <2>7
<1> QED
  BY <1>6, <1>7, <1>8, <1>9, <1>10 DEF IInv

(* ServerLine keeps the invariant. *)
LEMMA ServerLineStep == IInv /\ ServerLine => IInv'
<1> SUFFICES ASSUME IInv, ServerLine PROVE IInv'
  OBVIOUS
<1>1. inbox' \in 0 .. Window
  BY TimesAssumption DEF IInv, TypeOK, ServerLine
<1>2. TypeOK'
  <2>1. age' \in [Timers -> Nat] /\ \A t \in Timers : age'[t] <= Top[t]
    <3>1. age \in [Timers -> Nat] /\ \A t \in Timers : age[t] <= Top[t]
      BY DEF IInv, TypeOK
    <3> QED
      BY <3>1, AgeReset DEF ServerLine, Timers
  <2> QED
    BY <1>1, <2>1 DEF IInv, ServerLine, TypeOK, Top, program, history
<1>3. FlagsAgree' /\ BootUnregistered' /\ CheckNotMissed'
  BY DEF IInv, ServerLine, TypeOK, Timers, FlagsAgree, BootUnregistered,
         CheckNotMissed, program
<1>4. deadFor' = 0 /\ AliveIsNotDead' /\ DeadLinkBound'
  BY DEF IInv, ServerLine, AliveIsNotDead, DeadLinkBound, DeadLimit, history
<1>5. DeadTime'
  BY <1>2, <1>4, NoDeadTimeNext
<1> QED
  BY <1>2, <1>3, <1>4, <1>5 DEF IInv

(* RegainWifi keeps the invariant. *)
LEMMA RegainWifiStep == IInv /\ RegainWifi => IInv'
<1> SUFFICES ASSUME IInv, RegainWifi PROVE IInv'
  OBVIOUS
<1>1. TypeOK'
  BY DEF IInv, RegainWifi, TypeOK, program
<1>2. FlagsAgree' /\ BootUnregistered' /\ CheckNotMissed'
  BY DEF IInv, RegainWifi, FlagsAgree, BootUnregistered, CheckNotMissed, program
<1>3. deadFor' \in {0, deadFor} /\ AliveIsNotDead'
  BY DEF IInv, RegainWifi, AliveIsNotDead, Alive
<1>4. DeadLinkBound'
  BY <1>3, RoundBound, TimesAssumption, PassAssumption
  DEF IInv, TypeOK, DeadLinkBound, DeadLimit
<1>5. CASE deadFor' = 0
  BY <1>1, <1>2, <1>3, <1>4, <1>5, NoDeadTimeNext DEF IInv
<1>6. CASE deadFor' = deadFor
  <2>1. DeadTime'
    BY <1>6, SameDeadTime DEF IInv, RegainWifi, program
  <2> QED
    BY <1>1, <1>2, <1>3, <1>4, <2>1 DEF IInv
<1> QED
  BY <1>3, <1>5, <1>6

(* A wrap of seconds() makes nothing later than it was due.                *)
LEMMA WrapStep == IInv /\ Wrap => IInv'
<1> SUFFICES ASSUME IInv, Wrap PROVE IInv'
  OBVIOUS
<1>1. /\ age \in [Timers -> Nat] /\ \A t \in Timers : age[t] <= Top[t]
      /\ age' = [t \in Timers |-> CASE t = "boot" -> 0
                                   [] t \in {"failure", "line"} -> age[t]
                                   [] OTHER -> Top[t]]
  BY DEF IInv, TypeOK, Wrap
<1>2. /\ UNCHANGED <<phase, program, network, ticks, history>>
      /\ phase = "receive"
  BY DEF Wrap
<1>3. age'["check"] = APRS_CHECK_KEEPALIVE_TIME /\ age'["packet"] = SILENCE + 1
  BY <1>1, TopFields DEF Timers
<1>4. TypeOK'
  <2>1. age' \in [Timers -> Nat] /\ \A t \in Timers : age'[t] <= Top[t]
    BY <1>1, TopType
  <2> QED
    BY <1>2, <2>1 DEF IInv, TypeOK, Top, program, network, history
<1>5. FlagsAgree' /\ BootUnregistered' /\ CheckNotMissed'
  BY <1>2 DEF IInv, FlagsAgree, BootUnregistered, CheckNotMissed, program, network
<1>6. AliveIsNotDead' /\ DeadLinkBound'
  BY <1>2 DEF IInv, AliveIsNotDead, Alive, DeadLinkBound, DeadLimit, network, history
<1>7. DeadTime'
  <2>1. SinceCheck \in Nat /\ SinceCheck' \in Nat /\ SinceCheck <= SinceCheck'
    <3>1. age["check"] \in Nat /\ ticks \in Nat /\ ticks' = ticks
      BY <1>1, <1>2, TimesAssumption DEF IInv, TypeOK, Timers
    <3> QED
      BY <1>3, <3>1, TimesAssumption, PassAssumption DEF SinceCheck
  <2>2. /\ inbox' = inbox /\ inbox \in Nat /\ inbox <= Window
        /\ deadFor' = deadFor /\ deadFor \in Nat
        /\ ground_registred' = ground_registred
    BY <1>2, TimesAssumption DEF IInv, TypeOK, network, history, program
  <2>3. ReadTime(inbox) \in Nat /\ ReadTime(0) \in Nat
    BY <2>2, ReadTimes, TimesAssumption
  <2>4. ground_registred = 1 =>
          /\ inbox > 0 => deadFor <= ReadTime(inbox) + SinceCheck'
          /\ inbox = 0 => deadFor <= ReadTime(0) + SILENCE + SinceCheck'
    BY <2>1, <2>2, <2>3, TimesAssumption DEF IInv, DeadTime
  <2>5. ~(age'["packet"] <= SILENCE)
    BY <1>3, TimesAssumption
  <2> QED
    BY <2>2, <2>4, <2>5 DEF DeadTime, ReadTime
<1> QED
  BY <1>4, <1>5, <1>6, <1>7 DEF IInv

(* Time passes: what the link may be dead for grows with it.                *)
LEMMA TickStep == IInv /\ Tick => IInv'
<1> SUFFICES ASSUME IInv, Tick PROVE IInv'
  OBVIOUS
<1> DEFINE n == inbox
<1>1. /\ inbox' = inbox /\ n \in Nat /\ n <= Window
      /\ ground_registred' = ground_registred
  BY DEF IInv, TypeOK, Tick, network, program
<1>2. /\ age \in [Timers -> Nat] /\ \A t \in Timers : age[t] <= Top[t]
      /\ \A t \in Timers : age'[t] = UpTo(age[t], Top[t])
      /\ age' = [t \in Timers |-> UpTo(age[t], Top[t])]
  BY DEF IInv, TypeOK, Tick
<1>3. ticks \in Nat /\ ticks' = ticks + 1 /\ ticks' <= PassTime
  BY TimesAssumption DEF IInv, TypeOK, Tick
<1>4. deadFor \in Nat /\ deadFor' \in Nat /\ outage' \in Nat
  BY DEF IInv, TypeOK, Tick, UpTo
<1>5. TypeOK'
  <2>1. age' \in [Timers -> Nat] /\ \A t \in Timers : age'[t] <= Top[t]
    BY <1>2, TopType DEF UpTo
  <2> QED
    BY <1>3, <1>4, <2>1, TimesAssumption DEF IInv, TypeOK, Tick, program, network
<1>6. FlagsAgree' /\ BootUnregistered' /\ CheckNotMissed'
  BY DEF IInv, Tick, FlagsAgree, BootUnregistered, CheckNotMissed, program, network
<1>7. AliveIsNotDead'
  BY DEF Tick, AliveIsNotDead, Alive, network
<1>8. CASE ~(ground_registred = 1 /\ ~Alive)
  <2>1. deadFor' = 0
    BY <1>8 DEF Tick
  <2>2. DeadLinkBound'
    <3>1. deadFor <= DeadLimit
      BY DEF IInv, DeadLinkBound
    <3>2. DeadLimit \in Int
      BY TimesAssumption, PassAssumption DEF DeadLimit
    <3> QED
      BY <1>4, <2>1, <3>1, <3>2 DEF DeadLinkBound, DeadLimit
  <2> QED
    BY <1>5, <1>6, <1>7, <2>1, <2>2, NoDeadTimeNext DEF IInv
<1>9. CASE ground_registred = 1 /\ ~Alive
  <2>1. deadFor' <= deadFor + 1
    BY <1>4, <1>9 DEF Tick, UpTo
  <2>2. /\ SinceCheck \in Nat /\ SinceCheck' \in Nat
        /\ SinceCheck + 1 <= SinceCheck' /\ SinceCheck' <= Round /\ Round \in Nat
    <3>1. age["check"] \in Nat /\ age["check"] <= APRS_CHECK_KEEPALIVE_TIME
      BY <1>2 DEF Timers, Top
    <3>2. age'["check"] = UpTo(age["check"], APRS_CHECK_KEEPALIVE_TIME)
      BY <1>2 DEF Timers, Top
    <3>3. SinceCheck + 1 <= SinceCheck'
      BY <1>3, <3>1, <3>2, TimesAssumption DEF SinceCheck, UpTo
    <3> QED
      BY <1>5, <3>3, RoundBound, RoundBoundNext DEF IInv
  <2>3. /\ age["packet"] \in Nat /\ age'["packet"] \in Nat
        /\ age'["packet"] <= SILENCE => /\ age["packet"] <= SILENCE
                                        /\ age'["packet"] = age["packet"] + 1
    BY <1>2, TimesAssumption DEF Timers, Top, UpTo
  <2>4. /\ ReadTime(n) \in Nat /\ ReadTime(0) \in Nat
        /\ n > 0 => ReadTime(n) + Round <= ReadTime(0)
    BY <1>1, ReadTimes, TimesAssumption
  <2>5. n > 0 => deadFor' <= ReadTime(n) + SinceCheck'
    BY <1>4, <1>9, <2>1, <2>2, <2>4 DEF IInv, DeadTime
  <2>6. n = 0 => /\ deadFor' <= ReadTime(0) + SILENCE + SinceCheck'
                 /\ age'["packet"] <= SILENCE => deadFor' <= ReadTime(0) + age'["packet"]
    <3>0. n = 0 => /\ deadFor <= ReadTime(0) + SILENCE + SinceCheck
                   /\ age["packet"] <= SILENCE => deadFor <= ReadTime(0) + age["packet"]
      BY <1>9 DEF IInv, DeadTime
    <3>1. CASE n = 0
      <4>1. deadFor <= ReadTime(0) + SILENCE + SinceCheck
        BY <3>0, <3>1
      <4>2. age["packet"] <= SILENCE => deadFor <= ReadTime(0) + age["packet"]
        BY <3>0, <3>1
      <4> QED
        BY <1>4, <2>1, <2>2, <2>3, <2>4, <4>1, <4>2, TimesAssumption
    <3> QED
      BY <3>1
  <2>7. DeadTime'
    BY <1>1, <2>5, <2>6 DEF DeadTime, ReadTime
  <2>8. DeadLinkBound'
    <3>1. DeadLimit = ReadTime(0) + SILENCE + Round
      BY TimesAssumption, PassAssumption DEF DeadLimit, ReadTime, Round
    <3> QED
      BY <1>1, <1>4, <2>2, <2>4, <2>5, <2>6, <3>1, TimesAssumption
      DEF DeadLinkBound, DeadLimit
  <2> QED
    BY <1>5, <1>6, <1>7, <2>7, <2>8 DEF IInv
<1> QED
  BY <1>8, <1>9

-------------------------------------------------------------------------------
(* The theorems. *)

(* The invariant holds at the start ... *)
LEMMA InitIInv == Init => IInv
<1> SUFFICES ASSUME Init PROVE IInv
  OBVIOUS
<1>1. TypeOK
  <2>1. age \in [Timers -> Nat] /\ \A t \in Timers : age[t] <= Top[t]
    BY AgesType, TimesAssumption DEF Init
  <2>2. inbox \in 0 .. Window
    BY TimesAssumption DEF Init
  <2>3. ticks \in 0 .. PassTime /\ deadFor \in Nat /\ outage \in Nat
    BY TimesAssumption DEF Init
  <2>4. /\ phase \in Phases
        /\ ground_registred = 0 /\ ground_registred # -1 /\ phase # "failed"
        /\ position_is_set = FALSE /\ aprs_registred = 0 /\ stable = FALSE
        /\ wifi = "lost" /\ client = "closed"
    BY DEF Init, Phases
  <2> QED
    BY <2>1, <2>2, <2>3, <2>4 DEF TypeOK
<1>2. DeadTime /\ AliveIsNotDead
  BY <1>1, NoDeadTime DEF Init, AliveIsNotDead
<1>3. DeadLinkBound
  BY <1>1, RoundBound, ReadTimes, TimesAssumption
  DEF Init, DeadLinkBound, DeadLimit, ReadTime, Round
<1> QED
  BY <1>1, <1>2, <1>3 DEF Init, IInv, FlagsAgree, BootUnregistered, CheckNotMissed

(* ... and every step keeps it. *)
LEMMA NextIInv == IInv /\ [Next]_vars => IInv'
<1> SUFFICES ASSUME IInv, [Next]_vars PROVE IInv'
  OBVIOUS
<1>1. CASE Loop
  BY <1>1, BootStep, LeaveSetupStep, ReceiveStep, RegisterSucceedsStep,
     RegisterFailsStep, NoRegistrationStep, AfterFailureStep, CheckMessagesStep,
     NoCheckStep, CheckWifiStep, NoWifiCheckStep, SleepStep, StayAwakeStep
  DEF Loop
<1>2. CASE Environment
  BY <1>2, ServerLineStep, LoseWifiStep, RegainWifiStep, ServerGoneStep,
     NoticeGoneStep, StabiliseStep, TickStep, WrapStep
  DEF Environment
<1>3. CASE UNCHANGED vars
  BY <1>3 DEF vars, program, network, history, IInv, TypeOK, FlagsAgree,
              BootUnregistered, CheckNotMissed, AliveIsNotDead, Alive, DeadTime,
              SinceCheck, ReadTime, DeadLinkBound
<1> QED
  BY <1>1, <1>2, <1>3 DEF Next

(* The inductive invariant of the session: with each line that is left to   *)
(* be read, the time a dead link may have gone unnoticed is a round less.   *)
THEOREM Invariant == Spec => []IInv
<1> QED
  BY InitIInv, NextIInv, PTL DEF Spec

(* Type correctness; the registration leaves no transient value behind.    *)
THEOREM TypeCorrect == Spec => []TypeOK
<1>1. IInv => TypeOK
  BY DEF IInv
<1> QED
  BY <1>1, Invariant, PTL

(* The flags of the loop and of the APRS client (ground_registred and       *)
(* aprs_registred) agree, in a mode and with a position that allow it.      *)
THEOREM FlagsAgreeHolds == Spec => []FlagsAgree
<1>1. IInv => FlagsAgree
  BY DEF IInv
<1> QED
  BY <1>1, Invariant, PTL

(* A connection that died is given up within the silence and a round for    *)
(* each read the TCP window may hold, and one more, for any of these        *)
(* constants (APRS.cpp:165-176, Platform_ESP32.cpp:703).                    *)
THEOREM DeadLinkBoundHolds == Spec => []DeadLinkBound
<1>1. IInv => DeadLinkBound
  BY DEF IInv
<1> QED
  BY <1>1, Invariant, PTL

-------------------------------------------------------------------------------
(* The proof that the station has a usable session again in time: where an  *)
(* outage stands, and how long it can have lasted by then.                  *)

(* The station knows where it is; it is not in setup mode and not asleep     *)
(* before two passes are over, and the Wi-Fi is looked at (60 s) before the *)
(* silence and another look for messages (60 and 20 s) are over.            *)
KnownStation ==
  /\ StaticPosition
  /\ 2 * PassTime <= AP_TIME
  /\ ogn_sleepmode => 2 * PassTime <= ogn_rxidle
  /\ APRS_CHECK_WIFI_TIME <= SILENCE + APRS_CHECK_KEEPALIVE_TIME

Longest == IF DeadLimit > AP_TIME THEN DeadLimit ELSE AP_TIME

(* The loop is at the radio, or registers next.                            *)
Early == phase \in {"receive", "register"}

(* Ticks a pass accounts for; one without a tick yet, those of the pass      *)
(* before it.                                                              *)
Spent == IF ticks = 0 THEN PassTime ELSE ticks

(* seconds() has wrapped in this pass: a look is due, and the time of sleep  *)
(* has come unless there is traffic.                                       *)
Wrapped ==
  /\ age["boot"] <= ticks
  /\ Due("check")
  /\ age["rx"] \in {0, Top["rx"]} /\ (phase = "receive" => Due("rx"))

(* A reset leaves young ages.                                              *)
YoungBoot ==
  phase = "boot" =>
    age["boot"] <= ticks /\ age["packet"] <= age["boot"] /\ age["rx"] <= age["boot"]

(* ... and two passes at most to a session; a third only if both are so     *)
(* long that the station sleeps at once.                                   *)
Booting ==
  phase = "boot" =>
    /\ outage <= Longest + 2 * PassTime + ticks
    /\ age["boot"] = ticks => outage <= Longest + PassTime + ticks

InSetup ==
  IF phase = "receive"
  THEN outage <= IF age["boot"] <= AP_TIME THEN age["boot"] ELSE AP_TIME + ticks
  ELSE outage <= age["boot"] /\ outage <= AP_TIME

(* Without Wi-Fi the next look at it resets the station.                   *)
WithoutWifi ==
  /\ outage <= IF age["wifi"] < APRS_CHECK_WIFI_TIME THEN age["wifi"]
               ELSE APRS_CHECK_WIFI_TIME + ticks
  /\ phase = "sleep" => outage <= age["wifi"]

(* Not registered: the Wi-Fi is back; or a connection was given up; or a     *)
(* second one after a wrap; or after a reset.                              *)
WifiBack == outage <= Longest - PassTime + IF Early THEN ticks ELSE 0

GivenUp ==
  IF Early
  THEN outage <= Longest + ticks /\ (age["check"] <= ticks \/ Wrapped)
  ELSE outage <= Longest /\ age["check"] = 0

GivenUpAgain ==
  IF Early
  THEN /\ outage <= Longest + PassTime + ticks
       /\ age["check"] <= ticks /\ age["boot"] <= PassTime + ticks
       /\ ogn_sleepmode => age["rx"] <= ticks
  ELSE /\ outage <= Longest + Spent
       /\ age["check"] = 0 /\ age["boot"] <= PassTime
       /\ age["rx"] \in {0, Top["rx"]}

Restarted ==
  /\ Early
  /\ age["boot"] <= PassTime + ticks
  /\ age["packet"] <= age["boot"] /\ age["rx"] <= age["boot"]
  /\ outage <= Longest + 3 * PassTime + ticks
  /\ age["boot"] = PassTime + ticks => outage <= Longest + 2 * PassTime + ticks

(* Registered: for the first time; after a connection was given up; or so   *)
(* that nothing but sleep can end the session before the next second.       *)
FirstUp == outage <= Longest

SecondUp ==
  /\ outage <= Longest + Spent
  /\ age["check"] <= PassTime \/ ((Early \/ phase = "check") /\ Wrapped)

LastUp ==
  /\ outage <= Longest + 4 * PassTime
  /\ age["boot"] <= 2 * PassTime
  /\ age["packet"] <= 2 * PassTime \/ age["check"] <= PassTime
  /\ \/ ~ogn_sleepmode \/ ~Due("rx")
     \/ ~Early /\ ticks = PassTime /\ outage <= Longest + 3 * PassTime

Situated ==
  /\ ~stable => outage = 0
  /\ phase \in {"boot", "receive"} \/ position_is_set
  /\ YoungBoot

Bounded ==
  /\ Booting
  /\ phase # "boot" =>
       /\ ground_registred = 1 /\ ~Alive => outage <= deadFor
       /\ wifi = "ap" => InSetup
       /\ wifi = "lost" => WithoutWifi
       /\ wifi = "sta" /\ ground_registred # 1 =>
            WifiBack \/ GivenUp \/ GivenUpAgain \/ Restarted
       /\ Up => FirstUp \/ SecondUp \/ LastUp

OutageInv == Situated /\ Bounded

-------------------------------------------------------------------------------
(* What the proof needs of the constants. *)
LEMMA Limits ==
  ASSUME KnownStation
  PROVE  /\ PassTime \in Nat /\ PassTime > 0
         /\ AP_TIME \in Nat /\ 2 * PassTime <= AP_TIME
         /\ Longest \in Nat /\ DeadLimit \in Nat
         /\ DeadLimit <= Longest /\ AP_TIME <= Longest
         /\ APRS_CHECK_WIFI_TIME \in Nat
         /\ APRS_CHECK_WIFI_TIME + 2 * PassTime <= Longest
         /\ SILENCE \in Nat /\ 2 * PassTime <= SILENCE
         /\ APRS_CHECK_KEEPALIVE_TIME \in Nat /\ PassTime < APRS_CHECK_KEEPALIVE_TIME
         /\ Top["rx"] \in Nat
         /\ ogn_sleepmode => 2 * PassTime <= Top["rx"]
         /\ ~ogn_sleepmode => Top["rx"] = 0
         /\ OutageLimit = Longest + 4 * PassTime
         /\ Longest' = Longest /\ Top' = Top
<1>1. /\ Window - 1 \in Nat /\ Round \in Nat /\ PassTime \in Nat /\ PassTime > 0
      /\ AP_TIME \in Nat /\ SILENCE \in Nat /\ APRS_CHECK_WIFI_TIME \in Nat
      /\ APRS_CHECK_KEEPALIVE_TIME \in Nat /\ PassTime < APRS_CHECK_KEEPALIVE_TIME
      /\ 2 * Round <= SILENCE /\ Round = APRS_CHECK_KEEPALIVE_TIME + PassTime - 1
  BY TimesAssumption, PassAssumption DEF Round
<1>2. (Window - 1) * Round \in Nat
  <2>1. \A a, b \in Nat : a * b \in Nat
    OBVIOUS
  <2> QED BY <1>1, <2>1
<1>3. DeadLimit = SILENCE + 2 * Round + (Window - 1) * Round
  BY <1>1, TimesAssumption DEF DeadLimit, Round
<1>4. /\ DeadLimit \in Nat /\ 2 * PassTime <= SILENCE
      /\ APRS_CHECK_WIFI_TIME + 2 * PassTime <= DeadLimit
  BY <1>1, <1>2, <1>3 DEF KnownStation
<1>5. /\ Longest \in Nat /\ DeadLimit <= Longest /\ AP_TIME <= Longest
      /\ OutageLimit = Longest + 4 * PassTime
  BY <1>1, <1>4 DEF Longest, OutageLimit
<1>6. /\ Top["rx"] \in Nat
      /\ ogn_sleepmode => 2 * PassTime <= Top["rx"]
      /\ ~ogn_sleepmode => Top["rx"] = 0
  BY TimesAssumption DEF Top, KnownStation
<1>7. Longest' = Longest /\ Top' = Top
  BY DEF Longest, DeadLimit, Top
<1> QED BY <1>1, <1>4, <1>5, <1>6, <1>7 DEF KnownStation

(* The values that count in an outage are numbers, within their caps ... *)
LEMMA Numbers ==
  ASSUME TypeOK
  PROVE  /\ age["boot"] \in Nat /\ age["boot"] <= AP_TIME + 1
         /\ age["check"] \in Nat /\ age["check"] <= APRS_CHECK_KEEPALIVE_TIME
         /\ age["wifi"] \in Nat /\ age["wifi"] <= APRS_CHECK_WIFI_TIME
         /\ age["packet"] \in Nat /\ age["packet"] <= SILENCE + 1
         /\ age["rx"] \in Nat /\ age["rx"] <= Top["rx"]
         /\ ticks \in Nat /\ ticks <= PassTime
         /\ outage \in Nat /\ deadFor \in Nat
         /\ ground_registred \in {-1, 0, 1} /\ wifi \in {"sta", "lost", "ap"}
         /\ phase \in Phases
<1>1. \A t \in Timers : age[t] \in Nat /\ age[t] <= Top[t]
  BY DEF TypeOK
<1>2. ticks \in Nat /\ ticks <= PassTime
  BY TimesAssumption DEF TypeOK
<1> QED BY <1>1, <1>2, TopFields DEF TypeOK, Timers

(* ... in the next state as well. *)
LEMMA NumbersNext ==
  ASSUME TypeOK'
  PROVE  /\ age'["boot"] \in Nat /\ age'["boot"] <= AP_TIME + 1
         /\ age'["check"] \in Nat /\ age'["check"] <= APRS_CHECK_KEEPALIVE_TIME
         /\ age'["wifi"] \in Nat /\ age'["wifi"] <= APRS_CHECK_WIFI_TIME
         /\ age'["packet"] \in Nat /\ age'["packet"] <= SILENCE + 1
         /\ age'["rx"] \in Nat /\ age'["rx"] <= Top["rx"]
         /\ ticks' \in Nat /\ ticks' <= PassTime
         /\ outage' \in Nat /\ deadFor' \in Nat
         /\ ground_registred' \in {-1, 0, 1} /\ wifi' \in {"sta", "lost", "ap"}
         /\ phase' \in Phases
<1>1. \A t \in Timers : age'[t] \in Nat /\ age'[t] <= Top[t]
  BY DEF TypeOK, Top
<1>2. ticks' \in Nat /\ ticks' <= PassTime
  BY TimesAssumption DEF TypeOK
<1> QED BY <1>1, <1>2, TopFields DEF TypeOK, Timers

(* What is due. *)
LEMMA DueTimers ==
  /\ Due("boot") <=> age["boot"] >= AP_TIME + 1
  /\ Due("check") <=> age["check"] >= APRS_CHECK_KEEPALIVE_TIME
  /\ Due("wifi") <=> age["wifi"] >= APRS_CHECK_WIFI_TIME
  /\ Due("rx") <=> age["rx"] >= Top["rx"]
  /\ Due("check")' <=> age'["check"] >= APRS_CHECK_KEEPALIVE_TIME
  /\ Due("rx")' <=> age'["rx"] >= Top["rx"]
BY TopFields DEF Due, Top

(* Without an outage there is nothing to bound.                            *)
LEMMA NoOutage ==
  ASSUME KnownStation, TypeOK', outage' = 0
  PROVE  Bounded'
<1>1. /\ Longest' = Longest /\ Longest \in Nat /\ PassTime \in Nat /\ AP_TIME \in Nat
      /\ APRS_CHECK_WIFI_TIME \in Nat /\ PassTime <= Longest
  BY Limits
<1>2. /\ age'["boot"] \in Nat /\ age'["wifi"] \in Nat
  BY NumbersNext
<1>3. PICK n \in Nat : ticks' = n
  BY NumbersNext
<1>4. outage' <= deadFor'
  <2>1. PICK d \in Nat : deadFor' = d
    BY NumbersNext
  <2> QED BY <2>1
<1>5. Booting'
  BY <1>1, <1>3 DEF Booting
<1>6. InSetup'
  BY <1>1, <1>2, <1>3 DEF InSetup
<1>7. WithoutWifi'
  BY <1>1, <1>2, <1>3 DEF WithoutWifi
<1>8. WifiBack'
  BY <1>1, <1>3 DEF WifiBack
<1>9. FirstUp'
  BY <1>1 DEF FirstUp
<1> QED BY <1>4, <1>5, <1>6, <1>7, <1>8, <1>9 DEF Bounded

(* A reset keeps what the bound rests on. *)
LEMMA ResetSituated ==
  ASSUME TypeOK, Situated, Reset, UNCHANGED <<ticks, history>>
  PROVE  Situated'
<1>1. age'["boot"] = 0 /\ age'["packet"] = 0 /\ age'["rx"] = 0
  BY DEF Reset, Ages, Timers
<1>2. phase' = "boot" /\ ticks' = ticks /\ ticks \in Nat
  BY Numbers DEF Reset
<1>3. YoungBoot'
  BY <1>1, <1>2 DEF YoungBoot
<1> QED BY <1>2, <1>3 DEF Situated, history

(* Time passes: the ages grow with the ticks.                              *)
LEMMA TickSituated ==
  ASSUME KnownStation, IInv, Situated, Tick
  PROVE  Situated'
<1>1. TypeOK
  BY DEF IInv
<1>2. /\ age'["boot"] = UpTo(age["boot"], Top["boot"])
      /\ age'["packet"] = UpTo(age["packet"], Top["packet"])
      /\ age'["rx"] = UpTo(age["rx"], Top["rx"])
  BY DEF Tick, Timers
<1>3. phase' = phase /\ ticks' = ticks + 1 /\ stable' = stable
      /\ position_is_set' = position_is_set /\ phase \in {"boot", "receive"}
  BY DEF Tick, program
<1>4. YoungBoot'
  <2> SUFFICES ASSUME phase = "boot"
               PROVE  /\ age'["boot"] <= ticks + 1
                      /\ age'["packet"] <= age'["boot"] /\ age'["rx"] <= age'["boot"]
    BY <1>3 DEF YoungBoot
  <2>1. /\ age["boot"] <= ticks /\ age["packet"] <= age["boot"] /\ age["rx"] <= age["boot"]
        /\ age["boot"] \in Nat /\ age["packet"] \in Nat /\ age["rx"] \in Nat
        /\ ticks \in Nat
    BY <1>1, Numbers DEF Situated, YoungBoot
  <2>2. ticks < PassTime /\ PassTime <= AP_TIME /\ PassTime \in Nat /\ AP_TIME \in Nat
    BY Limits DEF Tick
  <2>3. age'["boot"] = age["boot"] + 1
    BY <1>2, <2>1, <2>2, TopFields DEF UpTo
  <2>4. age'["packet"] <= age["packet"] + 1 /\ age'["rx"] <= age["rx"] + 1
    BY <1>2, <2>1 DEF UpTo
  <2>5. age'["packet"] \in Nat /\ age'["rx"] \in Nat
    BY <1>2, <2>1 DEF UpTo
  <2> QED BY <2>1, <2>3, <2>4, <2>5
<1>5. ~stable => outage' = 0
  BY DEF Tick
<1> QED BY <1>3, <1>4, <1>5 DEF Situated

(* A step that starts no boot, moves no age in one, and keeps the position. *)
LEMMA SameSituated ==
  ASSUME Situated,
         stable => stable', outage' = outage,
         phase' \in {"boot", "receive"} \/ position_is_set',
         phase' = "boot" =>
           /\ phase = "boot" /\ ticks' = ticks
           /\ age'["boot"] = age["boot"] /\ age'["packet"] = age["packet"]
           /\ age'["rx"] = age["rx"]
  PROVE  Situated'
<1>1. YoungBoot'
  BY DEF Situated, YoungBoot
<1> QED BY <1>1 DEF Situated

(* Every step keeps it. *)
LEMMA SituatedStep ==
  ASSUME KnownStation, IInv, Situated, [Next]_vars
  PROVE  Situated'
<1>1. TypeOK /\ BootUnregistered
  BY DEF IInv
<1>2. CASE LeaveSetup \/ Sleep
  BY <1>1, <1>2, ResetSituated DEF LeaveSetup, Sleep
<1>3. CASE AfterFailure
  <2>1. CASE Reset
    BY <1>1, <1>3, <2>1, ResetSituated DEF AfterFailure
  <2>2. CASE ~Reset
    BY <1>3, <2>2, SameSituated DEF AfterFailure, Situated, network, history
  <2> QED BY <2>1, <2>2
<1>4. CASE CheckWifi
  <2>1. CASE Reset
    BY <1>1, <1>4, <2>1, ResetSituated DEF CheckWifi
  <2>2. CASE ~Reset
    <3>1. phase = "wifi" /\ phase' = "sleep" /\ position_is_set' = position_is_set
      BY <1>4, <2>2 DEF CheckWifi, program
    <3>2. stable' = stable /\ outage' = outage
      BY <1>4 DEF CheckWifi, history
    <3> QED BY <3>1, <3>2, SameSituated DEF Situated
  <2> QED BY <2>1, <2>2
<1>5. CASE Receive
  BY <1>5, SameSituated DEF Receive, KnownStation, network, history
<1>6. CASE Boot \/ StayAwake
  BY <1>6, SameSituated DEF Boot, StayAwake, program, history
<1>7. CASE RegisterSucceeds \/ RegisterFails \/ NoRegistration
  BY <1>7, SameSituated
  DEF RegisterSucceeds, RegisterFails, NoRegistration, Situated, program, network,
      history
<1>8. CASE CheckMessages \/ NoCheck \/ NoWifiCheck
  BY <1>8, SameSituated
  DEF CheckMessages, NoCheck, NoWifiCheck, Situated, program, network, history
<1>9. CASE Wrap
  BY <1>9, SameSituated DEF Wrap, Situated, program, network, history
<1>10. CASE ServerLine
  <2>1. phase # "boot"
    BY <1>1, <1>10 DEF BootUnregistered, ServerLine, Alive
  <2> QED BY <1>10, <2>1, SameSituated DEF ServerLine, Situated, program, history
<1>11. CASE LoseWifi \/ RegainWifi \/ ServerGone \/ NoticeGone
  BY <1>11, SameSituated
  DEF LoseWifi, RegainWifi, ServerGone, NoticeGone, Situated, program, history
<1>12. CASE Stabilise
  BY <1>12, SameSituated DEF Stabilise, Situated, program, network
<1>13. CASE Tick
  BY <1>13, TickSituated
<1>14. CASE UNCHANGED vars
  BY <1>14, SameSituated DEF vars, Situated, program, network, history
<1> QED
  BY <1>2, <1>3, <1>4, <1>5, <1>6, <1>7, <1>8, <1>9, <1>10, <1>11, <1>12, <1>13,
     <1>14
  DEF Next, Loop, Environment

(* A reset ends a pass, after an outage that leaves time for a boot.        *)
LEMMA ResetBounded ==
  ASSUME KnownStation, TypeOK, Reset, UNCHANGED <<ticks, history>>,
         outage <= Longest + 2 * PassTime + ticks,
         ticks = 0 => outage <= Longest + PassTime
  PROVE  Bounded'
<1>1. phase' = "boot" /\ age'["boot"] = 0 /\ ticks' = ticks /\ outage' = outage
  BY DEF Reset, Ages, Timers, history
<1>2. /\ Longest' = Longest /\ Longest \in Nat /\ PassTime \in Nat
      /\ ticks \in Nat /\ outage \in Nat
  BY Limits, Numbers
<1>3. Booting'
  BY <1>1, <1>2 DEF Booting
<1> QED BY <1>1, <1>3 DEF Bounded

(* Without Wi-Fi, in setup mode or not, the outage is not longer than the    *)
(* longest wait.                                                           *)
LEMMA OffBounded ==
  ASSUME KnownStation, TypeOK, Bounded, phase # "boot", wifi # "sta"
  PROVE  /\ outage <= Longest + ticks
         /\ phase # "receive" => outage <= Longest
         /\ wifi = "lost" => outage <= Longest - PassTime
<1>1. /\ PassTime \in Nat /\ AP_TIME \in Nat /\ AP_TIME <= Longest /\ Longest \in Nat
      /\ APRS_CHECK_WIFI_TIME \in Nat /\ APRS_CHECK_WIFI_TIME + 2 * PassTime <= Longest
  BY Limits
<1>2. /\ outage \in Nat /\ ticks \in Nat /\ ticks <= PassTime
      /\ age["boot"] \in Nat /\ age["wifi"] \in Nat
      /\ wifi \in {"sta", "lost", "ap"}
  BY Numbers
<1>3. CASE wifi = "ap"
  <2>1. InSetup
    BY <1>3 DEF Bounded
  <2> QED BY <1>1, <1>2, <1>3, <2>1 DEF InSetup
<1>4. CASE wifi = "lost"
  <2>1. WithoutWifi
    BY <1>4 DEF Bounded
  <2> QED BY <1>1, <1>2, <1>4, <2>1 DEF WithoutWifi
<1> QED BY <1>2, <1>3, <1>4

(* Setup mode ends in time. *)
LEMMA LeaveSetupBounded ==
  ASSUME KnownStation, IInv, OutageInv, LeaveSetup
  PROVE  Bounded'
<1>1. TypeOK /\ Bounded /\ phase = "receive" /\ wifi = "ap" /\ Due("boot")
  BY DEF IInv, OutageInv, LeaveSetup
<1>2. /\ AP_TIME \in Nat /\ AP_TIME <= Longest /\ Longest \in Nat /\ PassTime \in Nat
      /\ age["boot"] >= AP_TIME + 1 /\ age["boot"] \in Nat
      /\ outage \in Nat /\ ticks \in Nat
  BY <1>1, Limits, Numbers, DueTimers
<1>3. outage <= AP_TIME + ticks
  BY <1>1, <1>2 DEF Bounded, InSetup
<1>4. /\ outage <= Longest + 2 * PassTime + ticks
      /\ ticks = 0 => outage <= Longest + PassTime
  BY <1>2, <1>3
<1> QED BY <1>1, <1>4, ResetBounded DEF LeaveSetup

(* Without Wi-Fi a failed registration or a look at it resets the station.  *)
LEMMA OffReset ==
  ASSUME KnownStation, IInv, OutageInv, phase \in {"failed", "wifi"}, wifi # "sta",
         Reset, UNCHANGED <<ticks, history>>
  PROVE  Bounded'
<1>1. TypeOK /\ outage <= Longest
  BY OffBounded DEF IInv, OutageInv
<1>2. /\ outage <= Longest + 2 * PassTime + ticks
      /\ ticks = 0 => outage <= Longest + PassTime
  BY <1>1, Limits, Numbers
<1> QED BY <1>1, <1>2, ResetBounded

(* A station that falls asleep has used up what two passes allow.           *)
LEMMA SleepBounded ==
  ASSUME KnownStation, IInv, OutageInv, Sleep
  PROVE  Bounded'
<1>1. TypeOK /\ Bounded /\ phase = "sleep" /\ ogn_sleepmode /\ Due("rx") /\ DeadLinkBound
  BY DEF IInv, OutageInv, Sleep
<1>2. /\ PassTime \in Nat /\ PassTime > 0 /\ Longest \in Nat
      /\ DeadLimit \in Nat /\ DeadLimit <= Longest
      /\ outage \in Nat /\ ticks \in Nat /\ deadFor \in Nat
      /\ ground_registred \in {-1, 0, 1} /\ ~Early
  BY <1>1, Limits, Numbers DEF Early
<1>3. CASE outage <= Longest \/ outage <= Longest + Spent
  <2>1. /\ outage <= Longest + 2 * PassTime + ticks
        /\ ticks = 0 => outage <= Longest + PassTime
    BY <1>2, <1>3 DEF Spent
  <2> QED BY <1>1, <2>1, ResetBounded DEF Sleep
<1>4. CASE outage <= Longest + 3 * PassTime /\ ticks = PassTime
  <2>1. /\ outage <= Longest + 2 * PassTime + ticks
        /\ ticks = 0 => outage <= Longest + PassTime
    BY <1>2, <1>4
  <2> QED BY <1>1, <2>1, ResetBounded DEF Sleep
<1>5. CASE wifi # "sta"
  BY <1>1, <1>3, <1>5, OffBounded
<1>6. CASE wifi = "sta" /\ ground_registred # 1
  <2>1. WifiBack \/ GivenUp \/ GivenUpAgain
    BY <1>1, <1>2, <1>6 DEF Bounded, Restarted
  <2>2. outage <= Longest \/ outage <= Longest + Spent
    BY <1>2, <2>1 DEF WifiBack, GivenUp, GivenUpAgain
  <2> QED BY <1>3, <2>2
<1>7. CASE ground_registred = 1 /\ ~Alive
  <2>1. outage <= deadFor /\ deadFor <= DeadLimit
    BY <1>1, <1>7 DEF Bounded, DeadLinkBound
  <2>2. outage <= Longest
    BY <1>2, <2>1
  <2> QED BY <1>3, <2>2
<1>8. CASE Up
  <2>1. FirstUp \/ SecondUp \/ LastUp
    BY <1>1, <1>8 DEF Bounded
  <2> QED BY <1>1, <1>3, <1>4, <2>1 DEF FirstUp, SecondUp, LastUp
<1> QED BY <1>5, <1>6, <1>7, <1>8 DEF Up, Alive

(* A boot: at most a pass later the station registers.                      *)
LEMMA BootBounded ==
  ASSUME KnownStation, IInv, IInv', OutageInv, Boot
  PROVE  Bounded'
<1>1. /\ TypeOK /\ TypeOK' /\ phase = "boot" /\ phase' = "receive" /\ ticks' = 0
      /\ age' = age /\ outage' = outage /\ ground_registred' = 0
  BY DEF IInv, Boot, BootUnregistered, program, history
<1>2. CASE ~stable
  BY <1>1, <1>2, NoOutage DEF OutageInv, Situated
<1>3. CASE stable
  <2>1. wifi' = "sta"
    BY <1>3 DEF Boot
  <2>2. /\ PassTime \in Nat /\ Longest \in Nat /\ Longest' = Longest
        /\ outage \in Nat /\ ticks \in Nat /\ ticks <= PassTime
        /\ age["boot"] \in Nat
    BY <1>1, Limits, Numbers
  <2>3. /\ age["boot"] <= ticks /\ age["packet"] <= age["boot"] /\ age["rx"] <= age["boot"]
        /\ outage <= Longest + 2 * PassTime + ticks
        /\ age["boot"] = ticks => outage <= Longest + PassTime + ticks
    BY <1>1 DEF OutageInv, Situated, YoungBoot, Bounded, Booting
  <2>4. Restarted'
    BY <1>1, <2>2, <2>3 DEF Restarted, Early
  <2>5. Booting' /\ ~Up'
    BY <1>1 DEF Booting, Up
  <2> QED BY <1>1, <2>1, <2>4, <2>5 DEF Bounded
<1> QED BY <1>2, <1>3

(* Nothing that matters to the bound has changed.                           *)
LEMMA SameBounded ==
  ASSUME Bounded, phase' = phase, ground_registred' = ground_registred,
         Alive' = Alive, wifi' = wifi, ticks' = ticks, outage' = outage,
         deadFor' = deadFor,
         \A t \in {"boot", "check", "wifi", "packet", "rx"} : age'[t] = age[t]
  PROVE  Bounded'
<1>1. /\ age'["boot"] = age["boot"] /\ age'["check"] = age["check"]
      /\ age'["wifi"] = age["wifi"] /\ age'["packet"] = age["packet"]
      /\ age'["rx"] = age["rx"] /\ Longest' = Longest /\ Top' = Top
  BY DEF Longest, DeadLimit, Top
<1>2. /\ Early' = Early /\ Wrapped' = Wrapped /\ Spent' = Spent
      /\ Due("rx")' = Due("rx") /\ Up' = Up
  BY <1>1 DEF Early, Wrapped, Spent, Due, Up
<1>3. /\ Booting' = Booting /\ InSetup' = InSetup /\ WithoutWifi' = WithoutWifi
  BY <1>1 DEF Booting, InSetup, WithoutWifi
<1>4. /\ WifiBack' = WifiBack /\ GivenUp' = GivenUp /\ GivenUpAgain' = GivenUpAgain
      /\ Restarted' = Restarted
  BY <1>1, <1>2 DEF WifiBack, GivenUp, GivenUpAgain, Restarted
<1>5. FirstUp' = FirstUp /\ SecondUp' = SecondUp /\ LastUp' = LastUp
  BY <1>1, <1>2 DEF FirstUp, SecondUp, LastUp
<1> QED BY <1>2, <1>3, <1>4, <1>5 DEF Bounded

(* Receive: traffic only keeps the station awake.                           *)
LEMMA ReceiveBounded ==
  ASSUME KnownStation, IInv, IInv', OutageInv, Receive
  PROVE  Bounded'
<1>1. /\ TypeOK /\ TypeOK' /\ phase = "receive" /\ phase' = "register"
      /\ ticks' = ticks /\ outage' = outage /\ deadFor' = deadFor /\ wifi' = wifi
      /\ ground_registred' = ground_registred /\ client' = client
      /\ ~(wifi = "ap" /\ Due("boot"))
  BY DEF IInv, Receive, network, history
<1>2. /\ age'["boot"] = age["boot"] /\ age'["check"] = age["check"]
      /\ age'["wifi"] = age["wifi"] /\ age'["packet"] = age["packet"]
      /\ age'["rx"] \in {0, age["rx"]}
  <2>1. age' = age \/ age' = [age EXCEPT !["rx"] = 0]
    BY DEF Receive
  <2> QED BY <1>1, <2>1 DEF TypeOK, Timers
<1>3. /\ PassTime \in Nat /\ PassTime > 0 /\ Longest \in Nat /\ Longest' = Longest
      /\ Top' = Top /\ Top["rx"] \in Nat
      /\ ogn_sleepmode => 2 * PassTime <= Top["rx"]
      /\ outage \in Nat /\ ticks \in Nat /\ age["boot"] \in Nat /\ age["rx"] \in Nat
      /\ AP_TIME \in Nat
  BY <1>1, Limits, Numbers
<1>4. Bounded /\ Alive' = Alive /\ Up' = Up /\ Early /\ Early'
  BY <1>1 DEF OutageInv, Alive, Up, Early
<1>5. wifi = "ap" => InSetup'
  <2> SUFFICES ASSUME wifi = "ap" PROVE InSetup'
    OBVIOUS
  <2>1. InSetup /\ ~(age["boot"] >= AP_TIME + 1)
    BY <1>1, <1>4, DueTimers DEF Bounded
  <2>2. outage <= age["boot"] /\ age["boot"] <= AP_TIME
    BY <1>1, <1>3, <2>1 DEF InSetup
  <2> QED BY <1>1, <1>2, <1>3, <2>2 DEF InSetup
<1>6. wifi = "lost" => WithoutWifi'
  BY <1>1, <1>2, <1>4 DEF Bounded, WithoutWifi
<1>7. Wrapped => Wrapped'
  BY <1>1, <1>2, <1>3, DueTimers DEF Wrapped
<1>8. WifiBack => WifiBack'
  BY <1>1, <1>3, <1>4 DEF WifiBack
<1>9. GivenUp => GivenUp'
  BY <1>1, <1>2, <1>3, <1>4, <1>7 DEF GivenUp
<1>10. GivenUpAgain => GivenUpAgain'
  BY <1>1, <1>2, <1>3, <1>4 DEF GivenUpAgain
<1>11. Restarted => Restarted'
  BY <1>1, <1>2, <1>3, <1>4 DEF Restarted
<1>12. FirstUp => FirstUp'
  BY <1>1, <1>3 DEF FirstUp
<1>13. SecondUp => SecondUp'
  BY <1>1, <1>2, <1>3, <1>4, <1>7 DEF SecondUp, Spent
<1>14. LastUp => LastUp'
  <2>1. ogn_sleepmode /\ ~Due("rx") => ~Due("rx")'
    <3>1. ~Due("rx") => ~(age["rx"] >= Top["rx"])
      BY DueTimers
    <3>2. ogn_sleepmode => ~(0 >= Top["rx"])
      BY <1>3
    <3>3. ~(age'["rx"] >= Top["rx"]) => ~Due("rx")'
      BY DueTimers
    <3> QED BY <1>2, <3>1, <3>2, <3>3
  <2>2. LastUp => ~ogn_sleepmode \/ ~Due("rx")'
    BY <1>4, <2>1 DEF LastUp
  <2>3. LastUp => /\ outage' <= Longest' + 4 * PassTime
                  /\ age'["boot"] <= 2 * PassTime
                  /\ age'["packet"] <= 2 * PassTime \/ age'["check"] <= PassTime
    BY <1>1, <1>2, <1>3 DEF LastUp
  <2> QED BY <2>2, <2>3 DEF LastUp
<1>15. Booting'
  BY <1>1 DEF Booting
<1> QED
  BY <1>15, <1>1, <1>4, <1>5, <1>6, <1>8, <1>9, <1>10, <1>11, <1>12, <1>13, <1>14
  DEF Bounded

(* A pass goes on; stages of an outage that outlast any step after the       *)
(* registration that leaves the ages alone.                                *)
LEMMA PassBounded ==
  ASSUME KnownStation, TypeOK, Bounded,
         phase \in {"failed", "check", "wifi"}, phase' \in {"check", "wifi", "sleep"},
         ticks' = ticks, outage' = outage, deadFor' = deadFor,
         wifi' = wifi, client' = client,
         \A t \in {"boot", "check", "packet", "rx"} : age'[t] = age[t],
         ground_registred = 1 => ground_registred' = 1,
         ground_registred' = 1 => ground_registred = 1,
         phase' = "check" => phase \in {"failed", "check"},
         phase' # "check" /\ ground_registred = 1 => ~Due("check"),
         wifi = "lost" => WithoutWifi'
  PROVE  Bounded'
<1>1. /\ PassTime \in Nat /\ Longest \in Nat /\ Longest' = Longest /\ Top' = Top
      /\ APRS_CHECK_KEEPALIVE_TIME \in Nat
      /\ outage \in Nat /\ ticks \in Nat
  BY Limits, Numbers
<1>2. /\ age'["boot"] = age["boot"] /\ age'["check"] = age["check"]
      /\ age'["packet"] = age["packet"] /\ age'["rx"] = age["rx"]
  OBVIOUS
<1>3. /\ ~Early /\ ~Early' /\ Alive' = Alive /\ Up' = Up
      /\ phase # "receive" /\ phase' # "receive" /\ phase # "boot" /\ phase' # "boot"
      /\ Due("rx")' = Due("rx") /\ Due("check")' = Due("check")
  BY <1>1, <1>2 DEF Early, Alive, Up, Due
<1>4. InSetup => InSetup'
  BY <1>2, <1>3 DEF InSetup
<1>5. WifiBack => WifiBack'
  BY <1>1, <1>3 DEF WifiBack
<1>6. GivenUp => GivenUp'
  BY <1>1, <1>2, <1>3 DEF GivenUp
<1>7. GivenUpAgain => GivenUpAgain'
  BY <1>1, <1>2, <1>3 DEF GivenUpAgain, Spent
<1>8. ~Restarted /\ Booting'
  BY <1>3 DEF Restarted, Booting
<1>9. FirstUp => FirstUp'
  BY <1>1 DEF FirstUp
<1>10. Up /\ SecondUp => SecondUp'
  <2>1. Wrapped /\ phase' = "check" => Wrapped'
    BY <1>1, <1>2, <1>3 DEF Wrapped
  <2>2. Up /\ Wrapped => phase' = "check"
    BY DEF Wrapped, Up
  <2> QED BY <1>1, <1>2, <1>3, <2>1, <2>2 DEF SecondUp, Spent
<1>11. LastUp => LastUp'
  BY <1>1, <1>2, <1>3 DEF LastUp
<1> QED
  BY <1>3, <1>4, <1>5, <1>6, <1>7, <1>8, <1>9, <1>10, <1>11 DEF Bounded

(* The look at the Wi-Fi that finds it, and the end of a failure.           *)
LEMMA FoundWifiBounded ==
  ASSUME KnownStation, IInv, OutageInv, wifi = "sta",
         AfterFailure \/ CheckWifi
  PROVE  Bounded'
<1>1. TypeOK /\ Bounded /\ CheckNotMissed /\ age \in [Timers -> Nat]
  BY DEF IInv, OutageInv, TypeOK
<1>2. CASE AfterFailure
  <2>1. /\ phase = "failed" /\ phase' = "check" /\ ticks' = ticks /\ outage' = outage
        /\ deadFor' = deadFor /\ wifi' = wifi /\ client' = client
        /\ ground_registred' = 0 /\ ground_registred # 1
    BY <1>1, <1>2 DEF AfterFailure, network, history, TypeOK
  <2>2. \A t \in {"boot", "check", "packet", "rx"} : age'[t] = age[t]
    BY <1>1, <1>2 DEF AfterFailure, Timers
  <2> QED BY <1>1, <2>1, <2>2, PassBounded
<1>3. CASE CheckWifi
  <2>1. /\ phase = "wifi" /\ phase' = "sleep" /\ ticks' = ticks /\ outage' = outage
        /\ deadFor' = deadFor /\ wifi' = wifi /\ client' = client
        /\ ground_registred' = ground_registred
    BY <1>3 DEF CheckWifi, program, network, history
  <2>2. \A t \in {"boot", "check", "packet", "rx"} : age'[t] = age[t]
    BY <1>1, <1>3 DEF CheckWifi, Timers
  <2>3. ground_registred = 1 => ~Due("check")
    BY <1>1, <2>1, DueTimers, Numbers, Limits DEF CheckNotMissed
  <2> QED BY <1>1, <2>1, <2>2, <2>3, PassBounded
<1> QED BY <1>2, <1>3

(* No look at the Wi-Fi is due. *)
LEMMA NoWifiCheckBounded ==
  ASSUME KnownStation, IInv, OutageInv, NoWifiCheck
  PROVE  Bounded'
<1>1. TypeOK /\ Bounded /\ CheckNotMissed
  BY DEF IInv, OutageInv
<1>2. /\ phase = "wifi" /\ phase' = "sleep" /\ ticks' = ticks /\ outage' = outage
      /\ deadFor' = deadFor /\ wifi' = wifi /\ client' = client /\ age' = age
      /\ ground_registred' = ground_registred
  BY DEF NoWifiCheck, program, network, history
<1>3. ground_registred = 1 => ~Due("check")
  BY <1>1, <1>2, DueTimers, Numbers, Limits DEF CheckNotMissed
<1>4. wifi = "lost" => WithoutWifi'
  <2>1. ~(age["wifi"] >= APRS_CHECK_WIFI_TIME) /\ age["wifi"] \in Nat
        /\ APRS_CHECK_WIFI_TIME \in Nat
    BY <1>1, DueTimers, Numbers, Limits DEF NoWifiCheck
  <2> QED BY <1>1, <1>2, <2>1 DEF Bounded, WithoutWifi
<1> QED BY <1>1, <1>2, <1>3, <1>4, PassBounded

(* No look for messages is due, or there is no session to look at.          *)
LEMMA NoCheckBounded ==
  ASSUME KnownStation, IInv, OutageInv, NoCheck
  PROVE  Bounded'
<1>1. TypeOK /\ Bounded
  BY DEF IInv, OutageInv
<1>2. /\ phase = "check" /\ phase' = "wifi" /\ ticks' = ticks /\ outage' = outage
      /\ deadFor' = deadFor /\ wifi' = wifi /\ client' = client /\ age' = age
      /\ ground_registred' = ground_registred
      /\ ground_registred = 1 => ~Due("check")
  BY DEF NoCheck, program, network, history
<1>3. wifi = "lost" => WithoutWifi'
  BY <1>1, <1>2 DEF Bounded, WithoutWifi
<1> QED BY <1>1, <1>2, <1>3, PassBounded

(* The registration that is not due leaves a session as it is.              *)
LEMMA NoRegistrationBounded ==
  ASSUME KnownStation, IInv, OutageInv, NoRegistration
  PROVE  Bounded'
<1>1. /\ TypeOK /\ Bounded
      /\ phase = "register" /\ phase' = "check" /\ ticks' = ticks /\ outage' = outage
      /\ deadFor' = deadFor /\ wifi' = wifi /\ client' = client /\ age' = age
      /\ ground_registred' = ground_registred
  BY DEF IInv, OutageInv, NoRegistration, program, network, history
<1>2. wifi = "sta" => ground_registred = 1
  <2>1. position_is_set /\ ground_registred \in {0, 1}
    BY <1>1 DEF OutageInv, Situated, TypeOK
  <2> QED BY <1>1, <2>1 DEF NoRegistration, MustRegister
<1>3. /\ PassTime \in Nat /\ Longest \in Nat /\ Longest' = Longest /\ Top' = Top
      /\ outage \in Nat /\ ticks \in Nat
  BY <1>1, Limits, Numbers
<1>4. /\ Early /\ ~Early' /\ Alive' = Alive /\ Up' = Up /\ Booting'
      /\ Due("rx")' = Due("rx") /\ Due("check")' = Due("check")
  BY <1>1, <1>3 DEF Early, Alive, Up, Due, Booting
<1>5. InSetup => InSetup'
  BY <1>1 DEF InSetup
<1>6. WithoutWifi => WithoutWifi'
  BY <1>1 DEF WithoutWifi
<1>7. FirstUp => FirstUp'
  BY <1>1, <1>3 DEF FirstUp
<1>8. SecondUp => SecondUp'
  <2>1. Wrapped => Wrapped'
    BY <1>1, <1>3, <1>4 DEF Wrapped
  <2> QED BY <1>1, <1>3, <1>4, <2>1 DEF SecondUp, Spent
<1>9. LastUp => LastUp'
  BY <1>1, <1>3, <1>4 DEF LastUp
<1> QED BY <1>1, <1>2, <1>4, <1>5, <1>6, <1>7, <1>8, <1>9 DEF Bounded

(* A registration ends an outage, or a session goes on.                     *)
LEMMA RegisterSucceedsBounded ==
  ASSUME KnownStation, IInv, OutageInv, RegisterSucceeds
  PROVE  Bounded'
<1>1. /\ TypeOK /\ Bounded /\ DeadLinkBound
      /\ phase = "register" /\ phase' = "check" /\ ticks' = ticks /\ outage' = outage
      /\ wifi = "sta" /\ wifi' = "sta" /\ client' = "open" /\ ground_registred' = 1
  BY DEF IInv, OutageInv, RegisterSucceeds
<1>2. /\ age'["boot"] = age["boot"] /\ age'["check"] = age["check"]
      /\ age'["packet"] = age["packet"] /\ age'["rx"] = age["rx"]
  BY <1>1 DEF RegisterSucceeds, TypeOK, Timers
<1>3. /\ PassTime \in Nat /\ PassTime > 0 /\ Longest \in Nat /\ Longest' = Longest
      /\ Top' = Top /\ Top["rx"] \in Nat /\ DeadLimit \in Nat /\ DeadLimit <= Longest
      /\ outage \in Nat /\ ticks \in Nat /\ ticks <= PassTime /\ deadFor \in Nat
      /\ age["boot"] \in Nat /\ age["rx"] \in Nat /\ age["check"] \in Nat
      /\ age["packet"] \in Nat
  BY <1>1, Limits, Numbers
<1>4. ogn_sleepmode => 2 * PassTime <= Top["rx"]
  BY Limits
<1>5. /\ Early /\ ~Early' /\ Up' /\ Booting' /\ Due("check")' = Due("check")
      /\ Due("rx")' = Due("rx")
      /\ Due("rx") <=> age["rx"] >= Top["rx"]
  BY <1>1, <1>2, <1>3, DueTimers DEF Early, Alive, Up, Due, Booting
<1>6. SUFFICES FirstUp' \/ SecondUp' \/ LastUp'
  BY <1>1, <1>5 DEF Bounded, Up
<1>7. Wrapped => Wrapped'
  BY <1>1, <1>2, <1>3, <1>5 DEF Wrapped
<1>8. CASE WifiBack \/ FirstUp
  <2>1. outage <= Longest
    BY <1>3, <1>8 DEF WifiBack, FirstUp
  <2> QED BY <1>1, <1>3, <2>1 DEF FirstUp
<1>9. CASE GivenUp
  <2>1. outage <= Longest + ticks /\ (age["check"] <= PassTime \/ Wrapped)
    BY <1>3, <1>5, <1>9 DEF GivenUp
  <2>2. outage' <= Longest' + Spent'
    BY <1>1, <1>3, <2>1 DEF Spent
  <2> QED BY <1>1, <1>2, <1>7, <2>1, <2>2 DEF SecondUp
<1>10. CASE GivenUpAgain
  <2>1. /\ outage <= Longest + PassTime + ticks /\ age["check"] <= ticks
        /\ age["boot"] <= PassTime + ticks
    BY <1>5, <1>10 DEF GivenUpAgain
  <2>2. ogn_sleepmode => age["rx"] <= ticks
    BY <1>5, <1>10 DEF GivenUpAgain
  <2>3. ogn_sleepmode => ~Due("rx")'
    BY <1>3, <1>4, <1>5, <2>2
  <2>4. /\ outage <= Longest + 4 * PassTime /\ age["check"] <= PassTime
        /\ age["boot"] <= 2 * PassTime
    BY <1>3, <2>1
  <2> QED BY <1>1, <1>2, <1>3, <2>3, <2>4 DEF LastUp
<1>11. CASE Restarted
  <2>1. /\ age["boot"] <= PassTime + ticks
        /\ age["packet"] <= age["boot"] /\ age["rx"] <= age["boot"]
        /\ outage <= Longest + 3 * PassTime + ticks
        /\ age["boot"] = PassTime + ticks => outage <= Longest + 2 * PassTime + ticks
    BY <1>11 DEF Restarted
  <2>2. /\ outage <= Longest + 4 * PassTime /\ age["boot"] <= 2 * PassTime
        /\ age["packet"] <= 2 * PassTime
    BY <1>3, <2>1
  <2>3. CASE ~ogn_sleepmode \/ ~Due("rx")
    BY <1>1, <1>2, <1>3, <1>5, <2>2, <2>3 DEF LastUp
  <2>4. CASE ogn_sleepmode /\ Due("rx")
    <3>1. age["rx"] >= Top["rx"] /\ 2 * PassTime <= Top["rx"]
      BY <1>4, <1>5, <2>4
    <3>2. ticks = PassTime /\ age["boot"] = PassTime + ticks
      BY <1>3, <2>1, <3>1
    <3>3. outage <= Longest + 3 * PassTime
      BY <1>3, <2>1, <3>2
    <3> QED BY <1>1, <1>2, <1>3, <1>5, <2>2, <3>2, <3>3 DEF LastUp
  <2> QED BY <2>3, <2>4
<1>12. CASE ground_registred = 1 /\ ~Alive
  <2>1. outage <= deadFor /\ deadFor <= DeadLimit
    BY <1>1, <1>12 DEF Bounded, DeadLinkBound
  <2>2. outage <= Longest
    BY <1>3, <2>1
  <2> QED BY <1>1, <1>3, <2>2 DEF FirstUp
<1>13. CASE SecondUp
  <2>1. outage' <= Longest' + Spent'
    BY <1>1, <1>3, <1>13 DEF SecondUp, Spent
  <2> QED BY <1>1, <1>2, <1>7, <1>13, <2>1 DEF SecondUp
<1>14. CASE LastUp
  BY <1>1, <1>2, <1>3, <1>5, <1>14 DEF LastUp
<1> QED
  BY <1>1, <1>8, <1>9, <1>10, <1>11, <1>12, <1>13, <1>14 DEF Bounded, Up

(* A registration fails for want of Wi-Fi.                                  *)
LEMMA RegisterFailsBounded ==
  ASSUME KnownStation, IInv, IInv', OutageInv, RegisterFails
  PROVE  Bounded'
<1>1. /\ TypeOK /\ TypeOK' /\ Bounded /\ phase = "register" /\ phase' = "failed"
      /\ ticks' = ticks /\ outage' = outage /\ wifi' = wifi /\ wifi # "ap"
      /\ ground_registred' = -1
  BY DEF IInv, OutageInv, RegisterFails, MustRegister, network, history
<1>2. CASE ~stable
  BY <1>1, <1>2, NoOutage DEF OutageInv, Situated
<1>3. CASE stable
  <2>1. wifi = "lost"
    BY <1>1, <1>3 DEF RegisterFails, TypeOK
  <2>2. age'["wifi"] = age["wifi"]
    BY <1>1 DEF RegisterFails, TypeOK, Timers
  <2>3. WithoutWifi'
    BY <1>1, <2>1, <2>2 DEF Bounded, WithoutWifi
  <2>4. Booting' /\ ~Up'
    BY <1>1 DEF Booting, Up
  <2> QED BY <1>1, <2>1, <2>3, <2>4 DEF Bounded
<1> QED BY <1>2, <1>3

(* A look for messages gives up a dead connection, and a live one that was  *)
(* silent; but not two sessions in a row unless seconds() has wrapped.      *)
LEMMA CheckMessagesBounded ==
  ASSUME KnownStation, IInv, OutageInv, CheckMessages
  PROVE  Bounded'
<1>1. /\ TypeOK /\ Bounded /\ FlagsAgree
      /\ phase = "check" /\ phase' = "wifi" /\ ticks' = ticks /\ outage' = outage
      /\ deadFor' = deadFor /\ wifi' = wifi
      /\ ground_registred = 1 /\ ground_registred' = aprs_registred'
      /\ wifi # "ap" /\ aprs_registred = 1
  BY DEF IInv, OutageInv, CheckMessages, FlagsAgree, history
<1>2. /\ age'["boot"] = age["boot"] /\ age'["check"] = 0
      /\ age'["wifi"] = age["wifi"] /\ age'["rx"] = age["rx"]
      /\ age'["packet"] = PacketAge /\ PacketAge \in {0, age["packet"]}
  BY <1>1 DEF CheckMessages, PacketAge, TypeOK, Timers
<1>3. /\ PassTime \in Nat /\ PassTime > 0 /\ Longest \in Nat /\ Longest' = Longest
      /\ Top' = Top /\ Top["rx"] \in Nat /\ DeadLimit \in Nat /\ DeadLimit <= Longest
      /\ SILENCE \in Nat /\ 2 * PassTime <= SILENCE
      /\ APRS_CHECK_KEEPALIVE_TIME \in Nat /\ PassTime < APRS_CHECK_KEEPALIVE_TIME
      /\ outage \in Nat /\ ticks \in Nat /\ ticks <= PassTime /\ deadFor \in Nat
      /\ age["packet"] \in Nat /\ age["check"] \in Nat
  BY <1>1, Limits, Numbers
<1>4. /\ ~Early /\ ~Early' /\ Booting' /\ Due("rx")' = Due("rx")
      /\ ~(age["check"] <= PassTime)
  <2>1. age["check"] >= APRS_CHECK_KEEPALIVE_TIME
    BY DueTimers DEF CheckMessages
  <2> QED BY <1>1, <1>2, <1>3, <2>1 DEF Early, Booting, Due
<1>5. /\ PacketAge > SILENCE => client' = "closed" /\ aprs_registred' = 0
      /\ ~(PacketAge > SILENCE) => /\ aprs_registred' = 1
                                   /\ client' \in {"closed", client}
                                   /\ client = "open" => client' = "open"
  BY <1>1 DEF CheckMessages, connected
<1>6. CASE wifi = "lost"
  <2>1. WithoutWifi'
    BY <1>1, <1>2, <1>6 DEF Bounded, WithoutWifi
  <2>2. ~Alive /\ ~Alive' /\ outage <= deadFor
    BY <1>1, <1>6 DEF Alive, Bounded
  <2> QED BY <1>1, <1>4, <1>6, <2>1, <2>2 DEF Bounded, Up
<1>7. CASE wifi = "sta" /\ ~Alive
  <2>1. ~Alive'
    BY <1>1, <1>5, <1>7 DEF Alive
  <2>2. outage <= deadFor /\ deadFor <= DeadLimit
    BY <1>1, <1>7 DEF Bounded, IInv, DeadLinkBound
  <2>3. outage <= Longest
    BY <1>3, <2>2
  <2>4. GivenUp'
    BY <1>1, <1>2, <1>3, <1>4, <2>3 DEF GivenUp
  <2> QED BY <1>1, <1>4, <1>7, <2>1, <2>2, <2>4 DEF Bounded, Up
<1>8. CASE Alive
  <2>1. FirstUp \/ SecondUp \/ LastUp
    BY <1>1, <1>8 DEF Bounded, Up
  <2>2. CASE PacketAge > SILENCE
    <3>1. wifi' = "sta" /\ ground_registred' = 0 /\ ~Up'
      BY <1>1, <1>5, <1>8, <2>2 DEF Alive, Up
    <3>2. SUFFICES GivenUp' \/ GivenUpAgain'
      BY <1>1, <1>4, <3>1 DEF Bounded
    <3>3. CASE FirstUp
      BY <1>1, <1>2, <1>3, <1>4, <3>3 DEF FirstUp, GivenUp
    <3>4. CASE SecondUp
      <4>1. Wrapped /\ outage <= Longest + Spent
        BY <1>4, <3>4 DEF SecondUp
      <4>2. /\ age["boot"] <= PassTime /\ age["rx"] \in {0, Top["rx"]}
        BY <1>1, <1>3, <4>1, Numbers DEF Wrapped
      <4>3. outage' <= Longest' + Spent'
        BY <1>1, <1>3, <4>1 DEF Spent
      <4> QED BY <1>1, <1>2, <1>3, <1>4, <4>2, <4>3 DEF GivenUpAgain
    <3>5. ~LastUp
      BY <1>2, <1>3, <1>4, <2>2 DEF LastUp
    <3> QED BY <2>1, <3>3, <3>4, <3>5
  <2>3. CASE ~(PacketAge > SILENCE)
    <3>1. Up' /\ wifi' = "sta" /\ ground_registred' = 1 /\ Alive'
      BY <1>1, <1>5, <1>8, <2>3 DEF Alive, Up
    <3>2. SUFFICES FirstUp' \/ SecondUp' \/ LastUp'
      BY <1>1, <1>4, <3>1 DEF Bounded
    <3>3. CASE FirstUp
      BY <1>1, <1>3, <3>3 DEF FirstUp
    <3>4. CASE SecondUp
      BY <1>1, <1>2, <1>3, <3>4 DEF SecondUp, Spent
    <3>5. CASE LastUp
      BY <1>1, <1>2, <1>3, <1>4, <3>5 DEF LastUp
    <3> QED BY <2>1, <3>3, <3>4, <3>5
  <2> QED BY <2>2, <2>3
<1> QED BY <1>1, <1>6, <1>7, <1>8 DEF TypeOK

(* A pass ends. *)
LEMMA StayAwakeBounded ==
  ASSUME KnownStation, IInv, OutageInv, StayAwake
  PROVE  Bounded'
<1>1. /\ TypeOK /\ Bounded /\ phase = "sleep" /\ phase' = "receive" /\ ticks' = 0
      /\ outage' = outage /\ deadFor' = deadFor /\ wifi' = wifi /\ age' = age
      /\ ground_registred' = ground_registred /\ client' = client
      /\ ~(ogn_sleepmode /\ Due("rx"))
  BY DEF IInv, OutageInv, StayAwake, program, network, history
<1>2. /\ PassTime \in Nat /\ PassTime > 0 /\ Longest \in Nat /\ Longest' = Longest
      /\ Top' = Top /\ Top["rx"] \in Nat /\ AP_TIME \in Nat
      /\ APRS_CHECK_WIFI_TIME \in Nat
      /\ outage \in Nat /\ ticks \in Nat /\ ticks <= PassTime
      /\ age["boot"] \in Nat /\ age["check"] \in Nat /\ age["rx"] \in Nat
      /\ age["rx"] <= Top["rx"]
      /\ age["wifi"] \in Nat /\ age["wifi"] <= APRS_CHECK_WIFI_TIME
  BY <1>1, Limits, Numbers
<1>3. /\ ~Early /\ Early' /\ Alive' = Alive /\ Up' = Up /\ Booting'
      /\ Due("rx")' = Due("rx")
  BY <1>1, <1>2 DEF Early, Alive, Up, Due, Booting
<1>4. InSetup => InSetup'
  BY <1>1, <1>2 DEF InSetup
<1>5. WithoutWifi => WithoutWifi'
  BY <1>1, <1>2 DEF WithoutWifi
<1>6. WifiBack => WifiBack'
  BY <1>1, <1>2, <1>3 DEF WifiBack
<1>7. GivenUp => GivenUp'
  BY <1>1, <1>2, <1>3 DEF GivenUp
<1>8. GivenUpAgain => GivenUpAgain'
  <2> SUFFICES ASSUME GivenUpAgain PROVE GivenUpAgain'
    OBVIOUS
  <2>1. /\ outage <= Longest + Spent /\ age["check"] = 0 /\ age["boot"] <= PassTime
        /\ age["rx"] \in {0, Top["rx"]}
    BY <1>3 DEF GivenUpAgain
  <2>2. ogn_sleepmode => age["rx"] = 0
    BY <1>1, <1>2, <2>1, DueTimers
  <2>3. outage <= Longest + PassTime
    BY <1>2, <2>1 DEF Spent
  <2> QED BY <1>1, <1>2, <1>3, <2>1, <2>2, <2>3 DEF GivenUpAgain
<1>9. ~Restarted
  BY <1>3 DEF Restarted
<1>10. FirstUp => FirstUp'
  BY <1>1, <1>2 DEF FirstUp
<1>11. SecondUp => SecondUp'
  BY <1>1, <1>2, <1>3 DEF SecondUp, Spent
<1>12. LastUp => LastUp'
  BY <1>1, <1>2, <1>3 DEF LastUp
<1> QED
  BY <1>1, <1>3, <1>4, <1>5, <1>6, <1>7, <1>8, <1>9, <1>10, <1>11, <1>12
  DEF Bounded

(* A wrap of seconds() comes late after a boot; it makes the look for        *)
(* messages due, and the sleep.                                            *)
LEMMA WrapBounded ==
  ASSUME KnownStation, IInv, OutageInv, Wrap
  PROVE  Bounded'
<1>1. /\ TypeOK /\ Bounded /\ phase = "receive" /\ phase' = phase /\ ticks' = ticks
      /\ outage' = outage /\ deadFor' = deadFor /\ wifi' = wifi /\ wifi # "ap"
      /\ ground_registred' = ground_registred /\ client' = client
  BY DEF IInv, OutageInv, Wrap, program, network, history
<1>2. /\ age'["boot"] = 0 /\ age'["check"] = APRS_CHECK_KEEPALIVE_TIME
      /\ age'["wifi"] = APRS_CHECK_WIFI_TIME /\ age'["rx"] = Top["rx"]
      /\ age["boot"] >= AP_TIME + 1
  BY DueTimers, TopFields DEF Wrap, Timers
<1>3. /\ PassTime \in Nat /\ PassTime > 0 /\ Longest \in Nat /\ Longest' = Longest
      /\ Top' = Top /\ Top["rx"] \in Nat /\ AP_TIME \in Nat /\ 2 * PassTime <= AP_TIME
      /\ APRS_CHECK_WIFI_TIME \in Nat /\ APRS_CHECK_KEEPALIVE_TIME \in Nat
      /\ outage \in Nat /\ ticks \in Nat /\ ticks <= PassTime
      /\ age["boot"] \in Nat /\ age["wifi"] \in Nat
  BY <1>1, Limits, Numbers
<1>4. /\ Early /\ Early' /\ Alive' = Alive /\ Up' = Up /\ Booting'
      /\ Due("check")' /\ Due("rx")'
      /\ ~(age["boot"] <= PassTime + ticks) /\ ~(age["boot"] <= 2 * PassTime)
  BY <1>1, <1>2, <1>3, DueTimers DEF Early, Alive, Up, Booting
<1>5. Wrapped'
  BY <1>1, <1>2, <1>3, <1>4 DEF Wrapped
<1>6. WithoutWifi => WithoutWifi'
  BY <1>1, <1>2, <1>3 DEF WithoutWifi
<1>7. WifiBack => WifiBack'
  BY <1>1, <1>3, <1>4 DEF WifiBack
<1>8. GivenUp => GivenUp'
  BY <1>1, <1>3, <1>4, <1>5 DEF GivenUp
<1>9. ~GivenUpAgain /\ ~Restarted /\ ~LastUp
  BY <1>4 DEF GivenUpAgain, Restarted, LastUp
<1>10. FirstUp => FirstUp'
  BY <1>1, <1>3 DEF FirstUp
<1>11. SecondUp => SecondUp'
  BY <1>1, <1>3, <1>4, <1>5 DEF SecondUp, Spent
<1> QED
  BY <1>1, <1>4, <1>6, <1>7, <1>8, <1>9, <1>10, <1>11 DEF Bounded

(* The Wi-Fi comes back: with a session, or to a registration.              *)
LEMMA RegainWifiBounded ==
  ASSUME KnownStation, IInv, OutageInv, RegainWifi
  PROVE  Bounded'
<1>1. /\ TypeOK /\ Bounded /\ phase # "boot" /\ phase' = phase /\ ticks' = ticks
      /\ outage' = outage /\ wifi = "lost" /\ wifi' = "sta" /\ client' = client
      /\ ground_registred' = ground_registred
      /\ deadFor' = IF client = "open" THEN 0 ELSE deadFor
  BY DEF IInv, OutageInv, RegainWifi, program
<1>2. /\ outage <= Longest - PassTime /\ Longest' = Longest /\ Longest \in Nat
      /\ PassTime \in Nat /\ ticks \in Nat /\ outage \in Nat
  BY <1>1, OffBounded, Limits, Numbers
<1>3. WifiBack' /\ FirstUp' /\ Booting'
  BY <1>1, <1>2 DEF WifiBack, FirstUp, Booting
<1>4. ground_registred' = 1 /\ ~Alive' => outage' <= deadFor'
  BY <1>1 DEF Bounded, Alive
<1> QED BY <1>1, <1>3, <1>4 DEF Bounded

(* A second of outage: it counts with the pass.                             *)
LEMMA OutageTickBounded ==
  ASSUME KnownStation, IInv, OutageInv, Tick, stable, ~Up
  PROVE  Bounded'
<1>1. /\ TypeOK /\ Bounded /\ phase' = phase /\ phase \in {"boot", "receive"}
      /\ ticks' = ticks + 1 /\ wifi' = wifi /\ client' = client
      /\ ground_registred' = ground_registred /\ ticks < PassTime
  BY DEF IInv, OutageInv, Tick, program, network
<1>2. /\ PassTime \in Nat /\ PassTime > 0 /\ Longest \in Nat /\ Longest' = Longest
      /\ Top' = Top /\ Top["rx"] \in Nat /\ AP_TIME \in Nat /\ 2 * PassTime <= AP_TIME
      /\ APRS_CHECK_WIFI_TIME \in Nat /\ APRS_CHECK_KEEPALIVE_TIME \in Nat
      /\ SILENCE \in Nat /\ DeadLimit \in Nat
      /\ outage \in Nat /\ ticks \in Nat /\ ticks <= PassTime /\ deadFor \in Nat
      /\ age["boot"] \in Nat /\ age["boot"] <= AP_TIME + 1
      /\ age["wifi"] \in Nat /\ age["wifi"] <= APRS_CHECK_WIFI_TIME
      /\ age["check"] \in Nat /\ age["packet"] \in Nat /\ age["rx"] \in Nat
  BY <1>1, Limits, Numbers
<1>3. /\ age'["boot"] = UpTo(age["boot"], AP_TIME + 1)
      /\ age'["check"] = UpTo(age["check"], APRS_CHECK_KEEPALIVE_TIME)
      /\ age'["wifi"] = UpTo(age["wifi"], APRS_CHECK_WIFI_TIME)
      /\ age'["packet"] = UpTo(age["packet"], SILENCE + 1)
      /\ age'["rx"] = UpTo(age["rx"], Top["rx"])
  BY TopFields DEF Tick, Timers
<1>4. outage' = outage + 1 \/ outage' = outage
  BY <1>2 DEF Tick, UpTo, Up
<1>5. /\ Alive' = Alive /\ ~Up' /\ Early' = Early
      /\ phase = "receive" => Early
  BY <1>1 DEF Alive, Up, Early
<1>6. Booting => Booting'
  <2> SUFFICES ASSUME Booting, phase = "boot"
               PROVE  /\ outage' <= Longest + 2 * PassTime + ticks + 1
                      /\ age'["boot"] = ticks + 1 =>
                           outage' <= Longest + PassTime + ticks + 1
    BY <1>1, <1>2 DEF Booting
  <2>1. age["boot"] <= ticks
    BY <1>1 DEF OutageInv, Situated, YoungBoot
  <2>2. age'["boot"] = age["boot"] + 1
    BY <1>1, <1>2, <1>3, <2>1 DEF UpTo
  <2> QED BY <1>1, <1>2, <1>4, <2>2 DEF Booting
<1>7. ground_registred = 1 /\ ~Alive => outage' <= deadFor'
  <2> SUFFICES ASSUME ground_registred = 1, ~Alive, phase # "boot"
               PROVE  outage' <= deadFor'
    BY <1>1 DEF IInv, BootUnregistered
  <2>1. outage <= deadFor /\ deadFor <= DeadLimit
    BY <1>1 DEF Bounded, IInv, DeadLinkBound
  <2>2. deadFor' = deadFor + 1
    BY <1>2, <2>1 DEF Tick, UpTo
  <2> QED BY <1>2, <1>4, <2>1, <2>2
<1>8. phase = "receive" /\ InSetup => InSetup'
  BY <1>1, <1>2, <1>3, <1>4 DEF InSetup, UpTo
<1>9. phase = "receive" /\ WithoutWifi => WithoutWifi'
  BY <1>1, <1>2, <1>3, <1>4 DEF WithoutWifi, UpTo
<1>10. phase = "receive" /\ WifiBack => WifiBack'
  BY <1>1, <1>2, <1>4, <1>5 DEF WifiBack
<1>11. phase = "receive" /\ GivenUp => GivenUp'
  <2> SUFFICES ASSUME phase = "receive", GivenUp PROVE GivenUp'
    OBVIOUS
  <2>1. outage <= Longest + ticks /\ (age["check"] <= ticks \/ Wrapped)
    BY <1>5 DEF GivenUp
  <2>2. age["check"] <= ticks => age'["check"] <= ticks + 1
    BY <1>2, <1>3 DEF UpTo
  <2>3. Wrapped => Wrapped'
    <3> SUFFICES ASSUME Wrapped PROVE Wrapped'
      OBVIOUS
    <3>1. /\ age["boot"] <= ticks /\ age["check"] >= APRS_CHECK_KEEPALIVE_TIME
          /\ age["rx"] \in {0, Top["rx"]} /\ age["rx"] >= Top["rx"]
      BY DueTimers DEF Wrapped
    <3>2. age'["boot"] <= ticks + 1 /\ age'["rx"] = Top["rx"]
      BY <1>2, <1>3, <3>1 DEF UpTo
    <3>3. age'["check"] >= APRS_CHECK_KEEPALIVE_TIME /\ age'["rx"] >= Top["rx"]
      BY <1>2, <1>3, <3>1, <3>2 DEF UpTo
    <3> QED BY <1>1, <1>2, <3>2, <3>3, DueTimers DEF Wrapped
  <2> QED BY <1>1, <1>2, <1>4, <1>5, <2>1, <2>2, <2>3 DEF GivenUp
<1>12. phase = "receive" /\ GivenUpAgain => GivenUpAgain'
  <2> SUFFICES ASSUME phase = "receive", GivenUpAgain PROVE GivenUpAgain'
    OBVIOUS
  <2>1. /\ outage <= Longest + PassTime + ticks
        /\ age["check"] <= ticks /\ age["boot"] <= PassTime + ticks
        /\ ogn_sleepmode => age["rx"] <= ticks
    BY <1>5 DEF GivenUpAgain
  <2>2. /\ age'["check"] <= ticks + 1 /\ age'["boot"] <= PassTime + ticks + 1
        /\ ogn_sleepmode => age'["rx"] <= ticks + 1
    BY <1>2, <1>3, <2>1 DEF UpTo
  <2> QED BY <1>1, <1>2, <1>4, <1>5, <2>1, <2>2 DEF GivenUpAgain
<1>13. phase = "receive" /\ Restarted => Restarted'
  <2> SUFFICES ASSUME phase = "receive", Restarted PROVE Restarted'
    OBVIOUS
  <2>1. /\ age["boot"] <= PassTime + ticks
        /\ age["packet"] <= age["boot"] /\ age["rx"] <= age["boot"]
        /\ outage <= Longest + 3 * PassTime + ticks
        /\ age["boot"] = PassTime + ticks => outage <= Longest + 2 * PassTime + ticks
    BY DEF Restarted
  <2>2. age'["boot"] = age["boot"] + 1
    BY <1>1, <1>2, <1>3, <2>1 DEF UpTo
  <2>3. age'["packet"] <= age["boot"] + 1 /\ age'["rx"] <= age["boot"] + 1
    BY <1>2, <1>3, <2>1 DEF UpTo
  <2>4. /\ outage' <= Longest + 3 * PassTime + ticks + 1
        /\ age["boot"] = PassTime + ticks =>
             outage' <= Longest + 2 * PassTime + ticks + 1
    BY <1>2, <1>4, <2>1
  <2> QED BY <1>1, <1>2, <1>5, <2>1, <2>2, <2>3, <2>4 DEF Restarted
<1> QED
  BY <1>1, <1>5, <1>6, <1>7, <1>8, <1>9, <1>10, <1>11, <1>12, <1>13 DEF Bounded

-------------------------------------------------------------------------------
(* The bound of the outage. *)

(* It holds at the start ... *)
LEMMA InitOutageInv ==
  ASSUME KnownStation, Init
  PROVE  OutageInv
<1>1. /\ phase = "boot" /\ outage = 0 /\ ticks = 0
      /\ age["boot"] = 0 /\ age["packet"] = 0 /\ age["rx"] = 0
  BY DEF Init, Ages, Timers
<1>2. Longest \in Nat /\ PassTime \in Nat
  BY Limits
<1>3. YoungBoot /\ Booting
  BY <1>1, <1>2 DEF YoungBoot, Booting
<1> QED BY <1>1, <1>3 DEF OutageInv, Situated, Bounded

(* ... and every step keeps it. *)
LEMMA NextOutageInv ==
  ASSUME KnownStation, IInv, OutageInv, [Next]_vars
  PROVE  OutageInv'
<1>1. IInv' /\ Situated' /\ TypeOK' /\ Bounded
  BY NextIInv, SituatedStep DEF OutageInv, IInv
<1>2. SUFFICES Bounded'
  BY <1>1 DEF OutageInv
<1>3. CASE Boot \/ LeaveSetup \/ Receive
  BY <1>1, <1>3, BootBounded, LeaveSetupBounded, ReceiveBounded
<1>4. CASE RegisterSucceeds \/ RegisterFails \/ NoRegistration
  BY <1>1, <1>4, RegisterSucceedsBounded, RegisterFailsBounded, NoRegistrationBounded
<1>5. CASE AfterFailure \/ CheckWifi
  <2>1. CASE wifi = "sta"
    BY <1>5, <2>1, FoundWifiBounded
  <2>2. CASE wifi # "sta"
    BY <1>5, <2>2, OffReset DEF AfterFailure, CheckWifi
  <2> QED BY <2>1, <2>2
<1>6. CASE CheckMessages \/ NoCheck \/ NoWifiCheck
  BY <1>6, CheckMessagesBounded, NoCheckBounded, NoWifiCheckBounded
<1>7. CASE Sleep \/ StayAwake
  BY <1>7, SleepBounded, StayAwakeBounded
<1>8. CASE Wrap \/ RegainWifi
  BY <1>8, WrapBounded, RegainWifiBounded
<1>9. CASE ServerLine
  <2>1. \A t \in {"boot", "check", "wifi", "packet", "rx"} : age'[t] = age[t]
    BY <1>9 DEF ServerLine, IInv, TypeOK, Timers
  <2> QED
    BY <1>1, <1>9, <2>1, SameBounded DEF ServerLine, program, history, Alive
<1>10. CASE NoticeGone
  BY <1>1, <1>10, SameBounded DEF NoticeGone, program, history, Alive
<1>11. CASE LoseWifi \/ ServerGone \/ Stabilise
  <2>1. outage' = 0
    BY <1>11 DEF OutageInv, Situated, LoseWifi, ServerGone, Stabilise, history
  <2> QED BY <1>1, <2>1, NoOutage
<1>12. CASE Tick
  <2>1. CASE stable /\ ~Up
    BY <1>12, <2>1, OutageTickBounded
  <2>2. CASE ~(stable /\ ~Up)
    <3>1. outage' = 0
      BY <1>12, <2>2 DEF Tick, Up
    <3> QED BY <1>1, <3>1, NoOutage
  <2> QED BY <2>1, <2>2
<1>13. CASE UNCHANGED vars
  BY <1>1, <1>13, SameBounded DEF vars, program, network, history, Alive
<1> QED
  BY <1>3, <1>4, <1>5, <1>6, <1>7, <1>8, <1>9, <1>10, <1>11, <1>12, <1>13
  DEF Next, Loop, Environment

(* No stage of an outage goes beyond the limit.                             *)
LEMMA OutageInvBounds ==
  ASSUME KnownStation, IInv, OutageInv
  PROVE  OutageBound
<1>1. TypeOK /\ Bounded /\ DeadLinkBound
  BY DEF IInv, OutageInv
<1>2. /\ PassTime \in Nat /\ Longest \in Nat /\ OutageLimit = Longest + 4 * PassTime
      /\ DeadLimit \in Nat /\ DeadLimit <= Longest
      /\ outage \in Nat /\ ticks \in Nat /\ ticks <= PassTime /\ deadFor \in Nat
  BY <1>1, Limits, Numbers
<1>3. SUFFICES outage <= Longest + 4 * PassTime
  BY <1>2 DEF OutageBound
<1>4. CASE phase = "boot"
  BY <1>1, <1>2, <1>4 DEF Bounded, Booting
<1>5. CASE phase # "boot" /\ wifi # "sta"
  <2>1. outage <= Longest + ticks
    BY <1>1, <1>5, OffBounded
  <2> QED BY <1>2, <2>1
<1>6. CASE phase # "boot" /\ wifi = "sta" /\ ground_registred # 1
  <2>1. WifiBack \/ GivenUp \/ GivenUpAgain \/ Restarted
    BY <1>1, <1>6 DEF Bounded
  <2> QED
    BY <1>2, <2>1 DEF WifiBack, GivenUp, GivenUpAgain, Restarted, Spent
<1>7. CASE phase # "boot" /\ ground_registred = 1 /\ ~Alive
  <2>1. outage <= deadFor /\ deadFor <= DeadLimit
    BY <1>1, <1>7 DEF Bounded, DeadLinkBound
  <2> QED BY <1>2, <2>1
<1>8. CASE phase # "boot" /\ Up
  <2>1. FirstUp \/ SecondUp \/ LastUp
    BY <1>1, <1>8 DEF Bounded
  <2> QED BY <1>2, <2>1 DEF FirstUp, SecondUp, LastUp, Spent
<1> QED BY <1>4, <1>5, <1>6, <1>7, <1>8 DEF Up, Alive

(* Once the network has come to rest, a station that knows where it is has  *)
(* a usable session within OutageLimit, for any of these constants, from    *)
(* whatever state the trouble left it in (ognbase.ino:ground, APRS.cpp).    *)
THEOREM OutageBoundHolds ==
  ASSUME KnownStation
  PROVE  Spec => []OutageBound
<1>1. Init => OutageInv
  BY InitOutageInv
<1>2. IInv /\ OutageInv /\ [Next]_vars => OutageInv'
  BY NextOutageInv
<1>3. IInv /\ OutageInv => OutageBound
  BY OutageInvBounds
<1> QED
  BY <1>1, <1>2, <1>3, Invariant, PTL DEF Spec

-------------------------------------------------------------------------------
(* The proof that a session that has come to rest is kept.                 *)

(* A line of the server (20 s) and a look for messages (20 s and a pass)     *)
(* fit into the silence (60 s), and two registrations (600 s) are further   *)
(* apart than two looks.                                                   *)
SteadyServer ==
  /\ SERVER_PERIOD + Round <= SILENCE
  /\ Round < APRS_REGISTER_REC

(* The ages it depends on.                                                 *)
LEMMA LineNumbers ==
  ASSUME TypeOK
  PROVE  /\ age["packet"] \in Nat /\ age["register"] \in Nat
         /\ age["line"] \in Nat /\ age["line"] <= SERVER_PERIOD
         /\ inbox \in Nat /\ SinceCheck \in Nat /\ SinceCheck <= Round
         /\ SERVER_PERIOD \in Nat /\ SILENCE \in Nat /\ Round \in Nat
<1>1. \A t \in Timers : age[t] \in Nat /\ age[t] <= Top[t]
  BY DEF TypeOK
<1> QED BY <1>1, RoundBound, TopFields, TimesAssumption DEF TypeOK, Timers

(* ... and when a line or a registration is due.                           *)
LEMMA DueLine ==
  /\ Due("line") <=> age["line"] >= SERVER_PERIOD
  /\ Due("line")' <=> age'["line"] >= SERVER_PERIOD
  /\ Due("register") <=> age["register"] >= APRS_REGISTER_REC
BY TopFields DEF Due, Top

(* A step that leaves the session, the inbox and these ages alone, and lets  *)
(* no time pass.                                                           *)
LEMMA SameSettled ==
  ASSUME Settled, stable' = stable, ground_registred' = ground_registred,
         wifi' = wifi, client' = client, inbox' = inbox,
         age'["packet"] = age["packet"], age'["register"] = age["register"],
         age'["line"] = age["line"], age'["check"] = age["check"],
         ticks' = ticks \/ age["check"] < APRS_CHECK_KEEPALIVE_TIME
  PROVE  Settled'
<1>1. SinceCheck' = SinceCheck
  BY DEF SinceCheck
<1>2. Due("line")' <=> Due("line")
  BY DueLine
<1>3. Up'
  BY DEF Settled, Up, Alive
<1> QED BY <1>1, <1>2, <1>3 DEF Settled, Round

(* The periodic registration throws away the lines that were received, not  *)
(* long after a packet, as no look was left out.                           *)
LEMMA RegistersSettled ==
  ASSUME IInv, SteadyServer, Settled, RegisterSucceeds
  PROVE  Settled'
<1>1. TypeOK
  BY DEF IInv
<1>2. age["register"] >= APRS_REGISTER_REC
  BY DueLine DEF RegisterSucceeds, MustRegister, Settled, Up
<1>3. age["packet"] <= SERVER_PERIOD + Round
  BY <1>1, <1>2, LineNumbers, TimesAssumption DEF Settled, SteadyServer
<1>4. /\ age'["register"] = 0 /\ age'["line"] = SERVER_PERIOD
      /\ age'["packet"] = age["packet"]
  BY <1>1 DEF RegisterSucceeds, TypeOK, Timers
<1>5. Due("line")'
  BY <1>4, DueLine, TimesAssumption
<1>6. stable' /\ Up' /\ inbox' = 0
  BY DEF RegisterSucceeds, Settled, Up, Alive
<1> QED BY <1>3, <1>4, <1>5, <1>6 DEF Settled, Round

(* A look for messages finds a line, or has not waited long for one.       *)
LEMMA LooksSettled ==
  ASSUME IInv, SteadyServer, Settled \/ ReadsLine, CheckMessages
  PROVE  Settled'
<1>1. TypeOK
  BY DEF IInv
<1>2. stable /\ Up /\ connected /\ (inbox = 0 => Settled)
  BY DEF Settled, ReadsLine, Up, Alive, connected
<1>3. /\ age'["packet"] = PacketAge /\ age'["register"] = age["register"]
      /\ age'["line"] = age["line"]
  BY <1>1 DEF CheckMessages, TypeOK, Timers
<1>4. PacketAge \in Nat /\ PacketAge <= SILENCE
  BY <1>1, <1>2, LineNumbers DEF PacketAge, Settled, SteadyServer
<1>5. ~(PacketAge > SILENCE)
  BY <1>4, TimesAssumption
<1>6. client' = client /\ ground_registred' = aprs_registred
  BY <1>2, <1>5 DEF CheckMessages
<1>7. stable' /\ Up'
  BY <1>2, <1>6 DEF CheckMessages, IInv, FlagsAgree, Up, Alive, history
<1>8. CASE inbox > 0
  <2>1. age'["packet"] = 0 /\ age'["line"] \in Nat
    BY <1>1, <1>2, <1>3, <1>8, LineNumbers DEF PacketAge
  <2>2. PICK d \in Nat : SinceCheck' = d
    <3>1. age'["check"] = 0 /\ ticks' = ticks /\ ticks \in Nat
      BY <1>1, TimesAssumption DEF CheckMessages, TypeOK, Timers
    <3> QED BY <3>1, TimesAssumption, PassAssumption DEF SinceCheck
  <2> QED BY <1>7, <2>1, <2>2, TimesAssumption DEF Settled
<1>9. CASE ~(inbox > 0)
  <2>1. inbox = 0 /\ inbox' = 0 /\ age'["packet"] = age["packet"] /\ Settled
    BY <1>1, <1>2, <1>3, <1>9, LineNumbers DEF CheckMessages, Unread, PacketAge
  <2>2. Due("line")' <=> Due("line")
    BY <1>3, DueLine
  <2> QED BY <1>3, <1>7, <2>1, <2>2 DEF Settled, Round
<1> QED BY <1>8, <1>9

(* A line ends the time after a registration in which there is none.       *)
LEMMA LineSettled ==
  ASSUME IInv, Settled, ServerLine
  PROVE  Settled'
<1>1. TypeOK
  BY DEF IInv
<1>2. /\ age'["packet"] = age["packet"] /\ age'["register"] = age["register"]
      /\ age'["check"] = age["check"] /\ ticks' = ticks
  BY <1>1 DEF ServerLine, TypeOK, Timers
<1>3. SinceCheck' = SinceCheck
  BY <1>2 DEF SinceCheck
<1>4. inbox' \in Nat /\ inbox' > 0
  BY <1>1, LineNumbers DEF ServerLine
<1>5. stable' /\ Up'
  BY DEF ServerLine, Settled, Up, Alive, program, history
<1>6. \/ age["packet"] <= SERVER_PERIOD + SinceCheck
      \/ age["register"] <= SinceCheck
  <2>1. CASE inbox > 0
    BY <2>1 DEF Settled
  <2>2. CASE inbox = 0
    BY <1>1, <2>2, LineNumbers DEF Settled
  <2> QED BY <1>1, <2>1, <2>2, LineNumbers
<1> QED BY <1>2, <1>3, <1>4, <1>5, <1>6 DEF Settled

(* Time passes: only while no line is due, and a look is put off no longer   *)
(* than the time counts.                                                   *)
LEMMA TickSettled ==
  ASSUME IInv, IInv', Settled, Tick
  PROVE  Settled'
<1>1. TypeOK /\ TypeOK'
  BY DEF IInv
<1>2. PICK p \in Nat, r \in Nat, l \in Nat, c \in Nat, n \in Nat :
        /\ age["packet"] = p /\ age["register"] = r /\ age["line"] = l
        /\ age["check"] = c /\ ticks = n
  BY <1>1, LineNumbers, Numbers
<1>3. stable' /\ Up' /\ inbox' = inbox
  BY DEF Tick, Settled, Up, Alive, program, network
<1>4. l < SERVER_PERIOD
  BY <1>2, DueLine, TimesAssumption DEF Tick, Settled, Up
<1>5. /\ age'["packet"] = UpTo(p, SILENCE + 1)
      /\ age'["register"] = UpTo(r, APRS_REGISTER_REC)
      /\ age'["line"] = l + 1
      /\ age'["check"] = UpTo(c, APRS_CHECK_KEEPALIVE_TIME)
      /\ ticks' = n + 1
  BY <1>2, <1>4, TopFields DEF Tick, Timers, UpTo
<1>6. age'["packet"] \in Nat /\ age'["packet"] <= p + 1
  BY <1>2, <1>5, TimesAssumption DEF UpTo
<1>7. age'["register"] \in Nat /\ age'["register"] <= r + 1
  BY <1>2, <1>5, TimesAssumption DEF UpTo
<1>8. PICK d \in Nat : SinceCheck' = d /\ d >= SinceCheck + 1
  <2>1. SinceCheck' \in Nat
    BY <1>1, RoundBoundNext
  <2>2. CASE c < APRS_CHECK_KEEPALIVE_TIME - 1
    BY <1>2, <1>5, <2>1, <2>2, TimesAssumption DEF SinceCheck, UpTo
  <2>3. CASE c >= APRS_CHECK_KEEPALIVE_TIME - 1
    <3>1. age'["check"] >= APRS_CHECK_KEEPALIVE_TIME /\ age'["check"] \in Nat
      BY <1>2, <1>5, <2>3, TimesAssumption DEF UpTo
    <3>2. SinceCheck' = APRS_CHECK_KEEPALIVE_TIME - 1 + ticks'
      BY <3>1, TimesAssumption DEF SinceCheck
    <3> QED BY <1>2, <1>5, <2>1, <2>3, <3>2, TimesAssumption DEF SinceCheck
  <2> QED BY <1>2, <2>2, <2>3, TimesAssumption
<1>9. CASE inbox > 0
  BY <1>1, <1>2, <1>3, <1>6, <1>7, <1>8, <1>9, LineNumbers DEF Settled
<1>10. CASE inbox = 0
  <2>1. p <= l
    BY <1>2, <1>4, <1>10, DueLine, TimesAssumption DEF Settled
  <2> QED BY <1>2, <1>3, <1>5, <1>6, <1>10, <2>1 DEF Settled
<1> QED BY <1>1, <1>9, <1>10, LineNumbers

(* Nothing else touches a session of a network that stays.                 *)
LEMMA NextSettled ==
  ASSUME IInv, IInv', SteadyServer, Settled \/ ReadsLine, [Next]_vars
  PROVE  Settled' \/ Sleep \/ Wrap
<1>1. CASE CheckMessages
  BY <1>1, LooksSettled
<1>2. CASE ReadsLine
  BY <1>2, LooksSettled DEF ReadsLine
<1> SUFFICES ASSUME ~CheckMessages, ~Sleep, ~Wrap
             PROVE  Settled'
  BY <1>1
<1>3. Settled
  BY DEF ReadsLine
<1>4. /\ stable /\ ground_registred = 1 /\ client = "open" /\ wifi = "sta"
      /\ phase # "boot" /\ phase # "failed"
  BY <1>3 DEF Settled, Up, Alive, IInv, TypeOK, BootUnregistered
<1>5. CASE RegisterSucceeds
  BY <1>3, <1>5, RegistersSettled
<1>6. CASE ServerLine
  BY <1>3, <1>6, LineSettled
<1>7. CASE Tick
  BY <1>3, <1>7, TickSettled
<1>8. CASE Receive
  <2>1. /\ age'["packet"] = age["packet"] /\ age'["register"] = age["register"]
        /\ age'["line"] = age["line"] /\ age'["check"] = age["check"]
    BY <1>8 DEF Receive, IInv, TypeOK, Timers
  <2> QED BY <1>3, <1>8, <2>1, SameSettled DEF Receive, network, history
<1>9. CASE NoRegistration \/ NoCheck \/ NoWifiCheck
  BY <1>3, <1>9, SameSettled DEF NoRegistration, NoCheck, NoWifiCheck, program,
         network, history
<1>10. CASE CheckWifi
  <2>1. /\ age'["packet"] = age["packet"] /\ age'["register"] = age["register"]
        /\ age'["line"] = age["line"] /\ age'["check"] = age["check"]
    BY <1>4, <1>10 DEF CheckWifi, IInv, TypeOK, Timers
  <2> QED BY <1>3, <1>4, <1>10, <2>1, SameSettled
             DEF CheckWifi, program, network, history
<1>11. CASE StayAwake
  <2>1. age["check"] < APRS_CHECK_KEEPALIVE_TIME
    BY <1>4, <1>11 DEF StayAwake, IInv, CheckNotMissed
  <2> QED BY <1>3, <1>11, <2>1, SameSettled DEF StayAwake, program, network, history
<1>12. CASE UNCHANGED vars
  BY <1>3, <1>12, SameSettled DEF vars, program, network, history
<1> QED
  <2>1. ~(Boot \/ LeaveSetup \/ RegisterFails \/ AfterFailure)
    BY <1>4 DEF Boot, LeaveSetup, RegisterFails, AfterFailure
  <2>2. ~(LoseWifi \/ RegainWifi \/ ServerGone \/ NoticeGone \/ Stabilise)
    BY <1>4 DEF LoseWifi, RegainWifi, ServerGone, NoticeGone, Stabilise
  <2> QED BY <1>5, <1>6, <1>7, <1>8, <1>9, <1>10, <1>11, <1>12, <2>1, <2>2
             DEF Next, Loop, Environment

(* A line of a stable server once read, the session is kept until the       *)
(* station sleeps or seconds() wraps: the safety half of StaysRegistered,   *)
(* for any times with a steady server (APRS.cpp:124-176).                   *)
THEOREM SessionKeptHolds ==
  ASSUME SteadyServer
  PROVE  Spec => SessionKept
<1>1. IInv /\ IInv' /\ [Next]_vars =>
        [Settled \/ ReadsLine => Settled' \/ Sleep \/ Wrap]_vars
  BY NextSettled
<1> QED
  BY <1>1, Invariant, PTL DEF Spec, SessionKept

===============================================================================
