-------------------------------- MODULE Clock ---------------------------------
(***************************************************************************)
(* The clock of the station: Time_setup (Time.cpp) asks an NTP server once *)
(* at the start, GNSSTimeSync (GNSS.cpp) sets the clock from the sentences *)
(* of the GNSS receiver, parsed by TinyGPS++.                              *)
(*                                                                         *)
(* True time is the second of the day, "second"; the clock is known by     *)
(* "lag", the seconds it is behind the truth.  A sentence tells the time   *)
(* of day and, if it is an RMC, the date; it is kept as the seconds since  *)
(* that time and the midnights since that date, so that it grows old where *)
(* it lies: in the buffer of the serial port, or parsed and not used.      *)
(* After the start, the phases of a pass of ground() are                   *)
(*                                                                         *)
(*   rest -> read (PickGNSSFix) -> rest (GNSSTimeSync and all else)        *)
(***************************************************************************)
EXTENDS Integers, Sequences

CONSTANTS
  Day,        \* seconds of a day
  Period,     \* seconds between two settings of the clock (60)
  MaxAge,     \* age of a sentence the clock may still be set from (1)
  MaxStall,   \* bound of the model: seconds without a pass
  NtpLag,     \* greatest age of an answer of NTP
  Buffer      \* sentences that fit into the buffer of the serial port

MaxDays == 2             \* bounds of the model: a date, a time of day and
Old == MaxStall + MaxAge + 2  \* the age of a sentence grow no older

ASSUME ClockAssumption ==
  /\ Day \in Nat /\ Period \in Nat \ {0} /\ MaxAge \in Nat /\ MaxStall \in Nat
  /\ NtpLag \in Nat /\ Buffer \in Nat \ {0, 1}
  /\ Old < Day /\ NtpLag < Day /\ Period + 2 * MaxStall + 1 < Day

(* A field of a sentence that is empty, or a date never committed.          *)
Empty == -1

(* The clock when it has never been set (1970), or was set from a date      *)
(* that is empty (1999).                                                   *)
Lost == 100 * Day

VARIABLES
  phase,     \* "setup", "rest" or "read"
  second,    \* second of the true day
  lag,       \* seconds the clock is behind
  receiver,  \* "cold" (knows no time), "warm" or "asleep"
  static,    \* is the position configured?
  coming,    \* sentence of this second that is still to come
  uart,      \* sentences received and not parsed
  gnss,      \* the parser: fields committed, flags, seconds since the commit
  marker,    \* seconds since the clock was set by GNSS, or Never
  calm,      \* from now on: no reset, no sentence damaged
  stall,     \* seconds since the last pass
  wrongFor   \* history: seconds wrong although calm and the receiver warm

Never == -1

vars == <<phase, second, lag, receiver, static, coming, uart, gnss, marker,
          calm, stall, wrongFor>>

world == <<second, calm, wrongFor, static>>

NoFields == [date |-> Empty, ago |-> Empty, updated |-> FALSE, age |-> 0]

-------------------------------------------------------------------------------
Init ==
  /\ phase = "setup"
  /\ second \in 0 .. Day - 1
  /\ lag = Lost
  /\ receiver \in {"cold", "warm"}
  /\ static \in BOOLEAN
  /\ coming = "none" /\ uart = << >> /\ gnss = NoFields
  /\ marker = Never
  /\ calm = FALSE /\ stall = 0 /\ wrongFor = 0

(* Time_setup: four attempts, 2 s each; an answer is taken as it is.        *)
NtpAnswer ==
  /\ phase = "setup"
  /\ lag' \in 0 .. NtpLag
  /\ phase' = "rest"
  /\ UNCHANGED <<world, receiver, coming, uart, gnss, marker, stall>>

NoNtp ==
  /\ phase = "setup"
  /\ phase' = "rest"
  /\ UNCHANGED <<world, lag, receiver, coming, uart, gnss, marker, stall>>

(* A configured position puts the receiver to sleep in the first pass,      *)
(* before GNSS_loop reads what it has sent.                                *)
BeginPass ==
  /\ phase = "rest"
  /\ phase' = "read"
  /\ receiver' = IF static THEN "asleep" ELSE receiver
  /\ coming' = IF static THEN "none" ELSE coming
  /\ stall' = 0
  /\ UNCHANGED <<world, lag, uart, gnss, marker>>

-------------------------------------------------------------------------------
(* The parser. *)

(* Mutant: an RMC commits its date only. *)
CommitDateOnly(s) ==
  [date |-> IF s.kind = "RMC" /\ s.ago # Empty THEN s.days ELSE gnss.date,
   ago |-> IF s.ago = Empty \/ s.kind = "RMC" THEN gnss.ago ELSE s.ago,
   updated |-> TRUE,
   age |-> 0]

(* A sentence that passes its checksum commits date and time if it is an    *)
(* RMC, and the time if it is a GGA.  An empty term is not taken over; what *)
(* is committed counts as valid and updated all the same.                  *)
Commit(s) ==
  [date |-> IF s.kind = "RMC" /\ s.ago # Empty THEN s.days ELSE gnss.date,
   ago |-> IF s.ago = Empty THEN gnss.ago ELSE s.ago,
   updated |-> TRUE,
   age |-> 0]

(* PickGNSSFix reads until there is nothing left.                          *)
ReadSentence ==
  /\ phase = "read" /\ uart # << >>
  /\ gnss' = Commit(Head(uart))
  /\ uart' = Tail(uart)
  /\ UNCHANGED <<world, phase, lag, receiver, coming, marker, stall>>

(* What the clock lags behind when it is set from the fields of the parser. *)
Shown ==
  IF gnss.date = Empty \/ gnss.ago = Empty THEN Lost
  ELSE IF gnss.ago <= second THEN gnss.ago + gnss.date * Day
  ELSE gnss.ago + (gnss.date - 1) * Day

(* Mutants: the age is not looked at; the clock is only set once. *)
MaySyncAtAnyAge == gnss.updated /\ (marker = Never \/ marker >= Period)

MaySyncOnce == gnss.updated /\ marker = Never

(* The first time may be of any age; "valid" is true of all committed.  The  *)
(* code compares milliseconds; what is up to a second short of Period here  *)
(* may be beyond it there.                                                 *)
MaySync ==
  /\ gnss.updated
  /\ marker = Never \/ (marker >= Period /\ gnss.age <= MaxAge)

GNSSTimeSync ==
  /\ phase = "read" /\ uart = << >>
  /\ IF MaySync
     THEN /\ lag' = Shown
          /\ marker' = 0
          /\ gnss' = [gnss EXCEPT !.updated = FALSE]
     ELSE UNCHANGED <<lag, marker, gnss>>
  /\ phase' = "rest"
  /\ UNCHANGED <<world, receiver, coming, uart, stall>>

(* A reset: RAM and the clock are lost; GNSS_setup wakes the receiver up.   *)
Reset ==
  /\ ~calm
  /\ phase' = "setup"
  /\ lag' = Lost
  /\ receiver' \in IF receiver = "asleep" THEN {"cold", "warm"} ELSE {receiver}
  /\ static' \in BOOLEAN
  /\ uart' = << >> /\ gnss' = NoFields /\ marker' = Never
  /\ stall' = 0
  /\ UNCHANGED <<second, coming, calm, wrongFor>>

-------------------------------------------------------------------------------
(* The receiver and time. *)

(* A cold receiver learns the time. *)
Learn ==
  /\ receiver = "cold"
  /\ receiver' = "warm"
  /\ UNCHANGED <<world, phase, lag, coming, uart, gnss, marker, stall>>

Sentence(kind) ==
  [kind |-> kind, ago |-> IF receiver = "cold" THEN Empty ELSE 0, days |-> 0]

(* Mutant: the buffer has no end. *)
ArriveUnbounded ==
  /\ coming # "none"
  /\ uart' = Append(uart, Sentence(coming))
  /\ coming' = IF coming = "RMC" THEN "GGA" ELSE "none"
  /\ UNCHANGED <<world, phase, lag, receiver, gnss, marker, stall>>

(* A sentence comes in whole, or is damaged, or finds the buffer full.      *)
Arrive ==
  /\ coming # "none"
  /\ \/ /\ Len(uart) < Buffer
        /\ uart' = Append(uart, Sentence(coming))
     \/ /\ ~calm \/ Len(uart) = Buffer
        /\ UNCHANGED uart
  /\ coming' = IF coming = "RMC" THEN "GGA" ELSE "none"
  /\ UNCHANGED <<world, phase, lag, receiver, gnss, marker, stall>>

Older(n, limit) == IF n = Empty THEN Empty ELSE IF n < limit THEN n + 1 ELSE n

MaxLag == MaxStall + MaxAge

Wrong == lag > MaxLag

RecoveryLimit == 2 * Period + 3 * MaxStall + 1

Tick ==
  /\ coming = "none"
  /\ phase # "read" /\ stall < MaxStall
  /\ stall' = stall + 1
  /\ second' = IF second = Day - 1 THEN 0 ELSE second + 1
  /\ coming' = IF receiver = "asleep" THEN "none" ELSE "RMC"
  /\ LET midnight == second' = 0
         days(d) == IF midnight THEN Older(d, MaxDays) ELSE d
     IN  /\ uart' = [i \in 1 .. Len(uart) |->
                       [uart[i] EXCEPT !.ago = Older(@, Old), !.days = days(@)]]
         /\ gnss' = [gnss EXCEPT !.ago = Older(@, Old), !.date = days(@),
                                 !.age = Older(@, Old)]
  /\ marker' = Older(marker, Period)
  /\ wrongFor' = IF calm /\ receiver = "warm" /\ phase = "rest" /\ Wrong
                 THEN Older(wrongFor, RecoveryLimit + 1) ELSE 0
  /\ UNCHANGED <<phase, lag, receiver, static, calm>>

CalmDown ==
  /\ ~calm
  /\ calm' = TRUE
  /\ UNCHANGED <<phase, second, lag, receiver, static, coming, uart, gnss,
                 marker, stall, wrongFor>>

Next ==
  \/ NtpAnswer \/ NoNtp \/ BeginPass \/ ReadSentence \/ GNSSTimeSync \/ Reset
  \/ Learn \/ Arrive \/ Tick \/ CalmDown

Spec == Init /\ [][Next]_vars

-------------------------------------------------------------------------------
(* Properties. *)

(* Type correctness; a lag is of a sentence, of NTP or that of a clock lost. *)
TypeOK ==
  /\ phase \in {"setup", "rest", "read"}
  /\ second \in 0 .. Day - 1
  /\ lag \in Int
  /\ receiver \in {"cold", "warm", "asleep"} /\ static \in BOOLEAN
  /\ coming \in {"none", "RMC", "GGA"}
  /\ uart \in Seq([kind : {"RMC", "GGA"}, ago : Empty .. Old, days : 0 .. MaxDays])
  /\ Len(uart) <= Buffer
  /\ gnss \in [date : Empty .. MaxDays, ago : Empty .. Old, updated : BOOLEAN,
               age : 0 .. Old]
  /\ marker \in Never .. Period
  /\ calm \in BOOLEAN /\ stall \in 0 .. MaxStall
  /\ wrongFor \in 0 .. RecoveryLimit + 1

(* The clock is never ahead of the truth: date and time may come from two   *)
(* sentences, but the date is never the newer one, at midnight either.      *)
NeverAhead == lag >= 0

(* The clock is set to a time of day that is off by what the sentence       *)
(* waited in the buffer and in the parser; only the date may be of an       *)
(* earlier day.                                                            *)
SetNear ==
  [][GNSSTimeSync /\ marker' = 0 /\ gnss.date # Empty /\ gnss.ago # Empty
       => lag' % Day <= MaxLag]_vars

(* With a receiver that knows the time, and no damaged sentences, the clock *)
(* is right again after two periods and three stalls: what damaged          *)
(* sentences left is used up, then a setting may fall on a midnight between *)
(* an RMC that found the buffer full and a GGA that did not, and one more    *)
(* period leads to a setting that is right.                                *)
WrongBound == wrongFor <= RecoveryLimit

(* README.md:25, "ntp time sync - no gps needed": a clock that was right    *)
(* does not lose its date while the station runs.                          *)
DateKept == [][lag < Day /\ phase' # "setup" => lag' # Lost]_vars

===============================================================================
