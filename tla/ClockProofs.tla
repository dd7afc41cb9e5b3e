------------------------------ MODULE ClockProofs ------------------------------
(***************************************************************************)
(* Theorems about the clock, for any length of the day, of the periods and *)
(* of the buffer.  That the clock is never ahead is not inductive: a time  *)
(* from before midnight must not meet the date of after midnight, in the   *)
(* parser or later, while sentences older than the date are still unread.  *)
(* Then that a setting is near the truth (NearInv), and that the clock is   *)
(* right again in bounded time (RecoveryInv).                              *)
(***************************************************************************)
EXTENDS Clock, TLAPS

Sentences == [kind : {"RMC", "GGA"}, ago : Empty .. Old, days : 0 .. MaxDays]

(* Behind a sentence of today no sentence of yesterday waits.              *)
QueueAfterMidnight ==
  \A i, j \in 1 .. Len(uart) :
    i <= j /\ uart[i].ago # Empty /\ uart[i].days = 0 => uart[j].ago <= second

(* When the parser has the date of today, no time of yesterday is in it or  *)
(* in front of it.                                                         *)
ParserAfterMidnight ==
  gnss.date = 0 =>
    /\ gnss.ago <= second
    /\ \A j \in 1 .. Len(uart) : uart[j].ago <= second

IInv == TypeOK /\ NeverAhead /\ QueueAfterMidnight /\ ParserAfterMidnight

-------------------------------------------------------------------------------
LEMMA Bounds ==
  /\ Old \in Nat /\ MaxDays = 2 /\ Empty = -1 /\ Never = -1
  /\ Day \in Nat /\ Day > 0 /\ Lost \in Nat
  /\ Period \in Nat /\ Period > 0 /\ MaxStall \in Nat /\ MaxAge \in Nat /\ NtpLag \in Nat
  /\ Buffer \in Nat /\ RecoveryLimit \in Nat
BY ClockAssumption, SMT
   DEF ClockAssumption, Old, MaxDays, Empty, Never, Lost, RecoveryLimit

(* What the clock is set to is not ahead, if the parser has no date of after *)
(* midnight with a time of before.                                         *)
LEMMA ShownNotAhead ==
  ASSUME gnss.date \in Empty .. MaxDays, gnss.ago \in Empty .. Old, second \in Nat,
         gnss.date = 0 => gnss.ago <= second
  PROVE  Shown \in Int /\ Shown >= 0
<1> USE Bounds
<1>1. CASE gnss.date = Empty \/ gnss.ago = Empty
  BY <1>1, SMT DEF Shown
<1>2. CASE gnss.date # Empty /\ gnss.ago # Empty
  <2>1. gnss.date \in {0, 1, 2} /\ gnss.ago \in Nat
    BY <1>2, SMT
  <2>2. CASE gnss.date = 0
    BY <1>2, <2>1, <2>2, SMT DEF Shown
  <2>3. CASE gnss.date = 1
    BY <1>2, <2>1, <2>3, SMT DEF Shown
  <2>4. CASE gnss.date = 2
    BY <1>2, <2>1, <2>4, SMT DEF Shown
  <2> QED BY <2>1, <2>2, <2>3, <2>4
<1> QED BY <1>1, <1>2

-------------------------------------------------------------------------------
LEMMA InitIInv == Init => IInv
<1> SUFFICES ASSUME Init PROVE IInv
  OBVIOUS
<1> USE Bounds
<1>1. uart \in Seq(Sentences) /\ Len(uart) = 0
  BY DEF Init
<1>2. gnss \in [date : Empty .. MaxDays, ago : Empty .. Old, updated : BOOLEAN,
                age : 0 .. Old]
  BY SMT DEF Init, NoFields
<1>3. TypeOK
  <2>1. static \in BOOLEAN /\ calm \in BOOLEAN
    BY DEF Init
  <2>5. /\ phase \in {"setup", "rest", "read"} /\ second \in 0 .. Day - 1 /\ lag \in Int
        /\ receiver \in {"cold", "warm", "asleep"} /\ coming \in {"none", "RMC", "GGA"}
    BY SMT DEF Init
  <2>2. Len(uart) <= Buffer
    BY <1>1, SMT
  <2>3. marker \in Never .. Period /\ stall \in 0 .. MaxStall
    BY SMT DEF Init
  <2>4. wrongFor \in 0 .. RecoveryLimit + 1
    BY SMT DEF Init
  <2> QED BY <1>1, <1>2, <2>1, <2>2, <2>3, <2>4, <2>5 DEF TypeOK, Sentences
<1>4. NeverAhead
  BY SMT DEF Init, NeverAhead
<1>5. QueueAfterMidnight
  BY <1>1, SMT DEF QueueAfterMidnight
<1>6. ParserAfterMidnight
  BY SMT DEF Init, NoFields, ParserAfterMidnight
<1> QED BY <1>3, <1>4, <1>5, <1>6 DEF IInv

(* The steps that leave the time, the buffer and the parser alone.          *)
LEMMA PassesPreserve ==
  ASSUME IInv, NtpAnswer \/ NoNtp \/ BeginPass \/ Learn \/ CalmDown
  PROVE  IInv'
<1> USE Bounds
<1>1. UNCHANGED <<second, uart, gnss>>
  BY DEF NtpAnswer, NoNtp, BeginPass, Learn, CalmDown, world
<1>2. TypeOK'
  <2> USE DEF IInv, TypeOK
  <2>1. CASE NtpAnswer
    BY <2>1, SMT DEF NtpAnswer, world
  <2>2. CASE NoNtp
    BY <2>2, SMT DEF NoNtp, world
  <2>3. CASE BeginPass
    BY <2>3, SMT DEF BeginPass, world
  <2>4. CASE Learn
    BY <2>4, SMT DEF Learn, world
  <2>5. CASE CalmDown
    BY <2>5, SMT DEF CalmDown
  <2> QED BY <2>1, <2>2, <2>3, <2>4, <2>5
<1>3. NeverAhead'
  BY SMT DEF IInv, NeverAhead, NtpAnswer, NoNtp, BeginPass, Learn, CalmDown, world
<1> QED BY <1>1, <1>2, <1>3
        DEF IInv, QueueAfterMidnight, ParserAfterMidnight

LEMMA ReadSentencePreserves ==
  ASSUME IInv, ReadSentence
  PROVE  IInv'
<1> USE Bounds
<1> DEFINE s == Head(uart)
<1>1. uart \in Seq(Sentences) /\ uart # << >> /\ second \in Nat
  BY SMT DEF IInv, TypeOK, Sentences, ReadSentence
<1>2. /\ s = uart[1] /\ s \in Sentences /\ 1 \in 1 .. Len(uart)
      /\ uart' \in Seq(Sentences) /\ Len(uart') = Len(uart) - 1
      /\ \A j \in 1 .. Len(uart') : uart'[j] = uart[j + 1] /\ j + 1 \in 1 .. Len(uart)
  BY <1>1, SMT DEF ReadSentence
<1>3. /\ gnss'.date = IF s.kind = "RMC" /\ s.ago # Empty THEN s.days ELSE gnss.date
      /\ gnss'.ago = IF s.ago = Empty THEN gnss.ago ELSE s.ago
      /\ gnss' \in [date : Empty .. MaxDays, ago : Empty .. Old, updated : BOOLEAN,
                    age : 0 .. Old]
  BY <1>2, SMT DEF ReadSentence, Commit, Sentences, IInv, TypeOK
<1>4. TypeOK'
  BY <1>2, <1>3, SMT DEF IInv, TypeOK, Sentences, ReadSentence, world
<1>5. NeverAhead'
  BY DEF IInv, NeverAhead, ReadSentence
<1>6. second' = second
  BY DEF ReadSentence, world
<1>7. QueueAfterMidnight'
  <2> SUFFICES ASSUME NEW i \in 1 .. Len(uart'), NEW j \in 1 .. Len(uart'), i <= j,
                      uart'[i].ago # Empty, uart'[i].days = 0
               PROVE  uart'[j].ago <= second
    BY <1>6 DEF QueueAfterMidnight
  <2>1. /\ i + 1 \in 1 .. Len(uart) /\ uart'[i] = uart[i + 1]
        /\ j + 1 \in 1 .. Len(uart) /\ uart'[j] = uart[j + 1]
        /\ i + 1 <= j + 1
    BY <1>2, SMT
  <2> QED BY <2>1 DEF IInv, QueueAfterMidnight
<1>8. ParserAfterMidnight'
  <2> SUFFICES ASSUME gnss'.date = 0
               PROVE  /\ gnss'.ago <= second
                      /\ \A j \in 1 .. Len(uart') : uart'[j].ago <= second
    BY <1>6 DEF ParserAfterMidnight
  <2>1. CASE s.kind = "RMC" /\ s.ago # Empty
    <3>1. s.days = 0
      BY <1>3, <2>1
    <3>2. \A j \in 1 .. Len(uart) : uart[j].ago <= second
      BY <1>2, <2>1, <3>1, SMT DEF IInv, QueueAfterMidnight
    <3> QED BY <1>2, <1>3, <2>1, <3>2
  <2>2. CASE ~(s.kind = "RMC" /\ s.ago # Empty)
    <3>1. gnss.date = 0
      BY <1>3, <2>2
    <3>2. /\ gnss.ago <= second
          /\ \A j \in 1 .. Len(uart) : uart[j].ago <= second
      BY <3>1 DEF IInv, ParserAfterMidnight
    <3> QED BY <1>2, <1>3, <3>2
  <2> QED BY <2>1, <2>2
<1> QED BY <1>4, <1>5, <1>7, <1>8 DEF IInv

LEMMA GNSSTimeSyncPreserves ==
  ASSUME IInv, GNSSTimeSync
  PROVE  IInv'
<1> USE Bounds
<1>1. UNCHANGED <<second, uart>> /\ gnss'.date = gnss.date /\ gnss'.ago = gnss.ago
  BY DEF GNSSTimeSync, world, IInv, TypeOK
<1>2. Shown \in Int /\ Shown >= 0
  BY ShownNotAhead, SMT DEF IInv, TypeOK, ParserAfterMidnight
<1>3. TypeOK'
  <2>1. CASE MaySync
    <3>1. gnss' \in [date : Empty .. MaxDays, ago : Empty .. Old, updated : BOOLEAN,
                      age : 0 .. Old]
      BY <2>1 DEF GNSSTimeSync, IInv, TypeOK
    <3>2. lag' \in Int /\ marker' \in Never .. Period
      BY <1>2, <2>1, SMT DEF GNSSTimeSync
    <3> QED BY <3>1, <3>2 DEF GNSSTimeSync, world, IInv, TypeOK
  <2>2. CASE ~MaySync
    BY <2>2, SMT DEF GNSSTimeSync, world, IInv, TypeOK
  <2> QED BY <2>1, <2>2
<1>4. NeverAhead'
  BY <1>2 DEF GNSSTimeSync, IInv, NeverAhead
<1> QED BY <1>1, <1>3, <1>4
        DEF IInv, QueueAfterMidnight, ParserAfterMidnight

LEMMA ResetPreserves ==
  ASSUME IInv, Reset
  PROVE  IInv'
<1> USE Bounds
<1>1. uart' \in Seq(Sentences) /\ Len(uart') = 0
  BY DEF Reset
<1>2. gnss' \in [date : Empty .. MaxDays, ago : Empty .. Old, updated : BOOLEAN,
                 age : 0 .. Old]
  BY SMT DEF Reset, NoFields
<1>3. TypeOK'
  BY <1>1, <1>2, SMT DEF Reset, IInv, TypeOK, Sentences
<1>4. NeverAhead'
  BY SMT DEF Reset, NeverAhead
<1>5. QueueAfterMidnight'
  BY <1>1, SMT DEF QueueAfterMidnight
<1>6. ParserAfterMidnight'
  BY SMT DEF Reset, NoFields, ParserAfterMidnight
<1> QED BY <1>3, <1>4, <1>5, <1>6 DEF IInv

LEMMA ArrivePreserves ==
  ASSUME IInv, Arrive
  PROVE  IInv'
<1> USE Bounds
<1>1. UNCHANGED <<second, gnss, lag>> /\ second \in Nat /\ uart \in Seq(Sentences)
  BY SMT DEF Arrive, world, IInv, TypeOK, Sentences
<1>2. CASE Len(uart) < Buffer /\ uart' = Append(uart, Sentence(coming))
  <2>1. Sentence(coming) \in Sentences /\ Sentence(coming).ago <= second
    BY <1>1, SMT DEF Sentence, Sentences, Arrive, IInv, TypeOK
  <2>2. /\ uart' \in Seq(Sentences) /\ Len(uart') = Len(uart) + 1
        /\ \A j \in 1 .. Len(uart) : uart'[j] = uart[j]
        /\ uart'[Len(uart) + 1] = Sentence(coming)
    BY <1>1, <1>2, <2>1, SMT
  <2>3. TypeOK'
    BY <1>2, <2>2, SMT DEF Arrive, world, IInv, TypeOK, Sentences
  <2>4. QueueAfterMidnight'
    BY <1>1, <2>1, <2>2, SMT DEF IInv, QueueAfterMidnight
  <2>5. ParserAfterMidnight'
    BY <1>1, <2>1, <2>2, SMT DEF IInv, ParserAfterMidnight
  <2> QED BY <1>1, <2>3, <2>4, <2>5 DEF IInv, NeverAhead
<1>3. CASE UNCHANGED uart
  <2>1. TypeOK'
    BY <1>3, SMT DEF Arrive, world, IInv, TypeOK
  <2> QED BY <1>1, <1>3, <2>1
          DEF IInv, NeverAhead, QueueAfterMidnight, ParserAfterMidnight
<1> QED BY <1>2, <1>3 DEF Arrive

LEMMA TickPreserves ==
  ASSUME IInv, Tick
  PROVE  IInv'
<1> USE Bounds
<1>1. /\ second \in 0 .. Day - 1 /\ uart \in Seq(Sentences) /\ Len(uart) <= Buffer
      /\ marker \in Never .. Period /\ wrongFor \in 0 .. RecoveryLimit + 1
      /\ stall \in 0 .. MaxStall
      /\ gnss \in [date : Empty .. MaxDays, ago : Empty .. Old, updated : BOOLEAN,
                   age : 0 .. Old]
  BY DEF IInv, TypeOK, Sentences
<1>2. second' = IF second = Day - 1 THEN 0 ELSE second + 1
  BY DEF Tick
<1> DEFINE days(d) == IF second' = 0 THEN Older(d, MaxDays) ELSE d
<1>3. /\ uart' = [i \in 1 .. Len(uart) |->
                    [uart[i] EXCEPT !.ago = Older(@, Old), !.days = days(@)]]
      /\ gnss' = [gnss EXCEPT !.ago = Older(@, Old), !.date = days(@),
                              !.age = Older(@, Old)]
  BY DEF Tick
<1>4. /\ second' \in 0 .. Day - 1 /\ second \in Nat /\ second' \in Nat
      /\ second' # 0 => second' = second + 1
  BY <1>1, <1>2, SMT
<1>5. ASSUME NEW d \in -1 .. 2
      PROVE  /\ days(d) \in -1 .. 2
             /\ d \in 0 .. 2 => days(d) \in 0 .. 2
             /\ days(d) = 0 => second' # 0 /\ d = 0
  BY <1>4, SMT DEF Older, Empty
<1>6. ASSUME NEW n \in -1 .. Old
      PROVE  /\ Older(n, Old) \in -1 .. Old
             /\ n \in 0 .. Old => Older(n, Old) \in 0 .. Old
             /\ second' # 0 /\ n <= second => Older(n, Old) <= second'
             /\ Older(n, Old) # -1 => n # -1
  BY <1>4, SMT DEF Older, Empty
<1> HIDE DEF days
<1>7. /\ Len(uart) \in Nat /\ DOMAIN uart = 1 .. Len(uart)
      /\ \A i \in 1 .. Len(uart) :
           /\ uart[i] \in Sentences
           /\ uart[i].ago \in -1 .. Old /\ uart[i].days \in 0 .. 2
           /\ uart[i].kind \in {"RMC", "GGA"}
  <2>1. Len(uart) \in Nat /\ DOMAIN uart = 1 .. Len(uart)
    BY <1>1, SMT
  <2>2. \A i \in 1 .. Len(uart) : uart[i] \in Sentences
    BY <1>1, SMT
  <2>3. \A s \in Sentences : /\ s.ago \in -1 .. Old /\ s.days \in 0 .. 2
                             /\ s.kind \in {"RMC", "GGA"}
    BY DEF Sentences
  <2> QED BY <2>1, <2>2, <2>3
<1>8. \A i \in 1 .. Len(uart) :
        uart'[i] = [kind |-> uart[i].kind, ago |-> Older(uart[i].ago, Old),
                    days |-> days(uart[i].days)]
  <2> SUFFICES ASSUME NEW i \in 1 .. Len(uart)
               PROVE  uart'[i] = [kind |-> uart[i].kind, ago |-> Older(uart[i].ago, Old),
                                  days |-> days(uart[i].days)]
    OBVIOUS
  <2>1. uart'[i] = [uart[i] EXCEPT !.ago = Older(@, Old), !.days = days(@)]
    BY <1>3
  <2> QED BY <1>7, <2>1 DEF Sentences
<1>9. ASSUME NEW i \in 1 .. Len(uart)
      PROVE  /\ uart'[i] \in Sentences
             /\ uart'[i].ago = Older(uart[i].ago, Old)
             /\ uart'[i].days = days(uart[i].days)
  <2>1. uart[i].days \in -1 .. 2
    BY <1>7, SMT
  <2>2. Older(uart[i].ago, Old) \in -1 .. Old /\ days(uart[i].days) \in 0 .. 2
    BY <1>5, <1>6, <1>7, <2>1
  <2>3. uart'[i] = [kind |-> uart[i].kind, ago |-> Older(uart[i].ago, Old),
                    days |-> days(uart[i].days)]
    BY <1>8
  <2>4. uart[i].kind \in {"RMC", "GGA"}
    BY <1>7
  <2>5. uart'[i] \in Sentences
    BY <2>2, <2>3, <2>4 DEF Sentences
  <2> QED BY <2>3, <2>5
<1>10. uart' \in Seq(Sentences) /\ Len(uart') = Len(uart)
  <2>1. uart' \in [1 .. Len(uart) -> Sentences]
    BY <1>3, <1>9
  <2> QED BY <1>7, <2>1, SMT
<1>11. /\ gnss.ago \in -1 .. Old /\ gnss.date \in -1 .. 2 /\ gnss.age \in 0 .. Old
       /\ gnss'.ago = Older(gnss.ago, Old) /\ gnss'.date = days(gnss.date)
       /\ gnss' = [date |-> days(gnss.date), ago |-> Older(gnss.ago, Old),
                   updated |-> gnss.updated, age |-> Older(gnss.age, Old)]
       /\ gnss.updated \in BOOLEAN
  BY <1>1, <1>3
<1>12. gnss' \in [date : Empty .. MaxDays, ago : Empty .. Old, updated : BOOLEAN,
                  age : 0 .. Old]
  <2>1. gnss.age \in -1 .. Old
    BY <1>11, SMT
  <2> QED BY <1>5, <1>6, <1>11, <2>1
<1>13. marker' \in Never .. Period /\ wrongFor' \in 0 .. RecoveryLimit + 1
       /\ stall' \in 0 .. MaxStall
  <2>1. marker' \in Never .. Period
    <3>1. marker' = Older(marker, Period)
      BY DEF Tick
    <3> QED BY <1>1, <3>1, SMT DEF Older, Empty
  <2>2. wrongFor' \in 0 .. RecoveryLimit + 1
    <3>1. wrongFor' = 0 \/ wrongFor' = Older(wrongFor, RecoveryLimit + 1)
      BY DEF Tick
    <3> QED BY <1>1, <3>1, SMT DEF Older, Empty
  <2>3. stall' \in 0 .. MaxStall
    <3>1. stall < MaxStall /\ stall' = stall + 1
      BY DEF Tick
    <3> QED BY <1>1, <3>1, SMT
  <2> QED BY <2>1, <2>2, <2>3
<1>14. TypeOK'
  <2>1. UNCHANGED <<phase, lag, receiver, static, calm>>
        /\ coming' \in {"none", "RMC", "GGA"}
    BY DEF Tick
  <2> QED BY <1>1, <1>4, <1>10, <1>12, <1>13, <2>1 DEF IInv, TypeOK, Sentences
<1>15. NeverAhead'
  BY DEF IInv, NeverAhead, Tick
<1>16. QueueAfterMidnight'
  <2> SUFFICES ASSUME NEW i \in 1 .. Len(uart), NEW j \in 1 .. Len(uart), i <= j,
                      uart'[i].ago # -1, uart'[i].days = 0
               PROVE  uart'[j].ago <= second'
    BY <1>10 DEF QueueAfterMidnight
  <2>1. uart[i].days \in -1 .. 2
    BY <1>7, SMT
  <2>2. second' # 0 /\ uart[i].days = 0 /\ uart[i].ago # -1
    BY <1>5, <1>6, <1>7, <1>9, <2>1
  <2>3. uart[j].ago <= second
    BY <2>2 DEF IInv, QueueAfterMidnight
  <2> QED BY <1>6, <1>7, <1>9, <2>2, <2>3
<1>17. ParserAfterMidnight'
  <2> SUFFICES ASSUME gnss'.date = 0
               PROVE  /\ gnss'.ago <= second'
                      /\ \A j \in 1 .. Len(uart) : uart'[j].ago <= second'
    BY <1>10 DEF ParserAfterMidnight
  <2>1. second' # 0 /\ gnss.date = 0
    BY <1>5, <1>11
  <2>2. /\ gnss.ago <= second
        /\ \A j \in 1 .. Len(uart) : uart[j].ago <= second
    BY <2>1 DEF IInv, ParserAfterMidnight
  <2> QED BY <1>6, <1>7, <1>9, <1>11, <2>1, <2>2
<1> QED BY <1>14, <1>15, <1>16, <1>17 DEF IInv

LEMMA NextPreserves == IInv /\ [Next]_vars => IInv'
<1> SUFFICES ASSUME IInv, [Next]_vars PROVE IInv'
  OBVIOUS
<1>1. CASE Next
  BY <1>1, PassesPreserve, ReadSentencePreserves, GNSSTimeSyncPreserves,
     ResetPreserves, ArrivePreserves, TickPreserves DEF Next
<1>2. CASE UNCHANGED vars
  BY <1>2 DEF vars, IInv, TypeOK, NeverAhead, QueueAfterMidnight, ParserAfterMidnight
<1> QED BY <1>1, <1>2

-------------------------------------------------------------------------------
(* The inductive invariant of the clock: no sentence of before midnight is  *)
(* read after the date of after midnight (PickGNSSFix, TinyGPS++).          *)
THEOREM ClockInvariant == Spec => []IInv
BY InitIInv, NextPreserves, PTL DEF Spec

(* Type correctness of the clock, and the buffer is kept.                   *)
THEOREM ClockTypeCorrect == Spec => []TypeOK
<1>1. IInv => TypeOK
  BY DEF IInv
<1> QED BY <1>1, ClockInvariant, PTL

(* GNSSTimeSync never sets the clock ahead, whatever sentences date and time *)
(* are taken from, at midnight too, for any size of the buffer.             *)
THEOREM ClockNeverAhead == Spec => []NeverAhead
<1>1. IInv => NeverAhead
  BY DEF IInv
<1> QED BY <1>1, ClockInvariant, PTL

-------------------------------------------------------------------------------
(* That the clock is set near to the truth needs to know how old a time may *)
(* be that is read: what waits is as old as the pass, and after a pass the  *)
(* parser remembers how long ago it read.                                  *)
Waiting ==
  \A i \in 1 .. Len(uart) :
    uart[i].ago <= IF phase = "read" THEN MaxStall ELSE stall

(* A receiver that knows the time does not forget it while the station runs, *)
(* so that a sentence without a time never makes an old one look new.       *)
Learnt ==
  /\ receiver = "cold" => gnss.ago = Empty /\ \A i \in 1 .. Len(uart) : uart[i].ago = Empty
  /\ gnss.ago # Empty => \A j \in 1 .. Len(uart) : uart[j].ago # Empty
  /\ \A i, j \in 1 .. Len(uart) : i <= j /\ uart[i].ago # Empty => uart[j].ago # Empty

Parsed == gnss.ago <= gnss.age + MaxStall

(* The first time is used in the pass it is read in.                       *)
FirstUsed == marker = Never /\ gnss.updated => phase = "read" /\ gnss.age = 0

Marked == (phase = "setup" => marker = Never) /\ (marker # Never => lag % Day <= MaxLag)

NearInv == Waiting /\ Learnt /\ Parsed /\ FirstUsed /\ Marked

(* Whole days do not count.                                                *)
LEMMA WholeDays ==
  /\ \A a \in 0 .. Day - 1 : a % Day = a /\ (a + Day) % Day = a
                             /\ (a + 2 * Day) % Day = a
  /\ (100 * Day) % Day = 0
<1>1. Day \in Nat /\ Day > 0
  BY Bounds
<1>2. ASSUME NEW a \in 0 .. Day - 1
      PROVE  a % Day = a /\ (a + Day) % Day = a /\ (a + 2 * Day) % Day = a
  <2>1. a % Day = a
    BY <1>1, SMT
  <2>2. (a + Day) % Day = a
    BY <1>1, SMT
  <2>3. (a + 2 * Day) % Day = a
    BY <1>1, SMT
  <2> QED BY <2>1, <2>2, <2>3
<1>3. (100 * Day) % Day = 0
  BY <1>1, SMT
<1> QED BY <1>2, <1>3

(* What the clock is set to is as old as the time, but for whole days.      *)
LEMMA ShownNear ==
  ASSUME gnss.date \in Empty .. MaxDays, gnss.ago \in Empty .. Old, second \in Nat,
         gnss.date = 0 => gnss.ago <= second, gnss.ago <= MaxLag
  PROVE  Shown % Day <= MaxLag
<1> USE Bounds
<1>1. MaxLag \in Nat /\ Old < Day
  BY ClockAssumption, SMT DEF ClockAssumption, MaxLag
<1>2. CASE gnss.date = Empty \/ gnss.ago = Empty
  BY <1>1, <1>2, WholeDays, SMT DEF Shown, Lost
<1>3. CASE gnss.date # Empty /\ gnss.ago # Empty
  <2>1. gnss.date \in {0, 1, 2} /\ gnss.ago \in 0 .. Day - 1
    BY <1>1, <1>3, SMT
  <2>2. Shown = gnss.ago \/ Shown = gnss.ago + Day \/ Shown = gnss.ago + 2 * Day
    <3>1. CASE gnss.date = 0
      BY <1>3, <2>1, <3>1, SMT DEF Shown
    <3>2. CASE gnss.date = 1
      BY <1>3, <2>1, <3>2, SMT DEF Shown
    <3>3. CASE gnss.date = 2
      BY <1>3, <2>1, <3>3, SMT DEF Shown
    <3> QED BY <2>1, <3>1, <3>2, <3>3
  <2>3. Shown % Day = gnss.ago
    BY <2>1, <2>2, WholeDays
  <2> QED BY <2>3
<1> QED BY <1>2, <1>3

LEMMA InitNear == Init => NearInv
<1> SUFFICES ASSUME Init PROVE NearInv
  OBVIOUS
<1> USE Bounds
<1>1. Len(uart) = 0 /\ gnss.ago = -1 /\ gnss.age = 0 /\ ~gnss.updated
  BY DEF Init, NoFields, Empty
<1>2. Waiting /\ Learnt
  BY <1>1, SMT DEF Waiting, Learnt
<1>3. Parsed /\ FirstUsed
  BY <1>1, SMT DEF Parsed, FirstUsed
<1>4. Marked
  BY DEF Init, Marked
<1> QED BY <1>2, <1>3, <1>4 DEF NearInv

(* A setting of the clock is from a time that is young enough.             *)
LEMMA UsedYoung ==
  ASSUME IInv, NearInv, MaySync
  PROVE  gnss.ago <= MaxLag
<1> USE Bounds
<1>1. gnss.age \in Nat /\ gnss.ago \in Int
  BY SMT DEF IInv, TypeOK
<1>2. gnss.age <= MaxAge
  BY <1>1, SMT DEF NearInv, FirstUsed, MaySync
<1> QED BY <1>1, <1>2, SMT DEF NearInv, Parsed, MaxLag

LEMMA SetFromYoung ==
  ASSUME IInv, NearInv, MaySync
  PROVE  Shown % Day <= MaxLag
<1> USE Bounds
<1> QED BY UsedYoung, ShownNear, SMT DEF IInv, TypeOK, ParserAfterMidnight

LEMMA GNSSTimeSyncNear ==
  ASSUME IInv, NearInv, GNSSTimeSync
  PROVE  NearInv'
<1> USE Bounds
<1>1. /\ gnss'.ago = gnss.ago /\ gnss'.age = gnss.age
      /\ uart' = uart /\ Len(uart) = 0 /\ receiver' = receiver /\ phase' = "rest"
  BY DEF GNSSTimeSync, IInv, TypeOK
<1>2. Waiting' /\ Learnt' /\ Parsed'
  BY <1>1, SMT DEF NearInv, Waiting, Learnt, Parsed
<1>3. FirstUsed'
  <2>1. CASE MaySync
    BY <2>1, SMT DEF GNSSTimeSync, FirstUsed
  <2>2. CASE ~MaySync
    BY <2>2 DEF GNSSTimeSync, FirstUsed, MaySync
  <2> QED BY <2>1, <2>2
<1>4. Marked'
  <2>1. CASE MaySync
    BY <1>1, <2>1, SetFromYoung DEF GNSSTimeSync, Marked
  <2>2. CASE ~MaySync
    BY <1>1, <2>2 DEF GNSSTimeSync, NearInv, Marked
  <2> QED BY <2>1, <2>2
<1> QED BY <1>2, <1>3, <1>4 DEF NearInv

LEMMA ReadSentenceNear ==
  ASSUME IInv, NearInv, ReadSentence
  PROVE  NearInv'
<1> USE Bounds
<1> DEFINE s == Head(uart)
<1>1. uart \in Seq(Sentences) /\ uart # << >> /\ phase = "read" /\ phase' = "read"
  BY DEF IInv, TypeOK, Sentences, ReadSentence
<1>2. /\ s = uart[1] /\ s \in Sentences /\ 1 \in 1 .. Len(uart)
      /\ Len(uart') = Len(uart) - 1 /\ Len(uart) \in Nat
      /\ \A j \in 1 .. Len(uart') : uart'[j] = uart[j + 1] /\ j + 1 \in 1 .. Len(uart)
  BY <1>1, SMT DEF ReadSentence
<1>3. /\ gnss'.ago = IF s.ago = Empty THEN gnss.ago ELSE s.ago
      /\ gnss'.age = 0
  BY <1>2 DEF ReadSentence, Commit
<1>4. Waiting'
  BY <1>1, <1>2, SMT DEF NearInv, Waiting
<1>5. s.ago <= MaxStall /\ s.ago \in Int
  BY <1>1, <1>2, SMT DEF NearInv, Waiting, Sentences
<1>6. Learnt'
  <2>1. receiver' = receiver
    BY DEF ReadSentence
  <2>2. ASSUME receiver = "cold"
        PROVE  gnss'.ago = Empty /\ \A i \in 1 .. Len(uart') : uart'[i].ago = Empty
    BY <1>2, <1>3, <2>2 DEF NearInv, Learnt
  <2>3. ASSUME gnss'.ago # Empty, NEW j \in 1 .. Len(uart')
        PROVE  uart'[j].ago # Empty
    <3>1. CASE s.ago = Empty
      BY <1>2, <1>3, <2>3, <3>1 DEF NearInv, Learnt
    <3>2. CASE s.ago # Empty
      <4>1. uart'[j] = uart[j + 1] /\ j + 1 \in 1 .. Len(uart) /\ 1 <= j + 1
        BY <1>2, SMT
      <4> QED BY <1>2, <3>2, <4>1 DEF NearInv, Learnt
    <3> QED BY <3>1, <3>2
  <2>4. ASSUME NEW i \in 1 .. Len(uart'), NEW j \in 1 .. Len(uart'), i <= j,
               uart'[i].ago # Empty
        PROVE  uart'[j].ago # Empty
    <3>1. /\ uart'[i] = uart[i + 1] /\ uart'[j] = uart[j + 1]
          /\ i + 1 \in 1 .. Len(uart) /\ j + 1 \in 1 .. Len(uart) /\ i + 1 <= j + 1
      BY <1>2, <2>4, SMT
    <3> QED BY <2>4, <3>1 DEF NearInv, Learnt
  <2> QED BY <2>1, <2>2, <2>3, <2>4 DEF Learnt
<1>7. Parsed'
  <2>1. CASE s.ago = Empty
    BY <1>2, <1>3, <2>1, SMT DEF NearInv, Learnt, Parsed
  <2>2. CASE s.ago # Empty
    BY <1>3, <1>5, <2>2, SMT DEF Parsed
  <2> QED BY <2>1, <2>2
<1>8. FirstUsed' /\ Marked'
  BY <1>1, <1>3 DEF FirstUsed, ReadSentence, NearInv, Marked
<1> QED BY <1>4, <1>6, <1>7, <1>8 DEF NearInv

LEMMA ArriveNear ==
  ASSUME IInv, NearInv, Arrive
  PROVE  NearInv'
<1> USE Bounds
<1>1. /\ UNCHANGED <<gnss, phase, stall, receiver, lag, marker>>
      /\ uart \in Seq(Sentences) /\ stall \in Nat
  BY SMT DEF Arrive, IInv, TypeOK, Sentences
<1>2. Parsed' /\ FirstUsed' /\ Marked'
  BY <1>1 DEF NearInv, Parsed, FirstUsed, Marked
<1>3. CASE Len(uart) < Buffer /\ uart' = Append(uart, Sentence(coming))
  <2>1. /\ Sentence(coming).ago = (IF receiver = "cold" THEN Empty ELSE 0)
        /\ Sentence(coming) \in Sentences
    BY <1>1, SMT DEF Sentence, Sentences, Arrive, IInv, TypeOK
  <2>2. /\ Len(uart') = Len(uart) + 1 /\ Len(uart) \in Nat
        /\ \A j \in 1 .. Len(uart) : uart'[j] = uart[j]
        /\ uart'[Len(uart) + 1] = Sentence(coming)
    BY <1>1, <1>3, <2>1, SMT
  <2>3. Waiting'
    BY <1>1, <2>1, <2>2, SMT DEF NearInv, Waiting
  <2>4. Learnt'
    BY <1>1, <2>1, <2>2, SMT DEF NearInv, Learnt
  <2> QED BY <1>2, <2>3, <2>4 DEF NearInv
<1>4. CASE UNCHANGED uart
  BY <1>1, <1>2, <1>4 DEF NearInv, Waiting, Learnt
<1> QED BY <1>3, <1>4 DEF Arrive

(* What a tick does to the sentences that wait.                            *)
LEMMA TickQueue ==
  ASSUME IInv, Tick
  PROVE  /\ Len(uart') = Len(uart) /\ Len(uart) \in Nat
         /\ \A i \in 1 .. Len(uart) :
              /\ uart'[i].ago = Older(uart[i].ago, Old) /\ uart[i].ago \in -1 .. Old
              /\ uart'[i].kind = uart[i].kind
              /\ uart[i].days \in 0 .. 2
              /\ uart'[i].days = IF second' = 0 THEN Older(uart[i].days, MaxDays)
                                 ELSE uart[i].days
<1> USE Bounds
<1> DEFINE days(d) == IF second' = 0 THEN Older(d, MaxDays) ELSE d
<1>1. uart' = [i \in 1 .. Len(uart) |->
                 [uart[i] EXCEPT !.ago = Older(@, Old), !.days = days(@)]]
  BY DEF Tick
<1>2. uart \in Seq(Sentences)
  BY DEF IInv, TypeOK, Sentences
<1>3. Len(uart) \in Nat /\ \A i \in 1 .. Len(uart) : uart[i] \in Sentences
  BY <1>2, SMT
<1>4. ASSUME NEW i \in 1 .. Len(uart)
      PROVE  /\ uart'[i].ago = Older(uart[i].ago, Old) /\ uart[i].ago \in -1 .. Old
             /\ uart'[i].kind = uart[i].kind
             /\ uart[i].days \in 0 .. 2 /\ uart'[i].days = days(uart[i].days)
  <2> HIDE DEF days
  <2>1. uart'[i] = [uart[i] EXCEPT !.ago = Older(@, Old), !.days = days(@)]
    BY <1>1
  <2> QED BY <1>3, <2>1 DEF Sentences, Empty
<1>5. Len(uart') = Len(uart)
  <2> HIDE DEF days
  <2>1. uart' \in Seq(Sentences)
    BY TickPreserves DEF IInv, TypeOK, Sentences
  <2>2. DOMAIN uart' = 1 .. Len(uart)
    BY <1>1
  <2> QED BY <1>3, <2>1, <2>2, SMT
<1> QED BY <1>3, <1>4, <1>5

LEMMA TickNear ==
  ASSUME IInv, NearInv, Tick
  PROVE  NearInv'
<1> USE Bounds
<1>1. /\ phase' = phase /\ phase # "read" /\ receiver' = receiver /\ lag' = lag
      /\ marker' = Older(marker, Period) /\ stall \in Nat /\ stall' = stall + 1
      /\ marker \in Never .. Period /\ uart \in Seq(Sentences) /\ stall < MaxStall
  <2>1. stall \in 0 .. MaxStall /\ marker \in Never .. Period /\ uart \in Seq(Sentences)
    BY DEF IInv, TypeOK, Sentences
  <2>2. /\ phase' = phase /\ phase # "read" /\ receiver' = receiver /\ lag' = lag
        /\ marker' = Older(marker, Period) /\ stall' = stall + 1 /\ stall < MaxStall
    BY DEF Tick
  <2> QED BY <2>1, <2>2, SMT
<1>2. /\ gnss'.ago = Older(gnss.ago, Old) /\ gnss'.age = Older(gnss.age, Old)
      /\ gnss'.updated = gnss.updated
      /\ gnss.ago \in -1 .. Old /\ gnss.age \in 0 .. Old
  BY DEF Tick, IInv, TypeOK, Empty
<1>3. /\ Len(uart') = Len(uart) /\ Len(uart) \in Nat
      /\ \A i \in 1 .. Len(uart) :
           uart'[i].ago = Older(uart[i].ago, Old) /\ uart[i].ago \in -1 .. Old
  BY TickQueue
<1>4. ASSUME NEW n \in -1 .. Old
      PROVE  /\ Older(n, Old) <= n + 1 /\ Older(n, Old) \in -1 .. Old
             /\ Older(n, Old) = -1 <=> n = -1
  BY SMT DEF Older, Empty
<1>5. Waiting'
  <2> SUFFICES ASSUME NEW i \in 1 .. Len(uart)
               PROVE  uart'[i].ago <= stall + 1
    BY <1>1, <1>3 DEF Waiting
  <2>1. uart[i].ago <= stall
    BY <1>1 DEF NearInv, Waiting
  <2>2. Older(uart[i].ago, Old) <= uart[i].ago + 1
    BY <1>3, <1>4
  <2>3. /\ uart[i].ago \in -1 .. Old /\ uart'[i].ago = Older(uart[i].ago, Old)
        /\ Older(uart[i].ago, Old) \in -1 .. Old
    BY <1>3, <1>4
  <2> HIDE <1>3, <1>4
  <2> QED BY <1>1, <2>1, <2>2, <2>3, SMT
<1>6. Learnt'
  <2>1. /\ gnss'.ago = -1 <=> gnss.ago = -1
        /\ \A i \in 1 .. Len(uart) : uart'[i].ago = -1 <=> uart[i].ago = -1
    BY <1>2, <1>3, <1>4
  <2> QED BY <1>1, <1>3, <2>1 DEF NearInv, Learnt
<1>7. Parsed'
  <2>1. gnss.ago <= gnss.age + MaxStall
    BY DEF NearInv, Parsed
  <2>2. Older(gnss.ago, Old) <= Older(gnss.age, Old) + MaxStall
    BY <1>2, <2>1, SMT DEF Older, Empty
  <2> QED BY <1>2, <2>2 DEF Parsed
<1>8. marker' = Never <=> marker = Never
  BY <1>1, SMT DEF Older, Empty
<1>9. FirstUsed' /\ Marked'
  BY <1>1, <1>2, <1>8 DEF NearInv, FirstUsed, Marked
<1> QED BY <1>5, <1>6, <1>7, <1>9 DEF NearInv

(* The other steps leave buffer and parser alone, or empty them.           *)
LEMMA PassesNear ==
  ASSUME IInv, NearInv, NtpAnswer \/ NoNtp \/ BeginPass \/ Learn \/ CalmDown \/ Reset
  PROVE  NearInv'
<1> USE Bounds
<1>1. CASE NtpAnswer \/ NoNtp \/ Learn \/ CalmDown
  <2>1. UNCHANGED <<uart, gnss, marker, stall>> /\ (phase = "read" <=> phase' = "read")
    BY <1>1 DEF NtpAnswer, NoNtp, Learn, CalmDown
  <2>2. Waiting' /\ Parsed' /\ FirstUsed'
    BY <2>1 DEF NearInv, Waiting, Parsed, FirstUsed
  <2>3. Learnt'
    BY <1>1, <2>1 DEF NearInv, Learnt, NtpAnswer, NoNtp, Learn, CalmDown
  <2>4. Marked'
    BY <1>1 DEF NearInv, Marked, NtpAnswer, NoNtp, Learn, CalmDown
  <2> QED BY <2>2, <2>3, <2>4 DEF NearInv
<1>2. CASE BeginPass
  <2>1. /\ UNCHANGED <<uart, gnss, marker, lag>> /\ phase = "rest" /\ phase' = "read"
        /\ receiver' = "cold" => receiver = "cold"
    BY <1>2 DEF BeginPass
  <2>2. Waiting'
    <3>1. stall \in 0 .. MaxStall /\ uart \in Seq(Sentences)
      BY DEF IInv, TypeOK, Sentences
    <3>2. ASSUME NEW i \in 1 .. Len(uart)
          PROVE  uart[i].ago \in Int /\ uart[i].ago <= stall
      <4>1. uart[i] \in Sentences
        BY <3>1, SMT
      <4>2. uart[i].ago \in Empty .. Old
        BY <4>1 DEF Sentences
      <4>3. uart[i].ago <= stall
        BY <2>1 DEF NearInv, Waiting
      <4> QED BY <4>2, <4>3, SMT
    <3>3. ASSUME NEW i \in 1 .. Len(uart)
          PROVE  uart[i].ago <= MaxStall
      BY <3>1, <3>2, SMT
    <3> QED BY <2>1, <3>3 DEF Waiting
  <2> QED BY <2>1, <2>2 DEF NearInv, Learnt, Parsed, FirstUsed, Marked
<1>3. CASE Reset
  <2>1. Len(uart') = 0 /\ gnss' = NoFields /\ marker' = Never
    BY <1>3 DEF Reset
  <2>2. gnss'.ago = -1 /\ gnss'.age = 0 /\ ~gnss'.updated
    BY <2>1 DEF NoFields, Empty
  <2>3. Waiting' /\ Learnt'
    BY <2>1, <2>2, SMT DEF Waiting, Learnt
  <2>4. Parsed' /\ FirstUsed' /\ Marked'
    BY <2>1, <2>2, SMT DEF Parsed, FirstUsed, Marked
  <2> QED BY <2>3, <2>4 DEF NearInv
<1> QED BY <1>1, <1>2, <1>3

LEMMA NextNear == IInv /\ NearInv /\ [Next]_vars => NearInv'
<1> SUFFICES ASSUME IInv, NearInv, [Next]_vars PROVE NearInv'
  OBVIOUS
<1>1. CASE Next
  BY <1>1, PassesNear, ReadSentenceNear, GNSSTimeSyncNear, ArriveNear, TickNear DEF Next
<1>2. CASE UNCHANGED vars
  BY <1>2 DEF vars, NearInv, Waiting, Learnt, Parsed, FirstUsed, Marked
<1> QED BY <1>1, <1>2

(* GNSSTimeSync sets the clock to a time of day that is off by no more than  *)
(* what a sentence may wait in the buffer and in the parser, whatever       *)
(* sentences are lost and whenever the parser is read.                      *)
THEOREM ClockSetNear == Spec => SetNear
<1>1. Spec => [](IInv /\ NearInv)
  <2>1. Init => NearInv
    BY InitNear
  <2> QED BY <2>1, NextNear, ClockInvariant, PTL DEF Spec
<1>2. IInv /\ NearInv /\ [Next]_vars =>
        [GNSSTimeSync /\ marker' = 0 /\ gnss.date # Empty /\ gnss.ago # Empty
           => lag' % Day <= MaxLag]_vars
  <2> SUFFICES ASSUME IInv, NearInv, GNSSTimeSync, marker' = 0
               PROVE  lag' % Day <= MaxLag
    OBVIOUS
  <2>1. Marked'
    BY GNSSTimeSyncNear DEF NearInv
  <2> QED BY <2>1 DEF Marked, Never
<1> QED BY <1>1, <1>2, PTL DEF Spec, SetNear

-------------------------------------------------------------------------------
(* That the clock is right again in time.  The settings of the clock are    *)
(* told apart by the date they will use: one that is right once all that    *)
(* waits is read, one left from damaged sentences, or one of before         *)
(* midnight behind a time of after.                                        *)
On == calm /\ receiver = "warm" /\ phase # "setup"

Dated(i) == uart[i].kind = "RMC" /\ uart[i].ago # Empty

(* The date and the time the parser has when all that waits is read.        *)
DateAfter(d) ==
  \/ \E i \in 1 .. Len(uart) :
       /\ Dated(i) /\ uart[i].days = d
       /\ \A j \in i + 1 .. Len(uart) : ~Dated(j)
  \/ gnss.date = d /\ \A i \in 1 .. Len(uart) : ~Dated(i)

TimeAfter == IF uart = << >> THEN gnss.ago ELSE uart[Len(uart)].ago

Sound ==
  /\ TimeAfter # Empty /\ TimeAfter <= MaxStall + 1
  /\ coming # "RMC" => TimeAfter <= MaxStall
  /\ DateAfter(0) \/ (DateAfter(1) /\ TimeAfter > second)
  /\ phase = "rest" /\ coming = "GGA" /\ uart # << >> =>
       DateAfter(0) \/ Len(uart) = Buffer

(* What damaged sentences left lasts until the next RMC but for a stall.     *)
Leftover ==
  \/ phase = "rest" /\ wrongFor <= stall
  \/ phase = "read" /\ wrongFor <= MaxStall
  \/ wrongFor <= MaxStall + 1 /\ coming = "RMC" /\ Len(uart) <= 1
  \/ /\ phase = "rest" /\ wrongFor <= MaxStall /\ stall = 0 /\ Len(uart) <= 1
     /\ coming = "GGA" => uart = << >>

(* A GGA of after midnight was taken when the RMC before it was not; the    *)
(* next RMC finds room.                                                    *)
AfterMidnight ==
  \/ phase = "read" /\ coming = "none" /\ second <= MaxStall
  \/ phase = "rest" /\ coming = "none" /\ second <= MaxStall /\ Len(uart) <= 1
  \/ coming = "RMC" /\ second <= MaxStall + 1 /\ Len(uart) <= 1

DateKnown == Sound \/ Leftover \/ AfterMidnight

(* Something was read, or is there to be read, in this pass.                *)
ToBeUsed == uart # << >> \/ (gnss.updated /\ gnss.age = 0)

(* A counter c that was at most x when the clock was set: the next setting  *)
(* waits for the period, for a pass, and, if that pass comes just before    *)
(* the first sentence, for another one.                                    *)
Wait(c, x) ==
  IF marker \in 0 .. Period - 1 THEN c <= x + marker
  ELSE \/ /\ phase = "rest"
          /\ \/ c <= x + Period - 1 + stall
             \/ /\ c <= x + Period + stall
                /\ uart # << >> \/ (stall = 0 /\ coming # "none")
       \/ /\ phase = "read"
          /\ \/ c <= x + Period - 1
             \/ c <= x + Period /\ coming # "none"
             \/ c <= x + Period + MaxStall /\ ToBeUsed

(* In calm weather a second without a sentence is the current one.          *)
Regular == phase = "rest" /\ uart = << >> /\ stall > 0 => coming = "RMC" /\ stall = 1

FirstWait ==
  /\ Wait(wrongFor, MaxStall + 1)
  /\ Regular \/ wrongFor = 0 \/ (wrongFor = 1 /\ coming = "RMC")

(* After a setting at midnight the next one is right: it is not midnight    *)
(* again when it comes.                                                    *)
Settled == DateAfter(0) /\ Sound
Settling == uart = << >> /\ ~gnss.updated /\ AfterMidnight

SecondWait ==
  /\ Wait(wrongFor, Period + 2 * MaxStall + 1) /\ Wait(second, MaxStall + 1)
  /\ Regular
  /\ Settled \/ Settling

ClockWaits ==
  \/ ~Wrong /\ (wrongFor = 0 \/ marker = 0)
  \/ FirstWait
  \/ SecondWait

RecoveryInv ==
  /\ ~calm \/ receiver = "cold" \/ phase = "setup" => wrongFor = 0
  /\ phase = "read" => stall = 0
  /\ On => DateKnown /\ ClockWaits
  /\ WrongBound

-------------------------------------------------------------------------------
LEMMA Types ==
  ASSUME TypeOK
  PROVE  /\ second \in 0 .. Day - 1 /\ lag \in Int /\ wrongFor \in Nat
         /\ marker \in -1 .. Period /\ stall \in 0 .. MaxStall
         /\ uart \in Seq(Sentences) /\ Len(uart) \in 0 .. Buffer
         /\ uart = << >> <=> Len(uart) = 0
         /\ gnss.date \in -1 .. 2 /\ gnss.ago \in -1 .. Old /\ gnss.age \in 0 .. Old
         /\ phase \in {"setup", "rest", "read"} /\ coming \in {"none", "RMC", "GGA"}
<1> USE Bounds
<1>1. /\ second \in 0 .. Day - 1 /\ lag \in Int /\ marker \in -1 .. Period
      /\ stall \in 0 .. MaxStall /\ uart \in Seq(Sentences) /\ Len(uart) <= Buffer
      /\ gnss.date \in -1 .. 2 /\ gnss.ago \in -1 .. Old /\ gnss.age \in 0 .. Old
      /\ phase \in {"setup", "rest", "read"} /\ coming \in {"none", "RMC", "GGA"}
      /\ wrongFor \in 0 .. RecoveryLimit + 1
  BY DEF TypeOK, Sentences, Never
<1>2. wrongFor \in Nat
  BY <1>1, SMT
<1>3. Len(uart) \in 0 .. Buffer /\ (uart = << >> <=> Len(uart) = 0)
  BY <1>1, SMT
<1> QED BY <1>1, <1>2, <1>3

LEMMA DayLong ==
  /\ MaxStall + 1 < Old /\ Old < Day /\ Buffer > 1
  /\ Period + 2 * MaxStall + 1 < Day /\ MaxLag \in Nat /\ MaxStall <= MaxLag
  /\ RecoveryLimit = 2 * Period + 3 * MaxStall + 1
BY ClockAssumption, SMT DEF ClockAssumption, Old, MaxLag, RecoveryLimit

-------------------------------------------------------------------------------
(* What the steps do to the date and the time that will be read.            *)
LEMMA AfterReading ==
  ASSUME IInv, NearInv, ReadSentence
  PROVE  /\ TimeAfter' = TimeAfter
         /\ \A d : DateAfter(d) => DateAfter(d)'
<1> USE Bounds
<1> DEFINE s == Head(uart)
<1>1. uart \in Seq(Sentences) /\ uart # << >>
  BY DEF IInv, TypeOK, Sentences, ReadSentence
<1>2. /\ s = uart[1] /\ 1 \in 1 .. Len(uart)
      /\ Len(uart') = Len(uart) - 1 /\ Len(uart) \in Nat
      /\ uart' = << >> <=> Len(uart) = 1
      /\ \A j \in 1 .. Len(uart') : uart'[j] = uart[j + 1] /\ j + 1 \in 1 .. Len(uart)
  <2>1. /\ s = uart[1] /\ 1 \in 1 .. Len(uart) /\ uart' \in Seq(Sentences)
        /\ Len(uart') = Len(uart) - 1 /\ Len(uart) \in Nat
        /\ \A j \in 1 .. Len(uart') : uart'[j] = uart[j + 1] /\ j + 1 \in 1 .. Len(uart)
    BY <1>1, SMT DEF ReadSentence
  <2>2. uart' = << >> <=> Len(uart) = 1
    BY <2>1, SMT
  <2> QED BY <2>1, <2>2
<1>3. /\ gnss'.date = IF s.kind = "RMC" /\ s.ago # Empty THEN s.days ELSE gnss.date
      /\ gnss'.ago = IF s.ago = Empty THEN gnss.ago ELSE s.ago
  BY <1>1 DEF ReadSentence, Commit
<1>4. TimeAfter' = TimeAfter
  <2>1. CASE Len(uart) = 1
    <3>1. uart[1].ago = Empty => gnss.ago = Empty
      BY <1>2 DEF NearInv, Learnt
    <3> QED BY <1>1, <1>2, <1>3, <2>1, <3>1 DEF TimeAfter
  <2>2. CASE Len(uart) # 1
    <3>1. uart' # << >> /\ uart'[Len(uart')] = uart[Len(uart)]
      BY <1>2, <2>2, SMT
    <3> QED BY <1>1, <3>1 DEF TimeAfter
  <2> QED BY <2>1, <2>2
<1>5. ASSUME NEW j \in 1 .. Len(uart')
      PROVE  Dated(j)' <=> Dated(j + 1)
  BY <1>2 DEF Dated
<1>6. ASSUME NEW d, DateAfter(d)
      PROVE  DateAfter(d)'
  <2>1. CASE \A i \in 1 .. Len(uart) : ~Dated(i)
    <3>1. gnss.date = d
      BY <1>6, <2>1 DEF DateAfter
    <3>2. gnss'.date = d /\ \A i \in 1 .. Len(uart') : ~Dated(i)'
      BY <1>2, <1>3, <1>5, <2>1, <3>1 DEF Dated
    <3> QED BY <3>2 DEF DateAfter, Dated
  <2>2. CASE ~(\A i \in 1 .. Len(uart) : ~Dated(i))
    <3>1. PICK i \in 1 .. Len(uart) :
            Dated(i) /\ uart[i].days = d /\ \A j \in i + 1 .. Len(uart) : ~Dated(j)
      BY <1>6, <2>2 DEF DateAfter
    <3>2. CASE i = 1
      <4>1. gnss'.date = d
        BY <1>2, <1>3, <3>1, <3>2 DEF Dated
      <4>2. \A j \in 1 .. Len(uart') : j + 1 \in i + 1 .. Len(uart)
        BY <1>2, <3>2, SMT
      <4>3. \A j \in 1 .. Len(uart') : ~Dated(j)'
        BY <1>5, <3>1, <4>2
      <4> QED BY <4>1, <4>3 DEF DateAfter, Dated
    <3>3. CASE i # 1
      <4>1. i - 1 \in 1 .. Len(uart') /\ (i - 1) + 1 = i
            /\ \A j \in (i - 1) + 1 .. Len(uart') :
                 j \in 1 .. Len(uart') /\ j + 1 \in i + 1 .. Len(uart)
        BY <1>2, <3>3, SMT
      <4>2. Dated(i - 1)' /\ uart'[i - 1].days = d
        BY <1>2, <1>5, <3>1, <4>1
      <4>3. \A j \in (i - 1) + 1 .. Len(uart') : ~Dated(j)'
        BY <1>5, <3>1, <4>1
      <4> QED BY <4>1, <4>2, <4>3 DEF DateAfter, Dated
    <3> QED BY <3>2, <3>3
  <2> QED BY <2>1, <2>2
<1> QED BY <1>4, <1>6

(* A sentence that is taken is of now; an RMC makes the date today's.       *)
LEMMA AfterArrival ==
  ASSUME IInv, Arrive, receiver = "warm",
         Len(uart) < Buffer, uart' = Append(uart, Sentence(coming))
  PROVE  /\ TimeAfter' = 0 /\ uart' # << >> /\ Len(uart') = Len(uart) + 1
         /\ coming = "RMC" => DateAfter(0)'
         /\ coming = "GGA" => \A d : DateAfter(d) => DateAfter(d)'
<1> USE Bounds
<1>1. uart \in Seq(Sentences) /\ gnss' = gnss
  BY DEF IInv, TypeOK, Sentences, Arrive
<1>2. Sentence(coming) = [kind |-> coming, ago |-> 0, days |-> 0]
  BY DEF Sentence
<1>3. Sentence(coming) \in Sentences
  BY <1>2, SMT DEF Sentences, Arrive, IInv, TypeOK
<1>4. /\ Len(uart') = Len(uart) + 1 /\ Len(uart) \in Nat
      /\ \A j \in 1 .. Len(uart) : uart'[j] = uart[j]
      /\ uart'[Len(uart) + 1] = [kind |-> coming, ago |-> 0, days |-> 0]
      /\ uart' # << >>
  BY <1>1, <1>2, <1>3, SMT
<1>5. TimeAfter' = 0
  BY <1>4, SMT DEF TimeAfter
<1> PICK n \in Nat : n = Len(uart)
  BY <1>4
<1>6. ASSUME coming = "RMC"
      PROVE  DateAfter(0)'
  <2>1. n + 1 \in 1 .. Len(uart')
        /\ \A j \in n + 2 .. Len(uart') : FALSE
    BY <1>4, SMT
  <2>2. Dated(n + 1)' /\ uart'[n + 1].days = 0
    BY <1>4, <1>6, SMT DEF Dated
  <2> QED BY <2>1, <2>2 DEF DateAfter, Dated
<1>7. ASSUME coming = "GGA", NEW d, DateAfter(d)
      PROVE  DateAfter(d)'
  <2>1. ~Dated(n + 1)'
    BY <1>4, <1>7, SMT DEF Dated
  <2>2. \A j \in 1 .. n : Dated(j)' <=> Dated(j)
    BY <1>4 DEF Dated
  <2>3. CASE \A i \in 1 .. n : ~Dated(i)
    <3>1. gnss'.date = d
      BY <1>1, <1>7, <2>3 DEF DateAfter
    <3>2. ASSUME NEW i \in 1 .. Len(uart')
          PROVE  ~Dated(i)'
      <4>1. i = n + 1 \/ i \in 1 .. n
        BY <1>4, SMT
      <4> QED BY <2>1, <2>2, <2>3, <4>1
    <3> QED BY <3>1, <3>2 DEF DateAfter, Dated
  <2>4. CASE ~(\A i \in 1 .. n : ~Dated(i))
    <3>1. PICK i \in 1 .. n :
            Dated(i) /\ uart[i].days = d /\ \A j \in i + 1 .. n : ~Dated(j)
      BY <1>7, <2>4 DEF DateAfter
    <3>2. i \in 1 .. Len(uart') /\ Dated(i)' /\ uart'[i].days = d
      <4>1. i \in 1 .. Len(uart')
        BY <1>4, SMT
      <4> QED BY <1>4, <2>2, <3>1, <4>1
    <3>3. ASSUME NEW j \in i + 1 .. Len(uart')
          PROVE  ~Dated(j)'
      <4>1. j = n + 1 \/ (j \in i + 1 .. n /\ j \in 1 .. n)
        BY <1>4, SMT
      <4> QED BY <2>1, <2>2, <3>1, <4>1
    <3> QED BY <3>2, <3>3 DEF DateAfter, Dated
  <2> QED BY <2>3, <2>4
<1> QED BY <1>4, <1>5, <1>6, <1>7

LEMMA AfterTick ==
  ASSUME IInv, Tick
  PROVE  /\ TimeAfter' = Older(TimeAfter, Old) /\ (uart' = << >> <=> uart = << >>)
         /\ DateAfter(0) /\ second' # 0 => DateAfter(0)'
         /\ DateAfter(0) /\ second' = 0 => DateAfter(1)'
         /\ DateAfter(1) /\ second' # 0 => DateAfter(1)'
<1> USE Bounds
<1>1. Len(uart') = Len(uart) /\ Len(uart) \in Nat
  BY TickQueue
<1>2. uart' = << >> <=> uart = << >>
  <2>1. uart \in Seq(Sentences) /\ uart' \in Seq(Sentences)
    BY TickPreserves DEF IInv, TypeOK, Sentences
  <2> QED BY <1>1, <2>1, SMT
<1>3. ASSUME NEW i \in 1 .. Len(uart)
      PROVE  /\ uart'[i].ago = Older(uart[i].ago, Old)
             /\ Dated(i)' <=> Dated(i)
             /\ uart'[i].days = IF second' = 0 THEN Older(uart[i].days, MaxDays)
                                ELSE uart[i].days
  <2>1. uart[i].ago \in -1 .. Old /\ uart'[i].ago = Older(uart[i].ago, Old)
    BY TickQueue
  <2>2. Older(uart[i].ago, Old) = -1 <=> uart[i].ago = -1
    <3>1. ASSUME NEW n \in -1 .. Old
          PROVE  Older(n, Old) = -1 <=> n = -1
      BY SMT DEF Older, Empty
    <3> QED BY <2>1, <3>1
  <2> QED BY <2>1, <2>2, TickQueue DEF Dated
<1>4. /\ gnss'.ago = Older(gnss.ago, Old)
      /\ gnss'.date = IF second' = 0 THEN Older(gnss.date, MaxDays) ELSE gnss.date
  BY DEF Tick, IInv, TypeOK
<1>5. TimeAfter' = Older(TimeAfter, Old)
  <2>1. CASE uart = << >>
    BY <1>2, <1>4, <2>1 DEF TimeAfter
  <2>2. CASE uart # << >>
    <3>1. Len(uart) \in 1 .. Len(uart)
      <4>1. uart \in Seq(Sentences)
        BY DEF IInv, TypeOK, Sentences
      <4> QED BY <2>2, <4>1, SMT
    <3>2. uart'[Len(uart')].ago = Older(uart[Len(uart)].ago, Old)
      BY <1>1, <1>3, <3>1
    <3> QED BY <1>2, <2>2, <3>2 DEF TimeAfter
  <2> QED BY <2>1, <2>2
<1>6. ASSUME NEW d, NEW e, DateAfter(d),
             e = IF second' = 0 THEN Older(d, MaxDays) ELSE d
      PROVE  DateAfter(e)'
  <2>1. CASE gnss.date = d /\ \A i \in 1 .. Len(uart) : ~Dated(i)
    <3>1. gnss'.date = e /\ \A i \in 1 .. Len(uart') : ~Dated(i)'
      BY <1>1, <1>3, <1>4, <1>6, <2>1
    <3> QED BY <3>1 DEF DateAfter, Dated
  <2>2. CASE ~(gnss.date = d /\ \A i \in 1 .. Len(uart) : ~Dated(i))
    <3>1. PICK i \in 1 .. Len(uart) :
            Dated(i) /\ uart[i].days = d /\ \A j \in i + 1 .. Len(uart) : ~Dated(j)
      BY <1>6, <2>2 DEF DateAfter
    <3>2. i \in 1 .. Len(uart') /\ Dated(i)' /\ uart'[i].days = e
      BY <1>1, <1>3, <1>6, <3>1
    <3>3. \A j \in i + 1 .. Len(uart') : j \in 1 .. Len(uart) /\ j \in i + 1 .. Len(uart)
      BY <1>1, SMT
    <3>4. \A j \in i + 1 .. Len(uart') : ~Dated(j)'
      BY <1>3, <3>1, <3>3
    <3> QED BY <3>2, <3>4 DEF DateAfter, Dated
  <2> QED BY <2>1, <2>2
<1>7. Older(0, MaxDays) = 1
  BY SMT DEF Older
<1> QED BY <1>2, <1>5, <1>6, <1>7

(* A setting from what is sound is right.                                  *)
LEMMA SoundIsRight ==
  ASSUME IInv, NearInv, MaySync, Sound, uart = << >>
  PROVE  Shown <= MaxLag
<1> USE Bounds, DayLong
<1>1. gnss.ago # Empty /\ gnss.ago <= MaxLag
  BY UsedYoung DEF Sound, TimeAfter
<1>2. gnss.ago \in Int /\ second \in Int
  BY Types DEF IInv
<1>3. Len(uart) = 0
  BY SMT
<1>4. gnss.date = 0 \/ (gnss.date = 1 /\ gnss.ago > second)
  <2>1. ~(\E i \in 1 .. Len(uart) : TRUE)
    BY <1>3, SMT
  <2> QED BY <2>1 DEF Sound, DateAfter, TimeAfter
<1>5. CASE gnss.date = 0
  <2>1. gnss.ago <= second
    BY <1>5 DEF IInv, ParserAfterMidnight
  <2> QED BY <1>1, <1>2, <1>5, <2>1, SMT DEF Shown
<1>6. CASE gnss.date = 1 /\ gnss.ago > second
  BY <1>1, <1>2, <1>6, SMT DEF Shown
<1> QED BY <1>4, <1>5, <1>6

(* What is sound is as young as the pass.                                  *)
LEMMA LastYoung ==
  ASSUME IInv, NearInv, uart # << >>
  PROVE  /\ TimeAfter \in -1 .. Old
         /\ TimeAfter <= MaxStall
         /\ phase # "read" => TimeAfter <= stall
<1> USE Bounds
<1>1. uart \in Seq(Sentences) /\ stall \in 0 .. MaxStall
  BY Types DEF IInv
<1>2. Len(uart) \in 1 .. Len(uart)
  BY <1>1, SMT
<1>3. TimeAfter = uart[Len(uart)].ago
  BY DEF TimeAfter
<1>4. uart[Len(uart)] \in Sentences
  BY <1>1, <1>2, SMT
<1>5. TimeAfter \in -1 .. Old
  BY <1>3, <1>4 DEF Sentences, Empty
<1>6. TimeAfter <= IF phase = "read" THEN MaxStall ELSE stall
  BY <1>2, <1>3 DEF NearInv, Waiting
<1>7. CASE phase = "read"
  BY <1>5, <1>6, <1>7
<1>8. CASE phase # "read"
  <2>1. TimeAfter <= stall
    BY <1>6, <1>8
  <2> HIDE <1>6
  <2> QED BY <1>1, <1>5, <2>1, SMT
<1> QED BY <1>7, <1>8

-------------------------------------------------------------------------------
(* What the steps do to a wait.                                            *)
LEMMA WaitArrive ==
  ASSUME IInv, Arrive, calm, phase # "setup", NEW x \in Nat
  PROVE  /\ Wait(wrongFor, x) => Wait(wrongFor, x)'
         /\ Wait(second, x) => Wait(second, x)'
         /\ uart' # << >>
<1> USE Bounds, DayLong
<1>1. /\ wrongFor \in Nat /\ second \in Nat /\ marker \in -1 .. Period
      /\ stall \in 0 .. MaxStall /\ uart \in Seq(Sentences)
      /\ uart = << >> <=> Len(uart) = 0 /\ phase \in {"rest", "read"}
  BY Types, SMT DEF IInv
<1>2. UNCHANGED <<wrongFor, second, marker, stall, phase>>
  BY DEF Arrive, world
<1>3. uart' # << >>
  <2>1. CASE Len(uart) < Buffer /\ uart' = Append(uart, Sentence(coming))
    <3>1. Sentence(coming) \in Sentences
      BY SMT DEF Sentence, Sentences, Arrive, IInv, TypeOK
    <3> QED BY <1>1, <2>1, <3>1, SMT
  <2>2. CASE Len(uart) = Buffer /\ UNCHANGED uart
    BY <1>1, <2>2, SMT
  <2> QED BY <2>1, <2>2 DEF Arrive
<1>4. ToBeUsed'
  BY <1>3 DEF ToBeUsed
<1>5. Wait(wrongFor, x) => Wait(wrongFor, x)'
  BY <1>1, <1>2, <1>3, <1>4, SMT DEF Wait
<1>6. Wait(second, x) => Wait(second, x)'
  BY <1>1, <1>2, <1>3, <1>4, SMT DEF Wait
<1> QED BY <1>3, <1>5, <1>6

LEMMA WaitRead ==
  ASSUME IInv, ReadSentence, NEW x \in Nat
  PROVE  /\ Wait(wrongFor, x) => Wait(wrongFor, x)'
         /\ Wait(second, x) => Wait(second, x)'
<1> USE Bounds, DayLong
<1>1. /\ wrongFor \in Nat /\ second \in Nat /\ marker \in -1 .. Period
      /\ stall \in 0 .. MaxStall
  BY Types, SMT DEF IInv
<1>2. UNCHANGED <<wrongFor, second, marker, stall, phase>> /\ phase = "read"
  BY DEF ReadSentence, world
<1>3. ToBeUsed'
  BY DEF ReadSentence, Commit, ToBeUsed
<1>4. Wait(wrongFor, x) => Wait(wrongFor, x)'
  BY <1>1, <1>2, <1>3, SMT DEF Wait
<1>5. Wait(second, x) => Wait(second, x)'
  BY <1>1, <1>2, <1>3, SMT DEF Wait
<1> QED BY <1>4, <1>5

(* A pass that does not set the clock though it is time has read nothing.   *)
LEMMA WaitUnset ==
  ASSUME IInv, GNSSTimeSync, ~MaySync, stall = 0, NEW x \in Nat
  PROVE  /\ Wait(wrongFor, x) => Wait(wrongFor, x)'
         /\ Wait(second, x) => Wait(second, x)'
<1> USE Bounds, DayLong
<1>1. /\ wrongFor \in Nat /\ second \in Nat /\ marker \in -1 .. Period
  BY Types, SMT DEF IInv
<1>2. /\ UNCHANGED <<wrongFor, second, marker, stall, coming>>
      /\ phase = "read" /\ phase' = "rest" /\ uart = << >>
  BY DEF GNSSTimeSync, world
<1>3. marker \notin 0 .. Period - 1 => ~ToBeUsed
  BY <1>1, <1>2, SMT DEF MaySync, ToBeUsed, Never
<1>4. Wait(wrongFor, x) => Wait(wrongFor, x)'
  BY <1>1, <1>2, <1>3, SMT DEF Wait
<1>5. Wait(second, x) => Wait(second, x)'
  BY <1>1, <1>2, <1>3, SMT DEF Wait
<1> QED BY <1>4, <1>5

(* When the clock is set, all waits that were begun are over.               *)
LEMMA WaitSet ==
  ASSUME IInv, GNSSTimeSync, MaySync, NEW x \in Nat
  PROVE  /\ wrongFor <= x => Wait(wrongFor, x)'
         /\ second <= x => Wait(second, x)'
         /\ Wait(wrongFor, x) => wrongFor <= x + Period + MaxStall
<1> USE Bounds, DayLong
<1>1. /\ wrongFor \in Nat /\ second \in Nat /\ marker \in -1 .. Period
  BY Types, SMT DEF IInv
<1>2. /\ UNCHANGED <<wrongFor, second>> /\ phase = "read" /\ marker' = 0
  BY DEF GNSSTimeSync, world
<1>3. marker \notin 0 .. Period - 1
  BY <1>1, SMT DEF MaySync, Never
<1>4. wrongFor <= x => Wait(wrongFor, x)'
  BY <1>1, <1>2, SMT DEF Wait
<1>5. second <= x => Wait(second, x)'
  BY <1>1, <1>2, SMT DEF Wait
<1>6. Wait(wrongFor, x) => wrongFor <= x + Period + MaxStall
  BY <1>1, <1>2, <1>3, SMT DEF Wait
<1> QED BY <1>4, <1>5, <1>6

LEMMA WaitBegin ==
  ASSUME IInv, BeginPass, ~static, Regular, NEW x \in Nat
  PROVE  /\ Wait(wrongFor, x) => Wait(wrongFor, x)'
         /\ Wait(second, x) => Wait(second, x)'
<1> USE Bounds, DayLong
<1>1. /\ wrongFor \in Nat /\ second \in Nat /\ marker \in -1 .. Period
      /\ stall \in 0 .. MaxStall
  BY Types, SMT DEF IInv
<1>2. /\ UNCHANGED <<wrongFor, second, marker, uart, coming>>
      /\ phase = "rest" /\ phase' = "read"
  BY DEF BeginPass, world
<1>3. uart # << >> => ToBeUsed'
  BY <1>2 DEF ToBeUsed
<1>4. Wait(wrongFor, x) => Wait(wrongFor, x)'
  BY <1>1, <1>2, <1>3, SMT DEF Wait, Regular
<1>5. Wait(second, x) => Wait(second, x)'
  BY <1>1, <1>2, <1>3, SMT DEF Wait, Regular
<1> QED BY <1>4, <1>5

(* In a second a counter grows by one; so does the time since the setting.  *)
LEMMA WaitTick ==
  ASSUME IInv, Tick, phase = "rest", receiver = "warm", NEW x \in Nat
  PROVE  /\ Wait(wrongFor, x) /\ wrongFor' <= wrongFor + 1 => Wait(wrongFor, x)'
         /\ Wait(second, x) => Wait(second, x)'
<1> USE Bounds, DayLong
<1>1. /\ wrongFor \in Nat /\ second \in Nat /\ marker \in -1 .. Period
      /\ stall \in 0 .. MaxStall /\ second' \in Nat /\ wrongFor' \in Nat
  <2>1. IInv'
    BY TickPreserves
  <2>2. second' \in Nat /\ wrongFor' \in Nat
    BY <2>1, SMT DEF IInv, TypeOK
  <2> QED BY <2>2, Types, SMT DEF IInv
<1>2. /\ stall' = stall + 1 /\ phase' = "rest" /\ coming = "none" /\ coming' = "RMC"
      /\ second' <= second + 1
  <2>1. second' = IF second = Day - 1 THEN 0 ELSE second + 1
    BY DEF Tick
  <2>2. second' <= second + 1
    BY <1>1, <2>1, SMT
  <2> QED BY <2>2 DEF Tick
<1>3. marker' = IF marker = -1 THEN -1 ELSE IF marker < Period THEN marker + 1 ELSE marker
  BY DEF Tick, Older
<1>4. uart # << >> => uart' # << >>
  BY AfterTick
<1>5. Wait(wrongFor, x) /\ wrongFor' <= wrongFor + 1 => Wait(wrongFor, x)'
  BY <1>1, <1>2, <1>3, <1>4, SMT DEF Wait
<1>6. Wait(second, x) => Wait(second, x)'
  BY <1>1, <1>2, <1>3, <1>4, SMT DEF Wait
<1> QED BY <1>5, <1>6

-------------------------------------------------------------------------------
(* Before the first second that counts, all is well.                       *)
LEMMA NotWrongYet ==
  ASSUME IInv', phase' # "setup", wrongFor' = 0
  PROVE  FirstWait'
<1> USE Bounds, DayLong
<1>1. marker' \in -1 .. Period /\ stall' \in 0 .. MaxStall /\ phase' \in {"rest", "read"}
  BY SMT DEF IInv, TypeOK
<1>2. ASSUME NEW x \in Nat
      PROVE  Wait(wrongFor, x)'
  <2>1. ASSUME NEW n \in Nat
        PROVE  0 <= x + n /\ 0 <= x + Period - 1 + n /\ 0 <= x + Period - 1
    BY SMT
  <2>2. stall' \in Nat /\ (marker' \in 0 .. Period - 1 => marker' \in Nat)
    BY <1>1, SMT
  <2>3. /\ marker' \in 0 .. Period - 1 => 0 <= x + marker'
        /\ 0 <= x + Period - 1 + stall' /\ 0 <= x + Period - 1
    BY <2>1, <2>2
  <2>4. wrongFor' = 0
    OBVIOUS
  <2> QED BY <1>1, <2>3, <2>4, Zenon DEF Wait
<1>3. Wait(wrongFor, MaxStall + 1)'
  BY <1>2, SMT
<1> QED BY <1>3 DEF FirstWait

LEMMA CalmBegins ==
  ASSUME IInv', wrongFor' = 0
  PROVE  On' => DateKnown' /\ ClockWaits'
<1> SUFFICES ASSUME On'
             PROVE  DateKnown' /\ ClockWaits'
  OBVIOUS
<1> USE Bounds
<1>1. phase' \in {"rest", "read"} /\ stall' \in 0 .. MaxStall
  BY SMT DEF On, IInv, TypeOK
<1>2. (phase' = "rest" /\ wrongFor' <= stall') \/ (phase' = "read" /\ wrongFor' <= MaxStall)
  BY <1>1, SMT
<1>3. Leftover'
  BY <1>2 DEF Leftover
<1>4. FirstWait'
  BY NotWrongYet DEF On
<1> QED BY <1>3, <1>4 DEF DateKnown, ClockWaits

LEMMA InitRecovery == Init => RecoveryInv
<1> SUFFICES ASSUME Init PROVE RecoveryInv
  OBVIOUS
<1> USE Bounds
<1>1. calm = FALSE /\ phase = "setup" /\ wrongFor = 0 /\ stall = 0
  BY DEF Init
<1>2. WrongBound
  BY <1>1, SMT DEF WrongBound
<1> QED BY <1>1, <1>2 DEF RecoveryInv, On

LEMMA SetupRecovery ==
  ASSUME IInv, RecoveryInv, NtpAnswer \/ NoNtp \/ Learn \/ CalmDown \/ Reset
  PROVE  RecoveryInv'
<1>1. IInv'
  BY NextPreserves DEF Next
<1>2. wrongFor' = 0
  BY DEF NtpAnswer, NoNtp, Learn, CalmDown, Reset, world, RecoveryInv
<1>3. phase' = "read" => stall' = 0
  BY DEF NtpAnswer, NoNtp, Learn, CalmDown, Reset, world, RecoveryInv
<1>4. WrongBound'
  BY <1>2, Bounds, SMT DEF WrongBound
<1> QED BY <1>1, <1>2, <1>3, <1>4, CalmBegins DEF RecoveryInv

LEMMA BeginPassRecovery ==
  ASSUME IInv, RecoveryInv, BeginPass
  PROVE  RecoveryInv'
<1> USE Bounds, DayLong
<1>1. /\ UNCHANGED <<calm, wrongFor, second, lag, uart, gnss, marker, static>>
      /\ phase = "rest" /\ phase' = "read" /\ stall' = 0
      /\ receiver' = (IF static THEN "asleep" ELSE receiver)
      /\ ~static => UNCHANGED coming
  BY DEF BeginPass, world
<1>2. IInv'
  BY NextPreserves DEF Next
<1>3. stall \in 0 .. MaxStall /\ wrongFor \in Nat
  BY Types DEF IInv
<1>4. WrongBound'
  BY <1>1 DEF WrongBound, RecoveryInv
<1>5. ~calm' \/ receiver' = "cold" \/ phase' = "setup" => wrongFor' = 0
  BY <1>1 DEF RecoveryInv
<1>6. ASSUME On'
      PROVE  DateKnown' /\ ClockWaits'
  <2>1. ~static /\ On /\ UNCHANGED coming
    BY <1>1, <1>6 DEF On
  <2>2. TimeAfter' = TimeAfter /\ \A d : DateAfter(d) => DateAfter(d)'
    BY <1>1 DEF TimeAfter, DateAfter, Dated
  <2>3. Sound => Sound'
    BY <1>1, <2>1, <2>2 DEF Sound
  <2>4. AfterMidnight => AfterMidnight'
    BY <1>1, <2>1 DEF AfterMidnight
  <2>5. Leftover => Leftover'
    <3>1. wrongFor <= stall => wrongFor <= MaxStall
      BY <1>3, SMT
    <3> QED BY <1>1, <2>1, <3>1 DEF Leftover
  <2>6. Regular'
    BY <1>1 DEF Regular
  <2>7. DateKnown'
    BY <2>1, <2>3, <2>4, <2>5 DEF RecoveryInv, DateKnown
  <2>8. ASSUME ~Wrong /\ (wrongFor = 0 \/ marker = 0)
        PROVE  ClockWaits'
    BY <1>1, <2>8 DEF ClockWaits, Wrong
  <2>9. ASSUME FirstWait
        PROVE  ClockWaits'
    <3>1. CASE Regular
      <4>1. MaxStall + 1 \in Nat
        BY SMT
      <4>2. Wait(wrongFor, MaxStall + 1)'
        BY <2>1, <2>9, <3>1, <4>1, WaitBegin DEF FirstWait
      <4> QED BY <2>6, <4>2 DEF FirstWait, ClockWaits
    <3>2. CASE wrongFor = 0
      BY <1>1, <1>2, <3>2, NotWrongYet DEF ClockWaits
    <3>3. CASE wrongFor = 1 /\ coming = "RMC"
      <4>1. marker' \in -1 .. Period
        BY <1>2 DEF IInv, TypeOK, Never
      <4>2. ASSUME NEW x \in Nat, x > 0
            PROVE  Wait(wrongFor, x)'
        BY <1>1, <3>3, <4>1, <4>2, SMT DEF Wait
      <4>3. Wait(wrongFor, MaxStall + 1)'
        BY <4>2, SMT
      <4> QED BY <2>6, <4>3 DEF FirstWait, ClockWaits
    <3> QED BY <2>9, <3>1, <3>2, <3>3 DEF FirstWait
  <2>10. ASSUME SecondWait
        PROVE  ClockWaits'
    <3>1. MaxStall + 1 \in Nat /\ Period + 2 * MaxStall + 1 \in Nat
      BY SMT
    <3>2. Wait(wrongFor, Period + 2 * MaxStall + 1)' /\ Wait(second, MaxStall + 1)'
      BY <2>1, <2>10, <3>1, WaitBegin DEF SecondWait
    <3>3. Settled => Settled'
      BY <2>2, <2>3 DEF Settled
    <3>4. Settling => Settling'
      BY <1>1, <2>4 DEF Settling
    <3> QED BY <2>6, <2>10, <3>2, <3>3, <3>4 DEF SecondWait, ClockWaits
  <2>11. ClockWaits
    BY <2>1 DEF RecoveryInv
  <2>12. ClockWaits'
    BY <2>8, <2>9, <2>10, <2>11 DEF ClockWaits
  <2> QED BY <2>7, <2>12
<1> QED BY <1>1, <1>4, <1>5, <1>6 DEF RecoveryInv

LEMMA ReadSentenceRecovery ==
  ASSUME IInv, NearInv, RecoveryInv, ReadSentence
  PROVE  RecoveryInv'
<1> USE Bounds, DayLong
<1>1. /\ UNCHANGED <<calm, wrongFor, second, lag, marker, static, phase, receiver,
                     coming, stall>>
      /\ phase = "read"
  BY DEF ReadSentence, world
<1>2. WrongBound'
  BY <1>1 DEF WrongBound, RecoveryInv
<1>3. /\ ~calm' \/ receiver' = "cold" \/ phase' = "setup" => wrongFor' = 0
      /\ phase' = "read" => stall' = 0
  BY <1>1 DEF RecoveryInv
<1>4. ASSUME On'
      PROVE  DateKnown' /\ ClockWaits'
  <2>1. On
    BY <1>1, <1>4 DEF On
  <2>2. TimeAfter' = TimeAfter /\ \A d : DateAfter(d) => DateAfter(d)'
    BY AfterReading
  <2>3. Sound => Sound'
    BY <1>1, <2>2 DEF Sound
  <2>4. Len(uart) <= 1 => Len(uart') <= 1
    <3>1. uart \in Seq(Sentences) /\ uart # << >> /\ uart' = Tail(uart)
      BY Types DEF IInv, ReadSentence
    <3> QED BY <3>1, SMT
  <2>5. AfterMidnight => AfterMidnight'
    BY <1>1, <2>4 DEF AfterMidnight
  <2>6. Leftover => Leftover'
    BY <1>1, <2>4 DEF Leftover
  <2>7. DateKnown'
    BY <2>1, <2>3, <2>5, <2>6 DEF RecoveryInv, DateKnown
  <2>8. Regular'
    BY <1>1 DEF Regular
  <2>9. MaxStall + 1 \in Nat /\ Period + 2 * MaxStall + 1 \in Nat
    BY SMT
  <2>10. ASSUME ~Wrong /\ (wrongFor = 0 \/ marker = 0)
        PROVE  ClockWaits'
    BY <1>1, <2>10 DEF ClockWaits, Wrong
  <2>11. ASSUME FirstWait
        PROVE  ClockWaits'
    <3>1. Wait(wrongFor, MaxStall + 1)'
      BY <2>9, <2>11, WaitRead DEF FirstWait
    <3> QED BY <2>8, <3>1 DEF FirstWait, ClockWaits
  <2>12. ASSUME SecondWait
        PROVE  ClockWaits'
    <3>1. Wait(wrongFor, Period + 2 * MaxStall + 1)' /\ Wait(second, MaxStall + 1)'
      BY <2>9, <2>12, WaitRead DEF SecondWait
    <3>2. Settled
      BY <2>12 DEF SecondWait, Settling, ReadSentence
    <3>3. Settled'
      BY <2>2, <2>3, <3>2 DEF Settled
    <3> QED BY <2>8, <3>1, <3>3 DEF SecondWait, ClockWaits
  <2>13. ClockWaits'
    BY <2>1, <2>10, <2>11, <2>12 DEF RecoveryInv, ClockWaits
  <2> QED BY <2>7, <2>13
<1> QED BY <1>2, <1>3, <1>4 DEF RecoveryInv

-------------------------------------------------------------------------------
(* A sentence of calm weather is taken or finds the buffer full.            *)
LEMMA ArriveTakes ==
  ASSUME IInv, Arrive, calm
  PROVE  /\ UNCHANGED <<calm, wrongFor, second, lag, marker, static, phase, receiver,
                        gnss, stall>>
         /\ \/ coming = "RMC" /\ coming' = "GGA"
            \/ coming = "GGA" /\ coming' = "none"
         /\ \/ Len(uart) < Buffer /\ uart' = Append(uart, Sentence(coming))
            \/ Len(uart) = Buffer /\ uart' = uart
BY DEF Arrive, world, IInv, TypeOK

LEMMA ArriveDates ==
  ASSUME IInv, NearInv, Arrive, calm, receiver = "warm"
  PROVE  /\ DateAfter(0) => DateAfter(0)'
         /\ Sound /\ DateAfter(0) => Sound'
         /\ coming = "RMC" /\ Len(uart) < Buffer => DateAfter(0)' /\ Sound'
         /\ Sound /\ Len(uart) = Buffer => Sound'
<1> USE Bounds, DayLong
<1>1. CASE Len(uart) < Buffer /\ uart' = Append(uart, Sentence(coming))
  <2>1. TimeAfter' = 0
    BY <1>1, AfterArrival
  <2>2. TimeAfter' # Empty /\ TimeAfter' <= MaxStall + 1 /\ TimeAfter' <= MaxStall
    BY <2>1, SMT
  <2>3. DateAfter(0)' => Sound'
    BY <2>2 DEF Sound
  <2>4. DateAfter(0) => DateAfter(0)'
    BY <1>1, ArriveTakes, AfterArrival
  <2>5. coming = "RMC" => DateAfter(0)'
    BY <1>1, AfterArrival
  <2>6. ~(Len(uart) = Buffer)
    BY <1>1, SMT
  <2> QED BY <2>3, <2>4, <2>5, <2>6
<1>2. CASE Len(uart) = Buffer /\ uart' = uart
  <2>1. gnss' = gnss /\ second' = second
    BY ArriveTakes
  <2>2. TimeAfter' = TimeAfter /\ \A d : DateAfter(d) <=> DateAfter(d)'
    BY <1>2, <2>1 DEF TimeAfter, DateAfter, Dated
  <2>3. uart # << >>
    BY <1>2, SMT
  <2>4. TimeAfter <= MaxStall
    BY <2>3, LastYoung
  <2>5. Sound => Sound'
    BY <1>2, <2>1, <2>2, <2>4 DEF Sound
  <2>6. ~(Len(uart) < Buffer)
    BY <1>2, SMT
  <2> QED BY <2>2, <2>5, <2>6
<1> QED BY <1>1, <1>2, ArriveTakes

LEMMA ArriveDateKnown ==
  ASSUME IInv, NearInv, Arrive, On, DateKnown
  PROVE  DateKnown'
<1> USE Bounds, DayLong
<1>1. calm /\ receiver = "warm" /\ phase # "setup"
  BY DEF On
<1>2. /\ UNCHANGED <<wrongFor, second, phase, stall>>
      /\ \/ coming = "RMC" /\ coming' = "GGA"
         \/ coming = "GGA" /\ coming' = "none"
  BY <1>1, ArriveTakes
<1>3. Len(uart) \in Nat /\ phase \in {"rest", "read"}
  BY <1>1, Types DEF IInv
<1>4. CASE Len(uart) < Buffer /\ uart' = Append(uart, Sentence(coming))
  <2>1. Len(uart') = Len(uart) + 1
    BY <1>1, <1>4, AfterArrival
  <2>2. CASE coming = "RMC"
    BY <1>1, <1>4, <2>2, ArriveDates DEF DateKnown
  <2>3. CASE coming = "GGA"
    <3>1. coming' = "none"
      BY <1>2, <2>3
    <3>2. ASSUME Sound
          PROVE  DateKnown'
      <4>1. CASE DateAfter(0)
        BY <1>1, <3>2, <4>1, ArriveDates DEF DateKnown
      <4>2. CASE ~DateAfter(0)
        <5>1. TimeAfter <= MaxStall /\ TimeAfter > second
          BY <2>3, <3>2, <4>2 DEF Sound
        <5>2. TimeAfter \in -1 .. Old
          <6>1. uart = << >> => TimeAfter = gnss.ago
            BY DEF TimeAfter
          <6> QED BY <6>1, LastYoung, Types DEF IInv
        <5>3. second \in Int
          BY Types DEF IInv
        <5>4. second <= MaxStall
          BY <5>1, <5>2, <5>3, SMT
        <5>5. phase = "rest" => uart = << >>
          <6>1. Len(uart) # Buffer
            BY <1>4, SMT
          <6> QED BY <2>3, <3>2, <4>2, <6>1 DEF Sound
        <5>6. phase = "rest" => Len(uart') <= 1
          <6>1. uart = << >> => Len(uart) = 0
            BY Types DEF IInv
          <6> QED BY <2>1, <5>5, <6>1, SMT
        <5> QED BY <1>2, <1>3, <3>1, <5>4, <5>6 DEF AfterMidnight, DateKnown
      <4> QED BY <4>1, <4>2
    <3>3. ASSUME Leftover
          PROVE  Leftover'
      <4>1. uart = << >> => Len(uart') <= 1
        <5>1. uart = << >> => Len(uart) = 0
          BY Types DEF IInv
        <5> QED BY <2>1, <5>1, SMT
      <4> QED BY <1>2, <2>3, <3>1, <3>3, <4>1 DEF Leftover
    <3>4. ~AfterMidnight
      BY <2>3 DEF AfterMidnight
    <3> QED BY <3>2, <3>3, <3>4 DEF DateKnown
  <2> QED BY <1>2, <2>2, <2>3
<1>5. CASE Len(uart) = Buffer /\ uart' = uart
  <2>1. ~(Len(uart) <= 1)
    BY <1>5, SMT
  <2>2. Sound => Sound'
    BY <1>1, <1>5, ArriveDates
  <2>3. Leftover => Leftover'
    BY <1>2, <1>5, <2>1 DEF Leftover
  <2>4. ~AfterMidnight
    BY <1>2, <2>1 DEF AfterMidnight
  <2> QED BY <2>2, <2>3, <2>4 DEF DateKnown
<1> QED BY <1>1, <1>4, <1>5, ArriveTakes

LEMMA ArriveRecovery ==
  ASSUME IInv, NearInv, RecoveryInv, Arrive
  PROVE  RecoveryInv'
<1> USE Bounds, DayLong
<1>1. UNCHANGED <<calm, wrongFor, second, lag, marker, phase, receiver, stall>>
  BY DEF Arrive, world
<1>2. WrongBound'
  BY <1>1 DEF WrongBound, RecoveryInv
<1>3. /\ ~calm' \/ receiver' = "cold" \/ phase' = "setup" => wrongFor' = 0
      /\ phase' = "read" => stall' = 0
  BY <1>1 DEF RecoveryInv
<1>4. ASSUME On'
      PROVE  DateKnown' /\ ClockWaits'
  <2>1. On /\ calm /\ receiver = "warm" /\ phase # "setup"
    BY <1>1, <1>4 DEF On
  <2>2. DateKnown'
    BY <2>1, ArriveDateKnown DEF RecoveryInv
  <2>3. MaxStall + 1 \in Nat /\ Period + 2 * MaxStall + 1 \in Nat
    BY SMT
  <2>4. Regular'
    BY <2>1, <2>3, WaitArrive DEF Regular
  <2>5. ASSUME ~Wrong /\ (wrongFor = 0 \/ marker = 0)
        PROVE  ClockWaits'
    BY <1>1, <2>5 DEF ClockWaits, Wrong
  <2>6. ASSUME FirstWait
        PROVE  ClockWaits'
    <3>1. Wait(wrongFor, MaxStall + 1)'
      BY <2>1, <2>3, <2>6, WaitArrive DEF FirstWait
    <3> QED BY <2>4, <3>1 DEF FirstWait, ClockWaits
  <2>7. ASSUME SecondWait
        PROVE  ClockWaits'
    <3>1. Wait(wrongFor, Period + 2 * MaxStall + 1)' /\ Wait(second, MaxStall + 1)'
      BY <2>1, <2>3, <2>7, WaitArrive DEF SecondWait
    <3>2. Settled'
      <4>1. CASE Settled
        BY <2>1, <4>1, ArriveDates DEF Settled
      <4>2. CASE Settling
        <5>1. coming = "RMC"
          BY <4>2 DEF Settling, AfterMidnight, Arrive
        <5>2. Len(uart) < Buffer
          <6>1. Len(uart) = 0
            BY <4>2, Types DEF IInv, Settling
          <6> QED BY <6>1, SMT
        <5> QED BY <2>1, <5>1, <5>2, ArriveDates DEF Settled
      <4> QED BY <2>7, <4>1, <4>2 DEF SecondWait
    <3> QED BY <2>4, <3>1, <3>2 DEF SecondWait, ClockWaits
  <2>8. ClockWaits'
    BY <2>1, <2>5, <2>6, <2>7 DEF RecoveryInv, ClockWaits
  <2> QED BY <2>2, <2>8
<1> QED BY <1>2, <1>3, <1>4 DEF RecoveryInv

-------------------------------------------------------------------------------
LEMMA GNSSTimeSyncRecovery ==
  ASSUME IInv, NearInv, RecoveryInv, GNSSTimeSync
  PROVE  RecoveryInv'
<1> USE Bounds, DayLong
<1>1. /\ UNCHANGED <<calm, wrongFor, second, receiver, coming, uart, stall>>
      /\ phase = "read" /\ phase' = "rest" /\ uart = << >>
      /\ gnss'.date = gnss.date /\ gnss'.ago = gnss.ago
  BY DEF GNSSTimeSync, world, IInv, TypeOK
<1>2. IInv'
  BY NextPreserves DEF Next
<1>3. stall = 0
  BY <1>1 DEF RecoveryInv
<1>4. WrongBound'
  BY <1>1 DEF WrongBound, RecoveryInv
<1>5. /\ ~calm' \/ receiver' = "cold" \/ phase' = "setup" => wrongFor' = 0
      /\ phase' = "read" => stall' = 0
  BY <1>1 DEF RecoveryInv
<1>6. ASSUME On'
      PROVE  DateKnown' /\ ClockWaits'
  <2>1. On
    BY <1>1, <1>6 DEF On
  <2>2. TimeAfter' = TimeAfter /\ \A d : DateAfter(d) <=> DateAfter(d)'
    BY <1>1 DEF TimeAfter, DateAfter, Dated
  <2>3. Sound => Sound'
    BY <1>1, <2>2 DEF Sound
  <2>4. Len(uart) = 0 /\ Len(uart) <= 1
    <3>1. Len(uart) = 0
      BY <1>1, Types DEF IInv
    <3> QED BY <3>1, SMT
  <2>5. AfterMidnight => AfterMidnight'
    BY <1>1, <2>4 DEF AfterMidnight
  <2>6. Leftover => Leftover'
    BY <1>1, <1>3, <2>4 DEF Leftover
  <2>7. DateKnown'
    BY <2>1, <2>3, <2>5, <2>6 DEF RecoveryInv, DateKnown
  <2>8. Regular'
    <3>1. ~(stall' > 0)
      BY <1>1, <1>3, SMT
    <3> QED BY <3>1 DEF Regular
  <2>9. MaxStall + 1 \in Nat /\ Period + 2 * MaxStall + 1 \in Nat
    BY SMT
  <2>10. ClockWaits /\ DateKnown
    BY <2>1 DEF RecoveryInv
  <2>11. ASSUME ~MaySync
         PROVE  ClockWaits'
    <3>1. UNCHANGED <<lag, marker, gnss>>
      BY <2>11 DEF GNSSTimeSync
    <3>2. ASSUME ~Wrong /\ (wrongFor = 0 \/ marker = 0)
          PROVE  ClockWaits'
      BY <1>1, <3>1, <3>2 DEF ClockWaits, Wrong
    <3>3. ASSUME FirstWait
          PROVE  ClockWaits'
      <4>1. Wait(wrongFor, MaxStall + 1)'
        BY <1>3, <2>9, <2>11, <3>3, WaitUnset DEF FirstWait
      <4> QED BY <2>8, <4>1 DEF FirstWait, ClockWaits
    <3>4. ASSUME SecondWait
          PROVE  ClockWaits'
      <4>1. Wait(wrongFor, Period + 2 * MaxStall + 1)' /\ Wait(second, MaxStall + 1)'
        BY <1>3, <2>9, <2>11, <3>4, WaitUnset DEF SecondWait
      <4>2. Settled => Settled'
        BY <2>2, <2>3 DEF Settled
      <4>3. Settling => Settling'
        BY <1>1, <2>5, <3>1 DEF Settling
      <4> QED BY <2>8, <3>4, <4>1, <4>2, <4>3 DEF SecondWait, ClockWaits
    <3> QED BY <2>10, <3>2, <3>3, <3>4 DEF ClockWaits
  <2>12. ASSUME MaySync
         PROVE  ClockWaits'
    <3>1. lag' = Shown /\ marker' = 0 /\ gnss' = [gnss EXCEPT !.updated = FALSE]
      BY <2>12 DEF GNSSTimeSync
    <3>2. marker \notin 0 .. Period - 1 /\ marker # 0
      <4>1. marker \in -1 .. Period
        BY Types DEF IInv
      <4> QED BY <2>12, <4>1, SMT DEF MaySync, Never
    <3>3. ASSUME Sound
          PROVE  ClockWaits'
      <4>1. Shown <= MaxLag
        BY <1>1, <2>12, <3>3, SoundIsRight
      <4>2. lag' \in Int
        BY <1>2 DEF IInv, TypeOK
      <4>3. ~(lag' > MaxLag)
        BY <3>1, <4>1, <4>2, SMT
      <4> QED BY <3>1, <4>3 DEF Wrong, ClockWaits
    <3>4. ASSUME wrongFor <= MaxStall + 1
          PROVE  ClockWaits'
      <4>1. Wait(wrongFor, MaxStall + 1)'
        BY <2>9, <2>12, <3>4, WaitSet
      <4> QED BY <2>8, <4>1 DEF FirstWait, ClockWaits
    <3>5. ASSUME Leftover
          PROVE  ClockWaits'
      <4>1. wrongFor <= MaxStall => wrongFor <= MaxStall + 1
        BY Types, SMT DEF IInv
      <4> QED BY <1>1, <3>4, <3>5, <4>1 DEF Leftover
    <3>6. ASSUME AfterMidnight
          PROVE  ClockWaits'
      <4>1. CASE ~Wrong /\ (wrongFor = 0 \/ marker = 0)
        <5>1. wrongFor' = 0
          BY <1>1, <3>2, <4>1
        <5> QED BY <1>1, <1>2, <5>1, NotWrongYet DEF ClockWaits
      <4>2. CASE FirstWait
        <5>1. Wait(wrongFor, MaxStall + 1)
          BY <4>2 DEF FirstWait
        <5>2. wrongFor <= (MaxStall + 1) + Period + MaxStall
          BY <2>9, <2>12, <5>1, WaitSet
        <5>3. wrongFor \in Nat /\ second \in Nat
          BY Types, SMT DEF IInv
        <5>4. wrongFor <= Period + 2 * MaxStall + 1
          BY <5>2, <5>3, SMT
        <5>5. second <= MaxStall + 1
          <6>1. second <= MaxStall \/ second <= MaxStall + 1
            BY <3>6 DEF AfterMidnight
          <6> QED BY <5>3, <6>1, SMT
        <5>6. Wait(wrongFor, Period + 2 * MaxStall + 1)' /\ Wait(second, MaxStall + 1)'
          BY <2>9, <2>12, <5>4, <5>5, WaitSet
        <5>7. ~gnss'.updated
          BY <3>1 DEF IInv, TypeOK
        <5>8. Settling'
          BY <1>1, <2>5, <3>6, <5>7 DEF Settling
        <5> QED BY <2>8, <5>6, <5>8 DEF SecondWait, ClockWaits
      <4>3. CASE SecondWait
        <5>1. Settled
          BY <2>12, <4>3 DEF SecondWait, Settling, MaySync
        <5> QED BY <3>3, <5>1 DEF Settled
      <4> QED BY <2>10, <4>1, <4>2, <4>3 DEF ClockWaits
    <3> QED BY <2>10, <3>3, <3>5, <3>6 DEF DateKnown
  <2> QED BY <2>7, <2>11, <2>12
<1> QED BY <1>4, <1>5, <1>6 DEF RecoveryInv

LEMMA TickDateKnown ==
  ASSUME IInv, NearInv, Tick, phase = "rest", receiver = "warm",
         wrongFor' <= wrongFor + 1
  PROVE  /\ Sound => Sound'
         /\ Leftover => Leftover'
         /\ AfterMidnight => AfterMidnight'
<1> USE Bounds, DayLong
<1>1. /\ coming = "none" /\ coming' = "RMC" /\ stall' = stall + 1 /\ phase' = "rest"
      /\ second' = IF second = Day - 1 THEN 0 ELSE second + 1
  BY DEF Tick
<1>2. /\ second \in 0 .. Day - 1 /\ stall \in 0 .. MaxStall /\ wrongFor \in Nat
      /\ Len(uart) \in Nat /\ Len(uart') = Len(uart)
  BY TickQueue, Types DEF IInv
<1>3. wrongFor' \in Nat /\ second' \in 0 .. Day - 1
  <2>1. IInv'
    BY TickPreserves
  <2> QED BY <2>1, SMT DEF IInv, TypeOK
<1>4. TimeAfter \in -1 .. Old
  <2>1. uart = << >> => TimeAfter = gnss.ago
    BY DEF TimeAfter
  <2> QED BY <2>1, LastYoung, Types DEF IInv
<1>5. ASSUME Sound
      PROVE  Sound'
  <2>1. TimeAfter \in 0 .. MaxStall
    <3>1. TimeAfter # -1 /\ TimeAfter <= MaxStall
      BY <1>1, <1>5 DEF Sound
    <3> QED BY <1>4, <3>1, SMT
  <2>2. TimeAfter' = TimeAfter + 1
    <3>1. TimeAfter' = Older(TimeAfter, Old)
      BY AfterTick
    <3>2. TimeAfter # -1 /\ TimeAfter < Old
      BY <2>1, SMT
    <3> QED BY <3>1, <3>2 DEF Older
  <2>3. TimeAfter' # -1 /\ TimeAfter' <= MaxStall + 1
    BY <2>1, <2>2, SMT
  <2>4. DateAfter(0)' \/ (DateAfter(1)' /\ TimeAfter' > second')
    <3>1. CASE DateAfter(0) /\ second' # 0
      BY <3>1, AfterTick
    <3>2. CASE DateAfter(0) /\ second' = 0
      <4>1. TimeAfter' > second'
        BY <2>1, <2>2, <3>2, SMT
      <4> QED BY <3>2, <4>1, AfterTick
    <3>3. CASE DateAfter(1) /\ TimeAfter > second
      <4>1. second' = second + 1 /\ second' # 0 /\ TimeAfter' > second'
        BY <1>1, <1>2, <2>1, <2>2, <3>3, SMT
      <4> QED BY <3>3, <4>1, AfterTick
    <3> QED BY <1>5, <3>1, <3>2, <3>3 DEF Sound
  <2> QED BY <1>1, <2>3, <2>4 DEF Sound
<1>6. ASSUME Leftover
      PROVE  Leftover'
  <2>1. wrongFor <= stall => wrongFor' <= stall'
    BY <1>1, <1>2, <1>3, SMT
  <2>2. wrongFor <= MaxStall => wrongFor' <= MaxStall + 1
    BY <1>2, <1>3, SMT
  <2>3. (phase = "rest" /\ wrongFor <= stall) \/ (wrongFor <= MaxStall /\ Len(uart) <= 1)
    BY <1>1, <1>6 DEF Leftover
  <2> QED BY <1>1, <1>2, <2>1, <2>2, <2>3 DEF Leftover
<1>7. ASSUME AfterMidnight
      PROVE  AfterMidnight'
  <2>1. second <= MaxStall /\ Len(uart) <= 1
    BY <1>1, <1>7 DEF AfterMidnight
  <2>2. second' <= MaxStall + 1
    BY <1>1, <1>2, <2>1, SMT
  <2> QED BY <1>1, <1>2, <2>1, <2>2 DEF AfterMidnight
<1> QED BY <1>5, <1>6, <1>7

(* In both waits the clock is not wrong for too long, and no midnight comes  *)
(* in the second one.                                                      *)
LEMMA WaitEnds ==
  ASSUME IInv, phase = "rest", stall < MaxStall
  PROVE  /\ FirstWait => wrongFor + 1 <= RecoveryLimit
         /\ SecondWait => wrongFor + 1 <= RecoveryLimit /\ second # Day - 1
<1> USE Bounds, DayLong
<1>1. /\ wrongFor \in Nat /\ second \in Nat /\ marker \in -1 .. Period
      /\ stall \in 0 .. MaxStall
  BY Types, SMT DEF IInv
<1>2. ASSUME NEW c \in Nat, NEW x \in Nat, Wait(c, x)
      PROVE  c + 1 <= x + Period + MaxStall
  BY <1>1, <1>2, SMT DEF Wait
<1>3. ASSUME FirstWait
      PROVE  wrongFor + 1 <= RecoveryLimit
  <2>1. MaxStall + 1 \in Nat /\ Wait(wrongFor, MaxStall + 1)
    BY <1>3, SMT DEF FirstWait
  <2>2. wrongFor + 1 <= (MaxStall + 1) + Period + MaxStall
    BY <1>1, <1>2, <2>1
  <2> QED BY <1>1, <2>2, SMT
<1>4. ASSUME SecondWait
      PROVE  wrongFor + 1 <= RecoveryLimit /\ second # Day - 1
  <2>1. MaxStall + 1 \in Nat /\ Period + 2 * MaxStall + 1 \in Nat
    BY SMT
  <2>2. wrongFor + 1 <= (Period + 2 * MaxStall + 1) + Period + MaxStall
    BY <1>1, <1>2, <1>4, <2>1 DEF SecondWait
  <2>3. second + 1 <= (MaxStall + 1) + Period + MaxStall
    BY <1>1, <1>2, <1>4, <2>1 DEF SecondWait
  <2> QED BY <1>1, <2>2, <2>3, SMT
<1> QED BY <1>3, <1>4

LEMMA TickRecovery ==
  ASSUME IInv, NearInv, RecoveryInv, Tick
  PROVE  RecoveryInv'
<1> USE Bounds, DayLong
<1>1. /\ UNCHANGED <<phase, lag, receiver, calm>> /\ phase # "read" /\ coming = "none"
      /\ stall < MaxStall /\ stall' = stall + 1 /\ gnss'.updated = gnss.updated
      /\ second' = IF second = Day - 1 THEN 0 ELSE second + 1
      /\ wrongFor' = IF calm /\ receiver = "warm" /\ phase = "rest" /\ Wrong
                     THEN Older(wrongFor, RecoveryLimit + 1) ELSE 0
      /\ receiver = "warm" => coming' = "RMC"
  BY DEF Tick, IInv, TypeOK
<1>2. IInv'
  BY TickPreserves
<1>3. /\ ~calm' \/ receiver' = "cold" \/ phase' = "setup" => wrongFor' = 0
      /\ phase' = "read" => stall' = 0
  BY <1>1
<1>4. /\ wrongFor \in Nat /\ second \in 0 .. Day - 1 /\ marker \in -1 .. Period
      /\ stall \in 0 .. MaxStall /\ wrongFor' \in Nat
  <2>1. wrongFor' \in Nat
    BY <1>2, SMT DEF IInv, TypeOK
  <2> QED BY <2>1, Types DEF IInv
<1>5. wrongFor' <= wrongFor + 1 /\ (wrongFor' # 0 => Wrong /\ On /\ phase = "rest")
  <2>1. CASE calm /\ receiver = "warm" /\ phase = "rest" /\ Wrong
    <3>1. wrongFor' = Older(wrongFor, RecoveryLimit + 1)
      BY <1>1, <2>1
    <3>2. wrongFor' <= wrongFor + 1
      BY <1>4, <3>1, SMT DEF Older
    <3> QED BY <2>1, <3>2 DEF On
  <2>2. CASE ~(calm /\ receiver = "warm" /\ phase = "rest" /\ Wrong)
    <3>1. wrongFor' = 0
      BY <1>1, <2>2
    <3>2. wrongFor' <= wrongFor + 1
      BY <1>4, <3>1, SMT
    <3> QED BY <3>1, <3>2
  <2> QED BY <2>1, <2>2
<1>6. On /\ Wrong => FirstWait \/ SecondWait
  BY DEF RecoveryInv, ClockWaits
<1>7. WrongBound'
  <2>1. CASE wrongFor' = 0
    BY <2>1, SMT DEF WrongBound
  <2>2. CASE wrongFor' # 0
    <3>1. wrongFor + 1 <= RecoveryLimit
      BY <1>1, <1>5, <1>6, <2>2, WaitEnds
    <3> QED BY <1>4, <1>5, <3>1, SMT DEF WrongBound
  <2> QED BY <2>1, <2>2
<1>8. ASSUME On'
      PROVE  DateKnown' /\ ClockWaits'
  <2>1. On /\ phase = "rest" /\ receiver = "warm" /\ coming' = "RMC" /\ phase' # "setup"
    BY <1>1, <1>8 DEF On, IInv, TypeOK
  <2>2. DateKnown'
    BY <1>5, <2>1, TickDateKnown DEF RecoveryInv, DateKnown
  <2>3. MaxStall + 1 \in Nat /\ Period + 2 * MaxStall + 1 \in Nat
    BY SMT
  <2>4. uart' = << >> <=> uart = << >>
    BY AfterTick
  <2>5. Regular => Regular'
    <3>1. Regular /\ uart = << >> => stall = 0
      <4>1. ~(stall > 0) => stall = 0
        BY <1>4, SMT
      <4> QED BY <1>1, <2>1, <4>1 DEF Regular
    <3>2. stall = 0 => stall' = 1
      BY <1>1, SMT
    <3> QED BY <2>1, <2>4, <3>1, <3>2 DEF Regular
  <2>6. CASE wrongFor' = 0
    BY <1>2, <2>1, <2>2, <2>6, NotWrongYet DEF ClockWaits
  <2>7. CASE wrongFor' # 0
    <3>1. ASSUME FirstWait
          PROVE  ClockWaits'
      <4>1. Wait(wrongFor, MaxStall + 1)'
        BY <1>5, <2>1, <2>3, <3>1, WaitTick DEF FirstWait
      <4>2. CASE Regular
        BY <2>5, <4>1, <4>2 DEF FirstWait, ClockWaits
      <4>3. CASE ~Regular
        <5>1. wrongFor = 0
          BY <1>1, <3>1, <4>3 DEF FirstWait
        <5>2. wrongFor' = 1
          BY <1>4, <1>5, <2>7, <5>1, SMT
        <5> QED BY <2>1, <4>1, <5>2 DEF FirstWait, ClockWaits
      <4> QED BY <4>2, <4>3
    <3>2. ASSUME SecondWait
          PROVE  ClockWaits'
      <4>1. Wait(wrongFor, Period + 2 * MaxStall + 1)' /\ Wait(second, MaxStall + 1)'
        BY <1>5, <2>1, <2>3, <3>2, WaitTick DEF SecondWait
      <4>2. second' # 0
        <5>1. second # Day - 1
          BY <1>1, <2>1, <3>2, WaitEnds
        <5> QED BY <1>1, <1>4, <5>1, SMT
      <4>3. Settled => Settled'
        BY <1>5, <2>1, <4>2, AfterTick, TickDateKnown DEF Settled
      <4>4. Settling => Settling'
        BY <1>1, <1>5, <2>1, <2>4, TickDateKnown DEF Settling
      <4>5. Regular'
        BY <2>5, <3>2 DEF SecondWait
      <4> QED BY <3>2, <4>1, <4>3, <4>4, <4>5 DEF SecondWait, ClockWaits
    <3> QED BY <1>5, <1>6, <2>2, <2>7, <3>1, <3>2
  <2> QED BY <2>2, <2>6, <2>7
<1> QED BY <1>3, <1>7, <1>8 DEF RecoveryInv

-------------------------------------------------------------------------------
LEMMA NextRecovery == IInv /\ NearInv /\ RecoveryInv /\ [Next]_vars => RecoveryInv'
<1> SUFFICES ASSUME IInv, NearInv, RecoveryInv, [Next]_vars PROVE RecoveryInv'
  OBVIOUS
<1>1. CASE UNCHANGED vars
  <2>1. UNCHANGED <<phase, second, lag, receiver, coming, uart, gnss, marker, calm,
                    stall, wrongFor>>
    BY <1>1 DEF vars
  <2>2. TimeAfter' = TimeAfter /\ \A d : DateAfter(d) <=> DateAfter(d)'
    BY <2>1 DEF TimeAfter, DateAfter, Dated
  <2>3. On' <=> On
    BY <2>1 DEF On
  <2>4. Sound' <=> Sound
    BY <2>1, <2>2 DEF Sound
  <2>5. Leftover' <=> Leftover
    BY <2>1 DEF Leftover
  <2>6. AfterMidnight' <=> AfterMidnight
    BY <2>1 DEF AfterMidnight
  <2>7. FirstWait' <=> FirstWait
    BY <2>1 DEF FirstWait, Wait, ToBeUsed, Regular
  <2>8. SecondWait' <=> SecondWait
    BY <2>1, <2>2, <2>4, <2>6
       DEF SecondWait, Wait, ToBeUsed, Regular, Settled, Settling
  <2> QED BY <2>1, <2>3, <2>4, <2>5, <2>6, <2>7, <2>8
          DEF RecoveryInv, DateKnown, ClockWaits, Wrong, WrongBound
<1>2. CASE NtpAnswer \/ NoNtp \/ Learn \/ CalmDown \/ Reset
  BY <1>2, SetupRecovery
<1>3. CASE BeginPass
  BY <1>3, BeginPassRecovery
<1>4. CASE ReadSentence
  BY <1>4, ReadSentenceRecovery
<1>5. CASE GNSSTimeSync
  BY <1>5, GNSSTimeSyncRecovery
<1>6. CASE Arrive
  BY <1>6, ArriveRecovery
<1>7. CASE Tick
  BY <1>7, TickRecovery
<1> QED BY <1>1, <1>2, <1>3, <1>4, <1>5, <1>6, <1>7 DEF Next

(* Undisturbed, the clock is right again after two periods and three        *)
(* stalls, whatever the periods, the stalls and the buffer: what damaged    *)
(* sentences and resets left is used at most once, a midnight costs at most *)
(* one more period.                                                        *)
THEOREM ClockWrongBound == Spec => []WrongBound
<1>1. Init => IInv /\ NearInv /\ RecoveryInv
  BY InitIInv, InitNear, InitRecovery
<1>2. IInv /\ NearInv /\ RecoveryInv /\ [Next]_vars => IInv' /\ NearInv' /\ RecoveryInv'
  BY NextPreserves, NextNear, NextRecovery
<1>3. RecoveryInv => WrongBound
  BY DEF RecoveryInv
<1> QED BY <1>1, <1>2, <1>3, PTL DEF Spec

===============================================================================
