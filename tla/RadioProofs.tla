------------------------------ MODULE RadioProofs ------------------------------
(***************************************************************************)
(* Theorems about the radio driver, for any channels, any number of packets *)
(* and any order of passes, interrupts and slots.  The scheduler and the    *)
(* transceiver go together through six modes: in each it is fixed which jobs *)
(* wait, which function "os" will call and what the flags can be (Modes).   *)
(* The packets in the buffers are newer than everything delivered or sent   *)
(* before (Packets).                                                       *)
(***************************************************************************)
EXTENDS Radio, SequenceTheorems, TLAPS

(* Nothing under way: before the first reception, after a change of the     *)
(* channel, after a packet or a transmission.                              *)
Idle(d) ==
  /\ d.op = "sleep" /\ d.flags = "none" /\ ~d.edge
  /\ d.jobs = << >> /\ ~d.active

(* The receiver works.  A packet that was fetched before a change of the    *)
(* channel ends the reception started after it: then nobody waits for it.  *)
Listening(d) ==
  /\ d.op = "rx" /\ d.func = "rx" /\ d.tuned # NoChannel
  /\ d.flags # "sent"
  /\ d.flags = "ready" => d.edge \/ d.jobs = <<"irq">>
  /\ d.jobs = << >> \/ (d.jobs = <<"irq">> /\ d.active)
  /\ d.active => d.tuned = d.channel

(* A packet is read out, its callback is queued.                           *)
Fetched(d) ==
  /\ d.op = "sleep" /\ d.func = "rx" /\ d.flags = "none" /\ ~d.edge
  /\ d.jobs = <<"os">>

(* A transmission is queued; the receiver may still work.                  *)
Waiting(d) ==
  /\ ~d.active /\ ~d.sent
  /\ d.jobs = <<"tx">> \/ d.jobs = <<"tx", "irq">>
  /\ \/ d.op = "sleep" /\ d.flags = "none"
     \/ d.op = "rx" /\ d.tuned # NoChannel /\ d.flags # "sent"
  /\ d.flags = "ready" => d.edge \/ d.jobs = <<"tx", "irq">>

Sending(d) ==
  /\ d.op = "tx" /\ d.func = "txdone" /\ d.tuned # NoChannel
  /\ ~d.active /\ ~d.sent
  /\ \/ d.flags = "none" /\ ~d.edge /\ d.jobs = << >>
     \/ d.flags = "sent" /\ d.edge /\ d.jobs = << >>
     \/ d.flags = "sent" /\ d.jobs = <<"irq">>

(* The end of the transmission is found, its callback is queued.           *)
SentDone(d) ==
  /\ d.op = "sleep" /\ d.func = "txdone" /\ d.flags = "none" /\ ~d.edge
  /\ d.jobs = <<"os">> /\ ~d.active /\ ~d.sent

Modes ==
  IF pc = "transmit" THEN Waiting(drv) \/ Sending(drv) \/ SentDone(drv)
  ELSE Idle(drv) \/ Listening(drv) \/ Fetched(drv)

(* What has happened before the first pass of ground() is over, and before  *)
(* the channel is known.                                                   *)
Start ==
  /\ ~RF_ready => newSlot /\ Idle(drv)
  /\ RF_ready => drv.channel # NoChannel
  /\ pc \in {"parse", "transmit"} => RF_ready
  /\ ~groundstation => delivered = << >> /\ pc \in {"loop", "ground", "transmit"}
  /\ ~groundstation /\ pc # "transmit" => Idle(drv) /\ aired = << >>

NewerThanDelivered(n) == \A i \in DOMAIN delivered : delivered[i] < n

NewerThanAired(n) == \A i \in DOMAIN aired : aired[i].packet < n

WasDelivered(n) == \E i \in DOMAIN delivered : delivered[i] = n

Packets ==
  /\ drv.flags = "ready" => drv.fifo = heard /\ heard > 0 /\ NewerThanDelivered(heard)
  /\ Fetched(drv) => drv.frame \in 1 .. heard /\ NewerThanDelivered(drv.frame)
  /\ pc = "parse" =>
       /\ drv.jobs = << >> /\ ~drv.active
       /\ drv.frame > 0 /\ WasDelivered(drv.frame) /\ NewerThanAired(drv.frame)
  /\ pc = "transmit" /\ Waiting(drv) =>
       \/ TxBuffer = Own /\ aired = << >>
       \/ ognrelay_enable /\ TxBuffer > 0 /\ WasDelivered(TxBuffer) /\ NewerThanAired(TxBuffer)

IInv == TypeOK /\ Modes /\ Start /\ Packets /\ DeliveredOnce /\ RelayedOnce

-------------------------------------------------------------------------------
(* The queue: never more than two jobs, so every case of unlinkjob is here. *)

LEMMA WithoutNone == \A job : Without(<< >>, job) = << >>
BY SMT DEF Without

LEMMA WithoutOnly == \A job : Without(<<job>>, job) = << >>
BY SMT DEF Without

LEMMA WithoutOther == ASSUME NEW a, NEW b, a # b PROVE Without(<<a>>, b) = <<a>>
BY SMT DEF Without

LEMMA WithoutSecond ==
  ASSUME NEW a, NEW b, a # b PROVE Without(<<a, b>>, b) = <<a>>
BY SMT DEF Without

(* The five queues that occur are queues of jobs; their heads and tails.    *)
LEMMA Queues ==
  /\ << >> \in Seq(Jobs) /\ <<"irq">> \in Seq(Jobs) /\ <<"os">> \in Seq(Jobs)
  /\ <<"tx">> \in Seq(Jobs) /\ <<"tx", "irq">> \in Seq(Jobs)
  /\ Append(<< >>, "irq") = <<"irq">> /\ Append(<< >>, "os") = <<"os">>
  /\ Append(<< >>, "tx") = <<"tx">> /\ Append(<<"tx">>, "irq") = <<"tx", "irq">>
  /\ Head(<<"irq">>) = "irq" /\ Head(<<"os">>) = "os" /\ Head(<<"tx">>) = "tx"
  /\ Head(<<"tx", "irq">>) = "tx"
  /\ Tail(<<"irq">>) = << >> /\ Tail(<<"os">>) = << >> /\ Tail(<<"tx">>) = << >>
  /\ Tail(<<"tx", "irq">>) = <<"irq">>
  /\ <<"irq">> # << >> /\ <<"os">> # << >> /\ <<"tx">> # << >> /\ <<"tx", "irq">> # << >>
  /\ <<"irq">> # <<"os">> /\ <<"irq">> # <<"tx">> /\ <<"os">> # <<"tx">>
  /\ <<"irq">> # <<"tx", "irq">> /\ <<"os">> # <<"tx", "irq">> /\ <<"tx">> # <<"tx", "irq">>
<1>1. Jobs = {"irq", "os", "tx"}
  BY DEF Jobs
<1>2. << >> \in Seq(Jobs) /\ <<"irq">> \in Seq(Jobs) /\ <<"os">> \in Seq(Jobs)
  BY <1>1, SMT
<1>3. <<"tx">> \in Seq(Jobs) /\ <<"tx", "irq">> \in Seq(Jobs)
  BY <1>1, SMT
<1>4. /\ Append(<< >>, "irq") = <<"irq">> /\ Append(<< >>, "os") = <<"os">>
      /\ Append(<< >>, "tx") = <<"tx">>
  BY SMT
<1>5. Append(<<"tx">>, "irq") = <<"tx", "irq">>
  <2> DEFINE s == Append(<<"tx">>, "irq")
             t == <<"tx", "irq">>
  <2>1. s \in Seq({"tx", "irq"}) /\ t \in Seq({"tx", "irq"}) /\ Len(s) = 2 /\ Len(t) = 2
    BY SMT
  <2>2. \A i \in 1 .. 2 : s[i] = t[i]
    BY SMT
  <2> HIDE DEF s, t
  <2>3. s = t
    BY <2>1, <2>2, SeqEqual
  <2> QED BY <2>3 DEF s, t
<1> QED BY <1>2, <1>3, <1>4, <1>5, SMT

(* The same for Without.                                                   *)
LEMMA Unlinked ==
  /\ Without(<< >>, "irq") = << >> /\ Without(<< >>, "os") = << >>
  /\ Without(<< >>, "tx") = << >> /\ Without(<<"irq">>, "irq") = << >>
  /\ Without(<<"os">>, "irq") = <<"os">> /\ Without(<<"tx">>, "irq") = <<"tx">>
  /\ Without(<<"tx", "irq">>, "irq") = <<"tx">>
<1>1. "os" # "irq" /\ "tx" # "irq" OBVIOUS
<1> QED BY <1>1, WithoutNone, WithoutOnly, WithoutOther, WithoutSecond

-------------------------------------------------------------------------------
(* What the operations do to a driver in each mode. *)

(* The poll.                                                               *)
LEMMA PollsQuiet == ASSUME NEW d \in Driver, ~d.edge PROVE Poll(d) = d
BY Zenon DEF Poll

LEMMA Polls ==
  ASSUME NEW d \in Driver, d.edge, d.jobs \in {<< >>, <<"irq">>}
  PROVE  Poll(d) = [d EXCEPT !.edge = FALSE, !.jobs = <<"irq">>]
<1>1. Append(Without(d.jobs, "irq"), "irq") = <<"irq">>
  BY Unlinked, Queues, Zenon
<1> QED BY <1>1, Zenon DEF Poll, Driver

(* A reception starts from a quiet driver.                                 *)
LEMMA Starts ==
  ASSUME NEW d \in Driver, d.jobs = << >>, ~d.active, d.channel # NoChannel
  PROVE  LET e == startReceive(d)
         IN  /\ e \in Driver /\ Listening(e) /\ e.active /\ ~e.received
             /\ e.jobs = << >> /\ e.flags = "none" /\ e.channel = d.channel
<1> DEFINE e == startReceive(d)
<1>1. e = [d EXCEPT !.received = FALSE, !.func = "rx", !.op = "rx", !.flags = "none",
                    !.edge = FALSE, !.jobs = << >>, !.tuned = d.channel, !.active = TRUE]
  BY Unlinked, Zenon DEF startReceive, os_radio, radio_stop, Driver
<1>2. e \in Driver
  BY <1>1, Queues, Zenon DEF Driver
<1> QED BY <1>1, <1>2, SMT DEF Listening, Driver

(* One that is under way only forgets the packet returned last.            *)
LEMMA StaysStarted ==
  ASSUME NEW d \in Driver, d.active
  PROVE  startReceive(d) = [d EXCEPT !.received = FALSE]
BY SMT DEF startReceive, Driver

(* A packet was read out, and the channel changed, before its callback ran. *)
LEMMA StartsLate ==
  ASSUME NEW d \in Driver, Fetched(d), ~d.active
  PROVE  LET e == startReceive(d)
         IN  /\ e \in Driver /\ e.op = "rx" /\ e.func = "rx" /\ e.tuned = d.channel
             /\ e.flags = "none" /\ ~e.edge /\ e.jobs = <<"os">>
             /\ e.frame = d.frame /\ e.channel = d.channel
<1> DEFINE e == startReceive(d)
<1>1. e = [d EXCEPT !.received = FALSE, !.func = "rx", !.op = "rx", !.flags = "none",
                    !.edge = FALSE, !.jobs = <<"os">>, !.tuned = d.channel, !.active = TRUE]
  BY Unlinked, Zenon DEF startReceive, os_radio, radio_stop, Driver, Fetched
<1>2. e \in Driver
  BY <1>1, Queues, Zenon DEF Driver
<1> QED BY <1>1, <1>2, SMT DEF Driver

(* A pass without a job.                                                   *)
LEMMA StepQuiet ==
  ASSUME NEW d \in Driver, Listening(d), d.active, ~d.received, d.jobs = << >>, NEW bad
  PROVE  LET e == os_runstep(d, bad)
         IN  /\ e \in Driver /\ Listening(e) /\ e.active /\ ~e.received
             /\ e.flags = d.flags /\ e.fifo = d.fifo /\ e.channel = d.channel
<1> DEFINE e == os_runstep(d, bad)
<1>1. e = Poll(d)
  BY Zenon DEF os_runstep
<1>2. CASE d.edge
  <2>1. e = [d EXCEPT !.edge = FALSE, !.jobs = <<"irq">>]
    BY <1>1, <1>2, Polls
  <2>2. e \in Driver
    BY <2>1, Queues, Zenon DEF Driver
  <2> QED BY <2>1, <2>2, SMT DEF Listening, Driver
<1>3. CASE ~d.edge
  BY <1>1, <1>3, PollsQuiet, Zenon
<1> QED BY <1>2, <1>3

(* The job "irq" once it is taken from the queue.                          *)
LEMMA TakesIrq ==
  ASSUME NEW d \in Driver, d.jobs = <<"irq">>, NEW bad
  PROVE  \E p \in Driver :
           /\ os_runstep(d, bad) = irq_func(p)
           /\ p = [d EXCEPT !.edge = FALSE, !.jobs = p.jobs]
           /\ p.jobs = IF d.edge THEN <<"irq">> ELSE << >>
<1> DEFINE t == [d EXCEPT !.jobs = << >>]
           p == [d EXCEPT !.edge = FALSE, !.jobs = IF d.edge THEN <<"irq">> ELSE << >>]
<1>1. t \in Driver /\ p \in Driver /\ t.edge = d.edge /\ t.jobs = << >>
  BY Queues, Zenon DEF Driver
<1>2. os_runstep(d, bad) = irq_func(Poll(t))
  BY Queues, Zenon DEF os_runstep
<1>3. Poll(t) = p
  <2>1. CASE d.edge
    <3>1. Poll(t) = [t EXCEPT !.edge = FALSE, !.jobs = <<"irq">>]
      BY <1>1, <2>1, Polls
    <3> QED BY <3>1, <2>1, Zenon DEF Driver
  <2>2. CASE ~d.edge
    <3>1. Poll(t) = t
      BY <1>1, <2>2, PollsQuiet
    <3>2. d.edge = FALSE
      BY <2>2, Zenon DEF Driver
    <3> QED BY <3>1, <3>2, Zenon DEF Driver
  <2> QED BY <2>1, <2>2
<1>4. p = [d EXCEPT !.edge = FALSE, !.jobs = p.jobs] /\ p.jobs = IF d.edge THEN <<"irq">> ELSE << >>
  BY Zenon DEF Driver
<1> QED BY <1>1, <1>2, <1>3, <1>4, Zenon

(* What is found to be finished has its callback queued.                   *)
LEMMA Fetches ==
  ASSUME NEW p \in Driver, p.flags = "ready", p.jobs \in {<< >>, <<"irq">>}
  PROVE  irq_func(p) = [p EXCEPT !.frame = p.fifo, !.op = "sleep", !.flags = "none",
                                 !.edge = FALSE, !.jobs = <<"os">>]
<1> DEFINE r == radio_stop([p EXCEPT !.frame = p.fifo])
           e == [r EXCEPT !.jobs = <<"os">>]
<1>1. r = [p EXCEPT !.frame = p.fifo, !.op = "sleep", !.flags = "none",
                    !.edge = FALSE, !.jobs = << >>]
  BY Unlinked, Zenon DEF radio_stop, Driver
<1>2. e = [p EXCEPT !.frame = p.fifo, !.op = "sleep", !.flags = "none",
                    !.edge = FALSE, !.jobs = <<"os">>]
  BY <1>1, Zenon DEF Driver
<1>3. e \in Driver /\ ~e.edge
  BY <1>2, Queues, Zenon DEF Driver
<1>4. r.jobs = << >>
  BY <1>1, Zenon DEF Driver
<1>5. Append(Without(r.jobs, "os"), "os") = <<"os">>
  BY <1>4, Unlinked, Queues
<1>6. irq_func(p) = Poll(e)
  BY <1>5, Zenon DEF irq_func, setCallback
<1> QED BY <1>2, <1>3, <1>6, PollsQuiet

LEMMA Finishes ==
  ASSUME NEW p \in Driver, p.flags = "sent", p.jobs \in {<< >>, <<"irq">>}
  PROVE  irq_func(p) = [p EXCEPT !.op = "sleep", !.flags = "none", !.edge = FALSE,
                                 !.jobs = <<"os">>]
<1> DEFINE r == radio_stop(p)
           e == [r EXCEPT !.jobs = <<"os">>]
<1>1. r = [p EXCEPT !.op = "sleep", !.flags = "none", !.edge = FALSE, !.jobs = << >>]
  BY Unlinked, Zenon DEF radio_stop, Driver
<1>2. e = [p EXCEPT !.op = "sleep", !.flags = "none", !.edge = FALSE, !.jobs = <<"os">>]
  BY <1>1, Zenon DEF Driver
<1>3. e \in Driver /\ ~e.edge
  BY <1>2, Queues, Zenon DEF Driver
<1>4. r.jobs = << >>
  BY <1>1, Zenon DEF Driver
<1>5. Append(Without(r.jobs, "os"), "os") = <<"os">>
  BY <1>4, Unlinked, Queues
<1>6. irq_func(p) = Poll(e)
  BY <1>5, Zenon DEF irq_func, setCallback
<1> QED BY <1>2, <1>3, <1>6, PollsQuiet

(* A pass that looks at the flags reads the packet out, or goes on.         *)
LEMMA StepIrq ==
  ASSUME NEW d \in Driver, Listening(d), d.active, ~d.received, d.jobs = <<"irq">>, NEW bad
  PROVE  LET e == os_runstep(d, bad)
         IN  /\ e \in Driver /\ ~e.received /\ e.channel = d.channel
             /\ \/ d.flags = "ready" /\ Fetched(e) /\ e.frame = d.fifo
                \/ Listening(e) /\ e.active /\ e.flags # "ready"
<1> DEFINE e == os_runstep(d, bad)
<1>1. PICK p \in Driver : /\ e = irq_func(p)
                          /\ p = [d EXCEPT !.edge = FALSE, !.jobs = p.jobs]
                          /\ p.jobs = IF d.edge THEN <<"irq">> ELSE << >>
  BY TakesIrq
<1>2. /\ p.flags = d.flags /\ p.fifo = d.fifo /\ p.received = d.received
      /\ p.channel = d.channel /\ p.op = d.op /\ p.func = d.func
      /\ p.tuned = d.tuned /\ p.active = d.active
  BY <1>1, Zenon DEF Driver
<1>3. CASE d.flags = "ready"
  <2>1. e = [p EXCEPT !.frame = p.fifo, !.op = "sleep", !.flags = "none",
                      !.edge = FALSE, !.jobs = <<"os">>]
    BY <1>1, <1>2, <1>3, Fetches, Zenon
  <2>2. e \in Driver
    BY <2>1, Queues, Zenon DEF Driver
  <2> QED BY <2>1, <2>2, <1>2, <1>3, SMT DEF Fetched, Listening, Driver
<1>4. CASE d.flags # "ready"
  <2>1. d.flags # "sent"
    BY DEF Listening
  <2>2. e = p
    BY <1>1, <1>2, <1>4, <2>1, Zenon DEF irq_func
  <2> QED BY <2>2, <1>1, <1>2, <1>4, Zenon DEF Listening
<1> QED BY <1>3, <1>4

(* The callback of the reception: the packet is returned if it is whole.    *)
LEMMA StepReceived ==
  ASSUME NEW d \in Driver, d.jobs = <<"os">>, d.func = "rx", d.flags = "none", ~d.edge,
         d.op = "sleep" \/ (d.op = "rx" /\ d.tuned # NoChannel), NEW bad
  PROVE  LET e == os_runstep(d, bad)
         IN  /\ e \in Driver /\ (Idle(e) \/ Listening(e))
             /\ e.jobs = << >> /\ ~e.active /\ e.flags = "none"
             /\ e.frame = d.frame /\ e.received = (d.frame \notin bad)
             /\ e.channel = d.channel
<1> DEFINE e == os_runstep(d, bad)
<1>1. e = [d EXCEPT !.jobs = << >>, !.active = FALSE, !.received = d.frame \notin bad]
  BY Queues, SMT DEF os_runstep, Poll, rx_func, Driver
<1>2. e \in Driver
  BY <1>1, Queues, Zenon DEF Driver
<1> QED BY <1>1, <1>2, SMT DEF Idle, Listening, Driver

(* A transmission is queued; what the receiver had found is still to come.  *)
LEMMA StartsTransmit ==
  ASSUME NEW d \in Driver, d.jobs = << >>, Idle(d) \/ Listening(d)
  PROVE  LET e == startTransmit(d)
         IN  /\ e \in Driver /\ Waiting(e) /\ e.channel = d.channel
             /\ e.flags = d.flags /\ e.fifo = d.fifo /\ e.op = d.op
<1> DEFINE q == [d EXCEPT !.sent = FALSE, !.active = FALSE, !.jobs = <<"tx">>]
           e == startTransmit(d)
<1>1. q \in Driver /\ q.edge = d.edge /\ q.jobs = <<"tx">>
  BY Queues, Zenon DEF Driver
<1>2. e = Poll(q)
  <2>1. Append(Without(d.jobs, "tx"), "tx") = <<"tx">>
    BY Unlinked, Queues
  <2> QED BY <2>1, Zenon DEF startTransmit, setCallback, Driver
<1>3. CASE d.edge
  <2>1. Append(Without(q.jobs, "irq"), "irq") = <<"tx", "irq">>
    BY <1>1, Unlinked, Queues
  <2>2. e = [d EXCEPT !.sent = FALSE, !.active = FALSE, !.edge = FALSE, !.jobs = <<"tx", "irq">>]
    BY <1>1, <1>2, <1>3, <2>1, Zenon DEF Poll, Driver
  <2>3. e \in Driver
    BY <2>2, Queues, Zenon DEF Driver
  <2> QED BY <2>2, <2>3, <1>3, SMT DEF Waiting, Idle, Listening, Driver
<1>4. CASE ~d.edge
  <2>1. e = q
    BY <1>1, <1>2, <1>4, PollsQuiet
  <2> QED BY <2>1, <1>1, <1>4, Queues, SMT DEF Waiting, Idle, Listening, Driver
<1> QED BY <1>3, <1>4

(* Without a receiver under way a new channel is only noted.               *)
LEMMA NotesChannel ==
  ASSUME NEW d \in Driver, ~d.active, NEW c \in Channels
  PROVE  sx12xx_channel(d, c) = [d EXCEPT !.channel = c]
BY Zenon DEF sx12xx_channel, Driver

(* The job of a transmission starts it on the channel set at its start.     *)
LEMMA StepTransmit ==
  ASSUME NEW d \in Driver, Waiting(d), d.channel # NoChannel, NEW bad
  PROVE  LET e == os_runstep(d, bad)
         IN  /\ e \in Driver /\ Sending(e) /\ e.channel = 0 /\ e.flags = "none"
             /\ e.tuned = IF ognrelay_enable THEN RELAY_CHANNEL ELSE d.channel
<1> DEFINE t == [d EXCEPT !.jobs = Tail(@)]
           p == Poll(t)
           c == IF ognrelay_enable THEN RELAY_CHANNEL ELSE d.channel
           away == [p EXCEPT !.channel = c]
           e == os_runstep(d, bad)
<1>1. t \in Driver /\ t.jobs \in {<< >>, <<"irq">>} /\ ~t.active /\ ~t.sent /\ t.channel = d.channel
  <2>1. Tail(d.jobs) \in {<< >>, <<"irq">>}
    BY Queues, Zenon DEF Waiting
  <2> QED BY <2>1, Queues, Zenon DEF Waiting, Driver
<1>2. e = tx_func(p)
  BY Queues, Zenon DEF os_runstep, Waiting
<1>3. p \in Driver /\ p.jobs \in {<< >>, <<"irq">>} /\ ~p.active /\ ~p.sent /\ p.channel = d.channel
  <2>1. CASE t.edge
    <3>1. p = [t EXCEPT !.edge = FALSE, !.jobs = <<"irq">>]
      BY <1>1, <2>1, Polls
    <3> QED BY <3>1, <1>1, Queues, Zenon DEF Driver
  <2>2. CASE ~t.edge
    BY <1>1, <2>2, PollsQuiet, Zenon
  <2> QED BY <2>1, <2>2
<1> HIDE DEF p
<1>4. /\ 0 \in Channels /\ RELAY_CHANNEL \in Channels
      /\ c \in Channels /\ RELAY_CHANNEL # NoChannel
  BY ChannelAssumption, SMT DEF Channels, Driver, NoChannel
<1>5. (IF ognrelay_enable THEN sx12xx_channel(p, RELAY_CHANNEL) ELSE p) = away
  <2>1. CASE ognrelay_enable
    BY <1>3, <1>4, <2>1, NotesChannel, Zenon
  <2>2. CASE ~ognrelay_enable
    BY <1>3, <2>2, Zenon DEF Driver
  <2> QED BY <2>1, <2>2
<1>6. away \in Driver /\ away.jobs = p.jobs /\ ~away.active /\ ~away.sent /\ away.channel = c
  BY <1>3, <1>4, Zenon DEF Driver
<1>7. c # NoChannel
  BY <1>4
<1> HIDE DEF away, c
<1> DEFINE r == [radio_stop(away) EXCEPT !.frame = Own, !.func = "txdone"]
           s == os_radio(r, "tx")
<1>8. /\ r = [away EXCEPT !.op = "sleep", !.flags = "none", !.edge = FALSE, !.jobs = << >>,
                          !.frame = Own, !.func = "txdone"]
      /\ r.jobs = << >> /\ r.channel = c
  <2>1. Without(away.jobs, "irq") = << >>
    BY <1>3, <1>6, Unlinked, Zenon
  <2> QED BY <2>1, <1>6, Zenon DEF radio_stop, Driver
<1>9. s = [away EXCEPT !.op = "tx", !.flags = "none", !.edge = FALSE, !.jobs = << >>,
                       !.frame = Own, !.func = "txdone", !.tuned = c]
  <2>1. radio_stop(r) = r
    <3>1. Without(r.jobs, "irq") = << >>
      BY <1>8, Unlinked, Zenon
    <3> QED BY <3>1, <1>8, <1>6, Zenon DEF radio_stop, Driver
  <2>2. s = [r EXCEPT !.op = "tx", !.tuned = r.channel]
    BY <2>1, Zenon DEF os_radio
  <2> HIDE DEF r, s
  <2> QED BY <2>2, <1>8, <1>6, Zenon DEF Driver
<1> HIDE DEF s
<1>10. s \in Driver
  <2>1. Own \in Nat
    BY DEF Own
  <2> QED BY <2>1, <1>6, <1>9, <1>4, Queues, Zenon DEF Driver
<1>11. e = sx12xx_channel(s, 0)
  BY <1>2, <1>5, Zenon DEF tx_func, s
<1>12. /\ s.op = "tx" /\ s.func = "txdone" /\ s.tuned = c /\ s.flags = "none"
       /\ s.edge = FALSE /\ s.jobs = << >> /\ s.active = FALSE /\ s.sent = FALSE
  BY <1>6, <1>9, Zenon DEF Driver
<1>13. e = [s EXCEPT !.channel = 0]
  BY <1>10, <1>11, <1>12, <1>4, NotesChannel, Zenon
<1>14. e \in Driver
  BY <1>10, <1>13, <1>4, Zenon DEF Driver
<1>15. /\ e.op = "tx" /\ e.func = "txdone" /\ e.tuned = c /\ e.flags = "none"
       /\ e.edge = FALSE /\ e.jobs = << >> /\ e.active = FALSE /\ e.sent = FALSE
       /\ e.channel = 0
  BY <1>10, <1>12, <1>13, Zenon DEF Driver
<1> QED BY <1>7, <1>14, <1>15, Zenon DEF Sending, c

(* While it runs the flags are polled, and its end has the callback queued. *)
LEMMA StepSending ==
  ASSUME NEW d \in Driver, Sending(d), NEW bad
  PROVE  LET e == os_runstep(d, bad)
         IN  /\ e \in Driver /\ e.channel = d.channel
             /\ \/ Sending(e)
                \/ d.flags = "sent" /\ SentDone(e)
<1> DEFINE e == os_runstep(d, bad)
<1>1. CASE d.jobs = << >>
  <2>1. e = Poll(d)
    BY <1>1, Zenon DEF os_runstep
  <2>2. CASE d.edge
    <3>1. e = [d EXCEPT !.edge = FALSE, !.jobs = <<"irq">>]
      BY <1>1, <2>1, <2>2, Polls
    <3>2. e \in Driver
      BY <3>1, Queues, Zenon DEF Driver
    <3> QED BY <3>1, <3>2, <2>2, SMT DEF Sending, Driver
  <2>3. CASE ~d.edge
    BY <2>1, <2>3, PollsQuiet, Zenon
  <2> QED BY <2>2, <2>3
<1>2. CASE d.jobs = <<"irq">>
  <2>1. PICK p \in Driver : /\ e = irq_func(p)
                            /\ p = [d EXCEPT !.edge = FALSE, !.jobs = p.jobs]
                            /\ p.jobs = IF d.edge THEN <<"irq">> ELSE << >>
    BY <1>2, TakesIrq
  <2>2. d.flags = "sent" /\ p.flags = "sent"
    BY <1>2, <2>1, Queues, Zenon DEF Sending, Driver
  <2>3. p.func = d.func /\ p.active = d.active /\ p.sent = d.sent /\ p.channel = d.channel
    BY <2>1, Zenon DEF Driver
  <2>4. e = [p EXCEPT !.op = "sleep", !.flags = "none", !.edge = FALSE, !.jobs = <<"os">>]
    BY <2>1, <2>2, Finishes, Zenon
  <2>5. e \in Driver
    BY <2>4, Queues, Zenon DEF Driver
  <2> QED BY <2>2, <2>3, <2>4, <2>5, SMT DEF SentDone, Sending, Driver
<1> QED BY <1>1, <1>2 DEF Sending

LEMMA StepSent ==
  ASSUME NEW d \in Driver, SentDone(d), NEW bad
  PROVE  LET e == os_runstep(d, bad)
         IN  e \in Driver /\ Idle(e) /\ e.sent /\ e.channel = d.channel
<1> DEFINE e == os_runstep(d, bad)
<1>1. d.jobs = <<"os">> /\ d.func = "txdone"
  BY DEF SentDone
<1>2. e = [d EXCEPT !.jobs = << >>, !.sent = TRUE]
  BY <1>1, Queues, Zenon DEF os_runstep, Poll, SentDone, Driver
<1>3. e \in Driver
  BY <1>2, Queues, Zenon DEF Driver
<1> QED BY <1>2, <1>3, Zenon DEF Idle, SentDone, Driver

(* A change of the channel stops the receiver, but not the callback of a    *)
(* packet already read out.                                                *)
LEMMA SetsChannel ==
  ASSUME NEW d \in Driver, Idle(d) \/ Listening(d) \/ Fetched(d), NEW c \in Channels
  PROVE  LET e == sx12xx_channel(d, c)
         IN  /\ e \in Driver /\ e.channel = c
             /\ e = d \/ Idle(e) \/ (Listening(e) /\ e.flags = d.flags) \/ Fetched(e)
             /\ Idle(d) => Idle(e)
             /\ Fetched(e) => Fetched(d)
             /\ e.frame = d.frame /\ e.fifo = d.fifo
<1> DEFINE q == [radio_stop(d) EXCEPT !.active = FALSE]
           e == sx12xx_channel(d, c)
<1>1. CASE c = d.channel
  BY <1>1, Zenon DEF sx12xx_channel
<1>2. CASE c # d.channel /\ d.active
  <2>1. e = [q EXCEPT !.channel = c]
    BY <1>2, Zenon DEF sx12xx_channel
  <2>2. Without(d.jobs, "irq") = IF Fetched(d) THEN <<"os">> ELSE << >>
    BY <1>2, Unlinked, Queues, Zenon DEF Idle, Listening, Fetched
  <2>3. e = [d EXCEPT !.op = "sleep", !.flags = "none", !.edge = FALSE, !.active = FALSE,
                      !.jobs = IF Fetched(d) THEN <<"os">> ELSE << >>, !.channel = c]
    BY <2>1, <2>2, Zenon DEF radio_stop, Driver
  <2>4. e \in Driver
    BY <2>3, Queues, Zenon DEF Driver
  <2> QED BY <2>3, <2>4, <1>2, Queues, Zenon DEF Idle, Listening, Fetched, Driver
<1>3. CASE c # d.channel /\ ~d.active
  <2>1. e = [d EXCEPT !.channel = c]
    BY <1>3, NotesChannel
  <2>2. e \in Driver
    BY <2>1, Zenon DEF Driver
  <2> QED BY <2>1, <2>2, <1>3, Zenon DEF Idle, Listening, Fetched, Driver
<1> QED BY <1>1, <1>2, <1>3

(* RF_Receive: nothing yet, a packet read out, or a packet returned.        *)
LEMMA Receives ==
  ASSUME NEW d \in Driver, Idle(d) \/ Listening(d) \/ Fetched(d),
         d.channel # NoChannel, NEW bad
  PROVE  LET f == os_runstep(startReceive(d), bad)
         IN  /\ f \in Driver /\ f.channel = d.channel
             /\ \/ /\ Listening(f) /\ ~f.received
                   /\ f.flags = "ready" => d.flags = "ready" /\ f.fifo = d.fifo
                \/ /\ Fetched(f) /\ ~f.received
                   /\ d.flags = "ready" /\ f.frame = d.fifo
                \/ /\ Fetched(d) /\ (Idle(f) \/ Listening(f))
                   /\ f.jobs = << >> /\ ~f.active /\ f.flags = "none"
                   /\ f.frame = d.frame /\ f.received = (d.frame \notin bad)
<1> DEFINE e == startReceive(d)
           f == os_runstep(e, bad)
<1>1. CASE d.jobs = << >> /\ ~d.active
  <2>1. /\ e \in Driver /\ Listening(e) /\ e.active /\ ~e.received
        /\ e.jobs = << >> /\ e.flags = "none" /\ e.channel = d.channel
    BY <1>1, Starts
  <2> HIDE DEF e
  <2>2. /\ f \in Driver /\ Listening(f) /\ ~f.received
        /\ f.flags = e.flags /\ f.channel = e.channel
    BY <2>1, StepQuiet
  <2> QED BY <2>1, <2>2 DEF e
<1>2. CASE Listening(d) /\ d.active
  <2>1. e = [d EXCEPT !.received = FALSE]
    BY <1>2, StaysStarted
  <2>2. /\ e \in Driver /\ Listening(e) /\ e.active /\ ~e.received /\ e.jobs = d.jobs
        /\ e.flags = d.flags /\ e.fifo = d.fifo /\ e.channel = d.channel
    BY <2>1, <1>2, Zenon DEF Listening, Driver
  <2> HIDE DEF e
  <2>3. CASE e.jobs = << >>
    <3>1. /\ f \in Driver /\ Listening(f) /\ ~f.received
          /\ f.flags = e.flags /\ f.fifo = e.fifo /\ f.channel = e.channel
      BY <2>2, <2>3, StepQuiet
    <3> QED BY <3>1, <2>2 DEF e
  <2>4. CASE e.jobs = <<"irq">>
    <3>1. /\ f \in Driver /\ ~f.received /\ f.channel = e.channel
          /\ \/ e.flags = "ready" /\ Fetched(f) /\ f.frame = e.fifo
             \/ Listening(f) /\ f.flags # "ready"
      BY <2>2, <2>4, StepIrq
    <3> QED BY <3>1, <2>2 DEF e
  <2> QED BY <1>2, <2>2, <2>3, <2>4 DEF Listening
<1>3. CASE Fetched(d)
  <2>1. /\ e \in Driver /\ e.jobs = <<"os">> /\ e.func = "rx" /\ e.flags = "none" /\ ~e.edge
        /\ e.op = "sleep" \/ (e.op = "rx" /\ e.tuned # NoChannel)
        /\ e.frame = d.frame /\ e.channel = d.channel
    <3>1. CASE d.active
      <4>1. e = [d EXCEPT !.received = FALSE]
        BY <3>1, StaysStarted
      <4> QED BY <4>1, <1>3, Zenon DEF Fetched, Driver
    <3>2. CASE ~d.active
      BY <1>3, <3>2, StartsLate
    <3> QED BY <3>1, <3>2
  <2> HIDE DEF e
  <2>2. /\ f \in Driver /\ (Idle(f) \/ Listening(f))
        /\ f.jobs = << >> /\ ~f.active /\ f.flags = "none"
        /\ f.frame = e.frame /\ f.received = (e.frame \notin bad)
        /\ f.channel = e.channel
    BY <2>1, StepReceived
  <2>3. f.received = (d.frame \notin bad)
    BY <2>1, <2>2, Zenon
  <2>4. f.frame = d.frame /\ f.channel = d.channel
    BY <2>1, <2>2
  <2> HIDE DEF f
  <2>5. f \in Driver /\ f.channel = d.channel
    BY <2>2, <2>4, Zenon
  <2> QED BY <1>3, <2>2, <2>3, <2>4, <2>5, Zenon DEF e, f
<1> QED BY <1>1, <1>2, <1>3 DEF Idle, Listening

(* No operation of the transceiver before a channel, two jobs at most.      *)
LEMMA Bound ==
  ASSUME NEW d \in Driver,
         \/ Idle(d) \/ Listening(d) \/ Fetched(d)
         \/ Waiting(d) \/ Sending(d) \/ SentDone(d)
  PROVE  Len(d.jobs) <= 2 /\ (d.op # "sleep" => d.tuned # NoChannel)
<1>1. /\ Len(<< >>) <= 2 /\ Len(<<"irq">>) <= 2 /\ Len(<<"os">>) <= 2
      /\ Len(<<"tx">>) <= 2 /\ Len(<<"tx", "irq">>) <= 2
  BY SMT
<1> QED BY <1>1, Zenon DEF Idle, Listening, Fetched, Waiting, Sending, SentDone

-------------------------------------------------------------------------------
(* The invariant. *)

LEMMA InitIInv == Init => IInv
<1> SUFFICES ASSUME Init PROVE IInv
  OBVIOUS
<1>1. /\ drv \in Driver /\ Idle(drv) /\ drv.flags = "none" /\ drv.op = "sleep"
      /\ drv.jobs = << >>
  <2>1. 0 \in Nat /\ NoChannel \in Channels \cup {NoChannel}
    BY SMT
  <2> QED BY <2>1, Queues, Zenon DEF Init, Driver, Idle
<1>2. /\ RF_ready = FALSE /\ groundstation = FALSE /\ newSlot = TRUE /\ pc = "loop"
      /\ delivered = << >> /\ aired = << >> /\ damaged = {} /\ heard = 0 /\ hop = 0
      /\ txTime = TRUE /\ TxBuffer = 0
  BY DEF Init, Own
<1>3. TypeOK
  <2>1. heard \in 0 .. MaxHeard /\ damaged \subseteq 1 .. heard /\ TxBuffer \in Nat
    BY <1>2, BoundAssumption, SMT
  <2>2. delivered \in Seq(Nat) /\ aired \in Seq([packet : Nat, channel : Channels])
    BY <1>2, SMT
  <2>3. hop \in Hops
    BY <1>2, ChannelAssumption
  <2>4. Len(drv.jobs) <= 2 /\ (drv.op # "sleep" => drv.tuned # NoChannel)
    BY <1>1, Bound
  <2> QED BY <1>1, <1>2, <2>1, <2>2, <2>3, <2>4, Zenon DEF TypeOK
<1>4. Modes
  BY <1>1, <1>2 DEF Modes
<1>5. Start
  BY <1>1, <1>2 DEF Start
<1>6. Packets
  BY <1>1, <1>2, Queues DEF Packets, Fetched
<1>7. DeliveredOnce /\ RelayedOnce
  BY <1>2, SMT DEF DeliveredOnce, RelayedOnce
<1> QED BY <1>3, <1>4, <1>5, <1>6, <1>7 DEF IInv

(* Steps that leave the driver and the packets alone.                      *)
LEMMA QuietStep ==
  ASSUME IInv, \/ WaitForBand \/ NoHello \/ NotReady \/ Keep \/ NextSlot \/ Elapse
               \/ UNCHANGED vars
  PROVE  IInv'
<1>1. /\ UNCHANGED <<drv, RF_ready, TxBuffer, heard, damaged, delivered, aired>>
      /\ pc' = pc \/ (pc # "transmit" /\ pc' \in {"loop", "ground"})
      /\ groundstation' = groundstation \/ groundstation' = TRUE
      /\ pc = "transmit" => groundstation' = groundstation
      /\ newSlot' = newSlot \/ newSlot' = TRUE
      /\ hop' \in Hops /\ txTime' \in BOOLEAN
  BY Zenon DEF IInv, TypeOK, WaitForBand, NoHello, NotReady, Keep, NextSlot, Elapse, vars
<1>2. TypeOK'
  BY <1>1, Zenon DEF IInv, TypeOK
<1>3. Modes'
  BY <1>1 DEF IInv, Modes
<1>4. Start'
  BY <1>1 DEF IInv, Start
<1>5. Packets'
  BY <1>1 DEF IInv, Packets, NewerThanDelivered, NewerThanAired, WasDelivered
<1>6. DeliveredOnce' /\ RelayedOnce'
  BY <1>1 DEF IInv, DeliveredOnce, RelayedOnce
<1> QED BY <1>2, <1>3, <1>4, <1>5, <1>6 DEF IInv

(* The transceiver: flags change with an edge, a new packet is the newest.  *)
LEMMA TransceiverStep ==
  ASSUME IInv, Sync \/ Payload \/ Sent
  PROVE  IInv'
<1>1. CASE Sync
  <2>1. drv' = [drv EXCEPT !.flags = "sync", !.edge = TRUE]
    BY <1>1 DEF Sync
  <2>2. drv' \in Driver
    BY <2>1, Zenon DEF IInv, TypeOK, Driver
  <2>3. /\ drv'.op = drv.op /\ drv'.op = "rx" /\ drv'.flags = "sync" /\ drv'.edge = TRUE
        /\ drv'.jobs = drv.jobs /\ drv'.func = drv.func /\ drv'.tuned = drv.tuned
        /\ drv'.channel = drv.channel /\ drv'.active = drv.active /\ drv'.sent = drv.sent
        /\ drv'.frame = drv.frame
    BY <1>1, <2>1, Zenon DEF Sync, IInv, TypeOK, Driver
  <2>4. /\ UNCHANGED <<pc, RF_ready, groundstation, hop, newSlot, txTime, TxBuffer, heard>>
        /\ UNCHANGED <<damaged, delivered, aired>>
    BY <1>1 DEF Sync
  <2>5. TypeOK'
    BY <2>2, <2>3, <2>4, Zenon DEF IInv, TypeOK
  <2>6. Modes'
    BY <2>3, <2>4, Zenon DEF IInv, Modes, Idle, Listening, Fetched, Waiting, Sending, SentDone
  <2>7. Start'
    BY <2>3, <2>4, Zenon DEF IInv, Start, Idle
  <2>8. Packets'
    <3>1. ~Fetched(drv)'
      BY <2>3 DEF Fetched
    <3>2. pc' = "transmit" /\ Waiting(drv)' => pc = "transmit" /\ Waiting(drv)
      BY <2>3, <2>4, Zenon DEF IInv, Modes, Waiting, Sending, SentDone
    <3> QED BY <2>3, <2>4, <3>1, <3>2, Zenon
        DEF IInv, Packets, NewerThanAired, WasDelivered
  <2>9. DeliveredOnce' /\ RelayedOnce'
    BY <2>4 DEF IInv, DeliveredOnce, RelayedOnce
  <2> QED BY <2>5, <2>6, <2>7, <2>8, <2>9 DEF IInv
<1>2. CASE Payload
  <2>1. drv' = [drv EXCEPT !.flags = "ready", !.edge = TRUE, !.fifo = heard'] /\ heard' = heard + 1
    BY <1>2 DEF Payload
  <2>2. heard \in Nat /\ heard' \in Nat /\ heard' > 0 /\ heard' \in 0 .. MaxHeard
    BY <1>2, <2>1, BoundAssumption, SMT DEF Payload, IInv, TypeOK
  <2>3. drv' \in Driver
    BY <2>1, <2>2, Zenon DEF IInv, TypeOK, Driver
  <2>4. /\ drv'.op = drv.op /\ drv'.op = "rx" /\ drv'.flags = "ready" /\ drv'.edge = TRUE
        /\ drv'.jobs = drv.jobs /\ drv'.func = drv.func /\ drv'.tuned = drv.tuned
        /\ drv'.channel = drv.channel /\ drv'.active = drv.active /\ drv'.sent = drv.sent
        /\ drv'.frame = drv.frame /\ drv'.fifo = heard'
    BY <1>2, <2>1, Zenon DEF Payload, IInv, TypeOK, Driver
  <2>5. /\ UNCHANGED <<pc, RF_ready, groundstation, hop, newSlot, txTime, TxBuffer>>
        /\ UNCHANGED <<delivered, aired>>
        /\ damaged' = damaged \/ damaged' = damaged \cup {heard'}
    BY <1>2 DEF Payload
  <2>6. damaged' \subseteq 1 .. heard'
    BY <2>1, <2>2, <2>5, SMT DEF IInv, TypeOK
  <2>7. TypeOK'
    BY <2>2, <2>3, <2>4, <2>5, <2>6, Zenon DEF IInv, TypeOK
  <2>8. Modes'
    BY <2>4, <2>5, Zenon DEF IInv, Modes, Idle, Listening, Fetched, Waiting, Sending, SentDone
  <2>9. Start'
    BY <2>4, <2>5, Zenon DEF IInv, Start, Idle
  <2>10. \A i \in DOMAIN delivered : delivered[i] \in 1 .. heard /\ delivered[i] < heard'
    BY <2>1, <2>2, SMT DEF IInv, DeliveredOnce
  <2>11. Packets'
    <3>1. NewerThanDelivered(heard)'
      BY <2>5, <2>10 DEF NewerThanDelivered
    <3>2. ~Fetched(drv)'
      BY <2>4 DEF Fetched
    <3>3. pc' = "transmit" /\ Waiting(drv)' => pc = "transmit" /\ Waiting(drv)
      BY <2>4, <2>5, Zenon DEF IInv, Modes, Waiting, Sending, SentDone
    <3> QED BY <2>2, <2>4, <2>5, <3>1, <3>2, <3>3, Zenon
        DEF IInv, Packets, NewerThanAired, WasDelivered
  <2>12. DeliveredOnce'
    <3>1. \A i \in DOMAIN delivered' : delivered'[i] \in (1 .. heard') \ damaged'
      BY <2>1, <2>2, <2>5, <2>10, SMT DEF IInv, DeliveredOnce
    <3> QED BY <3>1, <2>5 DEF IInv, DeliveredOnce
  <2>13. RelayedOnce'
    BY <2>5 DEF IInv, RelayedOnce
  <2> QED BY <2>7, <2>8, <2>9, <2>11, <2>12, <2>13 DEF IInv
<1>3. CASE Sent
  <2>1. drv' = [drv EXCEPT !.flags = "sent", !.edge = TRUE]
    BY <1>3 DEF Sent
  <2>2. drv' \in Driver
    BY <2>1, Zenon DEF IInv, TypeOK, Driver
  <2>3. /\ drv'.op = drv.op /\ drv'.op = "tx" /\ drv'.flags = "sent" /\ drv'.edge = TRUE
        /\ drv'.jobs = drv.jobs /\ drv'.func = drv.func /\ drv'.tuned = drv.tuned
        /\ drv'.channel = drv.channel /\ drv'.active = drv.active /\ drv'.sent = drv.sent
        /\ drv'.frame = drv.frame /\ drv.flags = "none"
    BY <1>3, <2>1, Zenon DEF Sent, IInv, TypeOK, Driver
  <2>4. /\ UNCHANGED <<pc, RF_ready, groundstation, hop, newSlot, txTime, TxBuffer, heard>>
        /\ UNCHANGED <<damaged, delivered, aired>>
    BY <1>3 DEF Sent
  <2>5. TypeOK'
    BY <2>2, <2>3, <2>4, Zenon DEF IInv, TypeOK
  <2>6. Modes'
    BY <2>3, <2>4, Zenon DEF IInv, Modes, Idle, Listening, Fetched, Waiting, Sending, SentDone
  <2>7. Start'
    BY <2>3, <2>4, Zenon DEF IInv, Start, Idle
  <2>8. Packets'
    <3>1. ~Fetched(drv)'
      BY <2>3 DEF Fetched
    <3>2. pc' = "transmit" /\ Waiting(drv)' => pc = "transmit" /\ Waiting(drv)
      BY <2>3, <2>4, Zenon DEF IInv, Modes, Waiting, Sending, SentDone
    <3> QED BY <2>3, <2>4, <3>1, <3>2, Zenon
        DEF IInv, Packets, NewerThanAired, WasDelivered
  <2>9. DeliveredOnce' /\ RelayedOnce'
    BY <2>4 DEF IInv, DeliveredOnce, RelayedOnce
  <2> QED BY <2>5, <2>6, <2>7, <2>8, <2>9 DEF IInv
<1> QED BY <1>1, <1>2, <1>3

LEMMA SetChannelStep ==
  ASSUME IInv, SetChannel
  PROVE  IInv'
<1>1. /\ pc = "loop" /\ pc' = "ground" /\ RF_ready' = TRUE /\ newSlot' = FALSE
      /\ UNCHANGED <<groundstation, hop, TxBuffer, heard, damaged, delivered, aired>>
      /\ txTime' \in BOOLEAN
  BY Zenon DEF SetChannel, IInv, TypeOK
<1>2. drv \in Driver /\ (Idle(drv) \/ Listening(drv) \/ Fetched(drv))
  BY <1>1 DEF IInv, TypeOK, Modes
<1>3. /\ drv' \in Driver /\ drv'.channel # NoChannel
      /\ drv' = drv \/ Idle(drv') \/ (Listening(drv') /\ drv'.flags = drv.flags) \/ Fetched(drv')
      /\ Idle(drv) => Idle(drv')
      /\ Fetched(drv') => Fetched(drv)
      /\ drv'.frame = drv.frame /\ drv'.fifo = drv.fifo
  <2>1. hop \in Channels /\ RELAY_CHANNEL \in Channels /\ NoChannel \notin Channels
    BY ChannelAssumption, SMT DEF Channels, NoChannel, IInv, TypeOK
  <2>2. \/ drv' = sx12xx_channel(drv, RELAY_CHANNEL)
        \/ drv' = sx12xx_channel(drv, hop)
        \/ drv' = drv /\ ~newSlot
    BY ModeAssumption, Zenon DEF SetChannel
  <2>3. CASE drv' = sx12xx_channel(drv, RELAY_CHANNEL)
    BY <1>2, <2>1, <2>3, SetsChannel, Zenon
  <2>4. CASE drv' = sx12xx_channel(drv, hop)
    BY <1>2, <2>1, <2>4, SetsChannel, Zenon
  <2>5. CASE drv' = drv /\ ~newSlot
    <3>1. RF_ready /\ drv.channel # NoChannel
      BY <2>5 DEF IInv, Start
    <3> QED BY <1>2, <2>5, <3>1, Zenon
  <2> QED BY <2>2, <2>3, <2>4, <2>5
<1>4. Idle(drv') \/ Listening(drv') \/ Fetched(drv')
  BY <1>2, <1>3, Zenon
<1>5. TypeOK'
  BY <1>1, <1>3, <1>4, Bound, Zenon DEF IInv, TypeOK
<1>6. Modes'
  BY <1>1, <1>4 DEF Modes
<1>7. Start'
  BY <1>1, <1>3, Zenon DEF IInv, Start
<1>8. Packets'
  <2>1. drv'.flags = "ready" => drv.flags = "ready"
    BY <1>3, Zenon DEF Idle, Fetched
  <2> QED BY <1>1, <1>3, <2>1, Zenon DEF IInv, Packets, NewerThanDelivered
<1>9. DeliveredOnce' /\ RelayedOnce'
  BY <1>1 DEF IInv, DeliveredOnce, RelayedOnce
<1> QED BY <1>5, <1>6, <1>7, <1>8, <1>9 DEF IInv

(* A hello is the first packet sent; a packet to be sent on has just been   *)
(* delivered.                                                              *)
LEMMA BeginStep ==
  ASSUME IInv, Hello \/ Relay
  PROVE  IInv'
<1>1. /\ pc' = "transmit" /\ drv' = startTransmit(drv) /\ RF_ready
      /\ UNCHANGED <<RF_ready, groundstation, hop, newSlot, txTime, heard, damaged>>
      /\ UNCHANGED <<delivered, aired>>
      /\ pc \in {"ground", "parse"} /\ (~groundstation => delivered = << >>)
      /\ drv \in Driver
  BY Zenon DEF Hello, Relay, BeginTransmit, IInv, TypeOK, Start
<1>2. /\ drv.jobs = << >> /\ (Idle(drv) \/ Listening(drv))
      /\ \/ TxBuffer' = Own /\ aired = << >>
         \/ /\ ognrelay_enable /\ TxBuffer' > 0
            /\ WasDelivered(TxBuffer') /\ NewerThanAired(TxBuffer')
      /\ TxBuffer' \in Nat
  <2>1. CASE Hello
    <3>1. Idle(drv) /\ aired = << >> /\ TxBuffer' = Own
      BY <2>1, Zenon DEF Hello, BeginTransmit, IInv, Start
    <3>2. Own \in Nat
      BY DEF Own
    <3> QED BY <3>1, <3>2 DEF Idle
  <2>2. CASE Relay
    <3>1. pc = "parse" /\ ognrelay_enable /\ TxBuffer' = drv.frame
      BY <2>2 DEF Relay, BeginTransmit
    <3>2. /\ drv.jobs = << >> /\ drv.frame > 0 /\ WasDelivered(drv.frame)
          /\ NewerThanAired(drv.frame)
      BY <3>1 DEF IInv, Packets
    <3>3. Idle(drv) \/ Listening(drv)
      BY <3>1, <3>2, Queues, Zenon DEF IInv, Modes, Fetched
    <3>4. drv.frame \in Nat
      BY <1>1, Zenon DEF Driver
    <3> QED BY <3>1, <3>2, <3>3, <3>4, Zenon
  <2> QED BY <2>1, <2>2
<1>3. /\ drv' \in Driver /\ Waiting(drv') /\ drv'.channel = drv.channel
      /\ drv'.flags = drv.flags /\ drv'.fifo = drv.fifo
  BY <1>1, <1>2, StartsTransmit, Zenon
<1>4. TypeOK'
  BY <1>1, <1>2, <1>3, Bound, Zenon DEF IInv, TypeOK
<1>5. Modes'
  BY <1>1, <1>3 DEF Modes
<1>6. Start'
  BY <1>1, <1>3, Zenon DEF IInv, Start
<1>7. Packets'
  <2>1. ~Fetched(drv')
    BY <1>3, Queues, Zenon DEF Waiting, Fetched
  <2>2. /\ (drv.flags = "ready" => drv.fifo = heard /\ heard > 0 /\ NewerThanDelivered(heard))
        /\ pc' # "parse"
    BY <1>1, Zenon DEF IInv, Packets
  <2>3. (drv.flags = "ready" => drv.fifo = heard /\ heard > 0 /\ NewerThanDelivered(heard)')
    BY <1>1, <2>2, Zenon DEF NewerThanDelivered
  <2>4. \/ TxBuffer' = Own /\ aired' = << >>
        \/ ognrelay_enable /\ TxBuffer' > 0 /\ WasDelivered(TxBuffer)' /\ NewerThanAired(TxBuffer)'
    BY <1>1, <1>2, Zenon DEF WasDelivered, NewerThanAired
  <2> QED BY <1>1, <1>3, <2>1, <2>2, <2>3, <2>4, Zenon DEF Packets
<1>8. DeliveredOnce' /\ RelayedOnce'
  BY <1>1 DEF IInv, DeliveredOnce, RelayedOnce
<1> QED BY <1>4, <1>5, <1>6, <1>7, <1>8 DEF IInv

LEMMA ReceiveStep ==
  ASSUME IInv, Receive
  PROVE  IInv'
<1>1. /\ pc = "ground" /\ groundstation /\ RF_ready
      /\ drv' = os_runstep(startReceive(drv), damaged)
      /\ delivered' = IF drv'.received THEN Append(delivered, drv'.frame) ELSE delivered
      /\ pc' = IF drv'.received THEN "parse" ELSE "loop"
      /\ UNCHANGED <<RF_ready, groundstation, hop, newSlot, txTime, TxBuffer, heard>>
      /\ UNCHANGED <<damaged, aired>>
  BY DEF Receive
<1>2. /\ drv \in Driver /\ drv.channel # NoChannel
      /\ (Idle(drv) \/ Listening(drv) \/ Fetched(drv))
  BY <1>1 DEF IInv, TypeOK, Modes, Start
<1>3. /\ drv' \in Driver /\ drv'.channel = drv.channel
      /\ \/ /\ Listening(drv') /\ ~drv'.received
            /\ drv'.flags = "ready" => drv.flags = "ready" /\ drv'.fifo = drv.fifo
         \/ /\ Fetched(drv') /\ ~drv'.received
            /\ drv.flags = "ready" /\ drv'.frame = drv.fifo
         \/ /\ Fetched(drv) /\ (Idle(drv') \/ Listening(drv'))
            /\ drv'.jobs = << >> /\ ~drv'.active /\ drv'.flags = "none"
            /\ drv'.frame = drv.frame /\ drv'.received = (drv.frame \notin damaged)
  BY <1>1, <1>2, Receives, Zenon
<1>4. Idle(drv') \/ Listening(drv') \/ Fetched(drv')
  BY <1>3
<1>5. Modes'
  BY <1>1, <1>4, Zenon DEF Modes
<1>6. Start'
  BY <1>1, <1>2, <1>3, Zenon DEF IInv, Start
<1>7. delivered' \in Seq(Nat) => TypeOK'
  BY <1>1, <1>3, <1>4, Bound, Zenon DEF IInv, TypeOK
<1>8. delivered \in Seq(Nat) /\ heard \in Nat
  BY SMT, BoundAssumption DEF IInv, TypeOK
<1>9. CASE ~drv'.received
  <2>1. delivered' = delivered /\ pc' = "loop"
    BY <1>1, <1>9
  <2>2. DeliveredOnce' /\ RelayedOnce'
    BY <1>1, <2>1 DEF IInv, DeliveredOnce, RelayedOnce
  <2>3. drv.flags = "ready" => drv.fifo = heard /\ heard > 0 /\ NewerThanDelivered(heard)
    BY DEF IInv, Packets
  <2>4. drv'.flags = "ready" => drv.flags = "ready" /\ drv'.fifo = drv.fifo
    BY <1>3, Zenon DEF Fetched
  <2>5. Fetched(drv') => drv.flags = "ready" /\ drv'.frame = drv.fifo
    BY <1>3, Queues, Zenon DEF Listening, Fetched, Idle
  <2>6. heard > 0 => heard \in 1 .. heard
    BY <1>8, SMT
  <2>7. Packets'
    BY <1>1, <2>1, <2>3, <2>4, <2>5, <2>6, Zenon DEF Packets, NewerThanDelivered
  <2> QED BY <1>5, <1>6, <1>7, <1>8, <2>1, <2>2, <2>7 DEF IInv
<1>10. CASE drv'.received
  <2>1. /\ Fetched(drv) /\ (Idle(drv') \/ Listening(drv')) /\ drv'.jobs = << >>
        /\ ~drv'.active /\ drv'.flags = "none" /\ drv'.frame = drv.frame
        /\ drv.frame \notin damaged
    BY <1>3, <1>10, Zenon
  <2>2. /\ delivered' = Append(delivered, drv.frame) /\ pc' = "parse"
    BY <1>1, <1>10, <2>1
  <2>3. drv.frame \in 1 .. heard /\ NewerThanDelivered(drv.frame)
    BY <2>1 DEF IInv, Packets
  <2>4. drv.frame \in Nat /\ drv.frame > 0
    BY <1>8, <2>3, SMT
  <2> DEFINE n == drv.frame
  <2>5. /\ DeliveredOnce' /\ (\E i \in DOMAIN delivered' : delivered'[i] = n)
        /\ \A m : (\E i \in DOMAIN delivered : delivered[i] = m)
               => (\E i \in DOMAIN delivered' : delivered'[i] = m)
    <3>1. DeliveredOnce'
      BY <1>1, <1>8, <2>1, <2>2, <2>3, <2>4, SMT DEF IInv, DeliveredOnce, NewerThanDelivered
    <3>2. \E i \in DOMAIN delivered' : delivered'[i] = n
      BY <1>8, <2>2, <2>4, SMT
    <3>3. \A m : (\E i \in DOMAIN delivered : delivered[i] = m)
               => (\E i \in DOMAIN delivered' : delivered'[i] = m)
      BY <1>8, <2>2, <2>4, SMT
    <3> QED BY <3>1, <3>2, <3>3
  <2>6. RelayedOnce'
    BY <1>1, <2>5, Zenon DEF IInv, RelayedOnce
  <2>7. NewerThanAired(n)
    <3>1. SUFFICES ASSUME NEW i \in DOMAIN aired PROVE aired[i].packet < n
      BY DEF NewerThanAired
    <3>2. aired[i].packet # Own => \E j \in DOMAIN delivered : delivered[j] = aired[i].packet
      BY DEF IInv, RelayedOnce
    <3> QED BY <3>2, <2>3, <2>4, SMT DEF NewerThanDelivered, Own
  <2>8. delivered' \in Seq(Nat)
    BY <1>8, <2>2, <2>4, SMT
  <2>9. ~Fetched(drv')
    BY <2>1, Queues, Zenon DEF Fetched
  <2>10. Packets'
    BY <1>1, <2>1, <2>2, <2>4, <2>5, <2>7, <2>9, Zenon
    DEF Packets, WasDelivered, NewerThanAired
  <2> QED BY <1>5, <1>6, <1>7, <2>8, <2>5, <2>6, <2>10 DEF IInv
<1> QED BY <1>9, <1>10

(* A transmission goes through its modes one after the other; only the end  *)
(* that the transceiver has reported takes it out of "tx".                  *)
LEMMA TransmitStep ==
  ASSUME IInv, Transmit
  PROVE  IInv' /\ (drv.op = "tx" /\ drv'.op # "tx" => drv.flags = "sent")
<1>1. /\ pc = "transmit" /\ drv' = os_runstep(drv, damaged)
      /\ aired' = IF drv.op # "tx" /\ drv'.op = "tx"
                  THEN Append(aired, [packet |-> TxBuffer, channel |-> drv'.tuned])
                  ELSE aired
      /\ UNCHANGED <<RF_ready, hop, newSlot, TxBuffer, heard, damaged, delivered>>
  BY DEF Transmit
<1>2. /\ drv \in Driver /\ drv.channel # NoChannel /\ RF_ready
      /\ (Waiting(drv) \/ Sending(drv) \/ SentDone(drv))
  BY <1>1 DEF IInv, TypeOK, Modes, Start
<1>3. aired \in Seq([packet : Nat, channel : Channels]) /\ TxBuffer \in Nat
  BY DEF IInv, TypeOK
<1>4. DeliveredOnce'
  BY <1>1 DEF IInv, DeliveredOnce
<1>5. CASE ~drv'.sent
  <2>1. UNCHANGED <<pc, groundstation, txTime>>
    BY <1>1, <1>5 DEF Transmit
  <2>2. ASSUME drv' \in Driver, drv'.channel # NoChannel, Sending(drv') \/ SentDone(drv'),
               aired' \in Seq([packet : Nat, channel : Channels]), RelayedOnce'
        PROVE  IInv'
    <3>1. TypeOK'
      BY <1>1, <2>1, <2>2, Bound, Zenon DEF IInv, TypeOK
    <3>2. Modes'
      BY <1>1, <2>1, <2>2 DEF Modes
    <3>3. Start'
      BY <1>1, <1>2, <2>1, <2>2, Zenon DEF IInv, Start
    <3>4. /\ drv'.flags # "ready" /\ ~Fetched(drv') /\ ~Waiting(drv')
      BY <2>2, Queues, Zenon DEF Sending, SentDone, Fetched, Waiting
    <3>5. Packets'
      BY <1>1, <2>1, <3>4, Zenon DEF Packets
    <3> QED BY <1>4, <2>2, <3>1, <3>2, <3>3, <3>5 DEF IInv
  <2>3. CASE Waiting(drv)
    <3>1. /\ drv' \in Driver /\ Sending(drv') /\ drv'.channel = 0
          /\ drv'.tuned = IF ognrelay_enable THEN RELAY_CHANNEL ELSE drv.channel
      BY <1>1, <1>2, <2>3, StepTransmit, Zenon
    <3>2. drv.op # "tx" /\ drv'.op = "tx"
      BY <2>3, <3>1, Zenon DEF Waiting, Sending
    <3>3. aired' = Append(aired, [packet |-> TxBuffer, channel |-> drv'.tuned])
      BY <1>1, <3>2
    <3>4. drv'.tuned \in Channels /\ 0 # NoChannel
      <4>1. drv.channel \in Channels
        BY <1>2, Zenon DEF Driver
      <4>2. RELAY_CHANNEL \in Channels
        BY DEF Channels
      <4> QED BY <3>1, <4>1, <4>2, SMT DEF NoChannel
    <3>5. \/ TxBuffer = Own /\ aired = << >>
          \/ ognrelay_enable /\ WasDelivered(TxBuffer) /\ NewerThanAired(TxBuffer)
      BY <1>1, <2>3 DEF IInv, Packets
    <3>6. ognrelay_enable => drv'.tuned = RELAY_CHANNEL
      BY <3>1
    <3>7. RelayedOnce'
      <4>1. \A i \in DOMAIN aired' :
              IF ognrelay_enable THEN aired'[i].channel = RELAY_CHANNEL
                                 ELSE aired'[i].packet = Own
        BY <1>3, <3>3, <3>4, <3>5, <3>6, SMT DEF IInv, RelayedOnce
      <4>2. \A i \in DOMAIN aired' : aired'[i].packet # Own =>
              \E j \in DOMAIN delivered' : delivered'[j] = aired'[i].packet
        BY <1>1, <1>3, <3>3, <3>4, <3>5, SMT DEF IInv, RelayedOnce, WasDelivered
      <4>3. \A i, j \in DOMAIN aired' : i < j => aired'[i].packet < aired'[j].packet
        BY <1>3, <3>3, <3>4, <3>5, SMT DEF IInv, RelayedOnce, NewerThanAired
      <4> QED BY <4>1, <4>2, <4>3 DEF RelayedOnce
    <3>8. aired' \in Seq([packet : Nat, channel : Channels])
      BY <1>3, <3>3, <3>4, SMT
    <3> QED BY <2>2, <3>1, <3>2, <3>4, <3>7, <3>8
  <2>4. CASE Sending(drv)
    <3>1. /\ drv' \in Driver /\ drv'.channel = drv.channel
          /\ Sending(drv') \/ (drv.flags = "sent" /\ SentDone(drv'))
      BY <1>1, <1>2, <2>4, StepSending, Zenon
    <3>2. aired' = aired
      BY <1>1, <2>4 DEF Sending
    <3>3. RelayedOnce'
      BY <1>1, <3>2 DEF IInv, RelayedOnce
    <3>4. drv'.op # "tx" => drv.flags = "sent"
      BY <3>1 DEF Sending
    <3> QED BY <1>2, <1>3, <2>2, <3>1, <3>2, <3>3, <3>4
  <2>5. CASE SentDone(drv)
    BY <1>1, <1>2, <1>5, <2>5, StepSent, Zenon
  <2> QED BY <1>2, <2>3, <2>4, <2>5
<1>6. CASE drv'.sent
  <2>1. SentDone(drv)
    <3>1. CASE Waiting(drv)
      <4>1. Sending(drv')
        BY <1>1, <1>2, <3>1, StepTransmit, Zenon
      <4> QED BY <4>1, <1>6 DEF Sending
    <3>2. CASE Sending(drv)
      <4>1. Sending(drv') \/ SentDone(drv')
        BY <1>1, <1>2, <3>2, StepSending, Zenon
      <4> QED BY <4>1, <1>6 DEF Sending, SentDone
    <3> QED BY <1>2, <3>1, <3>2
  <2>2. drv' \in Driver /\ Idle(drv') /\ drv'.channel = drv.channel
    BY <1>1, <1>2, <2>1, StepSent, Zenon
  <2>3. /\ drv.op # "tx" /\ aired' = aired
    BY <1>1, <2>1, <2>2 DEF SentDone, Idle
  <2>4. /\ pc' \in {"loop", "ground"} /\ groundstation' = TRUE /\ txTime' = FALSE
    BY <1>1, <1>6 DEF Transmit
  <2>5. TypeOK'
    BY <1>1, <2>2, <2>3, <2>4, Bound, Zenon DEF IInv, TypeOK
  <2>6. Modes'
    BY <2>2, <2>4 DEF Modes
  <2>7. Start'
    BY <1>1, <1>2, <2>2, <2>4, Zenon DEF Start
  <2>8. Packets'
    BY <2>2, <2>4, Queues, Zenon DEF Packets, Idle, Fetched
  <2>9. RelayedOnce'
    BY <1>1, <2>3 DEF IInv, RelayedOnce
  <2> QED BY <1>4, <2>3, <2>5, <2>6, <2>7, <2>8, <2>9 DEF IInv
<1> QED BY <1>5, <1>6

-------------------------------------------------------------------------------
(* Theorems. *)

(* The modes and the order of the packets hold in all runs.                 *)
THEOREM RadioInvariant == Spec => []IInv
<1>1. Init => IInv
  BY InitIInv
<1>2. IInv /\ [Next]_vars => IInv'
  BY QuietStep, TransceiverStep, SetChannelStep, BeginStep, ReceiveStep, TransmitStep
  DEF Next, Loop
<1> QED BY <1>1, <1>2, PTL DEF Spec

(* Types; no operation of the transceiver starts before a channel is chosen *)
(* (RF.cpp:288), and two jobs wait at most.                                *)
THEOREM TypeCorrect == Spec => []TypeOK
<1>1. IInv => TypeOK
  BY DEF IInv
<1> QED BY <1>1, RadioInvariant, PTL

(* The driver never waits for a packet with a receiver that does not listen *)
(* (RF.cpp:747, 593-597, 847-848).                                         *)
THEOREM NotDeafHolds == Spec => []NotDeaf
<1>1. IInv => NotDeaf
  <2>1. SUFFICES ASSUME IInv, drv.active
                 PROVE  (drv.op = "rx" /\ drv.tuned = drv.channel)
                        \/ (Queued("os") /\ drv.func = "rx")
    BY DEF NotDeaf
  <2>2. Listening(drv) \/ Fetched(drv)
    BY <2>1, Zenon DEF IInv, Modes, Idle, Waiting, Sending, SentDone
  <2>3. CASE Listening(drv)
    BY <2>1, <2>3 DEF Listening
  <2>4. CASE Fetched(drv)
    <3>1. drv.jobs = <<"os">> /\ drv.func = "rx"
      BY <2>4 DEF Fetched
    <3>2. Queued("os")
      BY <3>1, SMT DEF Queued
    <3> QED BY <3>1, <3>2
  <2> QED BY <2>2, <2>3, <2>4
<1> QED BY <1>1, RadioInvariant, PTL

(* No edge of the polled flags is lost (hal.cpp, radio.c).                  *)
THEOREM FlagsSeenHolds == Spec => []FlagsSeen
<1>1. IInv => FlagsSeen
  <2>1. SUFFICES ASSUME IInv, drv.flags \in {"ready", "sent"}, ~drv.edge
                 PROVE  Queued("irq")
    BY DEF FlagsSeen
  <2>2. drv.jobs = <<"irq">> \/ drv.jobs = <<"tx", "irq">>
    BY <2>1, Zenon DEF IInv, Modes, Idle, Listening, Fetched, Waiting, Sending, SentDone
  <2>3. CASE drv.jobs = <<"irq">>
    BY <2>3, SMT DEF Queued
  <2>4. CASE drv.jobs = <<"tx", "irq">>
    BY <2>4, SMT DEF Queued
  <2> QED BY <2>2, <2>3, <2>4
<1> QED BY <1>1, RadioInvariant, PTL

(* RF_Receive returns each undamaged packet once at most, in their order.   *)
THEOREM DeliveredOnceHolds == Spec => []DeliveredOnce
<1>1. IInv => DeliveredOnce
  BY DEF IInv
<1> QED BY <1>1, RadioInvariant, PTL

(* A relay sends on each packet once at most, in order and on its channel.  *)
THEOREM RelayedOnceHolds == Spec => []RelayedOnce
<1>1. IInv => RelayedOnce
  BY DEF IInv
<1> QED BY <1>1, RadioInvariant, PTL

(* No other use of the transceiver, be it a change of the channel, cuts a   *)
(* transmission off.                                                       *)
THEOREM NotCutOffHolds == Spec => NotCutOff
<1>1. IInv /\ [Next]_vars => [drv.op = "tx" /\ drv'.op # "tx" => drv.flags = "sent"]_vars
  <2>1. SUFFICES ASSUME IInv, Next, drv.op = "tx", drv'.op # "tx"
                 PROVE  drv.flags = "sent"
    OBVIOUS
  <2>2. pc = "transmit"
    BY <2>1, Zenon DEF IInv, Modes, Idle, Listening, Fetched
  <2>3. Transmit \/ drv' = drv \/ Sent
    BY <2>1, <2>2, Zenon DEF Next, Loop, WaitForBand, SetChannel, Hello, NoHello, Receive,
       NotReady, Relay, Keep, Sync, Payload, NextSlot, Elapse
  <2>4. CASE Transmit
    BY <2>1, <2>4, TransmitStep
  <2>5. CASE Sent
    <3>1. drv'.op = drv.op
      BY <2>1, <2>5, Zenon DEF Sent, IInv, TypeOK, Driver
    <3> QED BY <2>1, <3>1
  <2> QED BY <2>1, <2>3, <2>4, <2>5
<1> QED BY <1>1, RadioInvariant, PTL DEF Spec, NotCutOff

-------------------------------------------------------------------------------
(* The proof that a transmission gets on with every pass.                  *)

Has(jobs, job) == \E i \in DOMAIN jobs : jobs[i] = job

(* Which jobs are in the queues of a transmission.                         *)
LEMMA HasJobs ==
  /\ Has(<<"tx">>, "tx") /\ Has(<<"tx", "irq">>, "tx")
  /\ ~Has(<< >>, "tx") /\ ~Has(<< >>, "irq") /\ ~Has(<< >>, "os")
  /\ ~Has(<<"irq">>, "tx") /\ Has(<<"irq">>, "irq")
  /\ ~Has(<<"os">>, "tx") /\ ~Has(<<"os">>, "irq") /\ Has(<<"os">>, "os")
<1>1. /\ Has(<<"tx">>, "tx") /\ Has(<<"irq">>, "irq") /\ Has(<<"os">>, "os")
      /\ ~Has(<<"irq">>, "tx") /\ ~Has(<<"os">>, "tx") /\ ~Has(<<"os">>, "irq")
  BY SMT DEF Has
<1>2. Has(<<"tx", "irq">>, "tx")
  BY SMT DEF Has
<1>3. ~Has(<< >>, "tx") /\ ~Has(<< >>, "irq") /\ ~Has(<< >>, "os")
  BY SMT DEF Has
<1> QED BY <1>1, <1>2, <1>3

(* The queue tells how far a transmission is.                              *)
LEMMA Passes ==
  ASSUME pc = "transmit"
  PROVE  /\ drv.jobs = <<"tx">> \/ drv.jobs = <<"tx", "irq">> => PassesLeft = 4
         /\ drv.jobs = << >> => PassesLeft = 3
         /\ drv.jobs = <<"irq">> => PassesLeft = 2
         /\ drv.jobs = <<"os">> => PassesLeft = 1
<1>1. \A job : Queued(job) <=> Has(drv.jobs, job)
  BY DEF Queued, Has
<1>2. PassesLeft = IF Has(drv.jobs, "tx") THEN 4
                   ELSE IF Has(drv.jobs, "irq") THEN 2
                   ELSE IF Has(drv.jobs, "os") THEN 1 ELSE 3
  BY <1>1 DEF PassesLeft
<1> QED BY <1>2, HasJobs

LEMMA PassesNext ==
  ASSUME pc' = "transmit"
  PROVE  /\ drv'.jobs = <<"tx">> \/ drv'.jobs = <<"tx", "irq">> => PassesLeft' = 4
         /\ drv'.jobs = << >> => PassesLeft' = 3
         /\ drv'.jobs = <<"irq">> => PassesLeft' = 2
         /\ drv'.jobs = <<"os">> => PassesLeft' = 1
<1>1. \A job : Queued(job)' <=> Has(drv'.jobs, job)
  BY DEF Queued, Has
<1>2. PassesLeft' = IF Has(drv'.jobs, "tx") THEN 4
                    ELSE IF Has(drv'.jobs, "irq") THEN 2
                    ELSE IF Has(drv'.jobs, "os") THEN 1 ELSE 3
  BY <1>1 DEF PassesLeft
<1> QED BY <1>2, HasJobs

(* The pass that finds that all is sent, and the one that runs "irq".       *)
LEMMA PassSending ==
  ASSUME NEW d \in Driver, Sending(d), NEW bad
  PROVE  LET e == os_runstep(d, bad)
         IN  /\ d.flags = "none" => e = d
             /\ d.flags = "sent" /\ d.jobs = << >> => e.jobs = <<"irq">>
             /\ d.flags = "sent" /\ d.jobs = <<"irq">> => e.jobs = <<"os">>
<1> DEFINE e == os_runstep(d, bad)
<1>1. CASE d.jobs = << >>
  <2>1. e = Poll(d)
    BY <1>1, Zenon DEF os_runstep
  <2>2. d.flags = "sent" => e.jobs = <<"irq">>
    <3>1. SUFFICES ASSUME d.flags = "sent" PROVE e.jobs = <<"irq">>
      OBVIOUS
    <3>2. d.edge
      BY <1>1, <3>1, Queues, Zenon DEF Sending
    <3>3. e = [d EXCEPT !.edge = FALSE, !.jobs = <<"irq">>]
      BY <1>1, <2>1, <3>2, Polls
    <3> QED BY <3>3, Zenon DEF Driver
  <2>3. d.flags = "none" => e = d
    BY <2>1, PollsQuiet, Zenon DEF Sending
  <2> QED BY <1>1, <2>2, <2>3, Queues
<1>2. CASE d.jobs = <<"irq">>
  <2>1. d.flags = "sent"
    BY <1>2, Queues, Zenon DEF Sending
  <2>2. PICK p \in Driver : /\ e = irq_func(p)
                            /\ p = [d EXCEPT !.edge = FALSE, !.jobs = p.jobs]
                            /\ p.jobs = IF d.edge THEN <<"irq">> ELSE << >>
    BY <1>2, TakesIrq
  <2>3. p.flags = "sent"
    BY <2>1, <2>2, Zenon DEF Driver
  <2>4. e = [p EXCEPT !.op = "sleep", !.flags = "none", !.edge = FALSE, !.jobs = <<"os">>]
    BY <2>2, <2>3, Finishes, Zenon
  <2>5. e.jobs = <<"os">>
    BY <2>4, Zenon DEF Driver
  <2> QED BY <1>2, <2>1, <2>5, Queues
<1> QED BY <1>1, <1>2 DEF Sending

(* A pass of the loop of sx12xx_transmit.                                  *)
LEMMA TransmitPass ==
  ASSUME IInv, Transmit
  PROVE  PassesLeft' = IF OnAir THEN PassesLeft ELSE PassesLeft - 1
<1>1. /\ pc = "transmit" /\ drv' = os_runstep(drv, damaged)
      /\ drv \in Driver /\ drv.channel # NoChannel
      /\ (Waiting(drv) \/ Sending(drv) \/ SentDone(drv))
  BY DEF Transmit, IInv, TypeOK, Modes, Start
<1>2. ~drv'.sent => pc' = "transmit"
  BY <1>1 DEF Transmit
<1>3. CASE Waiting(drv)
  <2>1. Sending(drv') /\ drv'.flags = "none"
    BY <1>1, <1>3, StepTransmit, Zenon
  <2>2. pc' = "transmit" /\ drv'.jobs = << >>
    BY <1>2, <2>1, Zenon DEF Sending
  <2>3. PassesLeft' = 3
    BY <2>2, PassesNext
  <2>4. PassesLeft = 4
    BY <1>1, <1>3, Passes DEF Waiting
  <2>5. ~OnAir
    BY <1>3 DEF OnAir, Waiting
  <2> QED BY <2>3, <2>4, <2>5
<1>4. CASE Sending(drv)
  <2>1. pc' = "transmit"
    <3>1. Sending(drv') \/ SentDone(drv')
      BY <1>1, <1>4, StepSending, Zenon
    <3> QED BY <1>2, <3>1 DEF Sending, SentDone
  <2>2. CASE drv.flags = "none"
    <3>1. drv' = drv
      BY <1>1, <1>4, <2>2, PassSending
    <3>2. drv.jobs = << >> /\ OnAir
      BY <1>4, <2>2, Zenon DEF Sending, OnAir
    <3> QED BY <1>1, <2>1, <3>1, <3>2, Passes, PassesNext
  <2>3. CASE drv.flags = "sent"
    <3>1. ~OnAir
      BY <2>3 DEF OnAir
    <3>2. CASE drv.jobs = << >>
      <4>1. drv'.jobs = <<"irq">>
        BY <1>1, <1>4, <2>3, <3>2, PassSending
      <4> QED BY <1>1, <2>1, <3>1, <3>2, <4>1, Passes, PassesNext
    <3>3. CASE drv.jobs = <<"irq">>
      <4>1. drv'.jobs = <<"os">>
        BY <1>1, <1>4, <2>3, <3>3, PassSending
      <4> QED BY <1>1, <2>1, <3>1, <3>3, <4>1, Passes, PassesNext
    <3> QED BY <1>4, <3>2, <3>3 DEF Sending
  <2> QED BY <1>4, <2>2, <2>3 DEF Sending
<1>5. CASE SentDone(drv)
  <2>1. drv'.sent
    BY <1>1, <1>5, StepSent, Zenon
  <2>2. pc' # "transmit"
    BY <2>1 DEF Transmit
  <2>3. PassesLeft' = 0
    BY <2>2 DEF PassesLeft
  <2>4. PassesLeft = 1 /\ ~OnAir
    BY <1>1, <1>5, Passes DEF SentDone, OnAir
  <2> QED BY <2>3, <2>4
<1> QED BY <1>1, <1>3, <1>4, <1>5

(* A transmission takes four passes of the loop of sx12xx_transmit and waits *)
(* for nothing but the transceiver, whatever the reception before it has    *)
(* left and whatever comes in (RF.cpp:806-830): the safety half of          *)
(* TransmitEnds.                                                           *)
THEOREM TransmitAdvancesHolds == Spec => TransmitAdvances
<1>1. ASSUME IInv, IInv', [Next]_vars, pc # "transmit"
      PROVE  PassesLeft' \in {0, 4}
  <2>1. CASE pc' # "transmit"
    BY <2>1 DEF PassesLeft
  <2>2. CASE pc' = "transmit"
    <3>1. PICK n : BeginTransmit(n)
      BY <1>1, <2>2, Zenon DEF Next, Loop, WaitForBand, SetChannel, Hello, NoHello,
         Receive, NotReady, Relay, Keep, Transmit, Sync, Payload, Sent, NextSlot,
         Elapse, vars
    <3>2. drv \in Driver /\ drv' = startTransmit(drv)
      BY <1>1, <3>1 DEF BeginTransmit, IInv, TypeOK
    <3>3. drv.jobs = << >> /\ (Idle(drv) \/ Listening(drv))
      <4>1. Hello \/ Relay
        BY <1>1, <2>2, Zenon DEF Next, Loop, WaitForBand, SetChannel, Hello, NoHello,
           Receive, NotReady, Relay, Keep, Transmit, Sync, Payload, Sent, NextSlot,
           Elapse, vars
      <4>2. CASE Hello
        BY <1>1, <4>2, Zenon DEF Hello, IInv, Start, Idle
      <4>3. CASE Relay
        BY <1>1, <4>3, Queues, Zenon DEF Relay, IInv, Modes, Packets, Fetched, Idle
      <4> QED BY <4>1, <4>2, <4>3
    <3>4. Waiting(drv')
      BY <3>2, <3>3, StartsTransmit, Zenon
    <3> QED BY <2>2, <3>4, PassesNext DEF Waiting
  <2> QED BY <2>1, <2>2
<1>2. ASSUME IInv, [Next]_vars, pc = "transmit", ~Transmit
      PROVE  PassesLeft' = PassesLeft
  <2>1. /\ pc' = pc
        /\ drv' = drv \/ Sync \/ Payload \/ Sent
    BY <1>2, Zenon DEF Next, Loop, WaitForBand, SetChannel, Hello, NoHello, Receive,
       NotReady, Relay, Keep, Sync, Payload, Sent, NextSlot, Elapse, vars
  <2>2. drv'.jobs = drv.jobs
    BY <1>2, <2>1, Zenon DEF IInv, TypeOK, Driver, Sync, Payload, Sent
  <2> QED BY <2>1, <2>2 DEF PassesLeft, Queued
<1>3. IInv /\ IInv' /\ [Next]_vars =>
        [CASE pc # "transmit"                          -> PassesLeft' \in {0, 4}
           [] pc = "transmit" /\ Transmit /\ ~OnAir    -> PassesLeft' = PassesLeft - 1
           [] pc = "transmit" /\ ~(Transmit /\ ~OnAir) -> PassesLeft' = PassesLeft]_vars
  BY <1>1, <1>2, TransmitPass
<1> QED BY <1>3, RadioInvariant, PTL DEF Spec, TransmitAdvances

-------------------------------------------------------------------------------
(* The proof that the loop of sx12xx_transmit ends.  What TLC checks of the *)
(* fair actions, that they can be taken when they have to be (NotStuck), is *)
(* a hypothesis; the rest is one lemma for each pass.                      *)

(* Where a transmission is. *)
LEMMA TransmitStages ==
  ASSUME IInv, pc = "transmit"
  PROVE  /\ PassesLeft \in {1, 2, 3, 4}
         /\ PassesLeft # 3 => ~OnAir
<1>1. Waiting(drv) \/ Sending(drv) \/ SentDone(drv)
  BY DEF IInv, Modes
<1>2. CASE Waiting(drv)
  <2>1. PassesLeft = 4
    BY <1>2, Passes DEF Waiting
  <2> QED BY <1>2, <2>1 DEF Waiting, OnAir
<1>3. CASE Sending(drv)
  <2>1. drv.jobs = << >> \/ (drv.jobs = <<"irq">> /\ ~OnAir)
    BY <1>3 DEF Sending, OnAir
  <2> QED BY <2>1, Passes
<1>4. CASE SentDone(drv)
  <2>1. PassesLeft = 1
    BY <1>4, Passes DEF SentDone
  <2> QED BY <1>4, <2>1 DEF SentDone, OnAir
<1> QED BY <1>1, <1>2, <1>3, <1>4

(* Every other step leaves a transmission where it is.                     *)
LEMMA TransmitStays ==
  ASSUME IInv, pc = "transmit", [Next]_vars, ~Transmit
  PROVE  /\ pc' = pc /\ PassesLeft' = PassesLeft
         /\ ~OnAir => ~OnAir'
<1>1. /\ pc' = pc
      /\ drv' = drv \/ Sync \/ Payload \/ Sent
  BY Zenon DEF Next, Loop, WaitForBand, SetChannel, Hello, NoHello, Receive,
     NotReady, Relay, Keep, Sync, Payload, Sent, NextSlot, Elapse, vars
<1>2. drv'.jobs = drv.jobs
  BY <1>1, Zenon DEF IInv, TypeOK, Driver, Sync, Payload, Sent
<1>3. ~OnAir => ~OnAir'
  BY <1>1, Zenon DEF IInv, TypeOK, Driver, Sync, Payload, Sent, OnAir
<1> QED BY <1>1, <1>2, <1>3 DEF PassesLeft, Queued

(* In a transmission the loop is that of sx12xx_transmit.                  *)
LEMMA LoopTransmits == Loop /\ pc = "transmit" => Transmit
BY DEF Loop, WaitForBand, SetChannel, Hello, NoHello, Receive, NotReady, Relay, Keep

(* The number of passes left is 0 outside of a transmission only.           *)
LEMMA PassesOver == pc' # "transmit" <=> PassesLeft' = 0
BY DEF PassesLeft

Passing(n) == pc = "transmit" /\ PassesLeft = n

LEMMA FirstPass ==
  IInv /\ IInv' /\ [Next]_vars /\ Passing(4) =>
    /\ Passing(4)' \/ Passing(3)'
    /\ Loop => Passing(3)'
BY TransmitStages, TransmitStays, TransmitPass, LoopTransmits, PassesOver DEF Passing

LEMMA SendingPass ==
  IInv /\ IInv' /\ [Next]_vars /\ Passing(3) /\ OnAir =>
    /\ Passing(3)'
    /\ Sent => ~OnAir'
<1> SUFFICES ASSUME IInv, IInv', [Next]_vars, Passing(3), OnAir
             PROVE  Passing(3)' /\ (Sent => ~OnAir')
  OBVIOUS
<1>1. Passing(3)'
  BY TransmitStays, TransmitPass, PassesOver DEF Passing
<1>2. Sent => ~OnAir'
  BY Zenon DEF IInv, TypeOK, Driver, Sent, OnAir
<1> QED BY <1>1, <1>2

LEMMA SentPass ==
  IInv /\ IInv' /\ [Next]_vars /\ Passing(3) /\ ~OnAir =>
    /\ (Passing(3) /\ ~OnAir)' \/ Passing(2)'
    /\ Loop => Passing(2)'
BY TransmitStays, TransmitPass, LoopTransmits, PassesOver DEF Passing

LEMMA IrqPass ==
  IInv /\ IInv' /\ [Next]_vars /\ Passing(2) =>
    /\ Passing(2)' \/ Passing(1)'
    /\ Loop => Passing(1)'
BY TransmitStages, TransmitStays, TransmitPass, LoopTransmits, PassesOver DEF Passing

LEMMA LastPass ==
  IInv /\ IInv' /\ [Next]_vars /\ Passing(1) =>
    /\ Passing(1)' \/ pc' # "transmit"
    /\ Loop => pc' # "transmit"
BY TransmitStages, TransmitStays, TransmitPass, LoopTransmits, PassesOver DEF Passing

(* sx12xx_transmit returns (RF.cpp:806-830), for any channels and whatever  *)
(* comes in: the main loop is not held up for ever.                        *)
THEOREM TransmitEndsHolds == FairSpec /\ []NotStuck => TransmitEnds
<1>1. IInv /\ pc = "transmit" =>
        Passing(4) \/ (Passing(3) /\ OnAir) \/ (Passing(3) /\ ~OnAir) \/ Passing(2) \/ Passing(1)
  BY TransmitStages DEF Passing
<1>2. /\ IInv /\ NotStuck /\ (Passing(4) \/ Passing(2) \/ Passing(1)) => ENABLED <<Loop>>_vars
      /\ NotStuck /\ Passing(3) /\ ~OnAir => ENABLED <<Loop>>_vars
      /\ NotStuck /\ OnAir => ENABLED <<Sent>>_vars
  BY TransmitStages DEF Passing, NotStuck
<1>3. FairSpec /\ []NotStuck => (Passing(4) ~> Passing(3))
  <2>1. IInv /\ IInv' /\ [Next]_vars /\ Passing(4) => Passing(4)' \/ Passing(3)'
    BY FirstPass
  <2>2. IInv /\ IInv' /\ [Next]_vars /\ Passing(4) /\ <<Loop>>_vars => Passing(3)'
    BY FirstPass
  <2> QED BY <1>2, <2>1, <2>2, RadioInvariant, PTL DEF FairSpec, Spec
<1>4. FairSpec /\ []NotStuck => (Passing(3) /\ OnAir ~> Passing(3) /\ ~OnAir)
  <2>1. IInv /\ IInv' /\ [Next]_vars /\ Passing(3) /\ OnAir => Passing(3)'
    BY SendingPass
  <2>2. IInv /\ IInv' /\ [Next]_vars /\ Passing(3) /\ OnAir /\ <<Sent>>_vars => ~OnAir'
    BY SendingPass
  <2> QED BY <1>2, <2>1, <2>2, RadioInvariant, PTL DEF FairSpec, Spec
<1>5. FairSpec /\ []NotStuck => (Passing(3) /\ ~OnAir ~> Passing(2))
  <2>1. IInv /\ IInv' /\ [Next]_vars /\ Passing(3) /\ ~OnAir
          => (Passing(3) /\ ~OnAir)' \/ Passing(2)'
    BY SentPass
  <2>2. IInv /\ IInv' /\ [Next]_vars /\ Passing(3) /\ ~OnAir /\ <<Loop>>_vars => Passing(2)'
    BY SentPass
  <2> QED BY <1>2, <2>1, <2>2, RadioInvariant, PTL DEF FairSpec, Spec
<1>6. FairSpec /\ []NotStuck => (Passing(2) ~> Passing(1))
  <2>1. IInv /\ IInv' /\ [Next]_vars /\ Passing(2) => Passing(2)' \/ Passing(1)'
    BY IrqPass
  <2>2. IInv /\ IInv' /\ [Next]_vars /\ Passing(2) /\ <<Loop>>_vars => Passing(1)'
    BY IrqPass
  <2> QED BY <1>2, <2>1, <2>2, RadioInvariant, PTL DEF FairSpec, Spec
<1>7. FairSpec /\ []NotStuck => (Passing(1) ~> pc # "transmit")
  <2>1. IInv /\ IInv' /\ [Next]_vars /\ Passing(1) => Passing(1)' \/ (pc # "transmit")'
    BY LastPass
  <2>2. IInv /\ IInv' /\ [Next]_vars /\ Passing(1) /\ <<Loop>>_vars => (pc # "transmit")'
    BY LastPass
  <2> QED BY <1>2, <2>1, <2>2, RadioInvariant, PTL DEF FairSpec, Spec
<1> QED
  BY <1>1, <1>3, <1>4, <1>5, <1>6, <1>7, RadioInvariant, PTL DEF FairSpec, TransmitEnds

-------------------------------------------------------------------------------
(* The proof that the station comes back to listening: the radio becomes    *)
(* ready, the first pass of ground() ends, and from then on a packet read    *)
(* out, a transmission or a change of the channel is over before the next   *)
(* but one call of RF_Receive, which starts the receiver.                   *)

Ready == RF_ready /\ groundstation

Heeding == drv.op = "rx" /\ drv.active

WithPacket(where) == pc = where /\ Fetched(drv)

WithoutPacket(where) == pc = where /\ ~Fetched(drv)

(* No step takes back what the start has achieved.                         *)
LEMMA ReadyStays ==
  ASSUME [Next]_vars
  PROVE  (RF_ready => RF_ready') /\ (groundstation => groundstation')
<1>1. /\ RF_ready' = RF_ready \/ RF_ready' = TRUE
      /\ groundstation' = groundstation \/ groundstation' = TRUE
  BY DEF Next, Loop, WaitForBand, SetChannel, Hello, NoHello, Receive, NotReady,
     Relay, Keep, BeginTransmit, Transmit, Sync, Payload, Sent, NextSlot, Elapse, vars
<1> QED BY <1>1

(* Packets and slots may come between two passes, but change no pass.       *)
LEMMA BetweenPasses ==
  ASSUME IInv, [Next]_vars, ~Loop
  PROVE  /\ pc' = pc /\ RF_ready' = RF_ready /\ groundstation' = groundstation
         /\ Fetched(drv)' <=> Fetched(drv)
<1>1. /\ pc' = pc /\ RF_ready' = RF_ready /\ groundstation' = groundstation
      /\ drv' = drv \/ Sync \/ Payload \/ Sent
  BY Zenon DEF Next, Sync, Payload, Sent, NextSlot, Elapse, vars
<1>2. ASSUME Sync \/ Payload \/ Sent
      PROVE  drv.op # "sleep" /\ drv'.op = drv.op
  BY <1>2, Zenon DEF IInv, TypeOK, Driver, Sync, Payload, Sent
<1> QED BY <1>1, <1>2 DEF Fetched

(* A change of the channel reads no packet out.                            *)
LEMMA SetsNoPacket ==
  ASSUME IInv, SetChannel, ~Fetched(drv)
  PROVE  ~Fetched(drv)'
<1>1. drv \in Driver /\ (Idle(drv) \/ Listening(drv) \/ Fetched(drv))
  BY DEF SetChannel, IInv, TypeOK, Modes
<1>2. hop \in Channels /\ RELAY_CHANNEL \in Channels
  BY DEF Channels, IInv, TypeOK
<1>3. \/ drv' = sx12xx_channel(drv, RELAY_CHANNEL)
      \/ drv' = sx12xx_channel(drv, hop)
      \/ drv' = drv
  BY ModeAssumption, Zenon DEF SetChannel
<1>4. Fetched(drv') => Fetched(drv)
  BY <1>1, <1>2, <1>3, SetsChannel, Zenon
<1> QED BY <1>4

(* RF_Receive starts the receiver, if no packet has been read out.          *)
LEMMA ReceiveHeeds ==
  ASSUME IInv, Receive, ~Fetched(drv), ~Heeding
  PROVE  Heeding'
<1>1. /\ drv \in Driver /\ drv.channel # NoChannel
      /\ drv' = os_runstep(startReceive(drv), damaged)
      /\ Idle(drv) \/ Listening(drv)
  BY DEF Receive, IInv, TypeOK, Modes, Start
<1>2. drv.jobs = << >> /\ ~drv.active
  BY <1>1 DEF Idle, Listening, Heeding
<1> DEFINE e == startReceive(drv)
<1>3. /\ e \in Driver /\ Listening(e) /\ e.active /\ ~e.received /\ e.jobs = << >>
  BY <1>1, <1>2, Starts
<1> HIDE DEF e
<1>4. Listening(os_runstep(e, damaged)) /\ os_runstep(e, damaged).active
  BY <1>3, StepQuiet
<1>5. Listening(drv') /\ drv'.active
  BY <1>1, <1>4 DEF e
<1> QED BY <1>5 DEF Listening, Heeding

(* ... and returns the packet, or drops it, if one has.                    *)
LEMMA ReceiveReturns ==
  ASSUME IInv, Receive, Fetched(drv)
  PROVE  pc' \in {"loop", "parse"} /\ ~Fetched(drv)'
<1>1. /\ drv \in Driver /\ drv.channel # NoChannel
      /\ drv' = os_runstep(startReceive(drv), damaged)
      /\ pc' \in {"loop", "parse"}
  BY DEF Receive, IInv, TypeOK, Start
<1>2. drv.flags # "ready"
  BY DEF Fetched
<1>3. Listening(drv') \/ drv'.jobs = << >>
  BY <1>1, <1>2, Receives, Zenon
<1>4. ~Fetched(drv')
  BY <1>3, Queues, Zenon DEF Listening, Fetched
<1> QED BY <1>1, <1>4

(* A pass of a station that is ready.                                      *)
LEMMA ReadyPass ==
  ASSUME IInv, Loop, Ready
  PROVE  /\ pc = "loop" => pc' = "ground" /\ (~Fetched(drv) => ~Fetched(drv)')
         /\ WithPacket("ground") => WithoutPacket("loop")' \/ WithoutPacket("parse")'
         /\ WithoutPacket("ground") => Heeding \/ Heeding'
         /\ pc = "parse" => WithoutPacket("loop")' \/ pc' = "transmit"
         /\ pc = "transmit" => pc' = "transmit" \/ WithoutPacket("loop")'
<1>1. ASSUME pc = "loop"
      PROVE  pc' = "ground" /\ (~Fetched(drv) => ~Fetched(drv)')
  <2>1. SetChannel
    BY <1>1 DEF Ready, Loop, WaitForBand, Hello, NoHello, Receive, NotReady, Relay,
       Keep, Transmit
  <2> QED BY <2>1, SetsNoPacket DEF SetChannel
<1>2. ASSUME pc = "ground"
      PROVE  Receive
  BY <1>2 DEF Ready, Loop, WaitForBand, SetChannel, Hello, NoHello, NotReady, Relay,
     Keep, Transmit
<1>3. ASSUME pc = "parse"
      PROVE  WithoutPacket("loop")' \/ pc' = "transmit"
  <2>1. Relay \/ Keep
    BY <1>3 DEF Loop, WaitForBand, SetChannel, Hello, NoHello, Receive, NotReady,
       Transmit
  <2>2. CASE Relay
    BY <2>2 DEF Relay, BeginTransmit
  <2>3. CASE Keep
    <3>1. drv.jobs = << >> /\ drv' = drv /\ pc' = "loop"
      BY <1>3, <2>3 DEF Keep, IInv, Packets
    <3>2. ~Fetched(drv')
      BY <3>1, Queues, Zenon DEF Fetched
    <3> QED BY <3>1, <3>2 DEF WithoutPacket
  <2> QED BY <2>1, <2>2, <2>3
<1>4. ASSUME pc = "transmit", pc' # "transmit"
      PROVE  WithoutPacket("loop")'
  <2>1. Transmit
    BY <1>4, LoopTransmits
  <2>2. drv'.sent /\ pc' = "loop"
    BY <1>4, <2>1 DEF Transmit, Ready
  <2>3. IInv'
    BY <2>1, TransmitStep
  <2>4. PassesLeft = 1
    <3>1. PassesLeft' = 0
      BY <1>4, PassesOver
    <3> QED BY <1>4, <2>1, <3>1, TransmitStages, TransmitPass
  <2>5. SentDone(drv)
    <3>1. Waiting(drv) => PassesLeft = 4
      BY <1>4, Passes DEF Waiting
    <3>2. Sending(drv) => PassesLeft \in {2, 3}
      BY <1>4, Passes DEF Sending
    <3> QED BY <1>4, <2>4, <3>1, <3>2 DEF IInv, Modes
  <2>6. Idle(drv')
    BY <2>1, <2>5, StepSent, Zenon DEF Transmit, IInv, TypeOK
  <2>7. ~Fetched(drv')
    BY <2>6, Queues, Zenon DEF Idle, Fetched
  <2> QED BY <2>2, <2>7 DEF WithoutPacket
<1> QED
  BY <1>1, <1>2, <1>3, <1>4, ReceiveHeeds, ReceiveReturns DEF WithPacket, WithoutPacket

(* The stations that are not ready, by where they are in the pass.          *)
Unready(where, radio) ==
  pc = where /\ ~groundstation /\ (RF_ready <=> radio)

(* A pass of a station that is not ready.                                  *)
LEMMA UnreadyPass ==
  ASSUME IInv, Loop
  PROVE  /\ Unready("ground", FALSE) => groundstation' /\ pc' = "ground"
         /\ pc = "ground" /\ groundstation /\ ~RF_ready => pc' = "loop"
         /\ Unready("loop", TRUE) => pc' = "ground"
         /\ Unready("ground", TRUE) => pc' = "transmit" \/ groundstation'
         /\ Unready("transmit", TRUE) => pc' = "transmit" \/ groundstation'
<1>1. ASSUME pc = "ground", ~groundstation
      PROVE  IF RF_ready THEN Hello \/ NoHello ELSE NoHello
  BY <1>1 DEF Loop, WaitForBand, SetChannel, Hello, NoHello, Receive, NotReady, Relay,
     Keep, Transmit
<1>2. ASSUME pc = "ground", groundstation, ~RF_ready
      PROVE  NotReady
  BY <1>2 DEF Loop, WaitForBand, SetChannel, Hello, NoHello, Receive, Relay, Keep,
     Transmit
<1>3. ASSUME pc = "loop", RF_ready
      PROVE  SetChannel
  BY <1>3 DEF Loop, WaitForBand, Hello, NoHello, Receive, NotReady, Relay, Keep,
     Transmit
<1>4. Hello => pc' = "transmit"
  BY DEF Hello, BeginTransmit
<1>5. pc = "transmit" => (pc' = "transmit" \/ groundstation')
  BY LoopTransmits DEF Transmit
<1> QED
  BY <1>1, <1>2, <1>3, <1>4, <1>5 DEF Unready, NoHello, NotReady, SetChannel

(* RF_loop chooses a channel at last: for as long as the band is not known,  *)
(* the passes come back to it.                                             *)
LEMMA BecomesTuned == FairSpec /\ []NotStuck => <>RF_ready
<1> DEFINE Late == pc = "ground" /\ groundstation /\ ~RF_ready
<1>1. IInv => RF_ready \/ Unready("ground", FALSE) \/ Late \/ pc = "loop"
  BY DEF IInv, Start, TypeOK, Unready
<1>2. NotStuck /\ (Unready("ground", FALSE) \/ Late) => ENABLED <<Loop>>_vars
  BY DEF NotStuck, Unready
<1>3. NotStuck /\ pc = "loop" => ENABLED <<SetChannel>>_vars
  BY DEF NotStuck
<1>4. IInv /\ [Next]_vars /\ Unready("ground", FALSE)
        => Unready("ground", FALSE)' \/ Late' \/ RF_ready'
  BY BetweenPasses, UnreadyPass DEF Unready
<1>5. IInv /\ Unready("ground", FALSE) /\ <<Loop>>_vars => Late' \/ RF_ready'
  BY UnreadyPass
<1>6. IInv /\ [Next]_vars /\ Late => Late' \/ (pc = "loop")'
  BY BetweenPasses, UnreadyPass
<1>7. IInv /\ Late /\ <<Loop>>_vars => (pc = "loop")'
  BY UnreadyPass
<1>8. <<SetChannel>>_vars => RF_ready'
  BY DEF SetChannel
<1> HIDE DEF Late
<1>9. FairSpec /\ []NotStuck => (Unready("ground", FALSE) ~> Late \/ RF_ready)
  BY <1>2, <1>4, <1>5, RadioInvariant, PTL DEF FairSpec, Spec
<1>10. FairSpec /\ []NotStuck => (Late ~> pc = "loop")
  BY <1>2, <1>6, <1>7, RadioInvariant, PTL DEF FairSpec, Spec
<1>11. FairSpec /\ []NotStuck => []<>(RF_ready \/ pc = "loop")
  BY <1>1, <1>9, <1>10, RadioInvariant, PTL DEF FairSpec
<1> QED BY <1>3, <1>8, <1>11, PTL DEF FairSpec, Spec

(* The first pass of ground() ends: its hello, if it sends one, does.       *)
LEMMA BecomesReady == FairSpec /\ []NotStuck => <>[]Ready
<1>1. IInv /\ RF_ready => \/ Ready \/ Unready("loop", TRUE) \/ Unready("ground", TRUE)
                         \/ Unready("transmit", TRUE)
  BY DEF IInv, Start, TypeOK, Unready, Ready
<1>2. NotStuck /\ (Unready("loop", TRUE) \/ Unready("ground", TRUE))
        => ENABLED <<Loop>>_vars
  BY DEF NotStuck, Unready
<1>3. IInv /\ [Next]_vars /\ Unready("loop", TRUE)
        => Unready("loop", TRUE)' \/ Unready("ground", TRUE)' \/ Ready'
  BY ReadyStays, BetweenPasses, UnreadyPass DEF Unready, Ready
<1>4. IInv /\ [Next]_vars /\ Unready("loop", TRUE) /\ <<Loop>>_vars
        => Unready("ground", TRUE)' \/ Ready'
  BY ReadyStays, UnreadyPass DEF Unready, Ready
<1>5. IInv /\ [Next]_vars /\ Unready("ground", TRUE)
        => Unready("ground", TRUE)' \/ Unready("transmit", TRUE)' \/ Ready'
  BY ReadyStays, BetweenPasses, UnreadyPass DEF Unready, Ready
<1>6. IInv /\ [Next]_vars /\ Unready("ground", TRUE) /\ <<Loop>>_vars
        => Unready("transmit", TRUE)' \/ Ready'
  BY ReadyStays, UnreadyPass DEF Unready, Ready
<1>7. IInv /\ [Next]_vars /\ Unready("transmit", TRUE)
        => Unready("transmit", TRUE)' \/ Ready'
  BY ReadyStays, BetweenPasses, UnreadyPass DEF Unready, Ready
<1>8. Unready("transmit", TRUE) => pc = "transmit" /\ ~(pc # "transmit")
  BY DEF Unready
<1>9. [Next]_vars /\ Ready => Ready'
  BY ReadyStays DEF Ready
<1>10. FairSpec /\ []NotStuck => (Unready("loop", TRUE) ~> Unready("ground", TRUE) \/ Ready)
  BY <1>2, <1>3, <1>4, RadioInvariant, PTL DEF FairSpec, Spec
<1>11. FairSpec /\ []NotStuck => (Unready("ground", TRUE) ~> Unready("transmit", TRUE) \/ Ready)
  BY <1>2, <1>5, <1>6, RadioInvariant, PTL DEF FairSpec, Spec
<1>12. FairSpec /\ []NotStuck => (Unready("transmit", TRUE) ~> Ready)
  BY <1>7, <1>8, TransmitEndsHolds, RadioInvariant, PTL DEF FairSpec, Spec, TransmitEnds
<1>13. FairSpec /\ []NotStuck => <>Ready
  BY <1>1, <1>10, <1>11, <1>12, BecomesTuned, RadioInvariant, PTL DEF FairSpec
<1> QED BY <1>9, <1>13, PTL DEF FairSpec, Spec

(* What a station that is ready can do in a step.                          *)
LEMMA ReadySteps ==
  ASSUME IInv, Ready, [Next]_vars
  PROVE  /\ WithPacket("loop") =>
              WithPacket("loop")' \/ WithPacket("ground")' \/ WithoutPacket("ground")'
         /\ WithPacket("ground") =>
              WithPacket("ground")' \/ WithoutPacket("loop")' \/ WithoutPacket("parse")'
         /\ WithoutPacket("parse") =>
              WithoutPacket("parse")' \/ WithoutPacket("loop")' \/ (pc = "transmit")'
         /\ pc = "transmit" => (pc = "transmit")' \/ WithoutPacket("loop")'
         /\ WithoutPacket("loop") => WithoutPacket("loop")' \/ WithoutPacket("ground")'
         /\ WithoutPacket("ground") => WithoutPacket("ground")' \/ Heeding \/ Heeding'
<1>1. CASE Loop
  BY <1>1, ReadyPass DEF WithPacket, WithoutPacket
<1>2. CASE ~Loop
  BY <1>2, BetweenPasses DEF WithPacket, WithoutPacket
<1> QED BY <1>1, <1>2

(* ... and does in a pass of the main loop.                                *)
LEMMA ReadyPasses ==
  ASSUME IInv, Ready, Loop
  PROVE  /\ WithPacket("loop") => WithPacket("ground")' \/ WithoutPacket("ground")'
         /\ WithPacket("ground") => WithoutPacket("loop")' \/ WithoutPacket("parse")'
         /\ WithoutPacket("parse") => WithoutPacket("loop")' \/ (pc = "transmit")'
         /\ WithoutPacket("loop") => WithoutPacket("ground")'
         /\ WithoutPacket("ground") => Heeding \/ Heeding'
BY ReadyPass DEF WithPacket, WithoutPacket

(* The receiver is started again and again (RF.cpp:735-779), whatever comes *)
(* in, whatever is sent and however often the channel changes: the station  *)
(* is never left with a radio that sleeps or a packet that nobody fetches.  *)
THEOREM ListensHolds == FairSpec /\ []NotStuck => Listens
<1>1. IInv => \/ WithPacket("loop") \/ WithPacket("ground") \/ WithoutPacket("parse")
              \/ pc = "transmit" \/ WithoutPacket("loop") \/ WithoutPacket("ground")
  <2>1. IInv /\ pc = "parse" => ~Fetched(drv)
    BY Queues, Zenon DEF IInv, Packets, Fetched
  <2>2. IInv => pc \in {"loop", "ground", "parse", "transmit"}
    BY DEF IInv, TypeOK
  <2> QED BY <2>1, <2>2 DEF WithPacket, WithoutPacket
<1>2. NotStuck /\ (\/ WithPacket("loop") \/ WithPacket("ground") \/ WithoutPacket("parse")
                   \/ WithoutPacket("loop") \/ WithoutPacket("ground"))
        => ENABLED <<Loop>>_vars
  BY DEF NotStuck, WithPacket, WithoutPacket
<1> DEFINE Goes == /\ [][Next]_vars /\ WF_vars(Loop) /\ []NotStuck
                   /\ []IInv /\ TransmitEnds /\ []Ready
<1>3. Goes => (WithPacket("loop") ~> WithPacket("ground") \/ WithoutPacket("ground"))
  <2>1. IInv /\ Ready /\ [Next]_vars /\ WithPacket("loop") =>
          WithPacket("loop")' \/ WithPacket("ground")' \/ WithoutPacket("ground")'
    BY ReadySteps
  <2>2. IInv /\ Ready /\ <<Loop>>_vars /\ WithPacket("loop") =>
          WithPacket("ground")' \/ WithoutPacket("ground")'
    BY ReadyPasses
  <2> QED BY <1>2, <2>1, <2>2, PTL
<1>4. Goes => (WithPacket("ground") ~> WithoutPacket("loop") \/ WithoutPacket("parse"))
  <2>1. IInv /\ Ready /\ [Next]_vars /\ WithPacket("ground") =>
          WithPacket("ground")' \/ WithoutPacket("loop")' \/ WithoutPacket("parse")'
    BY ReadySteps
  <2>2. IInv /\ Ready /\ <<Loop>>_vars /\ WithPacket("ground") =>
          WithoutPacket("loop")' \/ WithoutPacket("parse")'
    BY ReadyPasses
  <2> QED BY <1>2, <2>1, <2>2, PTL
<1>5. Goes => (WithoutPacket("parse") ~> WithoutPacket("loop") \/ pc = "transmit")
  <2>1. IInv /\ Ready /\ [Next]_vars /\ WithoutPacket("parse") =>
          WithoutPacket("parse")' \/ WithoutPacket("loop")' \/ (pc = "transmit")'
    BY ReadySteps
  <2>2. IInv /\ Ready /\ <<Loop>>_vars /\ WithoutPacket("parse") =>
          WithoutPacket("loop")' \/ (pc = "transmit")'
    BY ReadyPasses
  <2> QED BY <1>2, <2>1, <2>2, PTL
<1>6. Goes => (pc = "transmit" ~> WithoutPacket("loop"))
  <2>1. IInv /\ Ready /\ [Next]_vars /\ pc = "transmit" =>
          (pc = "transmit")' \/ WithoutPacket("loop")'
    BY ReadySteps
  <2>2. ~(pc = "transmit" /\ pc # "transmit")
    OBVIOUS
  <2> QED BY <2>1, <2>2, PTL DEF TransmitEnds
<1>7. Goes => (WithoutPacket("loop") ~> WithoutPacket("ground"))
  <2>1. IInv /\ Ready /\ [Next]_vars /\ WithoutPacket("loop") =>
          WithoutPacket("loop")' \/ WithoutPacket("ground")'
    BY ReadySteps
  <2>2. IInv /\ Ready /\ <<Loop>>_vars /\ WithoutPacket("loop") => WithoutPacket("ground")'
    BY ReadyPasses
  <2> QED BY <1>2, <2>1, <2>2, PTL
<1>8. Goes => (WithoutPacket("ground") ~> Heeding)
  <2>1. IInv /\ Ready /\ [Next]_vars /\ WithoutPacket("ground") =>
          WithoutPacket("ground")' \/ Heeding \/ Heeding'
    BY ReadySteps
  <2>2. IInv /\ Ready /\ <<Loop>>_vars /\ WithoutPacket("ground") => Heeding \/ Heeding'
    BY ReadyPasses
  <2> QED BY <1>2, <2>1, <2>2, PTL
<1>9. Goes => []<>Heeding
  BY <1>1, <1>3, <1>4, <1>5, <1>6, <1>7, <1>8, PTL
<1>10. FairSpec /\ []NotStuck => []<>Heeding
  BY <1>9, BecomesReady, RadioInvariant, TransmitEndsHolds, PTL DEF FairSpec, Spec, TransmitEnds
<1> QED BY <1>10, PTL DEF Listens, Heeding

===============================================================================
