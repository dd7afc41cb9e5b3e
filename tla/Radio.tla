--------------------------------- MODULE Radio ---------------------------------
(***************************************************************************)
(* The radio driver: RF_loop, RF_Transmit and RF_Receive with the sx12xx_*  *)
(* functions (RF.cpp), on the cooperative job scheduler of the LMIC library *)
(* (oslmic.c, radio.c) and a transceiver whose interrupt flags are polled   *)
(* (radio-sx127x.c, hal.cpp).                                              *)
(*                                                                         *)
(* The driver starts an operation of the transceiver and returns; the end  *)
(* of it is found by a poll, which queues the job "irq", which queues the   *)
(* job "os", which calls back whatever function is registered THEN.  Each   *)
(* pass of the main loop runs one job; a transmission runs jobs until its   *)
(* callback has come.  What one call does without looking at the flags of   *)
(* the transceiver is one step; packets come between steps.                *)
(***************************************************************************)
EXTENDS Integers, Sequences

CONSTANTS
  ognrelay_enable,  \* a relay: what is received is sent on?
  ognrelay_base,    \* the base station of relays?
  Hopping,          \* is there a fix, and a protocol that hops?
  Hops,             \* the channels of the slots
  RELAY_CHANNEL,    \* the channel of the relays (4)
  MaxHeard          \* bound of the model: packets in the air

ASSUME ModeAssumption ==
  /\ ognrelay_enable \in BOOLEAN /\ ognrelay_base \in BOOLEAN
  /\ Hopping \in BOOLEAN
ASSUME ChannelAssumption ==
  /\ 0 \in Hops /\ Hops \subseteq Nat
  /\ RELAY_CHANNEL \in Nat
ASSUME BoundAssumption == MaxHeard \in Nat

VARIABLES
  pc,             \* where in the pass of loop() the program is
  drv,            \* the driver, the scheduler and the transceiver
  RF_ready,
  groundstation,  \* the first pass of ground() has sent its hello
  hop,            \* the channel of the current slot
  newSlot,        \* the slot has begun and RF_SetChannel has not seen it
  txTime,         \* the time to the next transmission is over
  TxBuffer,       \* number of the packet in the buffer
  heard,          \* history: packets received by the transceiver
  damaged,        \* history: those of them that fail the checksum
  delivered,      \* history: the packets RF_Receive returned
  aired           \* history: packets sent, with their channels

vars == <<pc, drv, RF_ready, groundstation, hop, newSlot, txTime, TxBuffer,
          heard, damaged, delivered, aired>>

Own == 0          \* the station's own position packet
NoChannel == -1

-------------------------------------------------------------------------------
(* The transceiver and the scheduler. *)

(* unlinkjob: without the first occurrence.                                *)
Without(jobs, job) ==
  LET queued == \E i \in DOMAIN jobs : jobs[i] = job
  IN  [i \in 1 .. Len(jobs) - (IF queued THEN 1 ELSE 0) |->
         IF \A k \in 1 .. i : jobs[k] # job THEN jobs[i] ELSE jobs[i + 1]]

(* hal_io_check: a change of the flags queues the job "irq".               *)
Poll(d) ==
  IF d.edge THEN [d EXCEPT !.edge = FALSE,
                           !.jobs = Append(Without(@, "irq"), "irq")]
  ELSE d

(* os_setCallback.                                                         *)
setCallback(d, job) == Poll([d EXCEPT !.jobs = Append(Without(@, job), job)])

(* Mutant: the transceiver is not put to sleep. *)
StopWithoutSleep(d) == [d EXCEPT !.jobs = Without(@, "irq")]

(* A transceiver put to sleep forgets its flags; the job "os" is not        *)
(* cancelled.                                                              *)
radio_stop(d) == [d EXCEPT !.op = "sleep", !.flags = "none", !.edge = FALSE,
                           !.jobs = Without(@, "irq")]

(* os_radio: the frequency is written when an operation starts.            *)
os_radio(d, op) == [radio_stop(d) EXCEPT !.op = op, !.tuned = d.channel]

(* radio_irq_func: after "sync" the rest of the packet is waited for.       *)
irq_func(d) ==
  CASE d.flags = "ready" -> setCallback(radio_stop([d EXCEPT !.frame = d.fifo]), "os")
    [] d.flags = "sent"  -> setCallback(radio_stop(d), "os")
    [] OTHER             -> d

-------------------------------------------------------------------------------
(* The driver. *)

(* Mutants: the channel is only set for a receiver under way; the receiver  *)
(* is not stopped.                                                         *)
ChannelIfActive(d, c) ==
  IF d.active THEN [radio_stop(d) EXCEPT !.active = FALSE, !.channel = c] ELSE d

ChannelWithoutStop(d, c) == [d EXCEPT !.channel = c]

sx12xx_channel(d, c) ==
  LET quiet == IF d.active THEN [radio_stop(d) EXCEPT !.active = FALSE] ELSE d
  IN  IF c = d.channel THEN d ELSE [quiet EXCEPT !.channel = c]

(* Mutant: a packet that fails the checksum leaves the receiver "active". *)
StaysActive(d, bad) == [d EXCEPT !.active = d.frame \in bad,
                                 !.received = d.frame \notin bad]

(* The end of a reception; "bad" are the packets that fail the checksum.    *)
rx_func(d, bad) == [d EXCEPT !.active = FALSE, !.received = d.frame \notin bad]

(* Mutants: the callback of the reception stays registered; the channels    *)
(* are set in the wrong order.                                             *)
TransmitKeepsCallback(d) ==
  sx12xx_channel(os_radio([radio_stop(d) EXCEPT !.frame = Own], "tx"), 0)

TransmitOnNextChannel(d) ==
  LET away == IF ognrelay_enable THEN sx12xx_channel(d, RELAY_CHANNEL) ELSE d
      back == sx12xx_channel([radio_stop(away) EXCEPT !.frame = Own, !.func = "txdone"], 0)
  IN  os_radio(back, "tx")

(* The job of a transmission: the relay goes to its own channel for it, and *)
(* every station to channel 0 after it.                                    *)
tx_func(d) ==
  LET away == IF ognrelay_enable THEN sx12xx_channel(d, RELAY_CHANNEL) ELSE d
      sending == os_radio([radio_stop(away) EXCEPT !.frame = Own, !.func = "txdone"], "tx")
  IN  sx12xx_channel(sending, 0)

(* os_runstep: the first job is taken from the queue, the flags are polled, *)
(* the job is run.                                                         *)
os_runstep(d, bad) ==
  IF d.jobs = << >> THEN Poll(d)
  ELSE LET job == Head(d.jobs)
           e == Poll([d EXCEPT !.jobs = Tail(@)])
       IN  CASE job = "irq" -> irq_func(e)
             [] job = "tx"  -> tx_func(e)
             [] job = "os" /\ e.func = "rx" -> rx_func(e, bad)
             [] job = "os" /\ e.func # "rx" -> [e EXCEPT !.sent = TRUE]

(* Mutant: a packet returned before is taken for a new one. *)
ReceivedNotReset(d) ==
  IF d.active THEN d ELSE [os_radio([d EXCEPT !.func = "rx"], "rx") EXCEPT !.active = TRUE]

(* sx12xx_receive up to the job it runs.                                   *)
startReceive(d) ==
  LET e == [d EXCEPT !.received = FALSE]
  IN  IF e.active THEN e
      ELSE [os_radio([e EXCEPT !.func = "rx"], "rx") EXCEPT !.active = TRUE]

(* Mutant: the end of an earlier transmission is taken for this one's. *)
SentNotReset(d) == setCallback([d EXCEPT !.active = FALSE], "tx")

(* sx12xx_transmit up to its loop.                                         *)
startTransmit(d) == setCallback([d EXCEPT !.sent = FALSE, !.active = FALSE], "tx")

-------------------------------------------------------------------------------

Init ==
  /\ pc = "loop"
  /\ drv = [op |-> "sleep", flags |-> "none", edge |-> FALSE, fifo |-> 0,
            tuned |-> NoChannel, jobs |-> << >>, func |-> "none", frame |-> 0,
            channel |-> NoChannel, active |-> FALSE, received |-> FALSE,
            sent |-> FALSE]
  /\ RF_ready = FALSE /\ groundstation = FALSE
  /\ hop = 0 /\ newSlot = TRUE
  /\ txTime = TRUE
  /\ TxBuffer = Own
  /\ heard = 0 /\ damaged = {} /\ delivered = << >> /\ aired = << >>

(* RF_loop: with an automatic band the radio has to wait for a position.    *)
WaitForBand ==
  /\ pc = "loop" /\ ~RF_ready
  /\ pc' = "ground"
  /\ UNCHANGED <<drv, RF_ready, groundstation, hop, newSlot, txTime, TxBuffer,
                 heard, damaged, delivered, aired>>

(* RF_SetChannel does nothing within a slot, if there are slots.           *)
SetChannel ==
  /\ pc = "loop"
  /\ RF_ready' = TRUE
  /\ drv' = CASE ognrelay_base -> sx12xx_channel(drv, RELAY_CHANNEL)
              [] ~ognrelay_base /\ (newSlot \/ ~Hopping) -> sx12xx_channel(drv, hop)
              [] OTHER -> drv
  /\ newSlot' = FALSE
  /\ txTime' = (txTime /\ (ognrelay_base \/ ~Hopping \/ ~newSlot))
  /\ pc' = "ground"
  /\ UNCHANGED <<groundstation, hop, TxBuffer, heard, damaged, delivered, aired>>

BeginTransmit(packet) ==
  /\ TxBuffer' = packet
  /\ drv' = startTransmit(drv)
  /\ pc' = "transmit"
  /\ UNCHANGED <<RF_ready, groundstation, hop, newSlot, txTime, heard, damaged,
                 delivered, aired>>

(* The first pass of ground() sends the station's position, once.          *)
Hello ==
  /\ pc = "ground" /\ ~groundstation
  /\ RF_ready /\ txTime
  /\ BeginTransmit(Own)

NoHello ==
  /\ pc = "ground" /\ ~groundstation
  /\ ~(RF_ready /\ txTime)
  /\ groundstation' = TRUE
  /\ UNCHANGED <<pc, drv, RF_ready, hop, newSlot, txTime, TxBuffer, heard,
                 damaged, delivered, aired>>

(* RF_Receive runs one job; a packet it completes is delivered.            *)
Receive ==
  /\ pc = "ground" /\ groundstation
  /\ RF_ready
  /\ drv' = os_runstep(startReceive(drv), damaged)
  /\ delivered' = IF drv'.received THEN Append(delivered, drv'.frame) ELSE delivered
  /\ pc' = IF drv'.received THEN "parse" ELSE "loop"
  /\ UNCHANGED <<RF_ready, groundstation, hop, newSlot, txTime, TxBuffer, heard,
                 damaged, aired>>

NotReady ==
  /\ pc = "ground" /\ groundstation
  /\ ~RF_ready
  /\ pc' = "loop"
  /\ UNCHANGED <<drv, RF_ready, groundstation, hop, newSlot, txTime, TxBuffer,
                 heard, damaged, delivered, aired>>

(* ParseData of a relay sends the packet on, when the time has come.        *)
Relay ==
  /\ pc = "parse" /\ ognrelay_enable /\ txTime
  /\ BeginTransmit(drv.frame)

(* A base station keeps the packet (module Traffic); a relay that may not   *)
(* send yet, or has no position, loses it.                                 *)
Keep ==
  /\ pc = "parse"
  /\ pc' = "loop"
  /\ UNCHANGED <<drv, RF_ready, groundstation, hop, newSlot, txTime, TxBuffer,
                 heard, damaged, delivered, aired>>

(* The loop of sx12xx_transmit.                                            *)
Transmit ==
  /\ pc = "transmit"
  /\ drv' = os_runstep(drv, damaged)
  /\ aired' = IF drv.op # "tx" /\ drv'.op = "tx"
              THEN Append(aired, [packet |-> TxBuffer, channel |-> drv'.tuned])
              ELSE aired
  /\ IF drv'.sent
     THEN /\ pc' = IF groundstation THEN "loop" ELSE "ground"
          /\ groundstation' = TRUE
          /\ txTime' = FALSE
     ELSE UNCHANGED <<pc, groundstation, txTime>>
  /\ UNCHANGED <<RF_ready, hop, newSlot, TxBuffer, heard, damaged, delivered>>

Loop == \/ WaitForBand \/ SetChannel \/ Hello \/ NoHello \/ Receive \/ NotReady
        \/ Relay \/ Keep \/ Transmit

-------------------------------------------------------------------------------
(* The transceiver and the time. *)

(* The receiver finds the sync word of a packet ...                        *)
Sync ==
  /\ drv.op = "rx" /\ drv.flags = "none"
  /\ heard < MaxHeard
  /\ drv' = [drv EXCEPT !.flags = "sync", !.edge = TRUE]
  /\ UNCHANGED <<pc, RF_ready, groundstation, hop, newSlot, txTime, TxBuffer,
                 heard, damaged, delivered, aired>>

(* ... and has all of it.                                                  *)
Payload ==
  /\ drv.op = "rx" /\ drv.flags = "sync"
  /\ heard < MaxHeard
  /\ heard' = heard + 1
  /\ drv' = [drv EXCEPT !.flags = "ready", !.edge = TRUE, !.fifo = heard']
  /\ damaged' \in {damaged, damaged \cup {heard'}}
  /\ UNCHANGED <<pc, RF_ready, groundstation, hop, newSlot, txTime, TxBuffer,
                 delivered, aired>>

Sent ==
  /\ drv.op = "tx" /\ drv.flags = "none"
  /\ drv' = [drv EXCEPT !.flags = "sent", !.edge = TRUE]
  /\ UNCHANGED <<pc, RF_ready, groundstation, hop, newSlot, txTime, TxBuffer,
                 heard, damaged, delivered, aired>>

NextSlot ==
  /\ Hopping
  /\ hop' \in Hops \ {hop}
  /\ newSlot' = TRUE
  /\ UNCHANGED <<pc, drv, RF_ready, groundstation, txTime, TxBuffer, heard,
                 damaged, delivered, aired>>

Elapse ==
  /\ ~txTime
  /\ txTime' = TRUE
  /\ UNCHANGED <<pc, drv, RF_ready, groundstation, hop, newSlot, TxBuffer, heard,
                 damaged, delivered, aired>>

Next == Loop \/ Sync \/ Payload \/ Sent \/ NextSlot \/ Elapse

Spec == Init /\ [][Next]_vars

(* The processor runs, the band gets known, a transmission ends.            *)
FairSpec == Spec /\ WF_vars(Loop) /\ SF_vars(SetChannel) /\ WF_vars(Sent)

-------------------------------------------------------------------------------
(* Properties. *)

Jobs == {"irq", "os", "tx"}

Channels == Hops \cup {RELAY_CHANNEL}

Driver == [op : {"sleep", "rx", "tx"}, flags : {"none", "sync", "ready", "sent"},
           edge : BOOLEAN, fifo : Nat, tuned : Channels \cup {NoChannel},
           jobs : Seq(Jobs), func : {"none", "rx", "txdone"}, frame : Nat,
           channel : Channels \cup {NoChannel},
           active : BOOLEAN, received : BOOLEAN, sent : BOOLEAN]

(* Type correctness; in particular no operation of the transceiver starts   *)
(* before a channel was chosen, and never do more than two jobs wait.      *)
TypeOK ==
  /\ pc \in {"loop", "ground", "parse", "transmit"}
  /\ drv \in Driver
  /\ Len(drv.jobs) <= 2
  /\ drv.op # "sleep" => drv.tuned # NoChannel
  /\ RF_ready \in BOOLEAN /\ groundstation \in BOOLEAN
  /\ hop \in Hops /\ newSlot \in BOOLEAN /\ txTime \in BOOLEAN
  /\ TxBuffer \in Nat
  /\ heard \in 0 .. MaxHeard /\ damaged \subseteq 1 .. heard
  /\ delivered \in Seq(Nat) /\ aired \in Seq([packet : Nat, channel : Channels])

Queued(job) == \E i \in DOMAIN drv.jobs : drv.jobs[i] = job

(* A driver that holds its receiver to be active has one that listens, on   *)
(* the channel set last, or a job under way that will find out: it is never *)
(* deaf while waiting for a packet (RF.cpp:747, 593-597, 847-848).          *)
NotDeaf ==
  drv.active =>
    \/ drv.op = "rx" /\ drv.tuned = drv.channel
    \/ Queued("os") /\ drv.func = "rx"

(* The edge of a flag is never lost: packet or transmission, what the       *)
(* transceiver has finished is still to be polled or has its job queued.    *)
FlagsSeen == drv.flags \in {"ready", "sent"} => drv.edge \/ Queued("irq")

(* No transmission is cut off by another use of the transceiver.            *)
NotCutOff == [][drv.op = "tx" /\ drv'.op # "tx" => drv.flags = "sent"]_vars

(* RF_Receive returns no packet twice, none that failed the checksum, and   *)
(* packets in the order they came in.                                      *)
DeliveredOnce ==
  /\ \A i \in DOMAIN delivered : delivered[i] \in (1 .. heard) \ damaged
  /\ \A i, j \in DOMAIN delivered : i < j => delivered[i] < delivered[j]

(* A relay sends each packet on once at most, in order, only packets it     *)
(* has delivered, and on the relay channel; a base sends its hello only.    *)
RelayedOnce ==
  /\ \A i \in DOMAIN aired :
       IF ognrelay_enable THEN aired[i].channel = RELAY_CHANNEL
                          ELSE aired[i].packet = Own
  /\ \A i \in DOMAIN aired : aired[i].packet # Own =>
       \E j \in DOMAIN delivered : delivered[j] = aired[i].packet
  /\ \A i, j \in DOMAIN aired : i < j => aired[i].packet < aired[j].packet

(* Passes that the loop of sx12xx_transmit still needs, besides those in     *)
(* which it waits for the transceiver: one for the job "tx", one to find    *)
(* that all is sent, one for the job "irq", one for the callback.          *)
PassesLeft ==
  CASE pc # "transmit"                   -> 0
    [] pc = "transmit" /\ Queued("tx")  -> 4
    [] pc = "transmit" /\ ~Queued("tx") -> IF Queued("irq") THEN 2
                                           ELSE IF Queued("os") THEN 1 ELSE 3

OnAir == drv.op = "tx" /\ drv.flags = "none"

(* The loop of sx12xx_transmit, which nothing guards (RF.cpp:806-830), has   *)
(* four passes to go and gets on with each: no job left over from the       *)
(* reception, no packet that comes in meanwhile and no slot sets it back,   *)
(* and it waits for nothing but the transceiver.                           *)
TransmitAdvances ==
  [][CASE pc # "transmit"                          -> PassesLeft' \in {0, 4}
       [] pc = "transmit" /\ Transmit /\ ~OnAir    -> PassesLeft' = PassesLeft - 1
       [] pc = "transmit" /\ ~(Transmit /\ ~OnAir) -> PassesLeft' = PassesLeft]_vars

(* The main loop is never stuck: while the transceiver is on the air        *)
(* sx12xx_transmit waits for it, but always finds something to do once it   *)
(* has sent, and no other state of the driver holds a pass up.  (These are   *)
(* the occasions on which the fairness of the three actions obliges.)       *)
NotStuck ==
  /\ ~(pc = "transmit" /\ OnAir) => ENABLED <<Loop>>_vars
  /\ pc = "loop" => ENABLED <<SetChannel>>_vars
  /\ OnAir => ENABLED <<Sent>>_vars

(* The loop of sx12xx_transmit, which nothing guards, always ends.          *)
TransmitEnds == pc = "transmit" ~> pc # "transmit"

(* The station comes back to listening, whatever it hears, sends or hops.   *)
Listens == []<>(drv.op = "rx" /\ drv.active)

===============================================================================
