----------------------------- MODULE TrafficProofs ----------------------------
(***************************************************************************)
(* Proofs about the traffic pipeline, for any number of aircraft and slots *)
(* and any times, distances and clock settings.                            *)
(***************************************************************************)
EXTENDS Traffic, TLAPS

(* Slots whose report may still be exported before the table is emptied. *)
Pending(j) == IF phase = "clean" THEN FALSE
              ELSE IF phase = "export" THEN j >= ix ELSE TRUE

(* The report of a slot is one that was heard. *)
SlotsHeard ==
  \A j \in Slots : Container[j].addr # NoAddr =>
    /\ Container[j].id \in DOMAIN heard
    /\ heard[Container[j].id].addr = Container[j].addr
    /\ heard[Container[j].id].pos = Container[j].pos
    /\ heard[Container[j].id].speed = Container[j].speed
    /\ heard[Container[j].id].masked = Container[j].masked
    /\ heard[Container[j].id].ts = Container[j].ts

(* Database entry e remembers report m. *)
Remembers(e, m) == /\ heard[m].addr = e.addr
                   /\ heard[m].pos = e.pos
                   /\ heard[m].ts = e.ts

(* Report m is older than what the table still holds of its aircraft. *)
OlderThanPending(m) ==
  \A j \in Slots : Pending(j) /\ Container[j].addr = heard[m].addr
                              /\ Container[j].addr # NoAddr => m < Container[j].id

(* Every database entry remembers a report older than the pending one. *)
EntriesHeard ==
  \A i \in Slots : ac[i].addr # NoAddr =>
    \E m \in DOMAIN heard : Remembers(ac[i], m) /\ OlderThanPending(m)

(* What was sent is older than what may still be sent. *)
SentOlder ==
  \A k \in DOMAIN sent : sent[k] \in DOMAIN heard /\ OlderThanPending(sent[k])

(* The time of the pass is not ahead of the clock once it is taken. *)
StampBehind == phase \in {"decide", "export", "clean", "clear"} => timestamp <= clock

(* The inductive invariant. *)
IInv == /\ TypeOK
        /\ NoDoubles
        /\ SlotsHeard
        /\ EntriesHeard
        /\ SentOlder
        /\ StampBehind
        /\ SentConfirmed
        /\ SentInOrder

-------------------------------------------------------------------------------
(* Facts about the operators. *)

(* The movement check only looks at positions, times and the new speed. *)
LEMMA PlausibleFields ==
  ASSUME NEW e, NEW f, NEW r, NEW s,
         e.pos = f.pos, e.ts = f.ts,
         r.pos = s.pos, r.ts = s.ts, r.speed = s.speed,
         Plausible(e, r)
  PROVE  Plausible(f, s)
BY DEF Plausible

(* The abstract filter and the pipeline use the same movement check. *)
LEMMA SameCheck ==
  ASSUME NEW e, NEW r
  PROVE  Plausible(e, r) <=> Filter!Plausible(e, r)
BY DEF Plausible, Filter!Plausible, distance, Filter!distance, calcMaxDistance,
       Filter!calcMaxDistance, GpsPrecision, Filter!GpsPrecision

(* Freeing an entry only changes its address. *)
LEMMA CleanUpResult ==
  ASSUME NEW D \in [Slots -> Fix], NEW i
  PROVE  /\ cleanUpPacket(D, i) \in [Slots -> Fix]
         /\ \A j \in Slots : cleanUpPacket(D, i)[j] = D[j]
                             \/ cleanUpPacket(D, i)[j].addr = NoAddr
BY DEF cleanUpPacket, Fix

(* A shift brings in no entry of its own. *)
LEMMA ShiftResult ==
  ASSUME NEW D \in [Slots -> Fix]
  PROVE  /\ shiftPackets(D) \in [Slots -> Fix]
         /\ \A j \in Slots : \E k \in Slots : shiftPackets(D)[j] = D[k]
BY SizeAssumption DEF shiftPackets, Slots

(* Appending replaces one entry. *)
LEMMA AppendResult ==
  ASSUME NEW D \in [Slots -> Fix], NEW r \in Slot
  PROVE  /\ appendPacket(D, r) \in [Slots -> Fix]
         /\ \A j \in Slots : appendPacket(D, r)[j] \in {D[j], EntryOf(r)}
BY SizeAssumption DEF appendPacket, EntryOf, Slots, Fix, Slot

(* Every entry a check of r leaves is one that was there before, has no     *)
(* aircraft, or remembers r itself.                                        *)
LEMMA ValidationResult ==
  ASSUME NEW D \in [Slots -> Fix], NEW r \in Slot
  PROVE  /\ AfterValidation(D, r) \in [Slots -> Fix]
         /\ \A j \in Slots :
              \/ AfterValidation(D, r)[j].addr = NoAddr
              \/ AfterValidation(D, r)[j] = EntryOf(r)
              \/ \E k \in Slots : AfterValidation(D, r)[j] = D[k]
<1> DEFINE freed == cleanUpPacket(D, Found(D, r.addr))
<1>1. /\ freed \in [Slots -> Fix]
      /\ \A j \in Slots : freed[j] = D[j] \/ freed[j].addr = NoAddr
  BY CleanUpResult
<1>2. /\ shiftPackets(freed) \in [Slots -> Fix]
      /\ \A j \in Slots : \E k \in Slots : shiftPackets(freed)[j] = freed[k]
  BY <1>1, ShiftResult
<1>3. /\ shiftPackets(D) \in [Slots -> Fix]
      /\ \A j \in Slots : \E k \in Slots : shiftPackets(D)[j] = D[k]
  BY ShiftResult
<1>4. CASE ~Known(D, r.addr)
  BY <1>3, <1>4, AppendResult DEF AfterValidation
<1>5. CASE Known(D, r.addr) /\ isPacketValid(D, r)
  <2>1. AfterValidation(D, r) = appendPacket(shiftPackets(freed), r)
    BY <1>5 DEF AfterValidation
  <2> QED
    BY <2>1, <1>1, <1>2, AppendResult
<1>6. CASE Known(D, r.addr) /\ ~isPacketValid(D, r)
  <2>1. AfterValidation(D, r) = shiftPackets(freed)
    BY <1>6 DEF AfterValidation
  <2> QED
    BY <2>1, <1>1, <1>2
<1> QED
  BY <1>4, <1>5, <1>6

-------------------------------------------------------------------------------
(* The invariant holds initially. *)

(* Empty slots and entries are slots and entries. *)
LEMMA EmptyIsSlot == EmptyFO \in Slot /\ EmptyEntry \in Fix
BY DEF EmptyFO, EmptyEntry, Slot, Fix

(* The invariant holds at the start ... *)
LEMMA InitIInv == Init => IInv
<1> SUFFICES ASSUME Init PROVE IInv
  OBVIOUS
<1>1. TypeOK
  BY EmptyIsSlot, SizeAssumption DEF Init, TypeOK, PassPhases, Slots
<1>2. NoDoubles /\ SlotsHeard
  BY DEF Init, NoDoubles, SlotsHeard, EmptyFO
<1>3. EntriesHeard
  BY DEF Init, EntriesHeard, EmptyEntry
<1>4. SentOlder /\ SentConfirmed /\ SentInOrder
  BY DEF Init, SentOlder, SentConfirmed, SentInOrder
<1>5. StampBehind
  BY DEF Init, StampBehind
<1> QED
  BY <1>1, <1>2, <1>3, <1>4, <1>5 DEF IInv
-------------------------------------------------------------------------------
(* Steps that change neither the reports nor the tables. *)

(* What is pending can only become less outside CleanContainers. *)
LEMMA StillHolds ==
  ASSUME IInv, TypeOK',
         UNCHANGED <<Container, ac, heard, sent>>,
         \A j \in Slots : Pending(j)' => Pending(j),
         StampBehind'
  PROVE  IInv'
<1>1. NoDoubles'
  BY DEF IInv, NoDoubles
<1>2. SlotsHeard'
  BY DEF IInv, SlotsHeard
<1>3. \A m : OlderThanPending(m) => OlderThanPending(m)'
  BY DEF OlderThanPending
<1>4. EntriesHeard'
  BY <1>3 DEF IInv, EntriesHeard, Remembers
<1>5. SentOlder'
  BY <1>3 DEF IInv, SentOlder
<1>6. SentConfirmed' /\ SentInOrder'
  BY DEF IInv, SentConfirmed, SentInOrder, Filter!Confirmed
<1> QED
  BY <1>1, <1>2, <1>4, <1>5, <1>6 DEF IInv

(* NoPacket keeps the invariant. *)
LEMMA NoPacketStep == IInv /\ NoPacket => IInv'
<1> SUFFICES ASSUME IInv, NoPacket PROVE IInv'
  OBVIOUS
<1>1. TypeOK'
  BY DEF IInv, NoPacket, TypeOK, PassPhases, exportVars
<1>2. \A j \in Slots : Pending(j)' => Pending(j)
  BY DEF NoPacket, Pending
<1>3. StampBehind'
  BY DEF NoPacket, StampBehind
<1> QED
  BY <1>1, <1>2, <1>3, StillHolds DEF NoPacket

(* TimeSync keeps the invariant. *)
LEMMA TimeSyncStep == IInv /\ TimeSync => IInv'
<1> SUFFICES ASSUME IInv, TimeSync PROVE IInv'
  OBVIOUS
<1>1. TypeOK'
  BY TimesAssumption DEF IInv, TimeSync, TypeOK, PassPhases, exportVars
<1>2. \A j \in Slots : Pending(j)' => Pending(j)
  BY DEF TimeSync, Pending
<1>3. StampBehind'
  BY DEF TimeSync, StampBehind
<1> QED
  BY <1>1, <1>2, <1>3, StillHolds DEF TimeSync

(* Stamp keeps the invariant. *)
LEMMA StampStep == IInv /\ Stamp => IInv'
<1> SUFFICES ASSUME IInv, Stamp PROVE IInv'
  OBVIOUS
<1>1. TypeOK'
  BY DEF IInv, Stamp, TypeOK, PassPhases, exportVars
<1>2. \A j \in Slots : Pending(j)' => Pending(j)
  BY DEF Stamp, Pending
<1>3. StampBehind'
  BY DEF IInv, TypeOK, Stamp, StampBehind
<1> QED
  BY <1>1, <1>2, <1>3, StillHolds DEF Stamp

(* BeginExport keeps the invariant. *)
LEMMA BeginExportStep == IInv /\ BeginExport => IInv'
<1> SUFFICES ASSUME IInv, BeginExport PROVE IInv'
  OBVIOUS
<1>1. TypeOK'
  BY SizeAssumption DEF IInv, BeginExport, TypeOK, PassPhases, Slots
<1>2. \A j \in Slots : Pending(j)' => Pending(j)
  BY DEF BeginExport, Pending
<1>3. StampBehind'
  BY DEF IInv, BeginExport, StampBehind
<1> QED
  BY <1>1, <1>2, <1>3, StillHolds DEF BeginExport

(* NoExport keeps the invariant. *)
LEMMA NoExportStep == IInv /\ NoExport => IInv'
<1> SUFFICES ASSUME IInv, NoExport PROVE IInv'
  OBVIOUS
<1>1. TypeOK'
  BY DEF IInv, NoExport, TypeOK, PassPhases, exportVars
<1>2. \A j \in Slots : Pending(j)' => Pending(j)
  BY DEF NoExport, Pending
<1>3. StampBehind'
  BY DEF IInv, NoExport, StampBehind
<1> QED
  BY <1>1, <1>2, <1>3, StillHolds DEF NoExport

(* Tick keeps the invariant. *)
LEMMA TickStep == IInv /\ Tick => IInv'
<1> SUFFICES ASSUME IInv, Tick PROVE IInv'
  OBVIOUS
<1>1. TypeOK'
  BY DEF IInv, Tick, TypeOK, PassPhases, exportVars
<1>2. \A j \in Slots : Pending(j)' => Pending(j)
  BY DEF Tick, Pending
<1>3. StampBehind'
  BY DEF IInv, TypeOK, Tick, StampBehind
<1> QED
  BY <1>1, <1>2, <1>3, StillHolds DEF Tick

(* SkipSlot keeps the invariant. *)
LEMMA SkipSlotStep == IInv /\ SkipSlot => IInv'
<1> SUFFICES ASSUME IInv, SkipSlot PROVE IInv'
  OBVIOUS
<1>1. TypeOK'
  BY SizeAssumption DEF IInv, SkipSlot, Advance, TypeOK, PassPhases, Slots
<1>2. \A j \in Slots : Pending(j)' => Pending(j)
  BY DEF IInv, TypeOK, SkipSlot, Advance, Pending, Slots
<1>3. StampBehind'
  BY DEF IInv, SkipSlot, Advance, StampBehind
<1> QED
  BY <1>1, <1>2, <1>3, StillHolds DEF SkipSlot

-------------------------------------------------------------------------------
(* Steps that change the tables. *)

(* A slot of the table is either the new report, freed or as it was. *)
LEMMA StoredResult ==
  ASSUME NEW i \in Slots, NEW fo, NEW j \in Slots
  PROVE  /\ Stored(i, fo)[i] = fo
         /\ j # i => \/ Stored(i, fo)[j] = EmptyFO
                     \/ /\ Stored(i, fo)[j] = Container[j]
                        /\ j < i \/ Container[j].addr # fo.addr
BY DEF Stored, Slots

(* ParseData keeps the invariant. *)
LEMMA ParseDataStep == IInv /\ ParseData => IInv'
<1> SUFFICES ASSUME IInv, ParseData PROVE IInv'
  OBVIOUS
<1> USE DEF IInv
<1> PICK r \in Reports :
      LET fo == [addr |-> r.addr, pos |-> r.pos, speed |-> r.speed,
                 masked |-> r.masked, ts |-> timestamp, id |-> Len(heard) + 1]
      IN  /\ heard' = Append(heard, [addr |-> r.addr, pos |-> r.pos,
                                     speed |-> r.speed, masked |-> r.masked,
                                     ts |-> timestamp])
          /\ \/ \E i \in Slots : IsPlace(i, fo) /\ Container' = Stored(i, fo)
             \/ /\ \A i \in Slots : ~Takes(i, fo)
                /\ UNCHANGED Container
  BY DEF ParseData
<1> DEFINE fo == [addr |-> r.addr, pos |-> r.pos, speed |-> r.speed,
                  masked |-> r.masked, ts |-> timestamp, id |-> Len(heard) + 1]
           h  == [addr |-> r.addr, pos |-> r.pos, speed |-> r.speed,
                  masked |-> r.masked, ts |-> timestamp]
<1>1. /\ r.addr \in Addr \cup {NoAddr} /\ r.pos \in Int /\ r.speed \in Int
      /\ r.masked \in BOOLEAN /\ timestamp \in Int
  BY ReportsAssumption DEF TypeOK
<1>2. heard \in Seq(Filter!HeardReport) /\ h \in Filter!HeardReport
  BY <1>1 DEF TypeOK, Filter!HeardReport
<1>3. /\ heard' = Append(heard, h)
      /\ heard' \in Seq(Filter!HeardReport)
      /\ Len(heard) \in Nat /\ Len(heard') = Len(heard) + 1
      /\ heard'[Len(heard) + 1] = h
      /\ \A m \in DOMAIN heard : m \in DOMAIN heard' /\ heard'[m] = heard[m]
                                 /\ m < Len(heard) + 1 /\ m \in Nat
      /\ Len(heard) + 1 \in DOMAIN heard'
  BY <1>2
<1>4. fo \in Slot /\ fo.id = Len(heard) + 1 /\ fo.addr = r.addr
  BY <1>1, <1>3 DEF Slot
<1>5. \/ \E i \in Slots : IsPlace(i, fo) /\ Container' = Stored(i, fo)
      \/ Container' = Container
  OBVIOUS
<1> HIDE DEF fo, h
(* What a slot holds afterwards. *)
<1>6. \A j \in Slots : \/ Container'[j] = fo
                       \/ Container'[j] = EmptyFO
                       \/ Container'[j] = Container[j]
  BY <1>5, StoredResult
<1>7. Container' \in [Slots -> Slot]
  BY <1>4, <1>5, EmptyIsSlot DEF Stored, TypeOK
<1>8. TypeOK'
  BY <1>3, <1>7 DEF TypeOK, ParseData, exportVars, PassPhases
<1>9. NoDoubles'
  <2>1. CASE Container' = Container
    BY <2>1 DEF NoDoubles
  <2>2. CASE \E i \in Slots : IsPlace(i, fo) /\ Container' = Stored(i, fo)
    <3>1. PICK i \in Slots : IsPlace(i, fo) /\ Container' = Stored(i, fo)
      BY <2>2
    <3>2. \A j \in Slots : j < i => Container[j].addr # fo.addr
      BY <3>1 DEF IsPlace, Takes, Slots
    <3>3. \A j \in Slots : j # i => \/ Container'[j].addr = NoAddr
                                    \/ /\ Container'[j].addr = Container[j].addr
                                       /\ Container[j].addr # fo.addr
      BY <3>1, <3>2, StoredResult DEF EmptyFO
    <3>4. Container'[i] = fo
      BY <3>1, StoredResult
    <3> QED
      BY <3>3, <3>4 DEF NoDoubles
  <2> QED
    BY <1>5, <2>1, <2>2
<1>10. SlotsHeard'
  <2>1. ASSUME NEW j \in Slots, Container'[j].addr # NoAddr
        PROVE  /\ Container'[j].id \in DOMAIN heard'
               /\ heard'[Container'[j].id].addr = Container'[j].addr
               /\ heard'[Container'[j].id].pos = Container'[j].pos
               /\ heard'[Container'[j].id].speed = Container'[j].speed
               /\ heard'[Container'[j].id].masked = Container'[j].masked
               /\ heard'[Container'[j].id].ts = Container'[j].ts
    <3>1. CASE Container'[j] = fo
      BY <1>3, <3>1 DEF fo, h
    <3>2. CASE Container'[j] = EmptyFO
      BY <2>1, <3>2 DEF EmptyFO
    <3>3. CASE Container'[j] = Container[j]
      BY <1>3, <2>1, <3>3 DEF SlotsHeard
    <3> QED
      BY <1>6, <3>1, <3>2, <3>3
  <2> QED
    BY <2>1 DEF SlotsHeard
<1>11. ASSUME NEW m \in DOMAIN heard, OlderThanPending(m)
       PROVE  OlderThanPending(m)'
  <2>1. SUFFICES ASSUME NEW j \in Slots, Container'[j].addr = heard'[m].addr,
                        Container'[j].addr # NoAddr
                 PROVE  m < Container'[j].id
    BY <1>3 DEF OlderThanPending
  <2>2. Pending(j)
    BY DEF Pending, ParseData
  <2>3. CASE Container'[j] = fo
    BY <1>3, <1>4, <2>3
  <2>4. CASE Container'[j] = EmptyFO
    BY <2>1, <2>4 DEF EmptyFO
  <2>5. CASE Container'[j] = Container[j]
    BY <1>3, <1>11, <2>1, <2>2, <2>5 DEF OlderThanPending
  <2> QED
    BY <1>6, <2>3, <2>4, <2>5
<1>12. EntriesHeard'
  BY <1>3, <1>11 DEF EntriesHeard, Remembers, ParseData
<1>13. SentOlder'
  BY <1>3, <1>11 DEF SentOlder, ParseData
<1>14. SentConfirmed'
  <2>1. ASSUME NEW k \in DOMAIN sent PROVE Filter!Confirmed(sent[k])'
    <3>1. Filter!Confirmed(sent[k]) /\ sent[k] \in DOMAIN heard
      BY DEF SentConfirmed, SentOlder
    <3>2. \A m \in 1 .. sent[k] - 1 : m \in DOMAIN heard
      BY <1>2, <3>1
    <3> QED
      BY <1>3, <3>1, <3>2 DEF Filter!Confirmed, ParseData
  <2> QED
    BY <2>1 DEF SentConfirmed, ParseData
<1>15. SentInOrder'
  BY <1>3 DEF SentOlder, SentInOrder, ParseData
<1>16. StampBehind'
  BY DEF ParseData, StampBehind
<1> QED
  BY <1>8, <1>9, <1>10, <1>12, <1>13, <1>14, <1>15, <1>16

(* ClearExpired keeps the invariant. *)
LEMMA ClearExpiredStep == IInv /\ ClearExpired => IInv'
<1> SUFFICES ASSUME IInv, ClearExpired PROVE IInv'
  OBVIOUS
<1> USE DEF IInv
<1>1. \A j \in Slots : Container'[j] = EmptyFO \/ Container'[j] = Container[j]
  BY DEF ClearExpired
<1>2. Container' \in [Slots -> Slot]
  BY EmptyIsSlot DEF ClearExpired, TypeOK
<1>3. TypeOK'
  BY <1>2 DEF TypeOK, ClearExpired, exportVars, PassPhases
<1>4. NoDoubles'
  BY <1>1 DEF NoDoubles, EmptyFO
<1>5. SlotsHeard'
  BY <1>1 DEF SlotsHeard, EmptyFO, ClearExpired
<1>6. ASSUME NEW m \in DOMAIN heard, OlderThanPending(m)
      PROVE  OlderThanPending(m)'
  BY <1>1, <1>6 DEF OlderThanPending, Pending, EmptyFO, ClearExpired
<1>7. EntriesHeard' /\ SentOlder'
  BY <1>6 DEF EntriesHeard, Remembers, SentOlder, ClearExpired
<1>8. SentConfirmed' /\ SentInOrder' /\ StampBehind'
  BY DEF SentConfirmed, SentInOrder, StampBehind, Filter!Confirmed, ClearExpired
<1> QED
  BY <1>3, <1>4, <1>5, <1>7, <1>8

(* CleanContainers keeps the invariant. *)
LEMMA CleanContainersStep == IInv /\ CleanContainers => IInv'
<1> SUFFICES ASSUME IInv, CleanContainers PROVE IInv'
  OBVIOUS
<1> USE DEF IInv
<1>1. \A j \in Slots : Container'[j] = EmptyFO
  BY DEF CleanContainers
<1>2. Container' \in [Slots -> Slot]
  BY EmptyIsSlot DEF CleanContainers
<1>3. TypeOK'
  BY <1>2 DEF TypeOK, CleanContainers, PassPhases
<1>4. NoDoubles' /\ SlotsHeard'
  BY <1>1 DEF NoDoubles, SlotsHeard, EmptyFO
<1>5. \A m : OlderThanPending(m)'
  BY <1>1 DEF OlderThanPending, EmptyFO
<1>6. EntriesHeard' /\ SentOlder'
  BY <1>5 DEF EntriesHeard, Remembers, SentOlder, CleanContainers
<1>7. SentConfirmed' /\ SentInOrder' /\ StampBehind'
  BY DEF SentConfirmed, SentInOrder, StampBehind, Filter!Confirmed, CleanContainers
<1> QED
  BY <1>3, <1>4, <1>6, <1>7

(* A check of the report of slot ix leaves entries that are older than      *)
(* everything after slot ix: another report of the same aircraft would be  *)
(* a double.                                                               *)
LEMMA EntriesStayHeard ==
  ASSUME NEW n, n = Container[ix].id, IInv, phase = "export", ix \in Slots, Container[ix].addr # NoAddr,
         UNCHANGED <<Container, heard>>,
         ac' = AfterValidation(ac, Container[ix]),
         \A j \in Slots : Pending(j)' => Pending(j) /\ j # ix
  PROVE  /\ ac' \in [Slots -> Fix]
         /\ EntriesHeard'
         /\ OlderThanPending(n)'
<1> DEFINE r == Container[ix]
<1>1. r \in Slot /\ ac \in [Slots -> Fix]
  BY DEF IInv, TypeOK
<1>2. /\ ac' \in [Slots -> Fix]
      /\ \A j \in Slots : \/ ac'[j].addr = NoAddr
                          \/ ac'[j] = EntryOf(r)
                          \/ \E k \in Slots : ac'[j] = ac[k]
  BY <1>1, ValidationResult
<1>3. \A m : OlderThanPending(m) => OlderThanPending(m)'
  BY DEF OlderThanPending
<1>4. OlderThanPending(n)'
  BY DEF IInv, OlderThanPending, NoDoubles, SlotsHeard
<1>5. ASSUME NEW j \in Slots, ac'[j].addr # NoAddr
      PROVE  \E m \in DOMAIN heard' :
               Remembers(ac[j], m)' /\ OlderThanPending(m)'
  <2>1. CASE ac'[j] = EntryOf(r)
    <3>1. n \in DOMAIN heard' /\ Remembers(ac[j], n)'
      BY <2>1 DEF IInv, SlotsHeard, Remembers, EntryOf
    <3> QED
      BY <3>1, <1>4
  <2>2. CASE \E k \in Slots : ac'[j] = ac[k]
    <3>1. PICK k \in Slots : ac'[j] = ac[k]
      BY <2>2
    <3>2. PICK m \in DOMAIN heard : Remembers(ac[k], m) /\ OlderThanPending(m)
      BY <1>5, <3>1 DEF IInv, EntriesHeard
    <3>3. m \in DOMAIN heard' /\ Remembers(ac[j], m)' /\ OlderThanPending(m)'
      BY <1>3, <3>1, <3>2 DEF Remembers
    <3> QED
      BY <3>3
  <2> QED
    BY <1>2, <1>5, <2>1, <2>2
<1> QED
  BY <1>2, <1>4, <1>5 DEF EntriesHeard

(* What a step of the export loop that checks a report leaves pending. *)
LEMMA LoopPending ==
  ASSUME TypeOK, phase = "export", ix \in Slots,
         Advance \/ (phase' = "clean" /\ UNCHANGED ix)
  PROVE  \A j \in Slots : Pending(j)' => Pending(j) /\ j # ix
BY DEF Advance, Pending, Slots, TypeOK

(* BreakOff keeps the invariant. *)
LEMMA BreakOffStep == IInv /\ BreakOff => IInv'
<1> SUFFICES ASSUME IInv, BreakOff PROVE IInv'
  OBVIOUS
<1>1. /\ phase = "export" /\ ix \in Slots /\ Container[ix].addr # NoAddr
      /\ UNCHANGED <<Container, heard, sent, ix>>
      /\ phase' = "clean"
      /\ ac' = AfterValidation(ac, Container[ix])
  BY DEF IInv, TypeOK, BreakOff, Exportable, exportVars
<1>2. \A j \in Slots : Pending(j)' => Pending(j) /\ j # ix
  BY <1>1, LoopPending DEF IInv
<1>3. ac' \in [Slots -> Fix] /\ EntriesHeard'
  BY <1>1, <1>2, EntriesStayHeard
<1>4. TypeOK'
  BY <1>3 DEF IInv, TypeOK, BreakOff, exportVars, PassPhases
<1>5. NoDoubles' /\ SlotsHeard'
  BY <1>1 DEF IInv, NoDoubles, SlotsHeard
<1>6. SentOlder'
  BY <1>1, <1>2 DEF IInv, SentOlder, OlderThanPending
<1>7. SentConfirmed' /\ SentInOrder' /\ StampBehind'
  BY DEF IInv, SentConfirmed, SentInOrder, StampBehind, Filter!Confirmed, BreakOff
<1> QED
  BY <1>3, <1>4, <1>5, <1>6, <1>7 DEF IInv

(* A report that passes the check is confirmed by the report its database   *)
(* entry remembers, and newer than all of its aircraft that were sent.     *)
LEMMA CheckedReport ==
  ASSUME IInv, phase = "export", ix \in Slots, Exportable(Container[ix]),
         isPacketValid(ac, Container[ix])
  PROVE  LET n == Container[ix].id
         IN  /\ n \in DOMAIN heard
             /\ heard[n].addr = Container[ix].addr
             /\ heard[n].addr \in Addr
             /\ heard[n].masked = Container[ix].masked
             /\ Filter!Confirmed(n)
             /\ Filter!Newest(n)
<1> DEFINE n == Container[ix].id
<1>1. Container[ix].addr \in Addr
  BY DEF IInv, TypeOK, Slot, Exportable
<1>2. /\ n \in DOMAIN heard
      /\ heard[n].addr = Container[ix].addr
      /\ heard[n].pos = Container[ix].pos
      /\ heard[n].speed = Container[ix].speed
      /\ heard[n].ts = Container[ix].ts
      /\ heard[n].masked = Container[ix].masked
  BY DEF IInv, SlotsHeard, Exportable
<1>3. Pending(ix) /\ Container[ix].addr # NoAddr
  BY DEF Pending, Exportable, Slots
<1>4. PICK i \in Slots : ac[i].addr = Container[ix].addr /\ Plausible(ac[i], Container[ix])
  BY DEF isPacketValid, IsFound
<1>5. PICK m \in DOMAIN heard : Remembers(ac[i], m) /\ OlderThanPending(m)
  BY <1>3, <1>4 DEF IInv, EntriesHeard
<1>6. m < n
  BY <1>3, <1>4, <1>5 DEF OlderThanPending, Remembers
<1>7. m \in 1 .. n - 1
  BY <1>2, <1>5, <1>6 DEF IInv, TypeOK
<1>8. Plausible(heard[m], heard[n])
  BY <1>2, <1>4, <1>5, PlausibleFields DEF Remembers
<1>9. Filter!Plausible(heard[m], heard[n])
  BY <1>8, SameCheck
<1>10. Filter!Confirmed(n)
  BY <1>2, <1>4, <1>5, <1>7, <1>9 DEF Filter!Confirmed, Remembers
<1>11. Filter!Newest(n)
  BY <1>2, <1>3 DEF IInv, SentOlder, OlderThanPending, Filter!Newest
<1> QED
  BY <1>1, <1>2, <1>10, <1>11

(* ExportSlot keeps the invariant. *)
LEMMA ExportSlotStep == IInv /\ ExportSlot => IInv'
<1> SUFFICES ASSUME IInv, ExportSlot PROVE IInv'
  OBVIOUS
<1> PICK n : n = Container[ix].id
  OBVIOUS
<1>1. /\ phase = "export" /\ ix \in Slots /\ Container[ix].addr # NoAddr
      /\ UNCHANGED <<Container, heard>>
      /\ Advance
      /\ ac' = AfterValidation(ac, Container[ix])
      /\ Exportable(Container[ix]) /\ isPacketValid(ac, Container[ix])
      /\ sent' = sent \/ sent' = Append(sent, n)
  BY DEF IInv, TypeOK, ExportSlot, Exportable
<1>2. \A j \in Slots : Pending(j)' => Pending(j) /\ j # ix
  BY <1>1, LoopPending DEF IInv
<1>3. /\ ac' \in [Slots -> Fix] /\ EntriesHeard'
      /\ OlderThanPending(n)'
  BY <1>1, <1>2, EntriesStayHeard
<1>4. n \in DOMAIN heard /\ Filter!Confirmed(n) /\ Filter!Newest(n)
  BY <1>1, CheckedReport
<1>5. /\ sent' \in Seq(Nat)
      /\ \A k \in DOMAIN sent' :
           \/ k \in DOMAIN sent /\ sent'[k] = sent[k]
           \/ k = Len(sent) + 1 /\ k = Len(sent') /\ sent'[k] = n
  <2>1. sent \in Seq(Nat) /\ n \in Nat
    BY <1>1 DEF IInv, TypeOK, Slot
  <2>2. CASE sent' = sent
    BY <2>1, <2>2
  <2>3. CASE sent' = Append(sent, n)
    BY <2>1, <2>3
  <2> QED
    BY <1>1, <2>2, <2>3
<1>6. TypeOK'
  BY <1>1, <1>3, <1>5, SizeAssumption
     DEF IInv, TypeOK, ExportSlot, Advance, PassPhases, Slots
<1>7. NoDoubles' /\ SlotsHeard'
  BY <1>1 DEF IInv, NoDoubles, SlotsHeard
<1>8. \A m : OlderThanPending(m) => OlderThanPending(m)'
  BY <1>1, <1>2 DEF OlderThanPending
<1>9. SentOlder'
  BY <1>1, <1>3, <1>4, <1>5, <1>8 DEF IInv, SentOlder
<1>10. \A m : Filter!Confirmed(m) <=> Filter!Confirmed(m)'
  BY <1>1 DEF Filter!Confirmed
<1>11. SentConfirmed'
  BY <1>4, <1>5, <1>10 DEF IInv, SentConfirmed
<1>12. SentInOrder'
  <2>1. ASSUME NEW k \in DOMAIN sent', NEW m \in DOMAIN sent', k < m,
               heard[sent'[k]].addr = heard[sent'[m]].addr
        PROVE  sent'[k] < sent'[m]
    <3>1. k \in DOMAIN sent /\ sent'[k] = sent[k]
      BY <1>5, <2>1
    <3>2. CASE m \in DOMAIN sent /\ sent'[m] = sent[m]
      BY <2>1, <3>1, <3>2 DEF IInv, SentInOrder
    <3>3. CASE sent'[m] = n
      BY <1>4, <2>1, <3>1, <3>3 DEF Filter!Newest
    <3> QED
      BY <1>5, <3>2, <3>3
  <2> QED
    BY <1>1, <2>1 DEF SentInOrder
<1>13. StampBehind'
  BY DEF IInv, StampBehind, ExportSlot, Advance
<1> QED
  BY <1>3, <1>6, <1>7, <1>9, <1>11, <1>12, <1>13 DEF IInv

-------------------------------------------------------------------------------
(* The theorems. *)

(* ... and every step keeps it. *)
LEMMA NextIInv == IInv /\ [Next]_vars => IInv'
<1> SUFFICES ASSUME IInv, [Next]_vars PROVE IInv'
  OBVIOUS
<1>1. CASE UNCHANGED vars
  <2>1. TypeOK' /\ StampBehind'
    BY <1>1 DEF IInv, TypeOK, StampBehind, vars
  <2>2. \A j \in Slots : Pending(j)' => Pending(j)
    BY <1>1 DEF Pending, vars
  <2> QED
    BY <1>1, <2>1, <2>2, StillHolds DEF vars
<1> QED
  BY <1>1, ParseDataStep, NoPacketStep, TimeSyncStep, StampStep, BeginExportStep,
     NoExportStep, SkipSlotStep, ExportSlotStep, BreakOffStep,
     CleanContainersStep, ClearExpiredStep, TickStep
  DEF Next

(* The inductive invariant holds in every reachable state. *)
THEOREM Invariant == Spec => []IInv
BY InitIInv, NextIInv, PTL DEF Spec

(* Type correctness, for every number of slots and aircraft: the export     *)
(* loop never looks beyond the table.                                      *)
THEOREM TypeCorrect == Spec => []TypeOK
<1>1. IInv => TypeOK
  BY DEF IInv
<1> QED
  BY <1>1, Invariant, PTL

(* An aircraft never has two slots of the table (Traffic.cpp:193-197).      *)
THEOREM NoDoublesHolds == Spec => []NoDoubles
<1>1. IInv => NoDoubles
  BY DEF IInv
<1> QED
  BY <1>1, Invariant, PTL

(* What reaches the server is confirmed by an earlier packet.               *)
THEOREM SentConfirmedHolds == Spec => []SentConfirmed
<1>1. IInv => SentConfirmed
  BY DEF IInv
<1> QED
  BY <1>1, Invariant, PTL

(* Reports of an aircraft reach the server once and in the order heard.     *)
THEOREM SentInOrderHolds == Spec => []SentInOrder
<1>1. IInv => SentInOrder
  BY DEF IInv
<1> QED
  BY <1>1, Invariant, PTL

(* A report still fresh is only given up for a newer one of its aircraft.   *)
LEMMA FreshStep ==
  ASSUME IInv, Next, phase # "clean", NEW i \in Slots,
         Container[i].addr # NoAddr, ~Expired(Container[i], clock)
  PROVE  \E j \in Slots : /\ Container'[j].addr = Container[i].addr
                          /\ Container'[j].id >= Container[i].id
<1> USE DEF IInv
<1>1. Container[i].id \in Int /\ Container[i].ts \in Int /\ clock \in Int
  BY DEF TypeOK, Slot
<1>2. CASE Container' = Container
  BY <1>1, <1>2
<1>3. CASE ParseData
  <2> PICK r \in Reports :
        LET fo == [addr |-> r.addr, pos |-> r.pos, speed |-> r.speed,
                   masked |-> r.masked, ts |-> timestamp, id |-> Len(heard) + 1]
        IN  \/ \E k \in Slots : IsPlace(k, fo) /\ Container' = Stored(k, fo)
            \/ UNCHANGED Container
    BY <1>3 DEF ParseData
  <2> DEFINE fo == [addr |-> r.addr, pos |-> r.pos, speed |-> r.speed,
                    masked |-> r.masked, ts |-> timestamp, id |-> Len(heard) + 1]
  <2>1. fo.id >= Container[i].id
    BY DEF SlotsHeard, TypeOK
  <2> HIDE DEF fo
  <2>2. ASSUME NEW k \in Slots, IsPlace(k, fo), Container' = Stored(k, fo)
        PROVE  \E j \in Slots : /\ Container'[j].addr = Container[i].addr
                                /\ Container'[j].id >= Container[i].id
    <3>1. Container'[k] = fo
      BY <2>2, StoredResult
    <3>2. CASE Container[i].addr = fo.addr
      BY <2>1, <3>1, <3>2
    <3>3. CASE Container[i].addr # fo.addr
      <4>1. i # k
        BY <2>2, <3>3 DEF IsPlace, Takes
      <4>2. Container'[i] = Container[i]
        BY <2>2, <3>3, <4>1 DEF Stored
      <4> QED
        BY <1>1, <4>2
    <3> QED
      BY <3>2, <3>3
  <2> QED
    BY <1>2, <2>2 DEF fo
<1>4. CASE ClearExpired
  <2>1. ~Expired(Container[i], timestamp)
    BY <1>1, <1>4, TimesAssumption DEF TypeOK, StampBehind, ClearExpired, Expired
  <2>2. Container'[i] = Container[i]
    BY <1>4, <2>1 DEF ClearExpired
  <2> QED
    BY <1>1, <2>2
<1> QED
  BY <1>2, <1>3, <1>4
  DEF Next, NoPacket, TimeSync, Stamp, BeginExport, NoExport, SkipSlot,
      ExportSlot, BreakOff, CleanContainers, Tick

(* Between export passes a report that has not expired is only given up for a
   newer one of its aircraft (Traffic.cpp ParseData, ClearExpired). *)
THEOREM FreshReportKeptHolds == Spec => FreshReportKept
<1>1. IInv /\ [Next]_vars =>
        [phase # "clean" =>
           \A i \in Slots :
             Container[i].addr # NoAddr /\ ~Expired(Container[i], clock) =>
               \E j \in Slots : /\ Container'[j].addr = Container[i].addr
                                /\ Container'[j].id >= Container[i].id]_vars
  BY FreshStep
<1> QED
  BY <1>1, Invariant, PTL DEF Spec, FreshReportKept

(* Every step of the pipeline is a step of the abstract filter or leaves    *)
(* its variables alone.                                                    *)
LEMMA FilterStep == IInv /\ [Next]_vars => [Filter!Next]_(Filter!vars)
<1> SUFFICES ASSUME IInv, [Next]_vars PROVE [Filter!Next]_(Filter!vars)
  OBVIOUS
<1>1. CASE ParseData
  <2> PICK r \in Reports :
        heard' = Append(heard, [addr |-> r.addr, pos |-> r.pos, speed |-> r.speed,
                                masked |-> r.masked, ts |-> timestamp])
    BY <1>1 DEF ParseData
  <2> DEFINE h == [addr |-> r.addr, pos |-> r.pos, speed |-> r.speed,
                   masked |-> r.masked, ts |-> timestamp]
  <2>1. h \in Filter!HeardReport /\ heard \in Seq(Filter!HeardReport)
    BY ReportsAssumption DEF IInv, TypeOK, Filter!HeardReport
  <2>2. heard' = Append(heard, h) /\ sent' = sent
    BY <1>1 DEF ParseData
  <2>3. Filter!Hear
    BY <2>1, <2>2 DEF Filter!Hear
  <2> QED
    BY <2>3 DEF Filter!Next
<1>2. CASE ExportSlot /\ Transmittable(Container[ix])
  <2>1. LET n == Container[ix].id
        IN  /\ n \in DOMAIN heard
            /\ heard[n].addr \in Addr
            /\ heard[n].masked = Container[ix].masked
            /\ Filter!Confirmed(n)
            /\ Filter!Newest(n)
    BY <1>2, CheckedReport DEF IInv, TypeOK, ExportSlot
  <2>2. Filter!Showable(heard[Container[ix].id])
    BY <1>2, <2>1 DEF Transmittable, Filter!Showable
  <2>3. Filter!Release(Container[ix].id)
    BY <1>2, <2>1, <2>2 DEF ExportSlot, Filter!Release
  <2> QED
    BY <2>1, <2>3 DEF Filter!Next
<1>3. CASE UNCHANGED <<heard, sent>>
  BY <1>3 DEF Filter!vars
<1> QED
  BY <1>1, <1>2, <1>3
  DEF Next, NoPacket, TimeSync, Stamp, BeginExport, NoExport, SkipSlot,
      ExportSlot, BreakOff, CleanContainers, ClearExpired, Tick, vars

(* The pipeline implements the abstract filter: tables, expiry and clock    *)
(* settings never let out more than it allows.                             *)
THEOREM Refinement == Spec => FilterSpec
<1>1. Init => Filter!Init
  BY DEF Init, Filter!Init
<1> QED
  BY <1>1, FilterStep, Invariant, PTL DEF Spec, FilterSpec, Filter!Spec

===============================================================================
