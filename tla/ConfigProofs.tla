----------------------------- MODULE ConfigProofs ------------------------------
(***************************************************************************)
(* Theorems about the configuration, for any coordinates, any files that   *)
(* are uploaded and any place GNSS finds: the storage implements           *)
(* ConfigStore, and a form is saved as it was sent.                        *)
(***************************************************************************)
EXTENDS Config, TLAPS

Sent == [wifi : Networks, lat : Positions, lon : Positions, erase : BOOLEAN,
         known : BOOLEAN]

Saving == web \in {"getlat", "getlon", "write"}

(* A file that is being written to is torn, by an upload or by a form, and  *)
(* the document of a form differs from the file only in what forms change. *)
WriterAlone ==
  /\ Writing => file = Torn
  /\ web # "idle" => sent \in Sent
  /\ Saving => /\ upload = NoUpload
               /\ before \in Configs /\ doc \in Configs
               /\ doc.relay = before.relay
  /\ web = "write" => doc.wifi \in Networks
  /\ mode = "boot" => web = "idle"

(* Once the position is known the loop leaves it alone, and so the values    *)
(* of a form are in RAM from their assignment until they are saved.        *)
FormKept ==
  /\ position_is_set => fixing = "no"
  /\ web # "idle" /\ sent.known =>
       /\ position_is_set
       /\ web # "lat" => lat = sent.lat
       /\ web \notin {"lat", "lon"} => lon = sent.lon /\ wifi = sent.wifi
       /\ web \in {"getlon", "write"} => doc.lat = sent.lat
       /\ web = "write" => doc.lon = sent.lon /\ doc.wifi = sent.wifi

IInv == TypeOK /\ WriterAlone /\ FormKept /\ SavedAsSent

-------------------------------------------------------------------------------
LEMMA InitIInv == Init => IInv
<1> SUFFICES ASSUME Init PROVE IInv
  OBVIOUS
<1> USE ConfigAssumption DEF ConfigAssumption, Init
<1>1. TypeOK
  BY DEF TypeOK, Networks
<1>2. WriterAlone /\ FormKept /\ SavedAsSent
  BY DEF WriterAlone, FormKept, SavedAsSent, Writing, Saving
<1> QED BY <1>1, <1>2 DEF IInv

LEMMA RestartPreserves ==
  ASSUME IInv, PowerLoss
  PROVE  IInv'
<1> USE ConfigAssumption DEF ConfigAssumption, PowerLoss, Restarted
<1>1. TypeOK'
  BY DEF IInv, TypeOK, Networks
<1>2. WriterAlone' /\ FormKept' /\ SavedAsSent'
  BY DEF WriterAlone, FormKept, SavedAsSent, Writing, Saving
<1> QED BY <1>1, <1>2 DEF IInv

LEMMA BootPreserves ==
  ASSUME IInv, BootUnread \/ BootConnected \/ BootAlone
  PROVE  IInv'
<1> USE ConfigAssumption
<1>1. wifi' \in Networks /\ lat' \in Positions /\ lon' \in Positions
  BY DEF IInv, TypeOK, BootUnread, BootConnected, BootAlone, Read, ram, Usable, Whole,
         Configs, Networks
<1>2. page' \in [wifi : Networks, lat : Positions, lon : Positions] \union {NoForm}
  <2>1. RoundTwo(lat') \in Positions /\ RoundTwo(lon') \in Positions
    BY <1>1 DEF ConfigAssumption
  <2> QED BY <1>1, <2>1 DEF BootUnread, BootConnected, BootAlone, Web_setup
<1>3. mode' \in {"sta", "ap", "relay"}
  BY DEF BootUnread, BootConnected, BootAlone
<1>4. mode = "boot" /\ UNCHANGED <<store, handler, position_is_set, fixing>>
  BY DEF BootUnread, BootConnected, BootAlone
<1>5. TypeOK'
  BY <1>1, <1>2, <1>3, <1>4 DEF IInv, TypeOK, store, handler
<1>6. WriterAlone' /\ FormKept' /\ SavedAsSent'
  BY <1>3, <1>4 DEF IInv, WriterAlone, FormKept, SavedAsSent, Writing, Saving, Sent,
                    store, handler
<1> QED BY <1>5, <1>6 DEF IInv

LEMMA LoopPreserves ==
  ASSUME IInv, WifiOff \/ UsePosition \/ FixBegin \/ FixLat \/ FixLon
  PROVE  IInv'
<1> USE ConfigAssumption DEF ConfigAssumption, IInv, store, ram, loop, handler
<1>1. CASE WifiOff
  <2>1. TypeOK'
    BY <1>1 DEF WifiOff, TypeOK
  <2>2. WriterAlone'
    BY <1>1 DEF WifiOff, WriterAlone, Writing, Saving
  <2>3. FormKept'
    BY <1>1 DEF WifiOff, FormKept
  <2>4. SavedAsSent'
    BY <1>1 DEF WifiOff, SavedAsSent, Whole
  <2> QED BY <2>1, <2>2, <2>3, <2>4
<1>2. CASE UsePosition
  <2>1. TypeOK'
    BY <1>2 DEF UsePosition, TypeOK
  <2>2. WriterAlone'
    BY <1>2 DEF UsePosition, WriterAlone, Writing, Saving
  <2>3. FormKept'
    BY <1>2 DEF UsePosition, FormKept
  <2>4. SavedAsSent'
    BY <1>2 DEF UsePosition, SavedAsSent, Whole
  <2> QED BY <2>1, <2>2, <2>3, <2>4
<1>3. CASE FixBegin
  <2>1. TypeOK'
    BY <1>3 DEF FixBegin, TypeOK
  <2>2. WriterAlone'
    BY <1>3 DEF FixBegin, WriterAlone, Writing, Saving
  <2>3. FormKept'
    BY <1>3 DEF FixBegin, FormKept, MayFix
  <2>4. SavedAsSent'
    BY <1>3 DEF FixBegin, SavedAsSent, Whole
  <2> QED BY <2>1, <2>2, <2>3, <2>4
<1>4. CASE FixLat
  <2>1. TypeOK'
    BY <1>4 DEF FixLat, TypeOK
  <2>2. WriterAlone'
    BY <1>4 DEF FixLat, WriterAlone, Writing, Saving
  <2>3. FormKept'
    BY <1>4 DEF FixLat, FormKept
  <2>4. SavedAsSent'
    BY <1>4 DEF FixLat, SavedAsSent, Whole
  <2> QED BY <2>1, <2>2, <2>3, <2>4
<1>5. CASE FixLon
  <2>1. TypeOK'
    BY <1>5 DEF FixLon, TypeOK
  <2>2. WriterAlone'
    BY <1>5 DEF FixLon, WriterAlone, Writing, Saving
  <2>3. FormKept'
    BY <1>5 DEF FixLon, FormKept
  <2>4. SavedAsSent'
    BY <1>5 DEF FixLon, SavedAsSent, Whole
  <2> QED BY <2>1, <2>2, <2>3, <2>4
<1> QED BY <1>1, <1>2, <1>3, <1>4, <1>5

LEMMA HandlerPreserves ==
  ASSUME IInv,
         \/ Submit \/ SetLat \/ SetLon \/ Erase
         \/ LoadAbsent \/ LoadTorn \/ Load \/ GetLat \/ GetLon \/ Write
  PROVE  IInv'
<1> USE ConfigAssumption DEF ConfigAssumption, IInv, store, ram, loop, handler
<1>1. CASE Submit
  <2>1. TypeOK'
    BY <1>1 DEF Submit, TypeOK
  <2>2. WriterAlone'
    BY <1>1 DEF Submit, TypeOK, WriterAlone, Writing, Saving, Sent, Reachable
  <2>3. FormKept'
    BY <1>1 DEF Submit, FormKept
  <2>4. SavedAsSent'
    BY <1>1 DEF Submit, SavedAsSent
  <2> QED BY <2>1, <2>2, <2>3, <2>4
<1>2. CASE SetLat
  <2>1. TypeOK'
    BY <1>2 DEF SetLat, TypeOK
  <2>2. WriterAlone'
    BY <1>2 DEF SetLat, WriterAlone, Writing, Saving
  <2>3. FormKept'
    BY <1>2 DEF SetLat, FormKept
  <2>4. SavedAsSent'
    BY <1>2 DEF SetLat, SavedAsSent
  <2> QED BY <2>1, <2>2, <2>3, <2>4
<1>3. CASE SetLon
  <2>1. TypeOK'
    BY <1>3 DEF SetLon, TypeOK
  <2>2. WriterAlone'
    BY <1>3 DEF SetLon, WriterAlone, Writing, Saving
  <2>3. FormKept'
    BY <1>3 DEF SetLon, FormKept
  <2>4. SavedAsSent'
    BY <1>3 DEF SetLon, SavedAsSent
  <2> QED BY <2>1, <2>2, <2>3, <2>4
<1>4. CASE Erase
  <2>1. TypeOK'
    BY <1>4 DEF Erase, TypeOK, Format
  <2>2. WriterAlone'
    BY <1>4 DEF Erase, WriterAlone, Writing, Saving, Format
  <2>3. FormKept'
    BY <1>4 DEF Erase, FormKept
  <2>4. SavedAsSent'
    BY <1>4 DEF Erase, SavedAsSent, Whole, Format
  <2> QED BY <2>1, <2>2, <2>3, <2>4
<1>5. CASE LoadAbsent
  <2>1. TypeOK'
    BY <1>5 DEF LoadAbsent, TypeOK
  <2>2. WriterAlone'
    BY <1>5 DEF LoadAbsent, WriterAlone, Writing, Saving
  <2>3. FormKept'
    BY <1>5 DEF LoadAbsent, FormKept
  <2>4. SavedAsSent'
    BY <1>5 DEF LoadAbsent, SavedAsSent, Whole
  <2> QED BY <2>1, <2>2, <2>3, <2>4
<1>6. CASE LoadTorn
  <2>1. TypeOK'
    BY <1>6 DEF LoadTorn, TypeOK, Format
  <2>2. WriterAlone'
    BY <1>6 DEF LoadTorn, WriterAlone, Writing, Saving, Format
  <2>3. FormKept'
    BY <1>6 DEF LoadTorn, FormKept
  <2>4. SavedAsSent'
    BY <1>6 DEF LoadTorn, SavedAsSent, Whole, Format
  <2> QED BY <2>1, <2>2, <2>3, <2>4
<1>7. CASE Load
  <2>1. TypeOK'
    BY <1>7 DEF Load, TypeOK, Whole
  <2>2. WriterAlone'
    BY <1>7 DEF Load, TypeOK, WriterAlone, Writing, Whole
  <2>3. FormKept'
    BY <1>7 DEF Load, FormKept
  <2>4. SavedAsSent'
    BY <1>7 DEF Load, SavedAsSent
  <2> QED BY <2>1, <2>2, <2>3, <2>4
<1>8. CASE GetLat
  <2>1. TypeOK'
    <3>1. doc \in Configs
      BY <1>8 DEF GetLat, WriterAlone, Saving
    <3>2. doc' \in Configs
      BY <1>8, <3>1 DEF GetLat, TypeOK, Configs
    <3> QED BY <1>8, <3>2 DEF GetLat, TypeOK
  <2>2. WriterAlone'
    BY <1>8 DEF GetLat, TypeOK, WriterAlone, Writing, Saving, Configs
  <2>3. FormKept'
    BY <1>8 DEF GetLat, FormKept
  <2>4. SavedAsSent'
    BY <1>8 DEF GetLat, SavedAsSent
  <2> QED BY <2>1, <2>2, <2>3, <2>4
<1>9. CASE GetLon
  <2>1. TypeOK'
    <3>1. doc \in Configs
      BY <1>9 DEF GetLon, WriterAlone, Saving
    <3>2. doc' \in Configs
      BY <1>9, <3>1 DEF GetLon, TypeOK, Configs
    <3> QED BY <1>9, <3>2 DEF GetLon, TypeOK
  <2>2. WriterAlone'
    BY <1>9 DEF GetLon, TypeOK, WriterAlone, Writing, Saving, Configs
  <2>3. FormKept'
    BY <1>9 DEF GetLon, FormKept
  <2>4. SavedAsSent'
    BY <1>9 DEF GetLon, SavedAsSent
  <2> QED BY <2>1, <2>2, <2>3, <2>4
<1>10. CASE Write
  <2>1. TypeOK'
    BY <1>10 DEF Write, TypeOK
  <2>2. WriterAlone'
    BY <1>10 DEF Write, WriterAlone, Writing, Saving
  <2>3. FormKept'
    BY <1>10 DEF Write, FormKept
  <2>4. SavedAsSent'
    BY <1>10 DEF Write, FormKept, SavedAsSent, Whole
  <2> QED BY <2>1, <2>2, <2>3, <2>4
<1> QED BY <1>1, <1>2, <1>3, <1>4, <1>5, <1>6, <1>7, <1>8, <1>9, <1>10

LEMMA UploadPreserves ==
  ASSUME IInv, UploadBegin \/ UploadEnd \/ UploadBroken \/ UploadIndex
  PROVE  IInv'
<1> USE ConfigAssumption DEF ConfigAssumption, IInv, store, ram, loop, handler
<1>1. CASE UploadBegin
  <2>1. TypeOK'
    BY <1>1 DEF UploadBegin, TypeOK
  <2>2. WriterAlone'
    BY <1>1 DEF UploadBegin, WriterAlone, Saving
  <2>3. FormKept'
    BY <1>1 DEF UploadBegin, FormKept
  <2>4. SavedAsSent'
    BY <1>1 DEF UploadBegin, SavedAsSent
  <2> QED BY <2>1, <2>2, <2>3, <2>4
<1>2. CASE UploadEnd
  <2>1. TypeOK'
    BY <1>2 DEF UploadEnd, TypeOK
  <2>2. WriterAlone'
    BY <1>2 DEF UploadEnd, WriterAlone, Writing, Saving
  <2>3. FormKept'
    BY <1>2 DEF UploadEnd, FormKept
  <2>4. SavedAsSent'
    BY <1>2 DEF UploadEnd, SavedAsSent
  <2> QED BY <2>1, <2>2, <2>3, <2>4
<1>3. CASE UploadBroken
  <2>1. TypeOK'
    BY <1>3 DEF UploadBroken, TypeOK
  <2>2. WriterAlone'
    BY <1>3 DEF UploadBroken, WriterAlone, Writing, Saving
  <2>3. FormKept'
    BY <1>3 DEF UploadBroken, FormKept
  <2>4. SavedAsSent'
    BY <1>3 DEF UploadBroken, SavedAsSent
  <2> QED BY <2>1, <2>2, <2>3, <2>4
<1>4. CASE UploadIndex
  <2>1. TypeOK'
    BY <1>4 DEF UploadIndex, TypeOK
  <2>2. WriterAlone'
    BY <1>4 DEF UploadIndex, WriterAlone, Writing, Saving
  <2>3. FormKept'
    BY <1>4 DEF UploadIndex, FormKept
  <2>4. SavedAsSent'
    BY <1>4 DEF UploadIndex, SavedAsSent
  <2> QED BY <2>1, <2>2, <2>3, <2>4
<1> QED BY <1>1, <1>2, <1>3, <1>4

LEMMA NextPreserves == IInv /\ [Next]_vars => IInv'
<1> SUFFICES ASSUME IInv, [Next]_vars PROVE IInv'
  OBVIOUS
<1>1. CASE Next
  BY <1>1, RestartPreserves, BootPreserves, LoopPreserves, HandlerPreserves,
     UploadPreserves DEF Next, Boot, Form, ApReset, HandlerReset
<1>2. CASE UNCHANGED vars
  BY <1>2 DEF vars, store, ram, loop, handler, IInv, TypeOK, WriterAlone, FormKept,
              SavedAsSent, Writing, Saving, Whole
<1> QED BY <1>1, <1>2

-------------------------------------------------------------------------------
(* The inductive invariant: a torn file has one writer, whose document is    *)
(* the file but for what forms change, and the loop keeps off a position    *)
(* that is known.                                                          *)
THEOREM ConfigInvariant == Spec => []IInv
BY InitIInv, NextPreserves, PTL DEF Spec

(* Type correctness: forms, fixes and files only bring coordinates that the  *)
(* page can show.                                                          *)
THEOREM TypeCorrect == Spec => []TypeOK
<1>1. IInv => TypeOK
  BY DEF IInv
<1> QED BY <1>1, ConfigInvariant, PTL

(* Web.cpp:343-425, ognbase.ino:402-430: a form that comes when the position *)
(* is known is saved as it was sent, whatever the loop does meanwhile.      *)
THEOREM SavedAsSentHolds == Spec => []SavedAsSent
<1>1. IInv => SavedAsSent
  BY DEF IInv
<1> QED BY <1>1, ConfigInvariant, PTL

-------------------------------------------------------------------------------

LEMMA StoreInit == Init => Store!Init
BY ConfigAssumption
   DEF ConfigAssumption, Init, Store!Init, Writing, Readable

(* Steps that do not touch the file.                                       *)
LEMMA StoreKept ==
  ASSUME UNCHANGED file, UNCHANGED before, UNCHANGED Writing
  PROVE  UNCHANGED Store!store
BY DEF Store!store, Readable

LEMMA RestartStores ==
  ASSUME IInv, PowerLoss
  PROVE  Store!Next \/ UNCHANGED Store!store
<1>1. ~Writing' /\ file' = file
  BY DEF PowerLoss, Restarted, Writing
<1>2. CASE Writing
  <2>1. file = Torn
    BY <1>2 DEF IInv, WriterAlone
  <2>2. Store!Lose
    BY <1>1, <1>2, <2>1 DEF Store!Lose, Readable
  <2> QED BY <2>2 DEF Store!Next
<1>3. CASE ~Writing
  <2>1. Writing' = Writing
    BY <1>1, <1>3 DEF Writing
  <2> QED BY <1>1, <1>3, <2>1 DEF Store!store, Readable
<1> QED BY <1>2, <1>3

LEMMA FormatStores ==
  ASSUME IInv, Format, ~Saving, ~Saving'
  PROVE  Store!Next \/ UNCHANGED Store!store
<1>1. ~Writing' /\ file' = Absent
  BY DEF Format, Writing, Saving
<1>2. CASE Writing
  BY <1>1, <1>2, ConfigAssumption
     DEF ConfigAssumption, Store!Next, Store!Lose, Readable
<1>3. CASE ~Writing
  <2>1. Writing' = Writing
    BY <1>1, <1>3 DEF Writing
  <2> QED BY <1>1, <1>3, <2>1, ConfigAssumption
          DEF ConfigAssumption, Store!Next, Store!Erase, Readable
<1> QED BY <1>2, <1>3

(* A form changes the access point and the position, and nothing else.      *)
LEMMA WriteStores ==
  ASSUME IInv, Write
  PROVE  Store!Next
<1>1. /\ web = "write" /\ upload = NoUpload /\ web' = "reset"
      /\ UNCHANGED <<upload, before, doc>> /\ file' \in {doc, Torn}
      /\ Writing /\ ~Writing'
  BY DEF Write, IInv, WriterAlone, Writing, Saving
<1>2. /\ before \in Configs /\ doc \in Configs /\ doc.relay = before.relay
      /\ doc.wifi \in Networks
  BY <1>1 DEF IInv, WriterAlone, Saving
<1>3. doc = [before EXCEPT !.wifi = doc.wifi, !.lat = doc.lat, !.lon = doc.lon]
  BY <1>2 DEF Configs
<1>4. doc.lat \in Positions /\ doc.lon \in Positions
  BY <1>2 DEF Configs
<1>5. before # Torn /\ before # Absent /\ doc # Torn
  BY <1>2, ConfigAssumption DEF ConfigAssumption
<1>6. CASE file' = doc
  <2>1. /\ Readable(before) = before /\ before # Absent
        /\ Readable(file') = doc
    BY <1>5, <1>6 DEF Readable
  <2>2. \E w \in Networks, x \in Positions, y \in Positions :
          doc = [before EXCEPT !.wifi = w, !.lat = x, !.lon = y]
    BY <1>2, <1>3, <1>4
  <2>3. Store!Amend
    <3>1. Writing' = FALSE
      BY <1>1 DEF Writing
    <3>2. Readable(IF Writing THEN before ELSE file) = before
      BY <1>1, <2>1
    <3>3. Readable(IF Writing THEN before ELSE file)' = doc
      BY <1>1, <1>6, <2>1 DEF Readable
    <3> QED BY <1>1, <2>1, <2>2, <3>1, <3>2, <3>3, Zenon DEF Store!Amend
  <2> QED BY <2>3 DEF Store!Next
<1>7. CASE file' = Torn
  BY <1>1, <1>7 DEF Store!Next, Store!Lose, Readable
<1> QED BY <1>1, <1>6, <1>7

LEMMA UploadStores ==
  ASSUME IInv, UploadBegin \/ UploadEnd \/ UploadBroken
  PROVE  Store!Next
<1> USE ConfigAssumption DEF ConfigAssumption
<1>1. CASE UploadBegin
  BY <1>1 DEF UploadBegin, handler, Writing, Readable, Store!Next, Store!Begin
<1>2. CASE UploadEnd
  <2>1. Writing /\ ~Writing' /\ upload \in Uploads /\ file' \in {upload, Torn}
    BY <1>2 DEF UploadEnd, handler, Writing, IInv, TypeOK
  <2>2. upload # Torn
    BY <2>1
  <2> QED BY <2>1, <2>2 DEF Readable, Store!Next, Store!Replace, Store!Lose
<1>3. CASE UploadBroken
  <2>1. Writing /\ ~Writing' /\ file' = file /\ file = Torn
    BY <1>3 DEF UploadBroken, handler, Writing, IInv, WriterAlone
  <2> QED BY <2>1 DEF Readable, Store!Next, Store!Lose
<1> QED BY <1>1, <1>2, <1>3

LEMMA LoadStores ==
  ASSUME IInv, Load
  PROVE  Store!Next
<1>1. /\ ~Writing /\ Writing' /\ before' = file
  BY DEF Load, IInv, WriterAlone, Writing, Whole
<1> QED BY <1>1 DEF Store!Next, Store!Begin, Readable

(* Every step of the station is one of the storage, or none.                *)
LEMMA StepStores == IInv /\ [Next]_vars => [Store!Next]_Store!store
<1> SUFFICES ASSUME IInv, [Next]_vars
             PROVE  Store!Next \/ UNCHANGED Store!store
  OBVIOUS
<1> USE DEF store, ram, loop, handler
<1>1. CASE PowerLoss \/ ApReset \/ HandlerReset
  BY <1>1, RestartStores DEF ApReset, HandlerReset
<1>2. CASE BootUnread \/ BootConnected \/ BootAlone
  <2>1. UNCHANGED <<file, before, web, upload>>
    BY <1>2 DEF BootUnread, BootConnected, BootAlone
  <2> QED BY <2>1, StoreKept DEF Writing
<1>3. CASE WifiOff \/ UsePosition \/ FixBegin \/ FixLat \/ FixLon \/ UploadIndex
  <2>1. UNCHANGED <<file, before, web, upload>>
    BY <1>3 DEF WifiOff, UsePosition, FixBegin, FixLat, FixLon, UploadIndex
  <2> QED BY <2>1, StoreKept DEF Writing
<1>4. CASE Submit \/ SetLat \/ SetLon \/ LoadAbsent \/ GetLat \/ GetLon
  <2>1. UNCHANGED <<file, before>> /\ UNCHANGED Writing
    BY <1>4 DEF Submit, SetLat, SetLon, LoadAbsent, GetLat, GetLon, Writing
  <2> QED BY <2>1, StoreKept
<1>5. CASE Erase \/ LoadTorn
  <2>1. Format /\ ~Saving /\ ~Saving'
    BY <1>5 DEF Erase, LoadTorn, Saving
  <2> QED BY <2>1, FormatStores
<1>6. CASE Load
  BY <1>6, LoadStores
<1>7. CASE Write
  BY <1>7, WriteStores
<1>8. CASE UploadBegin \/ UploadEnd \/ UploadBroken
  BY <1>8, UploadStores
<1>9. CASE UNCHANGED vars
  <2>1. UNCHANGED <<file, before, web, upload>>
    BY <1>9 DEF vars
  <2> QED BY <2>1, StoreKept DEF Writing
<1> QED BY <1>1, <1>2, <1>3, <1>4, <1>5, <1>6, <1>7, <1>8, <1>9 DEF Next, Boot, Form

(* OGN_save_config, handleUpload, the formatting of the flash and every loss *)
(* of power implement the storage of ConfigStore.                           *)
THEOREM StoreRefined == Spec => StoreSpec
<1>1. Init => Store!Init
  BY StoreInit
<1>2. IInv /\ [Next]_vars => [Store!Next]_Store!store
  BY StepStores
<1> QED BY <1>1, <1>2, ConfigInvariant, PTL DEF Spec, StoreSpec, Store!Spec

-------------------------------------------------------------------------------
(* The proof that the station recovers.  What TLC checks of the fair        *)
(* actions, that they can be taken when they have to be (NeverStuck), is a  *)
(* hypothesis.                                                             *)

(* The file is of use, and the station is not and does not become a relay.  *)
Station == Whole /\ file.wifi = "good" /\ ~file.relay /\ mode \notin {"relay", "dark"}

(* Setup mode is only left by a start.                                     *)
LEMMA SetupLeft ==
  ASSUME [Next]_vars, mode = "ap"
  PROVE  mode' \in {"ap", "boot"}
<1>1. CASE PowerLoss \/ ApReset \/ HandlerReset
  BY <1>1 DEF PowerLoss, ApReset, HandlerReset, Restarted
<1>2. CASE Boot \/ WifiOff
  BY <1>2 DEF Boot, BootUnread, BootConnected, BootAlone, WifiOff
<1>3. CASE UsePosition \/ FixBegin \/ FixLat \/ FixLon
  BY <1>3 DEF UsePosition, FixBegin, FixLat, FixLon
<1>4. CASE Submit \/ (Form /\ ~HandlerReset)
  BY <1>4 DEF Submit, Form, SetLat, SetLon, Erase, LoadAbsent, LoadTorn, Load, GetLat,
     GetLon, Write, loop
<1>5. CASE UploadBegin \/ UploadEnd \/ UploadBroken \/ UploadIndex
  BY <1>5 DEF UploadBegin, UploadEnd, UploadBroken, UploadIndex, loop
<1>6. CASE UNCHANGED vars
  BY <1>6 DEF vars, loop
<1> QED BY <1>1, <1>2, <1>3, <1>4, <1>5, <1>6 DEF Next

(* A station with a file of use connects again and again (WiFi_setup,       *)
(* ognbase.ino:356-371), for any uploads, forms, fixes and losses of power. *)
THEOREM RecoversHolds == Spec /\ []NeverStuck => Recovers
<1>1. IInv /\ Station => mode = "boot" \/ mode = "ap" \/ mode = "sta"
  BY DEF IInv, TypeOK, Station
<1>2. NeverStuck /\ mode = "ap" => ENABLED <<ApReset>>_vars
  BY DEF NeverStuck
<1>3. NeverStuck /\ Station /\ mode = "boot" => ENABLED <<BootConnected>>_vars
  BY DEF NeverStuck, Station, Usable
<1>4. [Next]_vars /\ mode = "ap" => (mode = "ap")' \/ (mode = "boot")'
  BY SetupLeft
<1>5. <<ApReset>>_vars => (mode = "boot")'
  BY DEF ApReset, PowerLoss, Restarted
<1>6. <<BootConnected>>_vars => (mode = "sta")'
  BY DEF BootConnected
<1>7. Spec /\ []NeverStuck => (mode = "ap" ~> mode = "boot")
  BY <1>2, <1>4, <1>5, PTL DEF Spec
<1>8. Spec /\ []NeverStuck => (<>[]Station => []<>(mode = "boot" \/ mode = "sta"))
  BY <1>1, <1>7, ConfigInvariant, PTL
<1>9. Spec /\ []NeverStuck => (<>[]Station => []<>(mode = "sta"))
  BY <1>3, <1>6, <1>8, PTL DEF Spec
<1> QED BY <1>9, PTL DEF Recovers, Station

===============================================================================
