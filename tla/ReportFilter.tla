----------------------------- MODULE ReportFilter -----------------------------
(***************************************************************************)
(* What the reception and export path of the station promises, whatever    *)
(* its tables look like.  "heard" is the history of the reports decoded    *)
(* from the air, in the order of reception; a report is known by its index *)
(* in it.  "sent" is the sequence of the reports handed to the APRS        *)
(* connection.  A report may be released when                              *)
(*   - it names an aircraft and may be shown (neither the stealth nor the  *)
(*     no-track bit is set, or the configuration overrides both),          *)
(*   - an earlier, different report of the same aircraft was heard from    *)
(*     which it is reachable at the speed it reports, and                  *)
(*   - no report of the same aircraft as new as it was released before.    *)
(***************************************************************************)
EXTENDS Validation, Sequences

CONSTANTS ogn_itrackbit, ogn_istealthbit

VARIABLES heard, sent

vars == <<heard, sent>>

HeardReport == [addr : Addr \cup {NoAddr}, pos : Int, speed : Int,
                masked : BOOLEAN, ts : Int]

Showable(r) == ~r.masked \/ (ogn_itrackbit /\ ogn_istealthbit)

(* Some earlier report of the same aircraft makes heard[n] believable. *)
Confirmed(n) ==
  \E m \in 1 .. n - 1 :
    heard[m].addr = heard[n].addr /\ Plausible(heard[m], heard[n])

(* heard[n] is newer than every report of its aircraft released so far. *)
Newest(n) == \A k \in DOMAIN sent :
               heard[sent[k]].addr = heard[n].addr => sent[k] < n

Init == heard = << >> /\ sent = << >>

(* Any report may be heard next: the new one is read off the next state. *)
Hear == /\ Len(heard') = Len(heard) + 1
        /\ heard'[Len(heard')] \in HeardReport
        /\ heard' = Append(heard, heard'[Len(heard')])
        /\ UNCHANGED sent

Release(n) == /\ heard[n].addr \in Addr
              /\ Showable(heard[n])
              /\ Confirmed(n)
              /\ Newest(n)
              /\ sent' = Append(sent, n)
              /\ UNCHANGED heard

Next == Hear \/ \E n \in DOMAIN heard : Release(n)

Spec == Init /\ [][Next]_vars

===============================================================================
