----------------------------- MODULE InvoiceBook -----------------------------
(***************************************************************************)
(* What the point of sale promises of an invoice (merchant.go, Poll and     *)
(* saveLocked): every step of it is announced, it only goes forward and     *)
(* ends with one outcome; merchant.json follows, never ahead and never back,*)
(* and a restart goes on from there.  The one flaw is a status torn while   *)
(* it is written, which a later write repairs unless a restart takes it up. *)
(***************************************************************************)
CONSTANT Invoices

VARIABLES
    booked, \* the status of each invoice
    told,   \* the statuses announced of it since the daemon started
    stored  \* its status in merchant.json

bookVars == <<booked, told, stored>>

\* What may follow a status.
After == [pending |-> {"paid", "settled", "expired", "failed"},
          paid |-> {"settled", "failed"},
          settled |-> {}, expired |-> {}, failed |-> {}, torn |-> {}]

Precedes(a, b) == a = b \/ b \in After[a]
\* What the file may hold of an invoice that is b: b, what came before, or a status
\* torn on the way to b.
Behind(a, b) == Precedes(a, b) \/ (a = "torn" /\ b # "pending")

Init ==
    /\ booked = [i \in Invoices |-> "pending"] /\ stored = booked
    /\ told = [i \in Invoices |-> {}]

Announce(i) ==
    \E s \in After[booked[i]] :
        /\ booked' = [booked EXCEPT ![i] = s]
        /\ told' = [told EXCEPT ![i] = @ \union {s}]
        /\ UNCHANGED stored

Write ==
    /\ stored' \in [Invoices -> DOMAIN After]
    /\ \A i \in Invoices :
        /\ Behind(stored'[i], booked[i])
        /\ "torn" \in {stored[i], stored'[i]} \/ Precedes(stored[i], stored'[i])
    /\ UNCHANGED <<booked, told>>

Restart ==
    /\ booked' = stored /\ told' = [i \in Invoices |-> {}]
    /\ UNCHANGED stored

Next == Write \/ Restart \/ \E i \in Invoices : Announce(i)

Spec == Init /\ [][Next]_bookVars
=============================================================================
