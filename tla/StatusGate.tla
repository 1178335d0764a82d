----------------------------- MODULE StatusGate -----------------------------
(***************************************************************************)
(* What the status channels of a tab promise: they load the camera only    *)
(* while the tab is open to them, that is visible and past the password    *)
(* check. A source is armed while it exists or something is scheduled that *)
(* will use it; a request under way when the tab closes may still end.     *)
(***************************************************************************)
EXTENDS Naturals

CONSTANTS Sources, Pollers      \* all of them, and those that send requests

VARIABLES
    open,       \* TRUE while the tab is open to the channels
    armed,      \* sources that are armed
    sent        \* sent[p]: requests of p under way

gvars == <<open, armed, sent>>

Init == open = FALSE /\ armed = {} /\ sent = [p \in Pollers |-> 0]

\* Opening the tab may start everything at once.
Open == /\ ~open /\ open' = TRUE
        /\ armed' \in SUBSET Sources
        /\ sent' \in [Pollers -> Nat]

\* Closing it disarms everything at once, and begins nothing.
Close == /\ open /\ open' = FALSE
         /\ armed' = {}
         /\ sent' \in [Pollers -> Nat] /\ \A p \in Pollers : sent'[p] <= sent[p]

\* While it is open, sources come and go.
Work == /\ open /\ UNCHANGED open
        /\ armed' \in SUBSET Sources
        /\ sent' \in [Pollers -> Nat]

\* While it is closed, requests end.
Drain == /\ ~open /\ UNCHANGED <<open, armed>>
         /\ sent' \in [Pollers -> Nat] /\ \A p \in Pollers : sent'[p] <= sent[p]

Next == Open \/ Close \/ Work \/ Drain

Spec == Init /\ [][Next]_gvars
=============================================================================
