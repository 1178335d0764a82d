--------------------------- MODULE PhysPrivButton ---------------------------
(***************************************************************************)
(* The physical-privacy button (main.js): its CGI only starts a detached   *)
(* lens move, so the requested state is latched, polls that disagree are   *)
(* ignored for a while, and a timer per click drops the latch at last.     *)
(***************************************************************************)
EXTENDS Integers, FiniteSets

CONSTANTS
    Hold,           \* 15 s: how long the reducer ignores a disagreeing poll, in ticks
    Net,            \* 16 s: the safety net's timer, in ticks
    MaxPpClicks     \* bound: clicks

ASSUME PpAssumption == Hold \in Nat /\ Net \in Nat /\ Hold < Net /\ MaxPpClicks \in Nat

VARIABLES
    file,       \* "active" of /etc/physical-privacy-state.json
    want,       \* the state the last started move will leave
    ppActive, ppPending,    \* the button's classes
    desired,    \* physPrivDesired: a set of at most one state
    age,        \* now - physPrivDesiredAt, capped at Hold + 1
    nets,       \* safety-net timers: the state each was set for and the ticks left
    calls,      \* requests under way
    poll,       \* the fast poll's value under way (a set of at most one)
    lost,       \* history: a request has failed
    ppClicks

pvars == <<file, want, ppActive, ppPending, desired, age, nets, calls, poll, lost, ppClicks>>

PpInit == /\ file \in BOOLEAN /\ want = file
          /\ ppActive = FALSE /\ ppPending = FALSE
          /\ desired = {} /\ age = 0 /\ nets = {} /\ calls = {} /\ poll = {}
          /\ lost = FALSE /\ ppClicks = 0

\* Mutant: no safety net.
togglePhysicalPrivacy_no_net ==
    /\ ppClicks < MaxPpClicks
    /\ ppClicks' = ppClicks + 1
    /\ desired' = {~ppActive} /\ age' = 0
    /\ ppPending' = TRUE /\ ppActive' = ~ppActive
    /\ calls' = calls \cup {[id |-> ppClicks + 1, state |-> ~ppActive]}
    /\ UNCHANGED <<file, want, nets, poll, lost>>

\* The click: latch, show optimistically, send, set the net.
togglePhysicalPrivacy ==
    /\ ppClicks < MaxPpClicks
    /\ ppClicks' = ppClicks + 1
    /\ desired' = {~ppActive} /\ age' = 0
    /\ ppPending' = TRUE /\ ppActive' = ~ppActive
    /\ nets' = nets \cup {[state |-> ~ppActive, left |-> Net]}
    /\ calls' = calls \cup {[id |-> ppClicks + 1, state |-> ~ppActive]}
    /\ UNCHANGED <<file, want, poll, lost>>

\* The CGI starts the move.
callServed(c) ==
    /\ calls' = calls \ {c}
    /\ want' = c.state
    /\ UNCHANGED <<file, ppActive, ppPending, desired, age, nets, poll, lost, ppClicks>>

\* catch: whichever click's latch it is, it is dropped.
callFails(c) ==
    /\ calls' = calls \ {c}
    /\ desired' = {} /\ ppPending' = FALSE /\ lost' = TRUE
    /\ UNCHANGED <<file, want, ppActive, age, nets, poll, ppClicks>>

LensMoves == /\ file # want
             /\ file' = want
             /\ UNCHANGED <<want, ppActive, ppPending, desired, age, nets, calls, poll, lost, ppClicks>>

\* The net compares values only: it also drops a later latch of the same state.
netFires(t) ==
    /\ t.left = 0
    /\ nets' = nets \ {t}
    /\ IF desired = {t.state} THEN desired' = {} /\ ppPending' = FALSE
                              ELSE UNCHANGED <<desired, ppPending>>
    /\ UNCHANGED <<file, want, ppActive, age, calls, poll, lost, ppClicks>>

PollTaken == /\ poll = {}
             /\ poll' = {file}
             /\ UNCHANGED <<file, want, ppActive, ppPending, desired, age, nets, calls, lost, ppClicks>>

\* Mutant: the poll's value is always shown.
ppReducer_always ==
    /\ \E v \in poll : desired' = {} /\ ppPending' = FALSE /\ ppActive' = v
    /\ poll' = {}
    /\ UNCHANGED <<file, want, age, nets, calls, lost, ppClicks>>

\* A poll is shown if there is no latch, if it agrees with it or if it is old.
ppApply(v) == desired = {} \/ desired = {v} \/ age > Hold

ppReducer ==
    /\ \E v \in poll : IF ppApply(v) THEN desired' = {} /\ ppPending' = FALSE /\ ppActive' = v
                                     ELSE UNCHANGED <<desired, ppPending, ppActive>>
    /\ poll' = {}
    /\ UNCHANGED <<file, want, age, nets, calls, lost, ppClicks>>

Tick == /\ \A t \in nets : t.left > 0
        /\ nets # {}
        /\ nets' = {[t EXCEPT !.left = @ - 1] : t \in nets}
        /\ age' = IF age > Hold THEN age ELSE age + 1
        /\ UNCHANGED <<file, want, ppActive, ppPending, desired, calls, poll, lost, ppClicks>>

PpNext == \/ togglePhysicalPrivacy \/ LensMoves \/ PollTaken \/ ppReducer \/ Tick
          \/ \E c \in calls : callServed(c) \/ callFails(c)
          \/ \E t \in nets : netFires(t)
-----------------------------------------------------------------------------
\* Every variable has its type.
PpTypeOK == /\ file \in BOOLEAN /\ want \in BOOLEAN /\ ppActive \in BOOLEAN /\ ppPending \in BOOLEAN
            /\ desired \subseteq BOOLEAN /\ Cardinality(desired) <= 1 /\ age \in 0..(Hold + 1)
            /\ nets \subseteq [state : BOOLEAN, left : 0..Net]
            /\ calls \subseteq [id : 1..MaxPpClicks, state : BOOLEAN]
            /\ poll \subseteq BOOLEAN /\ Cardinality(poll) <= 1
            /\ lost \in BOOLEAN /\ ppClicks \in 0..MaxPpClicks

\* The button spins only while its latch is set: whichever of poll, failure and timer takes
\* the latch away releases the button too, so the others find nothing to undo.
PendingIsLatched == ppPending => desired # {}

\* "so the button can never stick" (main.js:798), with or without polls.
NeverSticks == ppPending ~> ~ppPending

\* "the button never flickers back mid-transition" (main.js:775), for a single click whose
\* request does not fail.
NoFlickerBack == [][ppClicks = 1 /\ ppClicks' = 1 /\ ~lost /\ age <= Hold /\ ppActive' # ppActive => ppActive' = want']_pvars

\* A failed move surfaces: the button ends up showing the state file.
ButtonSettles == <>[](ppActive = file)
=============================================================================
