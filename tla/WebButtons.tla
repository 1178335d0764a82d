---------------------------- MODULE WebButtons ------------------------------
(***************************************************************************)
(* The control bar of the web UI (main.js): buttons that post a command    *)
(* and show the camera's state, and updateHeartbeatUi, the one reducer     *)
(* that the answers, the SSE heartbeat and the pollers all feed with       *)
(* partial states. Snapshots and answers are applied when they arrive,     *)
(* not when they were taken.                                               *)
(***************************************************************************)
EXTENDS Naturals, FiniteSets

CONSTANTS
    Toggles,        \* motion, privacy, wireguard, daynight, microphone, speaker, auto, color, ...
    Kinds,          \* the toggles' handlers: prudynt, wireguard, daynight, audio, imp
    Numeric,        \* toggles whose badge is lit only by the number 1 (auto)
    Recorders,      \* recorder-ch0, recorder-ch1
    Sources,        \* the channels that bring camera states: sse and the pollers
    Carries,        \* [Sources -> SUBSET Buttons]: what each one reports
    MaxClicks,      \* bound: clicks
    MaxChanges      \* bound: changes of the camera's state by anything else

Buttons == Toggles \cup Recorders

ASSUME ButtonsAssumption ==
    /\ Numeric \subseteq Toggles /\ Toggles \cap Recorders = {}
    /\ Carries \in [Sources -> SUBSET Buttons]
    /\ MaxClicks \in Nat /\ MaxChanges \in Nat

VARIABLES
    kind,       \* which handler a toggle has
    dev,        \* the camera's state of every button
    active,     \* what the button shows; recordingState for a recorder
    pending,    \* the button's "pending" class
    posts,      \* commands under way: sent, or served with the value read back
    snaps,      \* per source, the snapshot under way (a set of at most one)
    clicks, changes

bvars == <<kind, dev, active, pending, posts, snaps, clicks, changes>>

Post == [id : 1..MaxClicks, b : Buttons, val : BOOLEAN, st : {"sent", "served", "failed"},
         back : BOOLEAN]

BInit == /\ kind \in [Toggles -> Kinds]
         /\ dev \in [Buttons -> BOOLEAN]
         /\ active = [b \in Buttons |-> FALSE]
         /\ pending = [b \in Buttons |-> FALSE]
         /\ posts = {} /\ snaps = [s \in Sources |-> {}]
         /\ clicks = 0 /\ changes = 0

\* Mutant: updateRecordingIcons leaves the pending class alone.
updateHeartbeatUi_recorders_wait(json, lit) ==
    /\ active' = [b \in Buttons |-> IF b \in DOMAIN json THEN json[b] /\ lit[b]
                                    ELSE b \in Toggles /\ active[b]]
    /\ pending' = [b \in Buttons |-> (b \in Recorders \/ b \notin DOMAIN json) /\ pending[b]]

\* The reducer on a partial state: keys it carries are shown and their buttons released;
\* a recorder it does not carry is taken for stopped.
updateHeartbeatUi(json, lit) ==
    /\ active' = [b \in Buttons |-> IF b \in DOMAIN json THEN json[b] /\ lit[b]
                                    ELSE b \in Toggles /\ active[b]]
    /\ pending' = [b \in Buttons |-> b \in Toggles \ DOMAIN json /\ pending[b]]

\* An answer states a button's value the way the reducer compares it ...
Plain == [b \in Buttons |-> TRUE]
\* ... the pollers send a boolean where the reducer of a Numeric badge compares with 1.
FromPoller == [b \in Buttons |-> b \notin Numeric]

\* toggleMotion, toggleButton, toggleRecording, ...: the opposite of what is shown.
toggle(b) ==
    /\ clicks < MaxClicks
    /\ clicks' = clicks + 1
    /\ pending' = [pending EXCEPT ![b] = TRUE]
    /\ posts' = posts \cup {[id |-> clicks + 1, b |-> b, val |-> ~active[b], st |-> "sent", back |-> FALSE]}
    /\ UNCHANGED <<kind, dev, active, snaps, changes>>

\* The CGI applies the command, leaves the state alone (a guard, a privacy interlock), or
\* the request fails on its way there or back.
PostServed(p) ==
    /\ p.st = "sent"
    /\ \E applied \in BOOLEAN, st \in {"served", "failed"} :
           LET now == IF applied THEN p.val ELSE dev[p.b]
           IN  /\ dev' = [dev EXCEPT ![p.b] = now]
               /\ posts' = (posts \ {p}) \cup {[p EXCEPT !.st = st, !.back = st = "served" /\ now]}
    /\ UNCHANGED <<kind, active, pending, snaps, clicks, changes>>

\* What an answer does to the rest of the page, by the value the handler takes from it.
Shows(p, v) == updateHeartbeatUi([x \in {p.b} |-> v], Plain)
Released(p) == pending' = [pending EXCEPT ![p.b] = FALSE] /\ UNCHANGED active

\* An answer of this handler is taken off the list.
Answered(p, k) ==
    /\ p.b \in Toggles /\ kind[p.b] = k /\ p.st # "sent"
    /\ posts' = posts \ {p}
    /\ UNCHANGED <<kind, dev, snaps, clicks, changes>>

\* Mutant: the catch block forgets the button.
toggleMotion_keeps_pending(p) ==
    /\ Answered(p, "prudynt")
    /\ IF p.st = "failed" THEN UNCHANGED <<active, pending>> ELSE \E v \in {p.back, p.val} : Shows(p, v)

\* Motion and privacy: the value read back if the answer brings one, else the value asked
\* for; an error only releases the button.
toggleMotion(p) ==
    /\ Answered(p, "prudynt")
    /\ IF p.st = "failed" THEN Released(p) ELSE \E v \in {p.back, p.val} : Shows(p, v)

toggleWireGuard(p) ==
    /\ Answered(p, "wireguard")
    /\ IF p.st = "failed" THEN Released(p) ELSE \E v \in {p.back, p.val} : Shows(p, v)

\* Day/night shows the mode asked for, whatever the answer says.
toggleDayNight(p) ==
    /\ Answered(p, "daynight")
    /\ IF p.st = "failed" THEN Released(p) ELSE Shows(p, p.val)

\* The microphone is sent and read back as mic_muted, its badge the inverse again.
toggleAudio(p) ==
    /\ Answered(p, "audio")
    /\ IF p.st = "failed" THEN Released(p)
       ELSE \E muted \in {~p.back, ~p.val} : Shows(p, ~muted)

\* json-imp.cgi: the read-back, else the value asked for. The status is not looked at, so an
\* HTTP error that is JSON shows the value asked for; the button is released in any case.
toggleButton(p) ==
    /\ Answered(p, "imp")
    /\ IF p.st = "failed" THEN Released(p) \/ Shows(p, p.val)
       ELSE \E v \in {p.back, p.val} : Shows(p, v)

\* The answer to a recorder: "ok" sets its state and releases both recorders, an empty
\* answer does nothing, anything else releases the button.
recordingAnswer(p) ==
    /\ p.b \in Recorders /\ p.st # "sent"
    /\ posts' = posts \ {p}
    /\ \/ /\ p.st = "served" /\ p.back = p.val
          /\ active' = [active EXCEPT ![p.b] = p.val]
          /\ pending' = [b \in Buttons |-> b \in Toggles /\ pending[b]]
       \/ p.st = "served" /\ UNCHANGED <<active, pending>>
       \/ /\ p.st = "failed" \/ p.back # p.val
          /\ pending' = [pending EXCEPT ![p.b] = FALSE] /\ UNCHANGED active
    /\ UNCHANGED <<kind, dev, snaps, clicks, changes>>

\* The camera writes a snapshot for a source ...
SnapTaken(s) ==
    /\ snaps[s] = {}
    /\ snaps' = [snaps EXCEPT ![s] = {[b \in Carries[s] |-> dev[b]]}]
    /\ UNCHANGED <<kind, dev, active, pending, posts, clicks, changes>>

\* ... and the tab feeds it to the reducer: fetchX, fetchSlowHeartbeatStatus, onmessage.
SnapApplied(s) ==
    /\ \E json \in snaps[s] : updateHeartbeatUi(json, FromPoller)
    /\ snaps' = [snaps EXCEPT ![s] = {}]
    /\ UNCHANGED <<kind, dev, posts, clicks, changes>>

\* Home Assistant, a schedule, another tab, the light sensor.
DeviceChanges(b) ==
    /\ changes < MaxChanges
    /\ changes' = changes + 1
    /\ dev' = [dev EXCEPT ![b] = ~@]
    /\ UNCHANGED <<kind, active, pending, posts, snaps, clicks>>

Answer == \E p \in posts : \/ PostServed(p) \/ recordingAnswer(p) \/ toggleMotion(p)
                         \/ toggleWireGuard(p) \/ toggleDayNight(p) \/ toggleAudio(p) \/ toggleButton(p)

BNext == \/ \E b \in Buttons : toggle(b) \/ DeviceChanges(b)
         \/ Answer
         \/ \E s \in Sources : SnapTaken(s) \/ SnapApplied(s)
-----------------------------------------------------------------------------
\* Every variable has its type.
BTypeOK == /\ kind \in [Toggles -> Kinds]
           /\ dev \in [Buttons -> BOOLEAN] /\ active \in [Buttons -> BOOLEAN]
           /\ pending \in [Buttons -> BOOLEAN]
           /\ posts \subseteq Post
           /\ \A s \in Sources : snaps[s] \subseteq [Carries[s] -> BOOLEAN] /\ Cardinality(snaps[s]) <= 1
           /\ clicks \in 0..MaxClicks /\ changes \in 0..MaxChanges

\* A toggle spins only while a command of its own is under way: every answer, error included,
\* and every snapshot releases it (the then and catch blocks of the toggles).
PendingHasPost == \A b \in Toggles : pending[b] => \E p \in posts : p.b = b

\* No button spins for ever, not even a recorder whose answer was empty.
PendingEnds == \A b \in Buttons : pending[b] ~> ~pending[b]

\* Whatever order answers and older snapshots arrive in, the badge of a toggle ends up showing
\* the camera's state (updateHeartbeatUi fed by toggles, SSE and pollers).
TogglesSettle == \A b \in Toggles \ Numeric : <>[](active[b] = dev[b])

\* Every button stops spinning and every toggle comes to show the camera's state.
BarSettles == PendingEnds /\ TogglesSettle
=============================================================================
