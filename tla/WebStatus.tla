----------------------------- MODULE WebStatus ------------------------------
(***************************************************************************)
(* The status channels of a web UI tab (main.js): four pollers, each a     *)
(* timer, an in-flight flag and the fetches really under way; the SSE      *)
(* heartbeat with its reconnect timer and back-off; the session and        *)
(* password check that gates them; and the visibility and unload handlers  *)
(* that stop and restart them.                                             *)
(***************************************************************************)
EXTENDS Naturals

CONSTANTS
    Channels,       \* pollers: slow, fast, health and gain run the same code
    MaxHides        \* bound: times the tab is hidden or an unload is begun

ASSUME StatusAssumption == MaxHides \in Nat

VARIABLES
    session,    \* passwordCheckComplete and isDefaultPassword, as one state
    hidden,     \* document.hidden
    net,        \* TRUE while the camera answers
    timers,     \* timeouts of a poller that are still to fire
    handle,     \* TRUE if the poller's timer variable is not null
    inFlight,   \* the poller's in-flight flag
    reqs,       \* fetches of the poller under way
    sse,        \* heartbeatSource
    rcTimers,   \* reconnect timeouts still to fire
    rcHandle,   \* TRUE if heartbeatReconnectTimer names one of them
    delay,      \* currentReconnectDelay, in seconds
    fails,      \* history: SSE errors since the last message or clean-up
    stalled,    \* history: an unload was begun, the page stayed and was not hidden since
    hides       \* times the resources were cleaned up by hiding or an unload

pollVars == <<timers, handle, inFlight, reqs>>
sseVars == <<sse, rcTimers, rcHandle, delay, fails>>
vars == <<session, hidden, net, pollVars, sseVars, stalled, hides>>

Sessions == {"check", "login", "default", "changing", "changed", "ok"}

HeartBeatReconnectDelay == 5
HeartBeatMaxReconnectDelay == 120
Delays == {5, 10, 20, 40, 80, 120}

\* passwordCheckComplete && !isDefaultPassword
Allowed(s) == s \in {"changed", "ok"}

Init == /\ session = "check" /\ hidden \in BOOLEAN /\ net = TRUE
        /\ timers = [c \in Channels |-> 0] /\ handle = [c \in Channels |-> FALSE]
        /\ inFlight = [c \in Channels |-> FALSE] /\ reqs = [c \in Channels |-> 0]
        /\ sse = "none" /\ rcTimers = 0 /\ rcHandle = FALSE
        /\ delay = HeartBeatReconnectDelay /\ fails = 0
        /\ stalled = FALSE /\ hides = 0

\* startSlowHeartbeatStatus and its three copies: nothing while a timer or a fetch is known.
startStatus(c) == ~handle[c] /\ ~inFlight[c]

\* heartbeat(), run by a caller that knows whether its gate is open: the pollers that
\* are not running fetch at once, and the SSE source is made unless there is one.
heartbeat(open) ==
    /\ inFlight' = [c \in Channels |-> inFlight[c] \/ (open /\ startStatus(c))]
    /\ reqs' = [c \in Channels |-> IF open /\ startStatus(c) THEN reqs[c] + 1 ELSE reqs[c]]
    /\ sse' = IF open /\ sse = "none" THEN "connecting" ELSE sse

\* clearTimeout on the poller's handle.
Cleared(c) == IF handle[c] THEN timers[c] - 1 ELSE timers[c]

\* Mutant: the reconnect timer is not tracked.
cleanupHeartbeatResources_keeps_reconnect ==
    /\ timers' = [c \in Channels |-> Cleared(c)]
    /\ handle' = [c \in Channels |-> FALSE]
    /\ inFlight' = [c \in Channels |-> FALSE]
    /\ sse' = "none"
    /\ delay' = HeartBeatReconnectDelay /\ fails' = 0
    /\ UNCHANGED <<reqs, rcTimers, rcHandle>>

\* The flags are reset although the fetches go on.
cleanupHeartbeatResources ==
    /\ timers' = [c \in Channels |-> Cleared(c)]
    /\ handle' = [c \in Channels |-> FALSE]
    /\ inFlight' = [c \in Channels |-> FALSE]
    /\ sse' = "none"
    /\ rcTimers' = IF rcHandle THEN rcTimers - 1 ELSE rcTimers
    /\ rcHandle' = FALSE
    /\ delay' = HeartBeatReconnectDelay /\ fails' = 0
    /\ UNCHANGED reqs
-----------------------------------------------------------------------------
\* 100 ms after load: to the login page on any failure, the password dialog on the
\* default password, else the heartbeat.
checkSessionAndPassword(result) ==
    /\ session = "check"
    /\ session' = result
    /\ heartbeat(result = "ok" /\ ~hidden)
    /\ UNCHANGED <<hidden, net, timers, handle, rcTimers, rcHandle, delay, fails, stalled, hides>>

\* The password dialog's button, on input that passes its checks.
changePassword ==
    /\ session = "default"
    /\ session' = "changing"
    /\ cleanupHeartbeatResources
    /\ UNCHANGED <<hidden, net, stalled, hides>>

\* The answer: accepted, the gate opens; refused, the button works again.
changePasswordDone(result) ==
    /\ session = "changing"
    /\ session' = result
    /\ UNCHANGED <<hidden, net, pollVars, sseVars, stalled, hides>>

\* 1.5 s after an accepted change.
passwordTimer ==
    /\ session = "changed"
    /\ session' = "ok"
    /\ heartbeat(sse = "none" /\ ~hidden)
    /\ stalled' = (stalled /\ ~(sse = "none" /\ ~hidden))
    /\ UNCHANGED <<hidden, net, timers, handle, rcTimers, rcHandle, delay, fails, hides>>

\* A poller's timeout: fetchX returns at once when its gate is closed.
pollTimer(c) ==
    LET go == ~inFlight[c] /\ Allowed(session) /\ ~hidden
    IN  /\ timers[c] > 0
        /\ timers' = [timers EXCEPT ![c] = @ - 1]
        /\ handle' = [handle EXCEPT ![c] = FALSE]
        /\ inFlight' = [inFlight EXCEPT ![c] = @ \/ go]
        /\ reqs' = [reqs EXCEPT ![c] = IF go THEN @ + 1 ELSE @]
        /\ UNCHANGED <<session, hidden, net, sseVars, stalled, hides>>

\* Mutant: the timer that is already set is not cleared.
fetchDone_leaks(c) ==
    LET again == Allowed(session) /\ ~hidden
    IN  /\ reqs[c] > 0
        /\ reqs' = [reqs EXCEPT ![c] = @ - 1]
        /\ inFlight' = [inFlight EXCEPT ![c] = FALSE]
        /\ timers' = [timers EXCEPT ![c] = @ + (IF again THEN 1 ELSE 0)]
        /\ handle' = [handle EXCEPT ![c] = again]
        /\ UNCHANGED <<session, hidden, net, sseVars, stalled, hides>>

\* The finally block of a fetch, whatever its outcome: the flag is reset and scheduleX
\* replaces the timer, or only clears it when the gate is closed.
fetchDone(c) ==
    LET again == Allowed(session) /\ ~hidden
    IN  /\ reqs[c] > 0
        /\ reqs' = [reqs EXCEPT ![c] = @ - 1]
        /\ inFlight' = [inFlight EXCEPT ![c] = FALSE]
        /\ timers' = [timers EXCEPT ![c] = Cleared(c) + (IF again THEN 1 ELSE 0)]
        /\ handle' = [handle EXCEPT ![c] = again]
        /\ UNCHANGED <<session, hidden, net, sseVars, stalled, hides>>
-----------------------------------------------------------------------------
sseOpens ==
    /\ sse = "connecting" /\ net
    /\ sse' = "open"
    /\ UNCHANGED <<session, hidden, net, pollVars, rcTimers, rcHandle, delay, fails, stalled, hides>>

sseMessage ==
    /\ sse = "open" /\ net
    /\ delay' = HeartBeatReconnectDelay /\ fails' = 0
    /\ UNCHANGED <<session, hidden, net, pollVars, sse, rcTimers, rcHandle, stalled, hides>>

Doubled(d) == IF 2 * d > HeartBeatMaxReconnectDelay THEN HeartBeatMaxReconnectDelay ELSE 2 * d

\* onerror: close, replace the reconnect timer, double the delay of the next failure.
sseError ==
    /\ sse # "none" /\ ~net
    /\ sse' = "none"
    /\ rcTimers' = (IF rcHandle THEN rcTimers - 1 ELSE rcTimers) + 1
    /\ rcHandle' = TRUE
    /\ delay' = Doubled(delay) /\ fails' = IF fails < 6 THEN fails + 1 ELSE 6
    /\ UNCHANGED <<session, hidden, net, pollVars, stalled, hides>>

\* Mutant: the reconnect timeout finds a stale source and only re-arms itself.
reconnectTimer_again ==
    /\ rcTimers > 0
    /\ delay' = Doubled(delay) /\ fails' = IF fails < 6 THEN fails + 1 ELSE 6
    /\ UNCHANGED <<session, hidden, net, pollVars, sse, rcTimers, rcHandle, stalled, hides>>

\* The reconnect timeout calls heartbeat(), which does nothing on a hidden tab.
reconnectTimer ==
    /\ rcTimers > 0
    /\ rcTimers' = rcTimers - 1
    /\ rcHandle' = (rcHandle /\ rcTimers > 1)
    /\ heartbeat(Allowed(session) /\ ~hidden)
    /\ UNCHANGED <<session, hidden, net, timers, handle, delay, fails, stalled, hides>>
-----------------------------------------------------------------------------
visibilityHidden ==
    /\ ~hidden /\ hides < MaxHides
    /\ hidden' = TRUE /\ hides' = hides + 1 /\ stalled' = FALSE
    /\ cleanupHeartbeatResources
    /\ UNCHANGED <<session, net>>

visibilityShown ==
    /\ hidden
    /\ hidden' = FALSE
    /\ heartbeat(Allowed(session))
    /\ UNCHANGED <<session, net, timers, handle, rcTimers, rcHandle, delay, fails, stalled, hides>>

\* beforeunload of a navigation that does not leave the page (a download, a cancelled one).
beforeUnload ==
    /\ ~hidden /\ hides < MaxHides
    /\ hides' = hides + 1 /\ stalled' = TRUE
    /\ cleanupHeartbeatResources
    /\ UNCHANGED <<session, hidden, net>>

Network == /\ net' = ~net
           /\ UNCHANGED <<session, hidden, pollVars, sseVars, stalled, hides>>

\* What the browser and the camera's answers drive, given time.
Progress == \/ \E r \in {"login", "default", "ok"} : checkSessionAndPassword(r)
            \/ \E r \in {"changed", "default"} : changePasswordDone(r)
            \/ passwordTimer \/ sseOpens \/ sseMessage \/ sseError \/ reconnectTimer

Next == \/ Progress
        \/ \E c \in Channels : pollTimer(c) \/ fetchDone(c)
        \/ changePassword \/ visibilityHidden \/ visibilityShown \/ beforeUnload \/ Network

Spec == Init /\ [][Next]_vars

\* Timeouts fire, requests end, and the event source connects or reports an error.
Fairness == /\ WF_vars(passwordTimer) /\ WF_vars(sseOpens) /\ WF_vars(sseError)
            /\ WF_vars(reconnectTimer)
            /\ \A c \in Channels : WF_vars(pollTimer(c)) /\ WF_vars(fetchDone(c))

FairSpec == Spec /\ Fairness
-----------------------------------------------------------------------------
\* Every variable has its type.
TypeOK == /\ session \in Sessions
          /\ hidden \in BOOLEAN /\ net \in BOOLEAN /\ stalled \in BOOLEAN /\ rcHandle \in BOOLEAN
          /\ timers \in [Channels -> Nat] /\ reqs \in [Channels -> Nat]
          /\ handle \in [Channels -> BOOLEAN] /\ inFlight \in [Channels -> BOOLEAN]
          /\ sse \in {"none", "connecting", "open"}
          /\ rcTimers \in Nat /\ delay \in Delays /\ fails \in 0..6 /\ hides \in 0..MaxHides

\* No timer is armed and no event source exists: the tab puts no further load on the camera.
Quiet == sse = "none" /\ rcTimers = 0 /\ \A c \in Channels : timers[c] = 0

\* A hidden tab polls nothing, streams nothing and has nothing scheduled that would
\* (heartbeat, scheduleX and cleanupHeartbeatResources together).
HiddenIsQuiet == hidden => Quiet

\* The sources of StatusGate that are armed.
Armed == {c \in Channels : timers[c] > 0} \cup IF sse # "none" \/ rcTimers > 0 THEN {"sse"} ELSE {}

Gate == INSTANCE StatusGate WITH Sources <- Channels \cup {"sse"}, Pollers <- Channels,
                                 open <- Allowed(session) /\ ~hidden, armed <- Armed, sent <- reqs

\* The channels implement StatusGate: nothing is armed and no request begins unless the tab is
\* visible and the password is known not to be the default one, and the step that closes the
\* tab disarms everything (the comment at main.js:1496, cleanupHeartbeatResources).
GateImplemented == Gate!Spec

\* Until the password is known not to be the default one no channel has been started, and
\* none has a request under way (checkSessionAndPassword, startHeartbeatSse, fetchX).
DefaultPasswordIsQuiet == ~Allowed(session) => Quiet /\ \A c \in Channels : reqs[c] = 0

\* However its fetches overlap, a poller has one timer, the one its variable names, and the
\* reconnect timer likewise (scheduleX, onerror): polling never accelerates.
OneTimerEach == /\ \A c \in Channels : timers[c] = IF handle[c] THEN 1 ELSE 0
                /\ rcTimers = IF rcHandle THEN 1 ELSE 0

\* On a visible tab with a session no channel is ever left without something that will run it
\* again: a poller has a timer or a fetch, the SSE a source or a reconnect timer.
NeverDeaf == session = "ok" /\ ~hidden /\ ~stalled =>
                 /\ sse # "none" \/ rcTimers > 0
                 /\ \A c \in Channels : timers[c] > 0 \/ reqs[c] > 0

\* A second fetch of a poller exists only because the resources were cleaned up under the
\* first: the in-flight flag fails on no other path (startX, fetchX).
OverlapOnlyByCleanup == \A c \in Channels : reqs[c] <= 1 + hides

\* The next delay is the first one doubled once for every failure in a row, and never more
\* than the maximum (onerror, onmessage, cleanupHeartbeatResources).
BackoffExact == delay = IF fails > 4 THEN HeartBeatMaxReconnectDelay
                                     ELSE HeartBeatReconnectDelay * 2^fails

Good == session = "ok" /\ ~hidden /\ ~stalled /\ net

\* Once the camera stays reachable and the tab visible, the heartbeat stream is up for good,
\* whatever back-off or timers the outages before left behind.
SseReturns == <>[]Good => <>[](sse = "open")

\* ... and every poller goes on fetching.
PollersRun == <>[]Good => \A c \in Channels : []<>(reqs[c] > 0)

\* What holds of the channels in every state, whatever overlaps: none before the password is
\* known, one timer each, none left dead, a second fetch only by a clean-up, exact back-off.
ChannelInv == /\ TypeOK /\ DefaultPasswordIsQuiet /\ OneTimerEach /\ NeverDeaf
              /\ OverlapOnlyByCleanup /\ BackoffExact

\* After every outage the heartbeat stream is up again for good and all pollers go on.
ChannelsReturn == SseReturns /\ PollersRun
=============================================================================
