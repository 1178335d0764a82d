---------------------------- MODULE WebBarProofs ----------------------------
(***************************************************************************)
(* Proofs about the status channels and the control bar, for every set of  *)
(* pollers and buttons and any number of hides and clicks. The channels:   *)
(* the invariants of ChannelInv, and that they implement StatusGate. The   *)
(* bar: a button spins only for a reason, the privacy button does not      *)
(* flicker back, the timelapse button keeps the camera's settings.         *)
(***************************************************************************)
EXTENDS MCWebButtons, FiniteSetTheorems, TLAPS

\* A fetch the flag knows of exists, and every further one was left behind by a clean-up.
FlagCounts == \A c \in Channels : /\ inFlight[c] => reqs[c] > 0
                                  /\ reqs[c] <= hides + IF inFlight[c] THEN 1 ELSE 0

PollerLives(c) == timers[c] > 0 \/ reqs[c] > 0

\* Before the 1.5 s of the password dialog are over, channels that have an event source are
\* complete: a visibility change has started all of them.
StartedTogether == session = "changed" /\ ~hidden /\ ~stalled /\ sse # "none" =>
                       \A c \in Channels : PollerLives(c)

IInv == /\ TypeOK /\ HiddenIsQuiet /\ DefaultPasswordIsQuiet /\ OneTimerEach
        /\ FlagCounts /\ StartedTogether /\ NeverDeaf /\ BackoffExact

\* A tab that is being loaded satisfies the invariant.
LEMMA InitIInv == Init => IInv
<1> SUFFICES ASSUME Init PROVE IInv
    OBVIOUS
<1> USE DEF Init
<1>a. hidden \in BOOLEAN /\ net \in BOOLEAN /\ stalled \in BOOLEAN /\ rcHandle \in BOOLEAN
    BY Zenon
<1>b. /\ timers \in [Channels -> Nat] /\ reqs \in [Channels -> Nat]
      /\ handle \in [Channels -> BOOLEAN] /\ inFlight \in [Channels -> BOOLEAN]
    OBVIOUS
<1>1. TypeOK
    BY <1>a, <1>b, StatusAssumption DEF TypeOK, Sessions, HeartBeatReconnectDelay, Delays
<1>2. HiddenIsQuiet /\ DefaultPasswordIsQuiet /\ OneTimerEach /\ FlagCounts
    BY <1>1 DEF HiddenIsQuiet, DefaultPasswordIsQuiet, OneTimerEach, FlagCounts, Quiet, Allowed, TypeOK
<1>3. StartedTogether /\ NeverDeaf
    BY DEF StartedTogether, NeverDeaf
<1>4. BackoffExact
    BY DEF BackoffExact, HeartBeatReconnectDelay, HeartBeatMaxReconnectDelay
<1> QED BY <1>1, <1>2, <1>3, <1>4 DEF IInv

\* Every step keeps the types.
LEMMA TypeStep == IInv /\ [Next]_vars => TypeOK'
<1> SUFFICES ASSUME IInv, [Next]_vars PROVE TypeOK'
    OBVIOUS
<1> USE StatusAssumption DEF TypeOK, IInv
<1>a. ASSUME NEW open \in BOOLEAN, heartbeat(open)
      PROVE  /\ inFlight' \in [Channels -> BOOLEAN] /\ reqs' \in [Channels -> Nat]
             /\ sse' \in {"none", "connecting", "open"}
    BY <1>a DEF heartbeat
<1>b. \A c \in Channels : Cleared(c) \in Nat
    BY DEF OneTimerEach, Cleared
<1>c. (IF rcHandle THEN rcTimers - 1 ELSE rcTimers) \in Nat
    BY DEF OneTimerEach
<1>d. ASSUME cleanupHeartbeatResources
      PROVE  /\ timers' \in [Channels -> Nat] /\ reqs' \in [Channels -> Nat]
             /\ handle' \in [Channels -> BOOLEAN] /\ inFlight' \in [Channels -> BOOLEAN]
             /\ sse' \in {"none", "connecting", "open"}
             /\ rcTimers' \in Nat /\ rcHandle' \in BOOLEAN /\ delay' \in Delays /\ fails' \in 0..6
    <2>1. rcHandle' \in BOOLEAN
        BY <1>d, Zenon DEF cleanupHeartbeatResources
    <2> QED BY <1>d, <1>b, <1>c, <2>1 DEF cleanupHeartbeatResources, HeartBeatReconnectDelay, Delays
<1>1. ASSUME NEW r \in {"login", "default", "ok"}, checkSessionAndPassword(r) PROVE TypeOK'
    <2>1. heartbeat(r = "ok" /\ ~hidden)
        BY <1>1 DEF checkSessionAndPassword
    <2> QED BY <1>1, <2>1, <1>a DEF checkSessionAndPassword, Sessions
<1>2. ASSUME NEW r \in {"changed", "default"}, changePasswordDone(r) PROVE TypeOK'
    BY <1>2 DEF changePasswordDone, Sessions, pollVars, sseVars
<1>3. CASE passwordTimer
    <2>1. heartbeat(sse = "none" /\ ~hidden)
        BY <1>3 DEF passwordTimer
    <2>2. stalled' \in BOOLEAN
        BY <1>3, Zenon DEF passwordTimer
    <2> QED BY <1>3, <2>1, <2>2, <1>a DEF passwordTimer, Sessions
<1>4. CASE sseOpens
    BY <1>4 DEF sseOpens, pollVars
<1>5. CASE sseMessage
    BY <1>5 DEF sseMessage, pollVars, HeartBeatReconnectDelay, Delays
<1>6. CASE sseError
    BY <1>6, <1>c DEF sseError, pollVars, Doubled, HeartBeatMaxReconnectDelay, Delays
<1>7. CASE reconnectTimer
    <2>1. heartbeat(Allowed(session) /\ ~hidden)
        BY <1>7 DEF reconnectTimer
    <2>2. rcHandle' \in BOOLEAN
        BY <1>7, Zenon DEF reconnectTimer
    <2>3. /\ inFlight' \in [Channels -> BOOLEAN] /\ reqs' \in [Channels -> Nat]
          /\ sse' \in {"none", "connecting", "open"}
        BY <2>1, <1>a
    <2> QED BY <1>7, <2>2, <2>3 DEF reconnectTimer, pollVars
<1>8. ASSUME NEW c \in Channels, pollTimer(c) PROVE TypeOK'
    BY <1>8 DEF pollTimer, sseVars
<1>9. ASSUME NEW c \in Channels, fetchDone(c) PROVE TypeOK'
    <2>1. Cleared(c) \in Nat
        BY <1>b
    <2>2. timers' \in [Channels -> Nat]
        BY <1>9, <2>1 DEF fetchDone
    <2>3. handle' \in [Channels -> BOOLEAN]
        BY <1>9 DEF fetchDone
    <2> QED BY <1>9, <2>2, <2>3 DEF fetchDone, sseVars
<1>10. CASE changePassword
    BY <1>10, <1>d DEF changePassword, Sessions
<1>11. CASE visibilityHidden
    <2>1. hidden' \in BOOLEAN /\ stalled' \in BOOLEAN
        BY <1>11, Zenon DEF visibilityHidden
    <2> QED BY <1>11, <1>d, <2>1 DEF visibilityHidden
<1>12. CASE visibilityShown
    <2>1. heartbeat(Allowed(session))
        BY <1>12 DEF visibilityShown
    <2>2. hidden' \in BOOLEAN
        BY <1>12, Zenon DEF visibilityShown
    <2>3. Allowed(session) \in BOOLEAN
        BY DEF Allowed
    <2>4. /\ inFlight' \in [Channels -> BOOLEAN] /\ reqs' \in [Channels -> Nat]
          /\ sse' \in {"none", "connecting", "open"}
        BY <2>1, <2>3, <1>a
    <2> QED BY <1>12, <2>2, <2>4 DEF visibilityShown
<1>13. CASE beforeUnload
    BY <1>13, <1>d DEF beforeUnload
<1>14. CASE Network
    BY <1>14 DEF Network, pollVars, sseVars
<1>15. CASE UNCHANGED vars
    BY <1>15 DEF vars, pollVars, sseVars
<1> QED BY <1>1, <1>2, <1>3, <1>4, <1>5, <1>6, <1>7, <1>8, <1>9, <1>10, <1>11, <1>12, <1>13, <1>14, <1>15
        DEF Next, Progress

\* Every step keeps one timer per poller and one reconnect timer.
LEMMA OneTimerStep == IInv /\ TypeOK' /\ [Next]_vars => OneTimerEach'
<1> SUFFICES ASSUME IInv, TypeOK', [Next]_vars PROVE OneTimerEach'
    OBVIOUS
<1> USE DEF IInv, TypeOK, OneTimerEach
<1>1. ASSUME NEW r \in {"login", "default", "ok"}, checkSessionAndPassword(r) PROVE OneTimerEach'
    BY <1>1 DEF checkSessionAndPassword, heartbeat, startStatus
<1>2. ASSUME NEW r \in {"changed", "default"}, changePasswordDone(r) PROVE OneTimerEach'
    BY <1>2 DEF changePasswordDone, pollVars, sseVars
<1>3. CASE passwordTimer
    BY <1>3 DEF passwordTimer, heartbeat, startStatus
<1>4. CASE sseOpens
    BY <1>4 DEF sseOpens, pollVars
<1>5. CASE sseMessage
    BY <1>5 DEF sseMessage, pollVars
<1>6. CASE sseError
    BY <1>6 DEF sseError, pollVars
<1>7. CASE reconnectTimer
    <2>1. rcHandle /\ rcTimers = 1 /\ ~(rcTimers > 1)
        BY <1>7 DEF reconnectTimer
    <2>2. ~rcHandle'
        BY <1>7, <2>1, Zenon DEF reconnectTimer
    <2> QED BY <1>7, <2>1, <2>2 DEF reconnectTimer
<1>8. ASSUME NEW c \in Channels, pollTimer(c) PROVE OneTimerEach'
    BY <1>8 DEF pollTimer, sseVars
<1>9. ASSUME NEW c \in Channels, fetchDone(c) PROVE OneTimerEach'
    <2>1. ASSUME NEW d \in Channels PROVE timers'[d] = IF handle'[d] THEN 1 ELSE 0
        <3>1. CASE d # c
            BY <1>9, <3>1 DEF fetchDone
        <3>2. CASE d = c
            <4>1. Cleared(c) = 0
                BY DEF Cleared
            <4>2. CASE Allowed(session) /\ ~hidden
                <5>1. handle'[c]
                    BY <1>9, <4>2 DEF fetchDone
                <5> QED BY <1>9, <3>2, <4>1, <4>2, <5>1 DEF fetchDone
            <4>3. CASE ~(Allowed(session) /\ ~hidden)
                <5>1. ~handle'[c]
                    BY <1>9, <4>3 DEF fetchDone
                <5> QED BY <1>9, <3>2, <4>1, <4>3, <5>1 DEF fetchDone
            <4> QED BY <4>2, <4>3
        <3> QED BY <3>1, <3>2
    <2> QED BY <1>9, <2>1 DEF fetchDone, sseVars
<1>10. CASE changePassword
    BY <1>10 DEF changePassword, cleanupHeartbeatResources, Cleared
<1>11. CASE visibilityHidden
    BY <1>11 DEF visibilityHidden, cleanupHeartbeatResources, Cleared
<1>12. CASE visibilityShown
    BY <1>12 DEF visibilityShown, heartbeat, startStatus
<1>13. CASE beforeUnload
    BY <1>13 DEF beforeUnload, cleanupHeartbeatResources, Cleared
<1>14. CASE Network
    BY <1>14 DEF Network, pollVars, sseVars
<1>15. CASE UNCHANGED vars
    BY <1>15 DEF vars, pollVars, sseVars
<1> QED BY <1>1, <1>2, <1>3, <1>4, <1>5, <1>6, <1>7, <1>8, <1>9, <1>10, <1>11, <1>12, <1>13, <1>14, <1>15
        DEF Next, Progress

\* Every step keeps a hidden tab quiet, and one whose password is not known.
LEMMA QuietStep == IInv /\ TypeOK' /\ [Next]_vars => (HiddenIsQuiet /\ DefaultPasswordIsQuiet)'
<1> SUFFICES ASSUME IInv, TypeOK', [Next]_vars PROVE (HiddenIsQuiet /\ DefaultPasswordIsQuiet)'
    OBVIOUS
<1> USE DEF IInv, TypeOK, HiddenIsQuiet, DefaultPasswordIsQuiet, Quiet, Allowed, OneTimerEach
<1>1. ASSUME NEW r \in {"login", "default", "ok"}, checkSessionAndPassword(r) PROVE (HiddenIsQuiet /\ DefaultPasswordIsQuiet)'
    BY <1>1 DEF checkSessionAndPassword, heartbeat, startStatus
<1>2. ASSUME NEW r \in {"changed", "default"}, changePasswordDone(r) PROVE (HiddenIsQuiet /\ DefaultPasswordIsQuiet)'
    BY <1>2 DEF changePasswordDone, pollVars, sseVars
<1>3. CASE passwordTimer
    BY <1>3 DEF passwordTimer, heartbeat, startStatus
<1>4. CASE sseOpens
    BY <1>4 DEF sseOpens, pollVars
<1>5. CASE sseMessage
    BY <1>5 DEF sseMessage, pollVars
<1>6. CASE sseError
    BY <1>6 DEF sseError, pollVars
<1>7. CASE reconnectTimer
    BY <1>7 DEF reconnectTimer, heartbeat, startStatus
<1>8. ASSUME NEW c \in Channels, pollTimer(c) PROVE (HiddenIsQuiet /\ DefaultPasswordIsQuiet)'
    BY <1>8 DEF pollTimer, sseVars
<1>9. ASSUME NEW c \in Channels, fetchDone(c) PROVE (HiddenIsQuiet /\ DefaultPasswordIsQuiet)'
    BY <1>9 DEF fetchDone, sseVars, Cleared
<1>10. CASE changePassword
    BY <1>10 DEF changePassword, cleanupHeartbeatResources, Cleared
<1>11. CASE visibilityHidden
    BY <1>11 DEF visibilityHidden, cleanupHeartbeatResources, Cleared
<1>12. CASE visibilityShown
    BY <1>12 DEF visibilityShown, heartbeat, startStatus
<1>13. CASE beforeUnload
    BY <1>13 DEF beforeUnload, cleanupHeartbeatResources, Cleared
<1>14. CASE Network
    BY <1>14 DEF Network, pollVars, sseVars
<1>15. CASE UNCHANGED vars
    BY <1>15 DEF vars, pollVars, sseVars
<1> QED BY <1>1, <1>2, <1>3, <1>4, <1>5, <1>6, <1>7, <1>8, <1>9, <1>10, <1>11, <1>12, <1>13, <1>14, <1>15
        DEF Next, Progress

\* heartbeat() sets a flag exactly where it starts a fetch.
LEMMA HeartbeatFlags ==
    ASSUME IInv, TypeOK', NEW open, heartbeat(open), hides' = hides PROVE FlagCounts'
<1> USE DEF IInv, TypeOK, FlagCounts
<1> SUFFICES ASSUME NEW c \in Channels
             PROVE  /\ inFlight'[c] => reqs'[c] > 0
                    /\ reqs'[c] <= hides' + IF inFlight'[c] THEN 1 ELSE 0
    OBVIOUS
<1>1. CASE open /\ startStatus(c)
    <2>1. ~inFlight[c] /\ inFlight'[c] /\ reqs'[c] = reqs[c] + 1
        BY <1>1 DEF heartbeat, startStatus
    <2> QED BY <2>1
<1>2. CASE ~(open /\ startStatus(c))
    <2>1. inFlight'[c] = inFlight[c] /\ reqs'[c] = reqs[c]
        BY <1>2 DEF heartbeat
    <2> QED BY <2>1
<1> QED BY <1>1, <1>2

\* Every step keeps the flags true to the fetches.
LEMMA FlagStep == IInv /\ TypeOK' /\ [Next]_vars => FlagCounts'
<1> SUFFICES ASSUME IInv, TypeOK', [Next]_vars PROVE FlagCounts'
    OBVIOUS
<1> USE DEF IInv, TypeOK, FlagCounts, DefaultPasswordIsQuiet, Allowed
<1>1. ASSUME NEW r \in {"login", "default", "ok"}, checkSessionAndPassword(r) PROVE FlagCounts'
    <2>1. heartbeat(r = "ok" /\ ~hidden) /\ hides' = hides
        BY <1>1 DEF checkSessionAndPassword
    <2> QED BY <2>1, HeartbeatFlags
<1>2. ASSUME NEW r \in {"changed", "default"}, changePasswordDone(r) PROVE FlagCounts'
    BY <1>2 DEF changePasswordDone, pollVars, sseVars
<1>3. CASE passwordTimer
    <2>1. heartbeat(sse = "none" /\ ~hidden) /\ hides' = hides
        BY <1>3 DEF passwordTimer
    <2> QED BY <2>1, HeartbeatFlags
<1>4. CASE sseOpens
    BY <1>4 DEF sseOpens, pollVars
<1>5. CASE sseMessage
    BY <1>5 DEF sseMessage, pollVars
<1>6. CASE sseError
    BY <1>6 DEF sseError, pollVars
<1>7. CASE reconnectTimer
    <2>1. heartbeat(Allowed(session) /\ ~hidden) /\ hides' = hides
        BY <1>7 DEF reconnectTimer
    <2> QED BY <2>1, HeartbeatFlags
<1>8. ASSUME NEW c \in Channels, pollTimer(c) PROVE FlagCounts'
    <2>1. ASSUME NEW d \in Channels
          PROVE  /\ inFlight'[d] => reqs'[d] > 0
                 /\ reqs'[d] <= hides' + IF inFlight'[d] THEN 1 ELSE 0
        <3>1. CASE d # c
            BY <1>8, <3>1 DEF pollTimer
        <3>2. CASE d = c /\ ~inFlight[c] /\ Allowed(session) /\ ~hidden
            <4>1. inFlight'[d] /\ reqs'[d] = reqs[d] + 1
                BY <1>8, <3>2 DEF pollTimer
            <4> QED BY <1>8, <3>2, <4>1 DEF pollTimer
        <3>3. CASE d = c /\ ~(~inFlight[c] /\ Allowed(session) /\ ~hidden)
            <4>1. inFlight'[d] = inFlight[d] /\ reqs'[d] = reqs[d]
                BY <1>8, <3>3 DEF pollTimer
            <4> QED BY <1>8, <4>1 DEF pollTimer
        <3> QED BY <3>1, <3>2, <3>3
    <2> QED BY <2>1
<1>9. ASSUME NEW c \in Channels, fetchDone(c) PROVE FlagCounts'
    BY <1>9 DEF fetchDone, sseVars, Cleared
<1>10. CASE changePassword
    BY <1>10 DEF changePassword, cleanupHeartbeatResources, Cleared
<1>11. CASE visibilityHidden
    BY <1>11 DEF visibilityHidden, cleanupHeartbeatResources, Cleared
<1>12. CASE visibilityShown
    <2>1. heartbeat(Allowed(session)) /\ hides' = hides
        BY <1>12 DEF visibilityShown
    <2> QED BY <2>1, HeartbeatFlags
<1>13. CASE beforeUnload
    BY <1>13 DEF beforeUnload, cleanupHeartbeatResources, Cleared
<1>14. CASE Network
    BY <1>14 DEF Network, pollVars, sseVars
<1>15. CASE UNCHANGED vars
    BY <1>15 DEF vars, pollVars, sseVars
<1> QED BY <1>1, <1>2, <1>3, <1>4, <1>5, <1>6, <1>7, <1>8, <1>9, <1>10, <1>11, <1>12, <1>13, <1>14, <1>15
        DEF Next, Progress

\* Every step leaves each channel with something that runs it again.
LEMMA LiveStep == IInv /\ TypeOK' /\ [Next]_vars => (StartedTogether /\ NeverDeaf)'
<1> SUFFICES ASSUME IInv, TypeOK', [Next]_vars PROVE (StartedTogether /\ NeverDeaf)'
    OBVIOUS
<1> USE DEF IInv, TypeOK, StartedTogether, NeverDeaf, PollerLives, FlagCounts, OneTimerEach, Allowed, DefaultPasswordIsQuiet, Quiet
<1>1. ASSUME NEW r \in {"login", "default", "ok"}, checkSessionAndPassword(r) PROVE (StartedTogether /\ NeverDeaf)'
    BY <1>1 DEF checkSessionAndPassword, heartbeat, startStatus
<1>2. ASSUME NEW r \in {"changed", "default"}, changePasswordDone(r) PROVE (StartedTogether /\ NeverDeaf)'
    BY <1>2 DEF changePasswordDone, pollVars, sseVars
<1>3. CASE passwordTimer
    BY <1>3 DEF passwordTimer, heartbeat, startStatus
<1>4. CASE sseOpens
    BY <1>4 DEF sseOpens, pollVars
<1>5. CASE sseMessage
    BY <1>5 DEF sseMessage, pollVars
<1>6. CASE sseError
    BY <1>6 DEF sseError, pollVars
<1>7. CASE reconnectTimer
    BY <1>7 DEF reconnectTimer, heartbeat, startStatus
<1>8. ASSUME NEW c \in Channels, pollTimer(c) PROVE (StartedTogether /\ NeverDeaf)'
    BY <1>8 DEF pollTimer, sseVars
<1>9. ASSUME NEW c \in Channels, fetchDone(c) PROVE (StartedTogether /\ NeverDeaf)'
    BY <1>9 DEF fetchDone, sseVars, Cleared
<1>10. CASE changePassword
    BY <1>10 DEF changePassword, cleanupHeartbeatResources, Cleared
<1>11. CASE visibilityHidden
    BY <1>11 DEF visibilityHidden, cleanupHeartbeatResources, Cleared
<1>12. CASE visibilityShown
    BY <1>12 DEF visibilityShown, heartbeat, startStatus
<1>13. CASE beforeUnload
    BY <1>13 DEF beforeUnload, cleanupHeartbeatResources, Cleared
<1>14. CASE Network
    BY <1>14 DEF Network, pollVars, sseVars
<1>15. CASE UNCHANGED vars
    BY <1>15 DEF vars, pollVars, sseVars
<1> QED BY <1>1, <1>2, <1>3, <1>4, <1>5, <1>6, <1>7, <1>8, <1>9, <1>10, <1>11, <1>12, <1>13, <1>14, <1>15
        DEF Next, Progress

\* Every step keeps the back-off exact.
LEMMA BackoffStep == IInv /\ TypeOK' /\ [Next]_vars => BackoffExact'
<1> SUFFICES ASSUME IInv, TypeOK', [Next]_vars PROVE BackoffExact'
    OBVIOUS
<1> USE DEF IInv, TypeOK, BackoffExact, HeartBeatReconnectDelay, HeartBeatMaxReconnectDelay, Doubled
<1>1. ASSUME NEW r \in {"login", "default", "ok"}, checkSessionAndPassword(r) PROVE BackoffExact'
    BY <1>1 DEF checkSessionAndPassword, heartbeat, startStatus
<1>2. ASSUME NEW r \in {"changed", "default"}, changePasswordDone(r) PROVE BackoffExact'
    BY <1>2 DEF changePasswordDone, pollVars, sseVars
<1>3. CASE passwordTimer
    BY <1>3 DEF passwordTimer, heartbeat, startStatus
<1>4. CASE sseOpens
    BY <1>4 DEF sseOpens, pollVars
<1>5. CASE sseMessage
    BY <1>5 DEF sseMessage, pollVars
<1>6. CASE sseError
    <2>1. delay' = Doubled(delay) /\ fails' = IF fails < 6 THEN fails + 1 ELSE 6
        BY <1>6 DEF sseError
    <2>2. fails = 0 \/ fails = 1 \/ fails = 2 \/ fails = 3 \/ fails = 4 \/ fails = 5 \/ fails = 6
        OBVIOUS
    <2>3. CASE fails = 0  BY <2>1, <2>3
    <2>4. CASE fails = 1  BY <2>1, <2>4
    <2>5. CASE fails = 2  BY <2>1, <2>5
    <2>6. CASE fails = 3  BY <2>1, <2>6
    <2>7. CASE fails = 4  BY <2>1, <2>7
    <2>8. CASE fails \in {5, 6}  BY <2>1, <2>8
    <2> QED BY <2>2, <2>3, <2>4, <2>5, <2>6, <2>7, <2>8
<1>7. CASE reconnectTimer
    BY <1>7 DEF reconnectTimer, heartbeat, startStatus
<1>8. ASSUME NEW c \in Channels, pollTimer(c) PROVE BackoffExact'
    BY <1>8 DEF pollTimer, sseVars
<1>9. ASSUME NEW c \in Channels, fetchDone(c) PROVE BackoffExact'
    BY <1>9 DEF fetchDone, sseVars, Cleared
<1>10. CASE changePassword
    BY <1>10 DEF changePassword, cleanupHeartbeatResources, Cleared
<1>11. CASE visibilityHidden
    BY <1>11 DEF visibilityHidden, cleanupHeartbeatResources, Cleared
<1>12. CASE visibilityShown
    BY <1>12 DEF visibilityShown, heartbeat, startStatus
<1>13. CASE beforeUnload
    BY <1>13 DEF beforeUnload, cleanupHeartbeatResources, Cleared
<1>14. CASE Network
    BY <1>14 DEF Network, pollVars, sseVars
<1>15. CASE UNCHANGED vars
    BY <1>15 DEF vars, pollVars, sseVars
<1> QED BY <1>1, <1>2, <1>3, <1>4, <1>5, <1>6, <1>7, <1>8, <1>9, <1>10, <1>11, <1>12, <1>13, <1>14, <1>15
        DEF Next, Progress

\* All parts of the inductive invariant together.
LEMMA Inductive == Spec => []IInv
<1>1. IInv /\ [Next]_vars => IInv'
    BY TypeStep, OneTimerStep, QuietStep, FlagStep, LiveStep, BackoffStep DEF IInv
<1> QED BY InitIInv, <1>1, PTL DEF Spec

\* ChannelInv holds in every reachable state, for any pollers and any number of hides: no load
\* before the password is known, one timer each, no channel dead, no unexplained second fetch,
\* exact back-off (main.js, scheduleX, fetchX, heartbeat, cleanupHeartbeatResources).
THEOREM ChannelsSafe == Spec => []ChannelInv
<1>1. IInv => ChannelInv
    <2> SUFFICES ASSUME IInv PROVE OverlapOnlyByCleanup
        BY DEF IInv, ChannelInv
    <2>1. ASSUME NEW c \in Channels PROVE reqs[c] <= 1 + hides
        <3>1. reqs[c] \in Nat /\ hides \in Nat /\ reqs[c] <= hides + IF inFlight[c] THEN 1 ELSE 0
            BY StatusAssumption DEF IInv, TypeOK, FlagCounts
        <3> QED BY <3>1
    <2> QED BY <2>1 DEF OverlapOnlyByCleanup
<1> QED BY Inductive, <1>1, PTL
-----------------------------------------------------------------------------
IsOpen == Allowed(session) /\ ~hidden

\* A step that ends with the tab closed begins no request.
LEMMA ClosedDrains ==
    ASSUME IInv, [Next]_vars, ~IsOpen' PROVE \A c \in Channels : reqs'[c] <= reqs[c]
<1> USE DEF IInv, TypeOK, IsOpen, Allowed
<1>1. ASSUME NEW r \in {"login", "default", "ok"}, checkSessionAndPassword(r)
      PROVE  \A c \in Channels : reqs'[c] <= reqs[c]
    BY <1>1 DEF checkSessionAndPassword, heartbeat, startStatus
<1>2. ASSUME NEW r \in {"changed", "default"}, changePasswordDone(r)
      PROVE  \A c \in Channels : reqs'[c] <= reqs[c]
    BY <1>2 DEF changePasswordDone, pollVars, sseVars
<1>3. CASE passwordTimer
    BY <1>3 DEF passwordTimer, heartbeat, startStatus
<1>4. CASE sseOpens
    BY <1>4 DEF sseOpens, pollVars
<1>5. CASE sseMessage
    BY <1>5 DEF sseMessage, pollVars
<1>6. CASE sseError
    BY <1>6 DEF sseError, pollVars
<1>7. CASE reconnectTimer
    BY <1>7 DEF reconnectTimer, heartbeat, startStatus
<1>8. ASSUME NEW c \in Channels, pollTimer(c)
      PROVE  \A d \in Channels : reqs'[d] <= reqs[d]
    BY <1>8 DEF pollTimer, sseVars
<1>9. ASSUME NEW c \in Channels, fetchDone(c)
      PROVE  \A d \in Channels : reqs'[d] <= reqs[d]
    BY <1>9 DEF fetchDone, sseVars, Cleared
<1>10. CASE changePassword
    BY <1>10 DEF changePassword, cleanupHeartbeatResources, Cleared
<1>11. CASE visibilityHidden
    BY <1>11 DEF visibilityHidden, cleanupHeartbeatResources, Cleared
<1>12. CASE visibilityShown
    BY <1>12 DEF visibilityShown, heartbeat, startStatus
<1>13. CASE beforeUnload
    BY <1>13 DEF beforeUnload, cleanupHeartbeatResources, Cleared
<1>14. CASE Network
    BY <1>14 DEF Network, pollVars, sseVars
<1>15. CASE UNCHANGED vars
    BY <1>15 DEF vars, pollVars, sseVars
<1> QED BY <1>1, <1>2, <1>3, <1>4, <1>5, <1>6, <1>7, <1>8, <1>9, <1>10, <1>11, <1>12, <1>13, <1>14, <1>15
        DEF Next, Progress

\* A closed tab has nothing armed, before a step or after it.
LEMMA ClosedUnarmed == (IInv /\ ~IsOpen => Armed = {}) /\ (IInv' /\ ~IsOpen' => Armed' = {})
<1>1. IInv /\ ~IsOpen => Armed = {}
    BY DEF IInv, TypeOK, IsOpen, Armed, HiddenIsQuiet, DefaultPasswordIsQuiet, Quiet
<1>2. IInv' /\ ~IsOpen' => Armed' = {}
    BY DEF IInv, TypeOK, IsOpen, Armed, HiddenIsQuiet, DefaultPasswordIsQuiet, Quiet
<1> QED BY <1>1, <1>2

\* The channels implement StatusGate: only a visible tab past the password check is armed or
\* begins requests, and closing it disarms everything in the same step.
THEOREM GateRefined == Spec => GateImplemented
<1>1. Init => Gate!Init
    <2> SUFFICES ASSUME Init PROVE Gate!Init
        OBVIOUS
    <2>1. (Allowed(session) /\ ~hidden) = FALSE
        BY DEF Init, Allowed
    <2>2. Armed = {}
        BY DEF Init, Armed
    <2> QED BY <2>1, <2>2 DEF Init, Gate!Init
<1>2. IInv /\ IInv' /\ [Next]_vars => [Gate!Next]_Gate!gvars
    <2> SUFFICES ASSUME IInv, IInv', [Next]_vars PROVE Gate!Next
        OBVIOUS
    <2>1. Armed' \in SUBSET (Channels \cup {"sse"}) /\ reqs' \in [Channels -> Nat]
        BY DEF IInv, TypeOK, Armed
    <2>2. CASE IsOpen /\ IsOpen'
        <3>1. Gate!Work
            BY <2>1, <2>2 DEF Gate!Work, IsOpen
        <3> QED BY <3>1 DEF Gate!Next
    <2>3. CASE ~IsOpen /\ IsOpen'
        <3>1. Gate!Open
            BY <2>1, <2>3 DEF Gate!Open, IsOpen
        <3> QED BY <3>1 DEF Gate!Next
    <2>4. CASE IsOpen /\ ~IsOpen'
        <3>1. Armed' = {}
            BY <2>4, ClosedUnarmed
        <3>2. Gate!Close
            BY <2>1, <2>4, <3>1, ClosedDrains DEF Gate!Close, IsOpen
        <3> QED BY <3>2 DEF Gate!Next
    <2>5. CASE ~IsOpen /\ ~IsOpen'
        <3>1. Armed' = {} /\ Armed = {}
            BY <2>5, ClosedUnarmed
        <3>2. Gate!Drain
            BY <2>1, <2>5, <3>1, ClosedDrains DEF Gate!Drain, IsOpen
        <3> QED BY <3>2 DEF Gate!Next
    <2> QED BY <2>2, <2>3, <2>4, <2>5
<1> QED BY Inductive, <1>1, <1>2, PTL DEF Spec, GateImplemented, Gate!Spec
-----------------------------------------------------------------------------
\* Each step of the composition is a step of one part or leaves that part alone.
LEMMA PartsStep == [MCNext]_mvars => [BNext]_bvars /\ [PpNext]_pvars /\ [TlNext]_tlvars
BY DEF MCNext, mvars, StatusStep, BarStep, PrivacyStep, TimelapseStep, bvars, pvars, tlvars

LEMMA PartsInit == MCInit => BInit /\ PpInit /\ TlInit
BY DEF MCInit

-----------------------------------------------------------------------------
\* The toggles: the types and PendingHasPost are inductive once the snapshots have a domain.
BarIInv == BTypeOK /\ PendingHasPost /\ DOMAIN snaps = Sources

\* The reducer, fed with any part of the camera's state, keeps the types and only releases.
LEMMA ReducerKeeps ==
    ASSUME BTypeOK, NEW json, NEW lit, updateHeartbeatUi(json, lit),
           DOMAIN json \subseteq Buttons, \A b \in DOMAIN json : json[b] \in BOOLEAN,
           lit \in [Buttons -> BOOLEAN]
    PROVE  /\ active' \in [Buttons -> BOOLEAN] /\ pending' \in [Buttons -> BOOLEAN]
           /\ \A b \in Buttons : pending'[b] => pending[b] /\ b \notin DOMAIN json
<1>1. active' \in [Buttons -> BOOLEAN]
    <2>1. \A b \in Buttons : (IF b \in DOMAIN json THEN json[b] /\ lit[b] ELSE b \in Toggles /\ active[b]) \in BOOLEAN
        BY Zenon
    <2> QED BY <2>1 DEF updateHeartbeatUi
<1>2. \A b \in Buttons : (b \in Toggles \ DOMAIN json /\ pending[b]) \in BOOLEAN
    BY Zenon
<1>3. pending' = [b \in Buttons |-> b \in Toggles \ DOMAIN json /\ pending[b]]
    BY DEF updateHeartbeatUi
<1> QED BY <1>1, <1>2, <1>3

LEMMA BarInit == BInit => BarIInv
<1> SUFFICES ASSUME BInit PROVE BarIInv
    OBVIOUS
<1>1. \A s \in Sources : Cardinality(snaps[s]) <= 1 /\ snaps[s] = {}
    BY FS_EmptySet DEF BInit
<1> QED BY <1>1, ButtonsAssumption DEF BInit, BarIInv, BTypeOK, PendingHasPost, Buttons

\* An answer that takes a post off the list and releases its button, and no other toggle, keeps PendingHasPost.
LEMMA ReleaseKeeps ==
    ASSUME BarIInv, NEW p \in posts, posts' = posts \ {p}, UNCHANGED <<kind, dev, snaps, clicks, changes>>,
           active' \in [Buttons -> BOOLEAN], pending' \in [Buttons -> BOOLEAN],
           \A b \in Toggles : pending'[b] => pending[b] /\ b # p.b
    PROVE  BarIInv'
BY DEF BarIInv, BTypeOK, PendingHasPost

LEMMA ShowsKeeps ==
    ASSUME BarIInv, NEW p \in posts, NEW v \in BOOLEAN, Shows(p, v),
           posts' = posts \ {p}, UNCHANGED <<kind, dev, snaps, clicks, changes>>
    PROVE  BarIInv'
<1> DEFINE json == [x \in {p.b} |-> v]
<1>1. p.b \in Buttons /\ Plain \in [Buttons -> BOOLEAN]
    BY DEF BarIInv, BTypeOK, Post, Plain
<1>2. DOMAIN json = {p.b} /\ \A b \in DOMAIN json : json[b] \in BOOLEAN
    OBVIOUS
<1>3. updateHeartbeatUi(json, Plain)
    BY DEF Shows
<1>4. BTypeOK
    BY DEF BarIInv
<1> HIDE DEF json
<1>5. /\ active' \in [Buttons -> BOOLEAN] /\ pending' \in [Buttons -> BOOLEAN]
      /\ \A b \in Buttons : pending'[b] => pending[b] /\ b \notin DOMAIN json
    BY <1>1, <1>2, <1>3, <1>4, ReducerKeeps
<1>6. \A b \in Toggles : pending'[b] => pending[b] /\ b # p.b
    BY <1>2, <1>5 DEF Buttons
<1> QED BY <1>5, <1>6, ReleaseKeeps

LEMMA ReleasedKeeps ==
    ASSUME BarIInv, NEW p \in posts, Released(p),
           posts' = posts \ {p}, UNCHANGED <<kind, dev, snaps, clicks, changes>>
    PROVE  BarIInv'
<1>1. active' \in [Buttons -> BOOLEAN] /\ pending' \in [Buttons -> BOOLEAN]
    BY DEF Released, BarIInv, BTypeOK
<1>2. \A b \in Toggles : pending'[b] => pending[b] /\ b # p.b
    BY DEF Released, BarIInv, BTypeOK, Buttons
<1> QED BY <1>1, <1>2, ReleaseKeeps

\* The bar's invariant is inductive.
LEMMA BarStepKeeps == BarIInv /\ [BNext]_bvars => BarIInv'
<1> SUFFICES ASSUME BarIInv, [BNext]_bvars PROVE BarIInv'
    OBVIOUS
<1> USE ButtonsAssumption
<1>0. \A p \in posts : /\ p.b \in Buttons /\ p.val \in BOOLEAN /\ p.back \in BOOLEAN
                       /\ (~p.val) \in BOOLEAN /\ (~p.back) \in BOOLEAN
    <2>1. \A p \in posts : p.b \in Buttons /\ p.val \in BOOLEAN /\ p.back \in BOOLEAN
        BY DEF BarIInv, BTypeOK, Post
    <2> QED BY <2>1, Zenon
<1>1. ASSUME NEW b \in Buttons, toggle(b) PROVE BarIInv'
    <2>1. (~active[b]) \in BOOLEAN
        BY Zenon
    <2> DEFINE new == [id |-> clicks + 1, b |-> b, val |-> ~active[b], st |-> "sent", back |-> FALSE]
    <2>2. new \in Post /\ new.b = b /\ posts' = posts \cup {new}
        BY <1>1, <2>1 DEF toggle, Post, BarIInv, BTypeOK
    <2> HIDE DEF new
    <2>3. pending' = [pending EXCEPT ![b] = TRUE] /\ UNCHANGED <<kind, dev, active, snaps, changes>>
          /\ clicks' \in 0..MaxClicks
        BY <1>1 DEF toggle, BarIInv, BTypeOK
    <2>4. BTypeOK' /\ DOMAIN snaps' = Sources
        BY <2>2, <2>3 DEF BarIInv, BTypeOK
    <2>5. PendingHasPost'
        BY <2>2, <2>3 DEF BarIInv, BTypeOK, PendingHasPost, Buttons
    <2> QED BY <2>4, <2>5 DEF BarIInv
<1>2. ASSUME NEW b \in Buttons, DeviceChanges(b) PROVE BarIInv'
    <2>1. (~dev[b]) \in BOOLEAN
        BY Zenon
    <2> QED BY <1>2, <2>1 DEF DeviceChanges, BarIInv, BTypeOK, PendingHasPost
<1>3. ASSUME NEW p \in posts, PostServed(p) PROVE BarIInv'
    <2>1. PICK applied \in BOOLEAN, st \in {"served", "failed"} :
              LET now == IF applied THEN p.val ELSE dev[p.b]
              IN  /\ dev' = [dev EXCEPT ![p.b] = now]
                  /\ posts' = (posts \ {p}) \cup {[p EXCEPT !.st = st, !.back = st = "served" /\ now]}
        BY <1>3 DEF PostServed
    <2> DEFINE now == IF applied THEN p.val ELSE dev[p.b]
    <2>2. now \in BOOLEAN /\ (st = "served" /\ now) \in BOOLEAN
        <3>1. now \in BOOLEAN
            BY <1>0 DEF BarIInv, BTypeOK
        <3> QED BY <3>1, Zenon
    <2>3. dev' = [dev EXCEPT ![p.b] = now] /\ posts' = (posts \ {p}) \cup {[p EXCEPT !.st = st, !.back = st = "served" /\ now]}
        BY <2>1
    <2> HIDE DEF now
    <2>4. [p EXCEPT !.st = st, !.back = st = "served" /\ now] \in Post /\ [p EXCEPT !.st = st, !.back = st = "served" /\ now].b = p.b
        <3> DEFINE back == st = "served" /\ now
        <3>1. back \in BOOLEAN
            BY <2>2
        <3> HIDE DEF back
        <3>2. p \in Post
            BY DEF BarIInv, BTypeOK
        <3>3. [p EXCEPT !.st = st, !.back = back] \in Post /\ [p EXCEPT !.st = st, !.back = back].b = p.b
            BY <3>1, <3>2 DEF Post
        <3> QED BY <3>3 DEF back
    <2>5. BTypeOK' /\ DOMAIN snaps' = Sources
        BY <1>3, <2>2, <2>3, <2>4 DEF PostServed, BarIInv, BTypeOK
    <2>6. PendingHasPost'
        BY <1>3, <2>3, <2>4 DEF PostServed, BarIInv, PendingHasPost
    <2> QED BY <2>5, <2>6 DEF BarIInv
<1>4. ASSUME NEW p \in posts, recordingAnswer(p) PROVE BarIInv'
    <2>1. p.b \in Recorders /\ posts' = posts \ {p} /\ UNCHANGED <<kind, dev, snaps, clicks, changes>>
        BY <1>4 DEF recordingAnswer
    <2>2. active' \in [Buttons -> BOOLEAN]
        BY <1>0, <1>4 DEF recordingAnswer, BarIInv, BTypeOK
    <2>3. \A b \in Buttons : (b \in Toggles /\ pending[b]) \in BOOLEAN
        BY Zenon
    <2>4. pending' \in [Buttons -> BOOLEAN]
        BY <1>4, <2>3 DEF recordingAnswer, BarIInv, BTypeOK
    <2>5. \A b \in Toggles : pending'[b] => pending[b] /\ b # p.b
        BY <1>4, <2>1 DEF recordingAnswer, BarIInv, BTypeOK, Buttons
    <2> QED BY <2>1, <2>2, <2>4, <2>5, ReleaseKeeps
<1>5. ASSUME NEW p \in posts, toggleMotion(p) PROVE BarIInv'
    BY <1>0, <1>5, ShowsKeeps, ReleasedKeeps DEF toggleMotion, Answered
<1>6. ASSUME NEW p \in posts, toggleWireGuard(p) PROVE BarIInv'
    BY <1>0, <1>6, ShowsKeeps, ReleasedKeeps DEF toggleWireGuard, Answered
<1>7. ASSUME NEW p \in posts, toggleDayNight(p) PROVE BarIInv'
    BY <1>0, <1>7, ShowsKeeps, ReleasedKeeps DEF toggleDayNight, Answered
<1>8. ASSUME NEW p \in posts, toggleAudio(p) PROVE BarIInv'
    <2>1. \A muted \in {~p.back, ~p.val} : (~muted) \in BOOLEAN
        BY Zenon
    <2>2. p.st = "failed" => Released(p)
        BY <1>8 DEF toggleAudio
    <2>3. p.st # "failed" => \E muted \in {~p.back, ~p.val} : Shows(p, ~muted)
        BY <1>8 DEF toggleAudio
    <2>4. p.st # "failed" => \E v \in BOOLEAN : Shows(p, v)
        BY <2>1, <2>3, Zenon
    <2> QED BY <1>8, <2>2, <2>4, ShowsKeeps, ReleasedKeeps DEF toggleAudio, Answered
<1>9. ASSUME NEW p \in posts, toggleButton(p) PROVE BarIInv'
    BY <1>0, <1>9, ShowsKeeps, ReleasedKeeps DEF toggleButton, Answered
<1>10. ASSUME NEW s \in Sources, SnapTaken(s) PROVE BarIInv'
    <2>1. [b \in Carries[s] |-> dev[b]] \in [Carries[s] -> BOOLEAN]
        BY DEF BarIInv, BTypeOK
    <2>2. Cardinality({[b \in Carries[s] |-> dev[b]]}) = 1
        BY FS_Singleton
    <2>3. \A r \in Sources : snaps'[r] \subseteq [Carries[r] -> BOOLEAN] /\ Cardinality(snaps'[r]) <= 1
        <3> SUFFICES ASSUME NEW r \in Sources PROVE snaps'[r] \subseteq [Carries[r] -> BOOLEAN] /\ Cardinality(snaps'[r]) <= 1
            OBVIOUS
        <3>1. CASE r = s
            BY <1>10, <2>1, <2>2, <3>1 DEF SnapTaken, BarIInv
        <3>2. CASE r # s
            <4>1. snaps'[r] = snaps[r]
                BY <1>10, <3>2 DEF SnapTaken, BarIInv
            <4> QED BY <4>1 DEF BarIInv, BTypeOK
        <3> QED BY <3>1, <3>2
    <2> QED BY <1>10, <2>3 DEF SnapTaken, BarIInv, BTypeOK, PendingHasPost
<1>11. ASSUME NEW s \in Sources, SnapApplied(s) PROVE BarIInv'
    <2>1. PICK json \in snaps[s] : updateHeartbeatUi(json, FromPoller)
        BY <1>11 DEF SnapApplied
    <2>2. json \in [Carries[s] -> BOOLEAN] /\ Carries[s] \subseteq Buttons
        BY DEF BarIInv, BTypeOK
    <2>3. \A b \in Buttons : (b \notin Numeric) \in BOOLEAN
        BY Zenon
    <2>4. FromPoller \in [Buttons -> BOOLEAN]
        BY <2>3 DEF FromPoller
    <2>5. DOMAIN json \subseteq Buttons /\ \A b \in DOMAIN json : json[b] \in BOOLEAN
        BY <2>2
    <2>6. /\ active' \in [Buttons -> BOOLEAN] /\ pending' \in [Buttons -> BOOLEAN]
          /\ \A b \in Buttons : pending'[b] => pending[b] /\ b \notin DOMAIN json
        BY <2>1, <2>4, <2>5, ReducerKeeps DEF BarIInv
    <2> QED BY <1>11, <2>6, FS_EmptySet DEF SnapApplied, BarIInv, BTypeOK, PendingHasPost, Buttons
<1>12. CASE UNCHANGED bvars
    BY <1>12 DEF bvars, BarIInv, BTypeOK, PendingHasPost
<1> QED BY <1>1, <1>2, <1>3, <1>4, <1>5, <1>6, <1>7, <1>8, <1>9, <1>10, <1>11, <1>12 DEF BNext, Answer

-----------------------------------------------------------------------------
\* The privacy button before its first click, and after a first click whose request has not
\* failed, while polls are held back: its net cannot have fired yet, and a latch that is gone
\* went by a poll that found the lens where the click wanted it.
AtRest == ppClicks = 0 => /\ want = file /\ calls = {} /\ nets = {} /\ desired = {}
                          /\ \A v \in poll : v = file

Latched == \A v \in desired : v = ppActive
Arrived == desired = {} => file = ppActive /\ \A v \in poll : v = ppActive
FirstClick == ppClicks = 1 /\ ~lost /\ age <= Hold =>
    /\ \A t \in nets : t.left + age = Net
    /\ \A c \in calls : c.state = ppActive
    /\ file = ppActive => want = ppActive
    /\ \A v \in poll : v = ppActive => file = ppActive
    /\ Latched /\ Arrived

ButtonIInv == PpTypeOK /\ PendingIsLatched /\ AtRest /\ FirstClick

LEMMA ButtonInit == PpInit => ButtonIInv
<1> SUFFICES ASSUME PpInit PROVE ButtonIInv
    OBVIOUS
<1>1. Cardinality({}) = 0
    BY FS_EmptySet
<1>a. /\ want \in BOOLEAN /\ ppActive \in BOOLEAN /\ ppPending \in BOOLEAN /\ lost \in BOOLEAN
      /\ desired \subseteq BOOLEAN /\ poll \subseteq BOOLEAN
    BY Zenon DEF PpInit
<1>2. PpTypeOK
    BY <1>1, <1>a, PpAssumption DEF PpInit, PpTypeOK
<1>3. PendingIsLatched /\ AtRest /\ FirstClick
    BY DEF PpInit, PendingIsLatched, AtRest, FirstClick
<1> QED BY <1>2, <1>3 DEF ButtonIInv

\* A latch or a poll is a set of at most one state.
LEMMA OneState ==
    /\ Cardinality({}) <= 1 /\ {} \subseteq BOOLEAN
    /\ \A v : Cardinality({v}) <= 1
    /\ \A v \in BOOLEAN : {v} \subseteq BOOLEAN /\ (~v) \in BOOLEAN
<1>1. Cardinality({}) = 0 /\ \A v : Cardinality({v}) = 1
    BY FS_EmptySet, FS_Singleton
<1>2. Cardinality({}) <= 1 /\ \A v : Cardinality({v}) <= 1
    <2>1. 0 <= 1 /\ 1 <= 1
        OBVIOUS
    <2> QED BY <1>1, <2>1, Zenon
<1>3. {} \subseteq BOOLEAN /\ \A v \in BOOLEAN : {v} \subseteq BOOLEAN /\ (~v) \in BOOLEAN
    BY Zenon
<1> QED BY <1>2, <1>3

\* Every step of the privacy button keeps the types.
LEMMA ButtonType == PpTypeOK /\ [PpNext]_pvars => PpTypeOK'
<1> SUFFICES ASSUME PpTypeOK, [PpNext]_pvars PROVE PpTypeOK'
    OBVIOUS
<1> USE PpAssumption
<1>1. CASE togglePhysicalPrivacy
    <2> DEFINE v == ~ppActive
    <2>1. v \in BOOLEAN /\ {v} \subseteq BOOLEAN /\ Cardinality({v}) <= 1
        BY OneState DEF PpTypeOK
    <2>2. /\ ppClicks < MaxPpClicks /\ ppClicks' = ppClicks + 1
          /\ desired' = {v} /\ age' = 0 /\ ppPending' = TRUE /\ ppActive' = v
          /\ nets' = nets \cup {[state |-> v, left |-> Net]}
          /\ calls' = calls \cup {[id |-> ppClicks + 1, state |-> v]}
          /\ UNCHANGED <<file, want, poll, lost>>
        BY <1>1 DEF togglePhysicalPrivacy
    <2> HIDE DEF v
    <2>3. nets' \subseteq [state : BOOLEAN, left : 0..Net] /\ calls' \subseteq [id : 1..MaxPpClicks, state : BOOLEAN]
        BY <2>1, <2>2 DEF PpTypeOK
    <2>4. desired' \subseteq BOOLEAN /\ Cardinality(desired') <= 1 /\ ppActive' \in BOOLEAN /\ ppPending' \in BOOLEAN
        BY <2>1, <2>2, Zenon
    <2> QED BY <2>2, <2>3, <2>4 DEF PpTypeOK
<1>2. CASE LensMoves
    BY <1>2 DEF LensMoves, PpTypeOK
<1>3. CASE PollTaken
    <2>1. poll' \subseteq BOOLEAN /\ Cardinality(poll') <= 1
        BY <1>3, OneState, Zenon DEF PollTaken, PpTypeOK
    <2> QED BY <1>3, <2>1 DEF PollTaken, PpTypeOK
<1>4. CASE ppReducer
    <2>1. /\ desired' \subseteq BOOLEAN /\ Cardinality(desired') <= 1 /\ ppActive' \in BOOLEAN /\ ppPending' \in BOOLEAN
          /\ poll' \subseteq BOOLEAN /\ Cardinality(poll') <= 1
        <3>1. PICK v \in poll : IF ppApply(v) THEN desired' = {} /\ ppPending' = FALSE /\ ppActive' = v
                                     ELSE UNCHANGED <<desired, ppPending, ppActive>>
            BY <1>4 DEF ppReducer
        <3>2. CASE ppApply(v)
            BY <1>4, <3>1, <3>2, OneState, Zenon DEF PpTypeOK, ppReducer
        <3>3. CASE ~ppApply(v)
            BY <1>4, <3>1, <3>3, OneState, Zenon DEF PpTypeOK, ppReducer
        <3> QED BY <3>2, <3>3
    <2> QED BY <1>4, <2>1 DEF ppReducer, PpTypeOK
<1>5. CASE Tick
    <2>1. nets' \subseteq [state : BOOLEAN, left : 0..Net]
        BY <1>5 DEF Tick, PpTypeOK
    <2> QED BY <1>5, <2>1 DEF Tick, PpTypeOK
<1>6. ASSUME NEW c \in calls, callServed(c) PROVE PpTypeOK'
    BY <1>6 DEF callServed, PpTypeOK
<1>7. ASSUME NEW c \in calls, callFails(c) PROVE PpTypeOK'
    <2>1. desired' \subseteq BOOLEAN /\ Cardinality(desired') <= 1 /\ ppPending' \in BOOLEAN /\ lost' \in BOOLEAN
        BY <1>7, OneState, Zenon DEF callFails
    <2> QED BY <1>7, <2>1 DEF callFails, PpTypeOK
<1>8. ASSUME NEW t \in nets, netFires(t) PROVE PpTypeOK'
    <2>1. desired' \subseteq BOOLEAN /\ Cardinality(desired') <= 1 /\ ppPending' \in BOOLEAN
        <3>1. CASE desired = {t.state}
            BY <1>8, <3>1, OneState, Zenon DEF netFires
        <3>2. CASE desired # {t.state}
            BY <1>8, <3>2, Zenon DEF netFires, PpTypeOK
        <3> QED BY <3>1, <3>2
    <2> QED BY <1>8, <2>1 DEF netFires, PpTypeOK
<1>9. CASE UNCHANGED pvars
    BY <1>9 DEF pvars, PpTypeOK
<1> QED BY <1>1, <1>2, <1>3, <1>4, <1>5, <1>6, <1>7, <1>8, <1>9 DEF PpNext

\* Whatever takes the latch away releases the button.
LEMMA LatchStep == PendingIsLatched /\ [PpNext]_pvars => PendingIsLatched'
<1> SUFFICES ASSUME PendingIsLatched, [PpNext]_pvars PROVE PendingIsLatched'
    OBVIOUS
<1> USE DEF PendingIsLatched
<1>1. CASE togglePhysicalPrivacy
    BY <1>1, Zenon DEF togglePhysicalPrivacy
<1>2. CASE LensMoves \/ PollTaken \/ Tick
    BY <1>2, Zenon DEF LensMoves, PollTaken, Tick
<1>3. CASE ppReducer
    BY <1>3, Zenon DEF ppReducer
<1>4. ASSUME NEW c \in calls, callServed(c) \/ callFails(c) PROVE PendingIsLatched'
    BY <1>4, Zenon DEF callServed, callFails
<1>5. ASSUME NEW t \in nets, netFires(t) PROVE PendingIsLatched'
    BY <1>5, Zenon DEF netFires
<1>6. CASE UNCHANGED pvars
    BY <1>6 DEF pvars
<1> QED BY <1>1, <1>2, <1>3, <1>4, <1>5, <1>6 DEF PpNext

\* Until the first click the button's state is the file's and nothing is under way.
LEMMA RestStep == PpTypeOK /\ AtRest /\ [PpNext]_pvars => AtRest'
<1> SUFFICES ASSUME PpTypeOK, AtRest, [PpNext]_pvars, ppClicks' = 0 PROVE AtRest'
    BY DEF AtRest
<1>0. ppClicks = 0
    BY DEF PpNext, PpTypeOK, togglePhysicalPrivacy, LensMoves, PollTaken, ppReducer, Tick, callServed, callFails, netFires, pvars
<1>1. /\ want = file /\ calls = {} /\ nets = {} /\ desired = {}
      /\ \A v \in poll : v = file
    BY <1>0 DEF AtRest
<1>2. CASE togglePhysicalPrivacy
    BY <1>0, <1>2 DEF togglePhysicalPrivacy
<1>3. CASE LensMoves \/ Tick
    BY <1>1, <1>3, Zenon DEF LensMoves, Tick
<1>4. CASE PollTaken
    BY <1>1, <1>4, Zenon DEF PollTaken, AtRest
<1>5. CASE ppReducer
    BY <1>1, <1>5, Zenon DEF ppReducer, AtRest
<1>6. CASE UNCHANGED pvars
    BY <1>6 DEF pvars, AtRest
<1> QED BY <1>1, <1>2, <1>3, <1>4, <1>5, <1>6 DEF PpNext

\* While the first click's polls are held back, no net fires and no poll changes what is shown.
LEMMA HeldStep ==
    ASSUME ButtonIInv, PpNext, ppClicks = 1, ppClicks' = 1, ~lost, age <= Hold
    PROVE  /\ ppActive' = ppActive
           /\ \A t \in nets : ~netFires(t)
<1> USE PpAssumption DEF ButtonIInv
<1>0. /\ \A t \in nets : t.left + age = Net
      /\ \A v \in poll : v = ppActive => file = ppActive
      /\ Latched /\ Arrived
    BY DEF FirstClick
<1>1. \A t \in nets : ~netFires(t)
    BY <1>0 DEF netFires, PpTypeOK
<1>2. CASE togglePhysicalPrivacy
    BY <1>1, <1>2 DEF togglePhysicalPrivacy
<1>3. CASE LensMoves \/ PollTaken \/ Tick
    BY <1>1, <1>3, Zenon DEF LensMoves, PollTaken, Tick
<1>4. CASE ppReducer
    <2>1. PICK v \in poll : IF ppApply(v) THEN desired' = {} /\ ppPending' = FALSE /\ ppActive' = v
                                     ELSE UNCHANGED <<desired, ppPending, ppActive>>
        BY <1>4 DEF ppReducer
    <2>2. ~(age > Hold)
        BY DEF PpTypeOK
    <2>3. ppApply(v) => v = ppActive
        BY <1>0, <2>2, Zenon DEF ppApply, Latched, Arrived
    <2> QED BY <1>1, <2>1, <2>3, Zenon
<1>5. ASSUME NEW c \in calls, callServed(c) \/ callFails(c) PROVE ppActive' = ppActive
    BY <1>5, Zenon DEF callServed, callFails
<1> QED BY <1>1, <1>2, <1>3, <1>4, <1>5, Zenon DEF PpNext

\* Every step keeps what is known of the first click.
LEMMA FirstStep == ButtonIInv /\ [PpNext]_pvars => FirstClick'
<1> SUFFICES ASSUME ButtonIInv, [PpNext]_pvars, ppClicks' = 1, ~lost', age' <= Hold
             PROVE  FirstClick'
    BY DEF FirstClick
<1> USE PpAssumption DEF ButtonIInv
<1>1. CASE UNCHANGED pvars
    BY <1>1 DEF pvars, FirstClick, Latched, Arrived
<1>2. CASE togglePhysicalPrivacy
    <2>1. ppClicks = 0
        BY <1>2 DEF togglePhysicalPrivacy, PpTypeOK
    <2>2. /\ want = file /\ calls = {} /\ nets = {} /\ desired = {}
          /\ \A v \in poll : v = file
        BY <2>1 DEF AtRest
    <2>3. desired' = {ppActive'} /\ age' = 0 /\ nets' = {[state |-> ppActive', left |-> Net]}
          /\ calls' = {[id |-> ppClicks + 1, state |-> ppActive']} /\ UNCHANGED <<file, want, poll>>
        BY <1>2, <2>2, Zenon DEF togglePhysicalPrivacy
    <2>4. \A t \in nets' : t.left + age' = Net
        BY <2>3
    <2>5. \A c \in calls' : c.state = ppActive'
        BY <2>3
    <2>6. /\ file' = ppActive' => want' = ppActive'
          /\ \A v \in poll' : v = ppActive' => file' = ppActive'
        BY <2>2, <2>3, Zenon
    <2>7. Latched' /\ Arrived'
        BY <2>3, Zenon DEF Latched, Arrived
    <2> QED BY <2>4, <2>5, <2>6, <2>7 DEF FirstClick
<1>3. CASE PpNext /\ ~togglePhysicalPrivacy
    <2>1. ppClicks = 1 /\ ~lost
        <3>1. ASSUME NEW c \in calls, callFails(c) PROVE FALSE
            BY <3>1, Zenon DEF callFails
        <3> QED BY <1>3, <3>1 DEF PpNext, LensMoves, PollTaken, ppReducer, Tick, callServed, netFires
    <2>2. age <= Hold
        BY <1>3 DEF PpTypeOK, PpNext, LensMoves, PollTaken, ppReducer, Tick, callServed, callFails, netFires
    <2>3. /\ \A t \in nets : t.left + age = Net
          /\ \A c \in calls : c.state = ppActive
          /\ file = ppActive => want = ppActive
          /\ \A v \in poll : v = ppActive => file = ppActive
          /\ Latched /\ Arrived
        BY <2>1, <2>2 DEF FirstClick
    <2>4. /\ ppActive' = ppActive
          /\ \A t \in nets : ~netFires(t)
        BY <1>3, <2>1, <2>2, HeldStep
    <2>5. \A t \in nets' : t.left + age' = Net
        <3>1. CASE Tick
            BY <2>2, <2>3, <3>1 DEF Tick, PpTypeOK
        <3>2. CASE UNCHANGED <<nets, age>>
            BY <2>3, <3>2
        <3> QED BY <1>3, <2>4, <3>1, <3>2 DEF PpNext, LensMoves, PollTaken, ppReducer, callServed, callFails
    <2>6. \A c \in calls' : c.state = ppActive'
        BY <1>3, <2>3, <2>4, Zenon DEF PpNext, LensMoves, PollTaken, ppReducer, Tick, callServed, callFails
    <2> DEFINE Rest == /\ file' = ppActive' => want' = ppActive'
                       /\ \A v \in poll' : v = ppActive' => file' = ppActive'
                       /\ Latched' /\ Arrived'
    <2>7. ASSUME LensMoves PROVE Rest
        BY <2>3, <2>4, <2>7, Zenon DEF LensMoves, Latched, Arrived
    <2>8. ASSUME PollTaken PROVE Rest
        BY <2>3, <2>4, <2>8, Zenon DEF PollTaken, Latched, Arrived
    <2>9. ASSUME ppReducer PROVE Rest
        <3>1. PICK v \in poll : IF ppApply(v) THEN desired' = {} /\ ppPending' = FALSE /\ ppActive' = v
                                         ELSE UNCHANGED <<desired, ppPending, ppActive>>
            BY <2>9 DEF ppReducer
        <3>2. poll' = {} /\ UNCHANGED <<file, want>>
            BY <2>9 DEF ppReducer
        <3>3. CASE ppApply(v)
            <4>1. desired' = {} /\ file = v /\ v = ppActive
                BY <2>3, <2>4, <3>1, <3>3
            <4> QED BY <2>3, <2>4, <3>2, <4>1, Zenon DEF Latched, Arrived
        <3>4. CASE ~ppApply(v)
            BY <2>3, <2>4, <3>1, <3>2, <3>4, Zenon DEF Latched, Arrived
        <3> QED BY <3>3, <3>4
    <2>10. ASSUME Tick PROVE Rest
        BY <2>3, <2>4, <2>10, Zenon DEF Tick, Latched, Arrived
    <2>11. ASSUME NEW c \in calls, callServed(c) PROVE Rest
        BY <2>3, <2>4, <2>11, Zenon DEF callServed, Latched, Arrived
    <2>12. ASSUME NEW c \in calls, callFails(c) PROVE Rest
        <3>1. lost'
            BY <2>12, Zenon DEF callFails
        <3> QED BY <3>1
    <2>13. Rest
        BY <1>3, <2>4, <2>7, <2>8, <2>9, <2>10, <2>11, <2>12, Zenon DEF PpNext
    <2> QED BY <2>5, <2>6, <2>13 DEF FirstClick
<1> QED BY <1>1, <1>2, <1>3

\* The button's invariant is inductive.
LEMMA ButtonStep == ButtonIInv /\ [PpNext]_pvars => ButtonIInv'
BY ButtonType, LatchStep, RestStep, FirstStep DEF ButtonIInv

\* However answers, snapshots, nets and polls are interleaved, a button spins only while
\* something will release it.
THEOREM BarSafe == MCSpec => []BarInv
<1>1. BarIInv /\ ButtonIInv => BarInv
    BY DEF BarIInv, ButtonIInv, BarInv
<1>2. MCInit => BarIInv /\ ButtonIInv
    BY PartsInit, BarInit, ButtonInit
<1>3. BarIInv /\ ButtonIInv /\ [MCNext]_mvars => (BarIInv /\ ButtonIInv)'
    BY PartsStep, BarStepKeeps, ButtonStep
<1> QED BY <1>1, <1>2, <1>3, PTL DEF MCSpec

\* The privacy button does not flicker back in the middle of its first move, whatever the
\* hold time is, as long as the net waits longer than the polls are held back.
THEOREM FlickerSafe == MCSpec => NoFlickerBack
<1>1. ButtonIInv /\ [MCNext]_mvars => ButtonIInv'
    BY PartsStep, ButtonStep
<1>2. ButtonIInv /\ [MCNext]_mvars
        => [ppClicks = 1 /\ ppClicks' = 1 /\ ~lost /\ age <= Hold /\ ppActive' # ppActive => ppActive' = want']_pvars
    BY PartsStep, HeldStep
<1>3. MCInit => ButtonIInv
    BY PartsInit, ButtonInit
<1> QED BY <1>1, <1>2, <1>3, PTL DEF MCSpec, NoFlickerBack

-----------------------------------------------------------------------------
\* Real settings: not the placeholder and, until another tab saves, the camera's own.
Real(s) == s # Defaults /\ (tlSaves = 0 => s = conf.settings)

\* All settings this tab has loaded, is being sent or is sending are real ones.
TlData == /\ conf.settings # Defaults
          /\ timelapseStateLoaded => Real(timelapseState.settings)
          /\ \A l \in loads : l.st # "sent" => Real(l.got.settings)
          /\ \A s \in saves : Real(s.new.settings)

TlIInv == TlTypeOK /\ TlData /\ TlPendingHasCause

Load == [by : 0..MaxTlClicks, st : {"sent", "served", "failed"}, got : Conf]
Save == [by : 1..MaxTlClicks, st : {"sent", "served", "failed"}, new : Conf]

LEMMA TimelapseInit == TlInit => TlIInv
<1> SUFFICES ASSUME TlInit PROVE TlIInv
    OBVIOUS
<1>1. Initial \in Conf
    BY TlAssumption DEF Initial, Conf
<1>2. /\ timelapseStateLoaded \in BOOLEAN /\ tlShown \in BOOLEAN /\ tlPending \in BOOLEAN /\ ~tlPending /\ ~timelapseStateLoaded
    BY Zenon DEF TlInit
<1>3. conf \in Conf /\ conf.settings # Defaults
    BY DEF TlInit, Conf
<1>4. TlTypeOK
    BY <1>1, <1>2, <1>3, TlAssumption DEF TlInit, TlTypeOK
<1>5. TlData /\ TlPendingHasCause
    BY <1>2, <1>3 DEF TlInit, TlData, TlPendingHasCause
<1> QED BY <1>4, <1>5 DEF TlIInv

\* Inverting "enabled" touches nothing else of a configuration.
LEMMA ToggleParams ==
    ASSUME NEW c \in Conf
    PROVE  buildTimelapseToggleParams(c) \in Conf /\ buildTimelapseToggleParams(c).settings = c.settings
<1>1. (~c.enabled) \in BOOLEAN
    BY Zenon
<1> QED BY <1>1 DEF buildTimelapseToggleParams, Conf

\* A click or a load posts what it knows, and nothing else changes in the posts.
LEMMA PostedReal ==
    ASSUME TlIInv, NEW by \in 1..MaxTlClicks, NEW c \in Conf, Real(c.settings)
    PROVE  /\ Posted(by, c) \subseteq Save
           /\ \A s \in Posted(by, c) : Real(s.new.settings)
           /\ Posted(by, c) # {}
<1> DEFINE new == [by |-> by, st |-> "sent", new |-> buildTimelapseToggleParams(c)]
<1>1. new \in Save /\ Real(new.new.settings)
    BY ToggleParams DEF Save
<1>2. Posted(by, c) = saves \cup {new}
    BY DEF Posted
<1> HIDE DEF new
<1> QED BY <1>1, <1>2 DEF TlIInv, TlData, TlTypeOK, Save

\* A configuration that is shown has its types.
LEMMA Applied ==
    ASSUME NEW c \in Conf, applyTimelapseState(c)
    PROVE  /\ timelapseState' = c /\ timelapseState' \in Conf
           /\ timelapseStateLoaded' \in BOOLEAN /\ tlShown' \in BOOLEAN /\ tlPending' \in BOOLEAN /\ ~tlPending'
<1>1. c.enabled \in BOOLEAN
    BY DEF Conf
<1> QED BY <1>1, Zenon DEF applyTimelapseState

\* The timelapse button's invariant is inductive.
LEMMA TimelapseKeeps == TlIInv /\ [TlNext]_tlvars => TlIInv'
<1> SUFFICES ASSUME TlIInv, [TlNext]_tlvars PROVE TlIInv'
    OBVIOUS
<1> USE TlAssumption
<1>0. /\ loads \subseteq Load /\ saves \subseteq Save /\ conf \in Conf /\ timelapseState \in Conf
      /\ tlClicks \in 0..MaxTlClicks /\ tlSaves \in 0..MaxTlSaves
      /\ timelapseState.enabled \in BOOLEAN
    BY DEF TlIInv, TlTypeOK, Load, Save, Conf
<1>1. CASE toggleTimelapse
    <2>1. tlPending' /\ tlPending' \in BOOLEAN
        BY <1>1, Zenon DEF toggleTimelapse
    <2>2. tlClicks + 1 \in 1..MaxTlClicks /\ tlClicks' = tlClicks + 1 /\ tlClicks' \in 0..MaxTlClicks
        BY <1>0, <1>1 DEF toggleTimelapse
    <2>3. UNCHANGED <<conf, timelapseState, timelapseStateLoaded, tlShown, tlSaves>>
        BY <1>1 DEF toggleTimelapse
    <2>4. CASE timelapseStateLoaded
        <3>1. saves' = Posted(tlClicks + 1, timelapseState) /\ loads' = loads
            BY <1>1, <2>4 DEF toggleTimelapse
        <3>2. Real(timelapseState.settings)
            BY <2>4 DEF TlIInv, TlData
        <3>3. saves' \subseteq Save /\ (\A s \in saves' : Real(s.new.settings)) /\ saves' # {}
            BY <1>0, <2>2, <3>1, <3>2, PostedReal
        <3> QED BY <2>1, <2>2, <2>3, <3>1, <3>3 DEF TlIInv, TlTypeOK, TlData, TlPendingHasCause, Real, Save
    <2>5. CASE ~timelapseStateLoaded
        <3> DEFINE new == [by |-> tlClicks + 1, st |-> "sent", got |-> Initial]
        <3>1. loads' = loads \cup {new} /\ saves' = saves
            BY <1>1, <2>5 DEF toggleTimelapse
        <3>2. new \in Load /\ new.st = "sent"
            BY <2>2 DEF Load, Initial, Conf
        <3> HIDE DEF new
        <3>3. loads' \subseteq Load /\ loads' # {}
            BY <1>0, <3>1, <3>2
        <3>4. TlData'
            BY <2>3, <3>1, <3>2 DEF TlIInv, TlData, Real
        <3> QED BY <2>1, <2>2, <2>3, <3>1, <3>3, <3>4 DEF TlIInv, TlTypeOK, TlPendingHasCause, Load
    <2> QED BY <2>4, <2>5
<1>2. ASSUME NEW l \in loads, LoadServed(l) PROVE TlIInv'
    <2>1. PICK st \in {"served", "failed"} : loads' = (loads \ {l}) \cup {[l EXCEPT !.st = st, !.got = conf]}
        BY <1>2 DEF LoadServed
    <2> DEFINE new == [l EXCEPT !.st = st, !.got = conf]
    <2>2. new \in Load /\ new.got = conf
        BY <1>0 DEF Load
    <2>3. loads' = (loads \ {l}) \cup {new}
        BY <2>1
    <2> HIDE DEF new
    <2>4. UNCHANGED <<conf, timelapseState, timelapseStateLoaded, tlShown, tlPending, saves, tlClicks, tlSaves>>
        BY <1>2 DEF LoadServed
    <2>5. loads' \subseteq Load /\ loads' # {}
        BY <1>0, <2>2, <2>3
    <2>6. TlData'
        BY <2>2, <2>3, <2>4 DEF TlIInv, TlData, Real
    <2> QED BY <2>4, <2>5, <2>6 DEF TlIInv, TlTypeOK, TlPendingHasCause, Load
<1>3. ASSUME NEW l \in loads, loadTimelapseState(l) PROVE TlIInv'
    <2>1. loads' \subseteq loads /\ UNCHANGED <<conf, tlClicks, tlSaves>>
        BY <1>3 DEF loadTimelapseState
    <2>2. l.got \in Conf /\ l.by \in 0..MaxTlClicks /\ Real(l.got.settings)
        BY <1>0, <1>3 DEF loadTimelapseState, TlIInv, TlData, Load
    <2>3. CASE l.st = "served"
        <3>1. applyTimelapseState(l.got) /\ saves' = IF l.by = 0 THEN saves ELSE Posted(l.by, l.got)
            BY <1>3, <2>3 DEF loadTimelapseState
        <3>2. /\ timelapseState' = l.got /\ timelapseState' \in Conf
              /\ timelapseStateLoaded' \in BOOLEAN /\ tlShown' \in BOOLEAN /\ tlPending' \in BOOLEAN /\ ~tlPending'
            BY <2>2, <3>1, Applied
        <3>3. saves' \subseteq Save /\ \A s \in saves' : Real(s.new.settings)
            <4>1. CASE l.by = 0
                BY <1>0, <3>1, <4>1 DEF TlIInv, TlData
            <4>2. CASE l.by # 0
                BY <2>2, <3>1, <4>2, PostedReal
            <4> QED BY <4>1, <4>2
        <3>4. TlData'
            BY <2>1, <2>2, <3>2, <3>3 DEF TlIInv, TlData, Real
        <3> QED BY <2>1, <3>2, <3>3, <3>4 DEF TlIInv, TlTypeOK, TlPendingHasCause, Save
    <2>4. CASE l.st # "served"
        <3>1. UNCHANGED <<timelapseState, timelapseStateLoaded, saves>>
            BY <1>3, <2>4 DEF loadTimelapseState
        <3>2. tlShown' \in BOOLEAN /\ tlPending' \in BOOLEAN /\ ~tlPending'
            BY <1>0, <1>3, <2>4, Zenon DEF loadTimelapseState
        <3>3. TlData'
            BY <2>1, <3>1 DEF TlIInv, TlData, Real
        <3> QED BY <2>1, <3>1, <3>2, <3>3 DEF TlIInv, TlTypeOK, TlPendingHasCause
    <2> QED BY <2>3, <2>4
<1>4. ASSUME NEW s \in saves, SaveServed(s) PROVE TlIInv'
    <2>1. PICK st \in {"served", "failed"} : saves' = (saves \ {s}) \cup {[s EXCEPT !.st = st]}
        BY <1>4 DEF SaveServed
    <2> DEFINE new == [s EXCEPT !.st = st]
    <2>2. new \in Save /\ new.new = s.new /\ s.new \in Conf /\ Real(s.new.settings)
        BY <1>0 DEF Save, TlIInv, TlData
    <2>3. saves' = (saves \ {s}) \cup {new}
        BY <2>1
    <2> HIDE DEF new
    <2>4. UNCHANGED <<timelapseState, timelapseStateLoaded, tlShown, tlPending, loads, tlClicks, tlSaves>>
        BY <1>4 DEF SaveServed
    <2>5. conf' \in Conf /\ conf'.settings # Defaults /\ (tlSaves = 0 => conf'.settings = conf.settings)
        BY <1>0, <1>4, <2>2 DEF SaveServed, TlIInv, TlData, Real
    <2>6. saves' \subseteq Save /\ saves' # {}
        BY <1>0, <2>2, <2>3
    <2>7. TlData'
        BY <2>2, <2>3, <2>4, <2>5 DEF TlIInv, TlData, Real
    <2> QED BY <2>4, <2>5, <2>6, <2>7 DEF TlIInv, TlTypeOK, TlPendingHasCause, Save
<1>5. ASSUME NEW s \in saves, saveAnswer(s) PROVE TlIInv'
    <2>1. saves' \subseteq saves /\ UNCHANGED <<conf, loads, tlClicks, tlSaves>>
        BY <1>5 DEF saveAnswer
    <2>2. s.new \in Conf /\ Real(s.new.settings)
        BY <1>0 DEF TlIInv, TlData, Save
    <2>3. CASE s.st = "served"
        <3>1. applyTimelapseState(s.new)
            BY <1>5, <2>3 DEF saveAnswer
        <3>2. /\ timelapseState' = s.new /\ timelapseState' \in Conf
              /\ timelapseStateLoaded' \in BOOLEAN /\ tlShown' \in BOOLEAN /\ tlPending' \in BOOLEAN /\ ~tlPending'
            BY <2>2, <3>1, Applied
        <3>3. TlData'
            BY <2>1, <2>2, <3>2 DEF TlIInv, TlData, Real
        <3> QED BY <2>1, <3>2, <3>3 DEF TlIInv, TlTypeOK, TlPendingHasCause
    <2>4. CASE s.st # "served"
        <3>1. UNCHANGED <<timelapseState, timelapseStateLoaded>>
            BY <1>5, <2>4 DEF saveAnswer
        <3>2. tlShown' \in BOOLEAN /\ tlPending' \in BOOLEAN /\ ~tlPending'
            BY <1>0, <1>5, <2>4, Zenon DEF saveAnswer
        <3>3. TlData'
            BY <2>1, <3>1 DEF TlIInv, TlData, Real
        <3> QED BY <2>1, <3>1, <3>2, <3>3 DEF TlIInv, TlTypeOK, TlPendingHasCause
    <2> QED BY <2>3, <2>4
<1>6. ASSUME NEW v \in Settings \ {Defaults}, OtherTabSaves(v) PROVE TlIInv'
    <2>1. UNCHANGED <<timelapseState, timelapseStateLoaded, tlShown, tlPending, loads, saves, tlClicks>>
        BY <1>6 DEF OtherTabSaves
    <2>2. tlSaves' \in 0..MaxTlSaves /\ tlSaves' # 0
        BY <1>0, <1>6 DEF OtherTabSaves
    <2>3. conf' \in Conf /\ conf'.settings # Defaults
        BY <1>0, <1>6 DEF OtherTabSaves, Conf
    <2>4. TlData'
        BY <2>1, <2>2, <2>3 DEF TlIInv, TlData, Real
    <2> QED BY <2>1, <2>2, <2>3, <2>4 DEF TlIInv, TlTypeOK, TlPendingHasCause
<1>7. CASE UNCHANGED tlvars
    BY <1>7 DEF tlvars, TlIInv, TlTypeOK, TlData, Real, TlPendingHasCause
<1> QED BY <1>1, <1>2, <1>3, <1>4, <1>5, <1>6, <1>7 DEF TlNext, TlProgress

\* However clicks, loads and answers overlap, no click writes placeholder settings over the
\* camera's, and the timelapse button spins only while a load or a save is under way.
THEOREM TimelapseSafe == MCSpec => []TimelapseInv
<1>1. TlIInv => TimelapseInv
    BY DEF TlIInv, TlData, Real, TimelapseInv, SettingsKept
<1>2. MCInit => TlIInv
    BY PartsInit, TimelapseInit
<1>3. TlIInv /\ [MCNext]_mvars => TlIInv'
    BY PartsStep, TimelapseKeeps
<1> QED BY <1>1, <1>2, <1>3, PTL DEF MCSpec
=============================================================================
