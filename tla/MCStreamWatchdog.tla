-------------------------- MODULE MCStreamWatchdog --------------------------
(***************************************************************************)
(* StreamWatchdog for TLC with a history variable: how long prudynt has    *)
(* been stuck in D state while a running watchdog was free to act.         *)
(***************************************************************************)
EXTENDS StreamWatchdog

VARIABLE stuck

mcVars == <<vars, stuck>>

\* Only a reboot cures this.
Wedged == \E p \in Pid : proc[p] = "dstate"
Acting == Wedged /\ ~disabled /\ wpc \notin {"off", "reboot"}

MCInit == WInit /\ stuck = 0
MCNext == /\ WNext
          /\ stuck' = IF ~(Acting /\ Acting') THEN 0 ELSE IF WTick THEN stuck + 1 ELSE stuck
MCSpec == MCInit /\ [][MCNext]_mcVars

\* The longest probe_serving, and the longest abort of S31prudynt restart.
ProbeTime == RETRY_COUNT * (2 * CHECK_TIMEOUT + RTP_WINDOW) + (RETRY_COUNT - 1) * RETRY_DELAY
AbortTime == TERM_GRACE + KILL_GRACE

\* A wedge is noticed within what is left of a sleep and of the grace, confirmed by
\* DOWN_STREAK_LIMIT cycles, and then every further round is a fast one.
RebootBound ==
    INTERVAL + GRACE + ProbeTime + INTERVAL
      + (DOWN_STREAK_LIMIT - 1) * (INTERVAL + ProbeTime) + ProbeTime + AbortTime
      + (RESTART_LIMIT - 1) * (DOWN_STREAK_LIMIT * (RECOVER_INTERVAL + ProbeTime) + AbortTime)

-----------------------------------------------------------------------------
\* "the warranted-restart budget reaches the reboot backstop in minutes": from the
\* moment prudynt cannot be killed any more, a watchdog that runs asks for the reboot
\* within RebootBound.
BackstopInTime == stuck <= RebootBound
=============================================================================
