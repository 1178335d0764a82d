------------------------ MODULE StreamWatchdogProofs ------------------------
(***************************************************************************)
(* The watchdog does not harm, for every value of its intervals, limits    *)
(* and timeouts: on a camera where it is the only one to run S31prudynt,   *)
(* whose bring-up is shorter than GRACE and whose uptime can be read, no   *)
(* bring-up is disturbed, and as long as nothing goes wrong nothing is     *)
(* ever restarted. The argument: a bring-up is younger than the grace that *)
(* was armed after it began (BootInv), except before the loop, where the   *)
(* watchdog only looks. And it does help: a prudynt that no restart can    *)
(* kill leads to the reboot within a bound (BackstopSafe).                 *)
(***************************************************************************)
EXTENDS MCStreamWatchdog, TLAPS

\* Nobody else calls the script, and the grace covers a bring-up.
Covered == /\ \A c \in Callers : c = Watchdog
           /\ GRACE > BRINGUP
           /\ UptimeFails = FALSE

\* A limit is reached only where the loop acts on it.
LimitInv == /\ wpc # "reboot" => RESTART_COUNT < RESTART_LIMIT
            /\ wpc # "s31" => DOWN_STREAK < DOWN_STREAK_LIMIT

\* S31prudynt runs while do_restart waits for it, and restarts.
CallInv == /\ wpc # "s31" => pc[Watchdog] = "idle"
           /\ pc[Watchdog] # "idle" => op[Watchdog] = "restart"

\* entry says that the loop has not begun.
EntryInv == /\ wpc \in {"off", "entry"} => entry
            /\ entry => wpc \in {"off", "entry", "probe", "rtp"}

\* The script launches on top of nothing.
LaunchInv == /\ OnePrudynt
             /\ pc[Watchdog] \in {"rmgone", "reclaim", "c1", "start"} => ~prudynt_alive

\* A prudynt in its bring-up has just been launched by the watchdog, or its grace is not over,
\* or the loop has not begun.
BootInv == \A p \in Pid : proc[p] = "boot" =>
    \/ entry /\ wpc # "rtp"
    \/ /\ wpc = "s31" /\ age[p] = 0
       /\ pc[Watchdog] = "hb" \/ (pc[Watchdog] = "idle" /\ rc[Watchdog] = 0)
    \/ ~entry /\ wpc \notin {"s31", "rtp"} /\ GRACE_UNTIL + age[p] >= GRACE

\* Only a bring-up is counted.
AgeInv == \A p \in Pid : proc[p] # "boot" => age[p] = 0

\* As long as nothing went wrong prudynt comes up or serves, and the loop looks on.
HealthInv == faults = 0 =>
    /\ prudynt_alive /\ \A p \in Pid : proc[p] \in {"gone", "boot", "serve"}
    /\ viewer # "paused"
    /\ RESTART_COUNT = 0 /\ wpc \notin {"s31", "reboot", "confirm"}

IInv == WTypeOK /\ LimitInv /\ CallInv /\ EntryInv
CoveredInv == LaunchInv /\ AgeInv /\ BootInv /\ HealthInv

\* WTypeOK, as the numbers and the flags.
CountsOK == /\ wpc \in Places /\ timer \in Nat /\ count \in Nat
            /\ RESTART_COUNT \in 0 .. RESTART_LIMIT /\ GRACE_UNTIL \in 0 .. GRACE
            /\ DOWN_STREAK \in 0 .. DOWN_STREAK_LIMIT /\ HEALTHY_STREAK \in 0 .. HEALTHY_STREAK_LIMIT
            /\ viewer \in {"none", "playing", "paused"}
            /\ age \in [Pid -> 0 .. BRINGUP] /\ faults \in 0 .. MaxFaults /\ others \in 0 .. MaxOthers
FlagsOK == entry \in BOOLEAN /\ LAST_LIVE \in BOOLEAN /\ STREAMER_WAS_DISABLED \in BOOLEAN /\ disabled \in BOOLEAN

-----------------------------------------------------------------------------
(* What the steps amount to. *)

\* A probe ends in one of three ways.
LEMMA ProbeCases == check_rtsp_stream \/ check_rtsp_egress =>
                      /\ wpc \in {"probe", "rtp"} /\ UNCHANGED env
                      /\ \/ PassFails
                         \/ PassServes
                         \/ At("rtp", RTP_WINDOW) /\ UNCHANGED <<initVars, count, entry, local>>
BY DEF check_rtsp_stream, check_rtsp_egress

\* What a failed pass leads to.
Retry == /\ \E t \in Nat : At("probe", t)
         /\ count' = count + 1 /\ UNCHANGED <<initVars, entry, local>>
EntryFails == /\ entry /\ GRACE_UNTIL' \in arm_grace /\ LAST_LIVE' = prudynt_alive
              /\ At("top", 0) /\ count' = 0 /\ entry' = FALSE
              /\ UNCHANGED <<initVars, RESTART_COUNT, DOWN_STREAK, HEALTHY_STREAK, STREAMER_WAS_DISABLED>>
Excused == /\ ~entry /\ HEALTHY_STREAK' = 0
           /\ DOWN_STREAK' \in {0, DOWN_STREAK + 1} /\ DOWN_STREAK' < DOWN_STREAK_LIMIT
           /\ Sleep(current_interval(RESTART_COUNT))
           /\ UNCHANGED <<initVars, entry, RESTART_COUNT, GRACE_UNTIL, LAST_LIVE, STREAMER_WAS_DISABLED>>
Warranted == /\ ~entry /\ (\E inside \in within_grace : ~inside) /\ HEALTHY_STREAK' = 0
             /\ DOWN_STREAK' = DOWN_STREAK + 1 /\ CallRestart
             /\ UNCHANGED <<entry, RESTART_COUNT, GRACE_UNTIL, LAST_LIVE, STREAMER_WAS_DISABLED>>

LEMMA FailCases == PassFails => Retry \/ EntryFails \/ Excused \/ Warranted
<1> SUFFICES ASSUME PassFails PROVE Retry \/ EntryFails \/ Excused \/ Warranted
    OBVIOUS
<1> USE WatchAssumption
<1>1. CASE count < RETRY_COUNT
    BY <1>1 DEF PassFails, Retry, At
<1>2. CASE ~(count < RETRY_COUNT) /\ entry
    BY <1>2 DEF PassFails, EntryFails
<1>3. CASE ~(count < RETRY_COUNT) /\ ~entry
    <2>1. PICK inside \in within_grace :
              IF inside
              THEN DOWN_STREAK' = 0 /\ Sleep(current_interval(RESTART_COUNT)) /\ UNCHANGED initVars
              ELSE /\ DOWN_STREAK' = DOWN_STREAK + 1
                   /\ IF DOWN_STREAK + 1 < DOWN_STREAK_LIMIT
                      THEN Sleep(current_interval(RESTART_COUNT)) /\ UNCHANGED initVars
                      ELSE CallRestart
        BY <1>3 DEF PassFails
    <2>2. HEALTHY_STREAK' = 0 /\ UNCHANGED <<entry, RESTART_COUNT, GRACE_UNTIL, LAST_LIVE, STREAMER_WAS_DISABLED>>
        BY <1>3 DEF PassFails
    <2>3. CASE inside
        BY <1>3, <2>1, <2>2, <2>3 DEF Excused
    <2>4. CASE ~inside
        <3>1. \E in \in within_grace : ~in
            BY <2>4
        <3>2. CASE DOWN_STREAK + 1 < DOWN_STREAK_LIMIT
            BY <1>3, <2>1, <2>2, <2>4, <3>2 DEF Excused
        <3>3. CASE ~(DOWN_STREAK + 1 < DOWN_STREAK_LIMIT)
            BY <1>3, <2>1, <2>2, <2>4, <3>1, <3>3 DEF Warranted
        <3> QED BY <3>2, <3>3
    <2> QED BY <2>3, <2>4
<1> QED BY <1>1, <1>2, <1>3

\* What the other callers, S31prudynt and prudynt do to the state of the script.
ScriptMoves == \/ UNCHANGED initVars
               \/ \E c \in Callers, o \in CallerOps \cup {"restart"} : Invoke(c, o)
               \/ \E c \in Callers : S31Step(c)
               \/ \E p \in Pid : ProcStep(p)
               \/ TimersDown /\ UNCHANGED <<proc, pidfile, hb, op, pc, rc>>
               \/ Reboot
LEMMA ScriptCases == WNext => ScriptMoves
<1> SUFFICES ASSUME WNext PROVE ScriptMoves
    OBVIOUS
<1> USE WatchAssumption DEF ScriptMoves
<1>1. CASE watch_entry \/ watch_disabled \/ watch_live \/ watch_gone \/ confirm_gone_again \/ confirm_gone_reappeared
    BY <1>1 DEF watch_entry, watch_disabled, watch_live, watch_gone, confirm_gone_again, confirm_gone_reappeared
<1>2. CASE confirm_gone_confirmed
    BY <1>2 DEF confirm_gone_confirmed, CallRestart
<1>3. CASE check_rtsp_stream \/ check_rtsp_egress
    BY <1>3, ProbeCases, FailCases DEF Retry, EntryFails, Excused, Warranted, CallRestart, PassServes
<1>4. CASE do_restart \/ watch_sleep \/ ViewerEnv \/ PortalSwitch \/ WatchdogStop \/ WatchdogStart
    BY <1>4 DEF do_restart, Restarted, watch_sleep, ViewerEnv, PortalSwitch, WatchdogStop, WatchdogStart
<1>5. CASE OwnStep \/ \E c \in Callers : OtherCall(c) \/ OtherStep(c)
    BY <1>5 DEF OwnStep, OtherCall, OtherStep
<1>6. ASSUME NEW p \in Pid, ProcEnv(p) PROVE ProcStep(p)
    BY <1>6 DEF ProcEnv, ProcStep
<1>7. CASE WTick
    BY <1>7 DEF WTick
<1> QED BY <1>1, <1>2, <1>3, <1>4, <1>5, <1>6, <1>7 DEF WNext, WatchStep

-----------------------------------------------------------------------------
(* Types and limits. *)

LEMMA ScriptType == TypeOK /\ [WNext]_vars => TypeOK'
<1> SUFFICES ASSUME TypeOK, [WNext]_vars PROVE TypeOK'
    OBVIOUS
<1> USE InitAssumption DEF TypeOK, Kinds, Ops, Steps, Waiting, Goto, Exit
<1>1. ASSUME NEW c \in Callers, NEW o \in CallerOps \cup {"restart"}, Invoke(c, o) PROVE TypeOK'
    <2>1. hb' \in BOOLEAN
        BY <1>1, Zenon DEF Invoke
    <2>2. CASE o = "start"
        <3>1. PICK t \in 0 .. 2 * JCT_TIMEOUT : Goto(c, "c1", t)
            BY <1>1, <2>2 DEF Invoke, EnterStart
        <3> QED BY <1>1, <2>1, <2>2, <3>1 DEF Invoke
    <2>3. CASE o # "start"
        BY <1>1, <2>1, <2>3 DEF Invoke
    <2> QED BY <2>2, <2>3
<1>2. ASSUME NEW c \in Callers, S31Step(c) PROVE TypeOK'
    <2>1. CASE stop_daemon_term(c)    BY <2>1 DEF stop_daemon_term
    <2>2. CASE stop_daemon_gone(c)    BY <2>2 DEF stop_daemon_gone
    <2>3. CASE stop_daemon_kill(c)    BY <2>3 DEF stop_daemon_kill
    <2>4. CASE stop_daemon_polled(c)  BY <2>4 DEF stop_daemon_polled
    <2>5. CASE stop_daemon_rmpid(c)   BY <2>5 DEF stop_daemon_rmpid
    <2>6. CASE stop_daemon_confirm(c) BY <2>6 DEF stop_daemon_confirm
    <2>7. CASE reclaim_wait(c)        BY <2>7 DEF reclaim_wait, EnterStart
    <2>8. CASE config_checked(c)      BY <2>8 DEF config_checked
    <2>9. CASE start_daemon(c)        BY <2>9 DEF start_daemon
    <2>10. CASE restart_heartbeat(c)  BY <2>10 DEF restart_heartbeat
    <2> QED BY <1>2, <2>1, <2>2, <2>3, <2>4, <2>5, <2>6, <2>7, <2>8, <2>9, <2>10 DEF S31Step
<1>3. ASSUME NEW p \in Pid, ProcStep(p) PROVE TypeOK'
    BY <1>3 DEF ProcStep, BootDone, Crash, Fail
<1>4. CASE TimersDown /\ UNCHANGED <<proc, pidfile, hb, op, pc, rc>>
    BY <1>4 DEF TimersDown
<1>5. CASE Reboot
    <2>1. hb' \in BOOLEAN
        BY <1>5, Zenon DEF Reboot
    <2> QED BY <1>5, <2>1 DEF Reboot
<1>6. CASE UNCHANGED initVars
    BY <1>6 DEF initVars
<1>7. UNCHANGED vars => UNCHANGED initVars
    BY DEF vars
<1> QED BY <1>1, <1>2, <1>3, <1>4, <1>5, <1>6, <1>7, ScriptCases DEF ScriptMoves

\* A deadline that is armed is in range.
LEMMA GraceRange == GRACE_UNTIL \in 0 .. GRACE => \A g \in arm_grace : g \in 0 .. GRACE
BY WatchAssumption DEF arm_grace

\* Sleeps are finite.
LEMMA IntervalNat == \A n \in Nat : current_interval(n) \in Nat
BY WatchAssumption DEF current_interval

\* The counters of the loop stay within their limits.
LEMMA CountsStep == TypeOK /\ CountsOK /\ LimitInv /\ [WNext]_vars => CountsOK' /\ LimitInv'
<1> SUFFICES ASSUME TypeOK, CountsOK, LimitInv, [WNext]_vars PROVE CountsOK' /\ LimitInv'
    OBVIOUS
<1> USE WatchAssumption, GraceRange, IntervalNat DEF CountsOK, LimitInv, Places, env, local, watch, At
<1>1. CASE watch_entry
    <2>1. CASE Attempt(1) /\ UNCHANGED <<entry, local>>
        <3>1. PICK t \in 0 .. 2 * CHECK_TIMEOUT : At("probe", t)
            BY <2>1 DEF Attempt
        <3>2. timer' \in Nat
            BY <3>1
        <3> QED BY <1>1, <2>1, <3>1, <3>2 DEF watch_entry, Attempt
    <2>2. CASE ~(Attempt(1) /\ UNCHANGED <<entry, local>>)
        BY <1>1, <2>2 DEF watch_entry
    <2> QED BY <2>1, <2>2
<1>2. CASE watch_disabled
    BY <1>2 DEF watch_disabled, Sleep
<1>3. CASE watch_live
    <2>1. PICK t \in 0 .. 2 * CHECK_TIMEOUT : At("probe", t)
        BY <1>3 DEF watch_live, Attempt
    <2>2. timer' \in Nat
        BY <2>1
    <2> QED BY <1>3, <2>1, <2>2 DEF watch_live, Attempt
<1>4. CASE watch_gone
    BY <1>4 DEF watch_gone
<1>5. CASE confirm_gone_again
    BY <1>5 DEF confirm_gone_again
<1>6. CASE confirm_gone_reappeared
    <2>1. PICK t \in 0 .. 2 * CHECK_TIMEOUT : At("probe", t)
        BY <1>6 DEF confirm_gone_reappeared, Attempt
    <2>2. timer' \in Nat
        BY <2>1
    <2> QED BY <1>6, <2>1, <2>2 DEF confirm_gone_reappeared, Attempt
<1>7. CASE confirm_gone_confirmed
    BY <1>7 DEF confirm_gone_confirmed, CallRestart
<1>8. CASE check_rtsp_stream \/ check_rtsp_egress
    <2> USE <1>8, ProbeCases
    <2>1. CASE Retry       BY <2>1 DEF Retry
    <2>2. CASE EntryFails  BY <2>2 DEF EntryFails
    <2>3. CASE Excused     BY <2>3 DEF Excused, Sleep
    <2>4. CASE Warranted   BY <2>4 DEF Warranted, CallRestart
    <2>5. CASE PassServes
        <3>1. CASE entry   BY <2>5, <3>1 DEF PassServes
        <3>2. CASE ~entry
            <4>1. RESTART_COUNT' \in {0, RESTART_COUNT}
                BY <2>5, <3>2 DEF PassServes
            <4> QED BY <2>5, <3>2, <4>1 DEF PassServes, Sleep
        <3> QED BY <3>1, <3>2
    <2>6. CASE At("rtp", RTP_WINDOW) /\ UNCHANGED <<initVars, count, entry, local>>
        BY <2>6
    <2> QED BY <2>1, <2>2, <2>3, <2>4, <2>5, <2>6, FailCases
<1>9. CASE do_restart
    <2>1. GRACE_UNTIL' \in 0 .. GRACE
        BY <1>9 DEF do_restart, Restarted
    <2>2. CASE RESTART_COUNT + 1 >= RESTART_LIMIT
        BY <1>9, <2>1, <2>2 DEF do_restart, Restarted
    <2>3. CASE ~(RESTART_COUNT + 1 >= RESTART_LIMIT)
        BY <1>9, <2>1, <2>3 DEF do_restart, Restarted, Sleep
    <2> QED BY <2>2, <2>3
<1>10. CASE watch_sleep
    BY <1>10 DEF watch_sleep
<1>11. CASE OwnStep \/ \E c \in Callers : OtherStep(c)
    <2>1. age' \in [Pid -> 0 .. BRINGUP]
        BY <1>11 DEF OwnStep, OtherStep, Aged
    <2> QED BY <1>11, <2>1 DEF OwnStep, OtherStep
<1>12. CASE WTick
    <2>1. age' \in [Pid -> 0 .. BRINGUP]
        BY <1>12 DEF WTick
    <2> QED BY <1>12, <2>1 DEF WTick, Less
<1>13. CASE Reboot
    BY <1>13 DEF Reboot
<1>14. CASE \E c \in Callers : OtherCall(c)
    BY <1>14 DEF OtherCall
<1>15. CASE \E p \in Pid : ProcEnv(p)
    <2>1. age' \in [Pid -> 0 .. BRINGUP]
        BY <1>15 DEF ProcEnv, Aged
    <2> QED BY <1>15, <2>1 DEF ProcEnv
<1>16. CASE ViewerEnv \/ PortalSwitch \/ WatchdogStart
    BY <1>16 DEF ViewerEnv, PortalSwitch, WatchdogStart
<1>17. CASE WatchdogStop
    BY <1>17 DEF WatchdogStop
<1>18. CASE UNCHANGED vars
    BY <1>18 DEF vars
<1> QED BY <1>1, <1>2, <1>3, <1>4, <1>5, <1>6, <1>7, <1>8, <1>9, <1>10, <1>11, <1>12, <1>13, <1>14,
        <1>15, <1>16, <1>17, <1>18 DEF WNext, WatchStep

\* The flags stay Boolean.
LEMMA FlagsStep == FlagsOK /\ [WNext]_vars => FlagsOK'
<1> SUFFICES ASSUME FlagsOK, [WNext]_vars PROVE FlagsOK'
    OBVIOUS
<1> USE DEF FlagsOK, env, local, watch
<1>0. prudynt_alive \in BOOLEAN
    BY DEF prudynt_alive
<1>1. CASE watch_entry
    BY <1>1, Zenon DEF watch_entry
<1>2. CASE watch_disabled
    BY <1>2, Zenon DEF watch_disabled
<1>3. CASE watch_live
    BY <1>3, Zenon DEF watch_live
<1>4. CASE watch_gone
    BY <1>4, Zenon DEF watch_gone
<1>5. CASE confirm_gone_again \/ confirm_gone_confirmed \/ do_restart \/ watch_sleep
    BY <1>5 DEF confirm_gone_again, confirm_gone_confirmed, do_restart, Restarted, watch_sleep
<1>6. CASE confirm_gone_reappeared
    BY <1>6, Zenon DEF confirm_gone_reappeared
<1>7. CASE check_rtsp_stream \/ check_rtsp_egress
    <2>1. UNCHANGED env
        BY <1>7, ProbeCases
    <2>2. CASE EntryFails
        BY <2>1, <2>2, <1>0, Zenon DEF EntryFails
    <2>3. CASE PassServes
        BY <2>1, <2>3, <1>0, Zenon DEF PassServes
    <2>4. CASE Retry \/ Excused \/ Warranted
        BY <2>1, <2>4 DEF Retry, Excused, Warranted
    <2> QED BY <1>7, <2>1, <2>2, <2>3, <2>4, ProbeCases, FailCases
<1>8. CASE OwnStep \/ WTick \/ \E c \in Callers : OtherCall(c) \/ OtherStep(c)
    BY <1>8 DEF OwnStep, WTick, OtherCall, OtherStep
<1>9. CASE Reboot
    BY <1>9, WatchAssumption, Zenon DEF Reboot
<1>10. CASE (\E p \in Pid : ProcEnv(p)) \/ ViewerEnv \/ WatchdogStart
    BY <1>10 DEF ProcEnv, ViewerEnv, WatchdogStart
<1>11. CASE PortalSwitch
    BY <1>11, Zenon DEF PortalSwitch
<1>12. CASE WatchdogStop
    BY <1>12, Zenon DEF WatchdogStop
<1>13. CASE UNCHANGED vars
    BY <1>13 DEF vars
<1> QED BY <1>1, <1>2, <1>3, <1>4, <1>5, <1>6, <1>7, <1>8, <1>9, <1>10, <1>11, <1>12, <1>13 DEF WNext, WatchStep

\* S31prudynt is run by do_restart, which waits for it.
LEMMA CallStep == TypeOK /\ CallInv /\ [WNext]_vars => CallInv'
<1> SUFFICES ASSUME TypeOK, CallInv, [WNext]_vars PROVE CallInv'
    OBVIOUS
<1> USE WatchAssumption DEF TypeOK, CallInv, env, watch, initVars, At, Sleep
<1>0. ASSUME CallRestart PROVE CallInv'
    BY <1>0 DEF CallRestart, Invoke, Goto
<1>1. CASE watch_entry \/ watch_disabled \/ watch_live \/ watch_gone \/ confirm_gone_again \/ confirm_gone_reappeared
    BY <1>1 DEF watch_entry, watch_disabled, watch_live, watch_gone, confirm_gone_again, confirm_gone_reappeared, Attempt
<1>2. CASE confirm_gone_confirmed
    BY <1>0, <1>2 DEF confirm_gone_confirmed
<1>3. CASE check_rtsp_stream \/ check_rtsp_egress
    <2>1. CASE Retry \/ EntryFails \/ Excused
        BY <1>3, <2>1, ProbeCases DEF Retry, EntryFails, Excused
    <2>2. CASE Warranted
        BY <1>0, <2>2 DEF Warranted
    <2>3. CASE PassServes
        BY <1>3, <2>3, ProbeCases DEF PassServes
    <2>4. CASE At("rtp", RTP_WINDOW) /\ UNCHANGED <<initVars, count, entry, local>>
        BY <1>3, <2>4, ProbeCases
    <2> QED BY <1>3, <2>1, <2>2, <2>3, <2>4, ProbeCases, FailCases
<1>4. CASE do_restart
    BY <1>4 DEF do_restart, Restarted
<1>5. CASE watch_sleep \/ ViewerEnv \/ PortalSwitch \/ WatchdogStop \/ WatchdogStart \/ WTick \/ \E p \in Pid : ProcEnv(p)
    BY <1>5 DEF watch_sleep, ViewerEnv, PortalSwitch, WatchdogStop, WatchdogStart, WTick, ProcEnv
<1>6. CASE OwnStep
    <2>1. pc[Watchdog] # "idle" /\ op' = op
        BY <1>6 DEF OwnStep, S31Step, stop_daemon_term, stop_daemon_gone, stop_daemon_kill, stop_daemon_polled,
            stop_daemon_rmpid, stop_daemon_confirm, reclaim_wait, config_checked, start_daemon, restart_heartbeat
    <2> QED BY <1>6, <2>1 DEF OwnStep
<1>7. ASSUME NEW c \in Callers, OtherCall(c) PROVE CallInv'
    <2>1. pc'[Watchdog] = pc[Watchdog] /\ op'[Watchdog] = op[Watchdog]
        BY <1>7 DEF OtherCall, Invoke, EnterStart, Goto
    <2> QED BY <1>7, <2>1 DEF OtherCall
<1>8. ASSUME NEW c \in Callers, OtherStep(c) PROVE CallInv'
    <2>1. pc'[Watchdog] = pc[Watchdog] /\ op' = op
        BY <1>8 DEF OtherStep, S31Step, stop_daemon_term, stop_daemon_gone, stop_daemon_kill, stop_daemon_polled,
            stop_daemon_rmpid, stop_daemon_confirm, reclaim_wait, config_checked, start_daemon, restart_heartbeat,
            EnterStart, Exit, Goto
    <2> QED BY <1>8, <2>1 DEF OtherStep
<1>9. CASE Reboot
    BY <1>9 DEF Reboot
<1>10. CASE UNCHANGED vars
    BY <1>10 DEF vars
<1> QED BY <1>1, <1>2, <1>3, <1>4, <1>5, <1>6, <1>7, <1>8, <1>9, <1>10 DEF WNext, WatchStep

\* Once the loop has begun it goes on until it is stopped.
LEMMA EntryStep == EntryInv /\ [WNext]_vars => EntryInv'
<1> SUFFICES ASSUME EntryInv, [WNext]_vars PROVE EntryInv'
    OBVIOUS
<1> USE DEF EntryInv, env, watch, local, At, Sleep
<1>1. CASE watch_entry \/ watch_disabled \/ watch_live \/ watch_gone \/ confirm_gone_again \/ confirm_gone_reappeared
    BY <1>1 DEF watch_entry, watch_disabled, watch_live, watch_gone, confirm_gone_again, confirm_gone_reappeared, Attempt
<1>2. CASE confirm_gone_confirmed \/ do_restart \/ watch_sleep
    BY <1>2 DEF confirm_gone_confirmed, CallRestart, do_restart, Restarted, watch_sleep
<1>3. CASE check_rtsp_stream \/ check_rtsp_egress
    <2>0. wpc \in {"probe", "rtp"}
        BY <1>3, ProbeCases
    <2>1. CASE Retry \/ EntryFails \/ Excused \/ Warranted
        BY <2>0, <2>1 DEF Retry, EntryFails, Excused, Warranted, CallRestart
    <2>2. CASE PassServes
        BY <2>0, <2>2 DEF PassServes
    <2>3. CASE At("rtp", RTP_WINDOW) /\ UNCHANGED <<initVars, count, entry, local>>
        BY <2>0, <2>3
    <2> QED BY <1>3, <2>1, <2>2, <2>3, ProbeCases, FailCases
<1>4. CASE ViewerEnv \/ PortalSwitch \/ WatchdogStop \/ WatchdogStart \/ WTick \/ \E p \in Pid : ProcEnv(p)
    BY <1>4 DEF ViewerEnv, PortalSwitch, WatchdogStop, WatchdogStart, WTick, ProcEnv
<1>5. CASE OwnStep \/ \E c \in Callers : OtherCall(c) \/ OtherStep(c)
    BY <1>5 DEF OwnStep, OtherCall, OtherStep
<1>6. CASE Reboot
    BY <1>6 DEF Reboot
<1>7. CASE UNCHANGED vars
    BY <1>7 DEF vars
<1> QED BY <1>1, <1>2, <1>3, <1>4, <1>5, <1>6, <1>7 DEF WNext, WatchStep

-----------------------------------------------------------------------------
(* A covered camera. *)

\* What happens to the state of the script when nobody else calls it.
LoneMoves == \/ UNCHANGED <<proc, pidfile, op, pc, rc>>
             \/ Invoke(Watchdog, "restart")
             \/ S31Step(Watchdog)
             \/ \E p \in Pid : (BootDone(p) \/ Crash(p) \/ Fail(p)) /\ UNCHANGED <<pidfile, pc>>
             \/ Reboot
LEMMA LoneCases == Covered /\ [WNext]_vars => LoneMoves
<1> SUFFICES ASSUME Covered, [WNext]_vars PROVE LoneMoves
    OBVIOUS
<1> USE DEF LoneMoves, initVars
<1>1. CASE watch_entry \/ watch_disabled \/ watch_live \/ watch_gone \/ confirm_gone_again \/ confirm_gone_reappeared
    BY <1>1 DEF watch_entry, watch_disabled, watch_live, watch_gone, confirm_gone_again, confirm_gone_reappeared
<1>2. CASE confirm_gone_confirmed
    BY <1>2 DEF confirm_gone_confirmed, CallRestart
<1>3. CASE check_rtsp_stream \/ check_rtsp_egress
    BY <1>3, ProbeCases, FailCases DEF Retry, EntryFails, Excused, Warranted, CallRestart, PassServes
<1>4. CASE do_restart \/ watch_sleep \/ ViewerEnv \/ PortalSwitch \/ WatchdogStop \/ WatchdogStart \/ WTick
    BY <1>4 DEF do_restart, Restarted, watch_sleep, ViewerEnv, PortalSwitch, WatchdogStop, WatchdogStart, WTick
<1>5. CASE OwnStep \/ \E c \in Callers : OtherCall(c) \/ OtherStep(c)
    BY <1>5 DEF OwnStep, OtherCall, OtherStep, Covered
<1>6. CASE \E p \in Pid : ProcEnv(p)
    BY <1>6 DEF ProcEnv
<1>7. CASE UNCHANGED vars
    BY <1>7 DEF vars
<1> QED BY <1>1, <1>2, <1>3, <1>4, <1>5, <1>6, <1>7 DEF WNext, WatchStep

\* The watchdog's restarts launch on top of nothing.
LEMMA LaunchStep == Covered /\ TypeOK /\ CallInv /\ LaunchInv /\ [WNext]_vars => LaunchInv'
<1> SUFFICES ASSUME TypeOK, CallInv, LaunchInv, LoneMoves PROVE LaunchInv'
    BY LoneCases
<1> USE WatchAssumption DEF TypeOK, LaunchInv, OnePrudynt, pid_live, prudynt_alive, Goto, Exit
<1>1. CASE UNCHANGED <<proc, pidfile, op, pc, rc>>
    BY <1>1
<1>2. CASE Invoke(Watchdog, "restart")
    BY <1>2 DEF Invoke
<1>3. CASE S31Step(Watchdog)
    <2>1. CASE stop_daemon_term(Watchdog)    BY <2>1 DEF stop_daemon_term, Killable
    <2>2. CASE stop_daemon_gone(Watchdog)    BY <2>2 DEF stop_daemon_gone
    <2>3. CASE stop_daemon_kill(Watchdog)    BY <2>3 DEF stop_daemon_kill, Killable
    <2>4. CASE stop_daemon_polled(Watchdog)  BY <2>4 DEF stop_daemon_polled
    <2>5. CASE stop_daemon_rmpid(Watchdog)   BY <2>5 DEF stop_daemon_rmpid
    <2>6. CASE stop_daemon_confirm(Watchdog) BY <2>6 DEF stop_daemon_confirm
    <2>7. CASE reclaim_wait(Watchdog)        BY <2>7 DEF reclaim_wait, EnterStart
    <2>8. CASE config_checked(Watchdog)      BY <2>8 DEF config_checked
    <2>9. CASE start_daemon(Watchdog)        BY <2>9 DEF start_daemon
    <2>10. CASE restart_heartbeat(Watchdog)  BY <2>10 DEF restart_heartbeat
    <2> QED BY <1>3, <2>1, <2>2, <2>3, <2>4, <2>5, <2>6, <2>7, <2>8, <2>9, <2>10 DEF S31Step
<1>4. CASE \E p \in Pid : (BootDone(p) \/ Crash(p) \/ Fail(p)) /\ UNCHANGED <<pidfile, pc>>
    BY <1>4 DEF BootDone, Crash, Fail, Killable
<1>5. CASE Reboot
    BY <1>5 DEF Reboot
<1> QED BY <1>1, <1>2, <1>3, <1>4, <1>5 DEF LoneMoves

\* Who is asked and answers is not in its bring-up.
LEMMA AnswersNotBoot == OnePrudynt /\ Answers => \A p \in Pid : proc[p] # "boot"
BY DEF OnePrudynt, Answers, pid_live

\* Without faults of the clock the grace is armed and judged as meant.
LEMMA GraceExact == Covered => /\ arm_grace = {GRACE}
                               /\ (\E inside \in within_grace : ~inside) => ~(GRACE_UNTIL > 0)
                               /\ GRACE_UNTIL > 0 => \A inside \in within_grace : inside
BY Zenon DEF Covered, arm_grace, within_grace

\* Nothing is in its bring-up when the loop calls for a restart.
LEMMA RestartWarranted ==
    Covered /\ IInv /\ CoveredInv /\ WNext /\ wpc # "s31" /\ wpc' = "s31" => \A p \in Pid : proc[p] # "boot"
<1> SUFFICES ASSUME Covered, IInv, CoveredInv, WNext, wpc # "s31", wpc' = "s31", NEW p \in Pid, proc[p] = "boot"
             PROVE  FALSE
    OBVIOUS
<1> USE DEF At, Sleep, env, watch
<1>1. confirm_gone_confirmed \/ (wpc \in {"probe", "rtp"} /\ Warranted)
    <2>1. CASE watch_entry \/ watch_disabled \/ watch_live \/ watch_gone \/ confirm_gone_again \/ confirm_gone_reappeared
        BY <2>1 DEF watch_entry, watch_disabled, watch_live, watch_gone, confirm_gone_again, confirm_gone_reappeared, Attempt
    <2>2. CASE check_rtsp_stream \/ check_rtsp_egress
        <3>1. CASE Retry \/ EntryFails \/ Excused
            BY <3>1 DEF Retry, EntryFails, Excused
        <3>2. CASE PassServes
            BY <3>2 DEF PassServes
        <3> QED BY <2>2, <3>1, <3>2, ProbeCases, FailCases
    <2>3. CASE do_restart \/ watch_sleep \/ ViewerEnv \/ PortalSwitch \/ WatchdogStop \/ WatchdogStart \/ WTick
        BY <2>3 DEF do_restart, Restarted, watch_sleep, ViewerEnv, PortalSwitch, WatchdogStop, WatchdogStart, WTick
    <2>4. CASE OwnStep \/ (\E c \in Callers : OtherCall(c) \/ OtherStep(c)) \/ (\E q \in Pid : ProcEnv(q)) \/ Reboot
        BY <2>4 DEF OwnStep, OtherCall, OtherStep, ProcEnv, Reboot
    <2> QED BY <2>1, <2>2, <2>3, <2>4 DEF WNext, WatchStep
<1>2. CASE confirm_gone_confirmed
    BY <1>2 DEF confirm_gone_confirmed, prudynt_alive, pid_live
<1>3. CASE wpc \in {"probe", "rtp"} /\ Warranted
    <2>1. ~entry /\ ~(GRACE_UNTIL > 0)
        BY <1>3, GraceExact DEF Warranted
    <2>2. GRACE_UNTIL + age[p] >= GRACE
        BY <1>3, <2>1 DEF CoveredInv, BootInv
    <2>3. GRACE_UNTIL = 0 /\ age[p] <= BRINGUP /\ age[p] \in Nat
        BY <2>1, WatchAssumption DEF IInv, WTypeOK
    <2> QED BY <2>2, <2>3, WatchAssumption DEF Covered
<1> QED BY <1>1, <1>2, <1>3

\* A bring-up is younger than the grace.
LEMMA BootStep == Covered /\ IInv /\ CoveredInv /\ [WNext]_vars => BootInv'
<1> SUFFICES ASSUME Covered, IInv, CoveredInv, [WNext]_vars, NEW p \in Pid, proc'[p] = "boot"
             PROVE  \/ entry' /\ wpc' # "rtp"
                    \/ /\ wpc' = "s31" /\ age'[p] = 0
                       /\ pc'[Watchdog] = "hb" \/ (pc'[Watchdog] = "idle" /\ rc'[Watchdog] = 0)
                    \/ ~entry' /\ wpc' \notin {"s31", "rtp"} /\ GRACE_UNTIL' + age'[p] >= GRACE
    BY DEF BootInv
<1> USE WatchAssumption, GraceExact DEF IInv, WTypeOK, TypeOK, CallInv, EntryInv, CoveredInv, BootInv, At, Sleep, env, local, watch, initVars
<1>0. age[p] \in 0 .. BRINGUP
    OBVIOUS
<1>1. CASE watch_entry
    BY <1>0, <1>1 DEF watch_entry, Attempt, prudynt_alive, pid_live
<1>2. CASE watch_disabled
    BY <1>0, <1>2 DEF watch_disabled
<1>3. CASE watch_live
    BY <1>0, <1>3 DEF watch_live, Attempt
<1>4. CASE watch_gone
    BY <1>0, <1>4 DEF watch_gone, prudynt_alive, pid_live
<1>5. CASE confirm_gone_again \/ confirm_gone_confirmed
    BY <1>0, <1>5 DEF confirm_gone_again, confirm_gone_confirmed, CallRestart, Invoke, prudynt_alive, pid_live
<1>6. CASE confirm_gone_reappeared
    BY <1>0, <1>6 DEF confirm_gone_reappeared, Attempt
<1>7. CASE check_rtsp_stream \/ check_rtsp_egress
    <2>0. wpc \in {"probe", "rtp"} /\ UNCHANGED <<age, proc>>
        BY <1>7, ProbeCases, FailCases DEF Retry, EntryFails, Excused, Warranted, CallRestart, Invoke, PassServes
    <2>1. wpc = "probe" /\ check_rtsp_stream
        BY <1>7, <2>0 DEF check_rtsp_egress
    <2>2. ~Answers
        BY <2>0, AnswersNotBoot DEF LaunchInv
    <2>3. PassFails
        BY <2>1, <2>2 DEF check_rtsp_stream
    <2>4. CASE Retry
        BY <1>0, <2>0, <2>1, <2>4 DEF Retry
    <2>5. CASE EntryFails
        BY <1>0, <2>0, <2>1, <2>5 DEF EntryFails
    <2>6. CASE Excused
        BY <1>0, <2>0, <2>1, <2>6 DEF Excused
    <2>7. CASE Warranted
        BY <1>7, <2>0, <2>1, <2>7, RestartWarranted DEF Warranted, CallRestart, WNext, WatchStep
    <2> QED BY <2>3, <2>4, <2>5, <2>6, <2>7, FailCases
<1>8. CASE do_restart
    <2>1. rc[Watchdog] = 0 /\ age[p] = 0
        BY <1>8 DEF do_restart, Restarted
    <2>2. GRACE_UNTIL' = GRACE /\ UNCHANGED <<age, entry>> /\ wpc = "s31"
        BY <1>8, <2>1 DEF do_restart, Restarted
    <2>3. wpc' \in {"reboot", "sleep"}
        BY <1>8 DEF do_restart, Restarted
    <2> QED BY <2>1, <2>2, <2>3
<1>9. CASE watch_sleep
    BY <1>0, <1>9 DEF watch_sleep
<1>10. CASE OwnStep
    <2>1. wpc = "s31" /\ wpc' = "s31" /\ pc[Watchdog] # "idle" /\ entry' = entry
        BY <1>10 DEF OwnStep, S31Step, stop_daemon_term, stop_daemon_gone, stop_daemon_kill, stop_daemon_polled,
            stop_daemon_rmpid, stop_daemon_confirm, reclaim_wait, config_checked, start_daemon, restart_heartbeat
    <2>2. age'[p] = age[p]
        BY <1>10 DEF OwnStep, Aged
    <2>3. CASE proc[p] = "boot"
        <3>1. pc[Watchdog] = "hb" /\ age[p] = 0
            BY <2>1, <2>3
        <3>2. restart_heartbeat(Watchdog)
            BY <1>10, <3>1 DEF OwnStep, S31Step, stop_daemon_term, stop_daemon_gone, stop_daemon_kill, stop_daemon_polled,
                stop_daemon_rmpid, stop_daemon_confirm, reclaim_wait, config_checked, start_daemon
        <3> QED BY <2>1, <2>2, <3>1, <3>2 DEF restart_heartbeat, Exit, Goto
    <2>4. CASE proc[p] # "boot"
        <3>1. start_daemon(Watchdog)
            BY <1>10, <2>4 DEF OwnStep, S31Step, stop_daemon_term, stop_daemon_gone, stop_daemon_kill, stop_daemon_polled,
                stop_daemon_rmpid, stop_daemon_confirm, reclaim_wait, config_checked, restart_heartbeat
        <3>2. pc'[Watchdog] = "hb"
            BY <2>4, <3>1 DEF start_daemon, Goto
        <3>3. age[p] = 0
            BY <2>4 DEF AgeInv
        <3> QED BY <2>1, <2>2, <3>2, <3>3
    <2> QED BY <2>3, <2>4
<1>11. CASE WTick
    <2>1. proc[p] = "boot" /\ age[p] < BRINGUP /\ age'[p] = age[p] + 1 /\ UNCHANGED <<wpc, entry>>
        BY <1>11 DEF WTick
    <2>2. CASE wpc = "s31"
        BY <1>11, <2>1, <2>2 DEF WTick, WatchIdles, Asleep
    <2>3. CASE wpc # "s31" /\ ~entry
        <3>1. GRACE_UNTIL + age[p] >= GRACE /\ wpc # "rtp"
            BY <2>1, <2>3
        <3>2. GRACE_UNTIL \in Nat /\ GRACE_UNTIL > 0
            BY <1>0, <3>1 DEF Covered
        <3>3. GRACE_UNTIL' = GRACE_UNTIL - 1
            BY <1>11, <3>2 DEF WTick, Less
        <3> QED BY <1>0, <2>1, <2>3, <3>1, <3>2, <3>3
    <2>4. CASE entry
        BY <2>1, <2>4
    <2> QED BY <2>2, <2>3, <2>4
<1>12. CASE Reboot
    BY <1>12, Zenon DEF Reboot
<1>13. CASE \E c \in Callers : OtherCall(c) \/ OtherStep(c)
    BY <1>13 DEF OtherCall, OtherStep, Covered
<1>14. CASE \E q \in Pid : ProcEnv(q)
    <2>1. proc[p] = "boot"
        BY <1>14 DEF ProcEnv, BootDone, Crash, Fail
    <2>2. age'[p] = age[p]
        BY <1>14 DEF ProcEnv, Aged
    <2> QED BY <1>14, <2>1, <2>2 DEF ProcEnv
<1>15. CASE ViewerEnv \/ PortalSwitch
    BY <1>15 DEF ViewerEnv, PortalSwitch
<1>16. CASE WatchdogStop
    BY <1>16, Zenon DEF WatchdogStop
<1>17. CASE WatchdogStart
    BY <1>17 DEF WatchdogStart
<1>18. CASE UNCHANGED vars
    BY <1>18 DEF vars
<1> QED BY <1>1, <1>2, <1>3, <1>4, <1>5, <1>6, <1>7, <1>8, <1>9, <1>10, <1>11, <1>12, <1>13, <1>14,
        <1>15, <1>16, <1>17, <1>18 DEF WNext, WatchStep

\* Ages are those of bring-ups.
LEMMA AgeStep == WTypeOK /\ AgeInv /\ [WNext]_vars => AgeInv'
<1> SUFFICES ASSUME WTypeOK, AgeInv, [WNext]_vars PROVE AgeInv'
    OBVIOUS
<1> USE DEF WTypeOK, TypeOK, AgeInv, env, initVars
<1>1. CASE Aged
    BY <1>1 DEF Aged
<1>2. CASE WTick
    BY <1>2 DEF WTick
<1>3. CASE Reboot
    BY <1>3 DEF Reboot
<1>4. CASE UNCHANGED <<age, proc>>
    BY <1>4
<1>5. CASE WatchStep
    <2>1. UNCHANGED age
        BY <1>5, ProbeCases DEF WatchStep, watch_entry, watch_disabled, watch_live, watch_gone, confirm_gone_again,
            confirm_gone_reappeared, confirm_gone_confirmed, do_restart, Restarted, watch_sleep
    <2>2. UNCHANGED proc
        BY <1>5, ProbeCases, FailCases DEF WatchStep, watch_entry, watch_disabled, watch_live, watch_gone, confirm_gone_again,
            confirm_gone_reappeared, confirm_gone_confirmed, do_restart, Restarted, watch_sleep, Retry, EntryFails,
            Excused, Warranted, CallRestart, Invoke, PassServes
    <2> QED BY <1>4, <2>1, <2>2
<1>6. CASE \E c \in Callers : OtherCall(c)
    BY <1>4, <1>6 DEF OtherCall, Invoke
<1>7. CASE ViewerEnv \/ PortalSwitch \/ WatchdogStop \/ WatchdogStart \/ UNCHANGED vars
    BY <1>4, <1>7 DEF ViewerEnv, PortalSwitch, WatchdogStop, WatchdogStart, vars
<1> QED BY <1>1, <1>2, <1>3, <1>5, <1>6, <1>7 DEF WNext, OwnStep, OtherStep, ProcEnv

\* As long as nothing went wrong no probe fails but those of a bring-up.
LEMMA HealthyProbe == Covered /\ IInv /\ CoveredInv /\ faults = 0 /\ (check_rtsp_stream \/ check_rtsp_egress)
                        => ~Warranted
<1> SUFFICES ASSUME Covered, IInv, CoveredInv, faults = 0, check_rtsp_stream \/ check_rtsp_egress, Warranted PROVE FALSE
    OBVIOUS
<1>0. WNext /\ wpc # "s31" /\ wpc' = "s31"
    BY ProbeCases DEF WNext, WatchStep, Warranted, CallRestart, At
<1>1. \A p \in Pid : proc[p] # "boot"
    BY <1>0, RestartWarranted
<1>2. PICK p \in Pid : proc[p] = "serve"
    BY <1>1 DEF CoveredInv, HealthInv, prudynt_alive, pid_live
<1>3. \A q \in Pid : q # p => proc[q] = "gone"
    BY <1>2 DEF CoveredInv, LaunchInv, OnePrudynt, pid_live
<1>4. Answers
    BY <1>2 DEF Answers
<1>5. \A s \in Stats : s.subs = (IF viewer = "none" THEN 0 ELSE 1) /\ (s.fps > 0 \/ s.subs = 0)
    <2> SUFFICES ASSUME NEW s \in Stats PROVE s.subs = (IF viewer = "none" THEN 0 ELSE 1) /\ (s.fps > 0 \/ s.subs = 0)
        OBVIOUS
    <2>1. PICK q \in Pid, f \in {0, 1} : /\ s = [fps |-> f, subs |-> IF viewer = "none" THEN 0 ELSE 1]
                         /\ f \in CASE proc[q] = "frozen"  -> {0}
                                    [] proc[q] = "stalled" -> {1}
                                    [] proc[q] = "serve"   -> IF viewer = "none" THEN {0, 1} ELSE {1}
                                    [] OTHER               -> {}
        BY DEF Stats
    <2>2. f \in IF viewer = "none" THEN {0, 1} ELSE {1}
        BY <1>2, <1>3, <2>1
    <2> QED BY <2>1, <2>2
<1>6. 1 \notin check_frames
    BY <1>5 DEF check_frames
<1>7. 1 \notin check_video_rtp
    BY <1>2, <1>5 DEF check_video_rtp, CoveredInv, HealthInv, IInv, WTypeOK
<1>8. ~PassServes /\ ~At("rtp", RTP_WINDOW)
    BY <1>0 DEF PassServes, Sleep, At
<1>9. CASE check_rtsp_stream
    BY <1>4, <1>6, <1>8, <1>9 DEF check_rtsp_stream
<1>10. CASE check_rtsp_egress
    BY <1>7, <1>8, <1>10 DEF check_rtsp_egress
<1> QED BY <1>9, <1>10

\* As long as nothing goes wrong the watchdog looks on.
LEMMA HealthStep == Covered /\ IInv /\ CoveredInv /\ [WNext]_vars => HealthInv'
<1> SUFFICES ASSUME Covered, IInv, CoveredInv, [WNext]_vars, faults' = 0
             PROVE  /\ prudynt_alive' /\ \A p \in Pid : proc'[p] \in {"gone", "boot", "serve"}
                    /\ viewer' # "paused"
                    /\ RESTART_COUNT' = 0 /\ wpc' \notin {"s31", "reboot", "confirm"}
    BY DEF HealthInv
<1>0. faults = 0
    <2>1. faults' = faults \/ faults' = faults + 1
        <3>1. CASE WatchStep
            BY <3>1, ProbeCases DEF WatchStep, watch_entry, watch_disabled, watch_live, watch_gone, confirm_gone_again,
                confirm_gone_reappeared, confirm_gone_confirmed, do_restart, Restarted, watch_sleep, env
        <3>2. CASE ~WatchStep
            BY <3>2 DEF WNext, OwnStep, WTick, Reboot, OtherCall, OtherStep, ProcEnv, ViewerEnv, PortalSwitch,
                WatchdogStop, WatchdogStart, vars, env
        <3> QED BY <3>1, <3>2
    <2> QED BY <2>1 DEF IInv, WTypeOK
<1>h. /\ prudynt_alive /\ \A p \in Pid : proc[p] \in {"gone", "boot", "serve"}
      /\ viewer # "paused" /\ RESTART_COUNT = 0 /\ wpc \notin {"s31", "reboot", "confirm"}
    BY <1>0 DEF CoveredInv, HealthInv
<1> USE <1>h DEF prudynt_alive, pid_live, At, Sleep, env, watch, local, initVars
<1>1. CASE watch_entry \/ watch_disabled \/ watch_live \/ watch_gone
    BY <1>1 DEF watch_entry, watch_disabled, watch_live, watch_gone, Attempt
<1>2. CASE check_rtsp_stream \/ check_rtsp_egress
    <2>1. ~Warranted
        BY <1>0, <1>2, HealthyProbe
    <2>2. CASE PassServes
        BY <1>2, <2>2, ProbeCases DEF PassServes
    <2>3. CASE Retry \/ EntryFails \/ Excused
        BY <1>2, <2>3, ProbeCases DEF Retry, EntryFails, Excused
    <2> QED BY <1>2, <2>1, <2>2, <2>3, ProbeCases, FailCases
<1>3. CASE confirm_gone_again \/ confirm_gone_reappeared \/ confirm_gone_confirmed \/ do_restart \/ Reboot
    BY <1>3 DEF confirm_gone_again, confirm_gone_reappeared, confirm_gone_confirmed, do_restart, Restarted, Reboot
<1>4. CASE OwnStep \/ \E c \in Callers : OtherCall(c) \/ OtherStep(c)
    <2>1. pc[Watchdog] = "idle"
        BY DEF IInv, CallInv
    <2> QED BY <1>4, <2>1 DEF OwnStep, OtherCall, OtherStep, Covered, S31Step, stop_daemon_term, stop_daemon_gone,
            stop_daemon_kill, stop_daemon_polled, stop_daemon_rmpid, stop_daemon_confirm, reclaim_wait,
            config_checked, start_daemon, restart_heartbeat
<1>5. ASSUME NEW q \in Pid, ProcEnv(q)
      PROVE  /\ prudynt_alive' /\ \A p \in Pid : proc'[p] \in {"gone", "boot", "serve"}
             /\ viewer' # "paused"
             /\ RESTART_COUNT' = 0 /\ wpc' \notin {"s31", "reboot", "confirm"}
    <2>1. BootDone(q)
        BY <1>0, <1>5 DEF ProcEnv
    <2> QED BY <1>5, <2>1 DEF ProcEnv, BootDone, IInv, WTypeOK, TypeOK
<1>6. CASE ViewerEnv
    BY <1>0, <1>6 DEF ViewerEnv
<1>7. CASE watch_sleep \/ WTick \/ PortalSwitch \/ WatchdogStop \/ WatchdogStart
    BY <1>7 DEF watch_sleep, WTick, PortalSwitch, WatchdogStop, WatchdogStart
<1>8. CASE UNCHANGED vars
    BY <1>8 DEF vars
<1> QED BY <1>1, <1>2, <1>3, <1>4, <1>5, <1>6, <1>7, <1>8 DEF WNext, WatchStep

-----------------------------------------------------------------------------
\* The boot satisfies the invariants.
LEMMA WInitInv == WInit => IInv /\ CoveredInv
<1> SUFFICES ASSUME WInit PROVE IInv /\ CoveredInv
    OBVIOUS
<1> USE WatchAssumption DEF WInit, BootWatch, FreshWatch
<1>1. PICK p \in Pid : proc = [q \in Pid |-> IF q = p THEN "boot" ELSE "gone"] /\ pidfile = p
    OBVIOUS
<1>2. FlagsOK /\ hb \in BOOLEAN
    BY Zenon DEF FlagsOK
<1>3. TypeOK
    BY <1>1, <1>2 DEF TypeOK, Kinds, Ops, Steps
<1>4. wpc \in {"off", "entry"}
    OBVIOUS
<1>5. CountsOK
    BY <1>4 DEF CountsOK, Places
<1>6. LimitInv /\ CallInv /\ EntryInv
    BY <1>4 DEF LimitInv, CallInv, EntryInv
<1>7. LaunchInv
    BY <1>1 DEF LaunchInv, OnePrudynt, pid_live
<1>8. AgeInv
    BY DEF AgeInv
<1>9. BootInv
    BY <1>4 DEF BootInv
<1>10. HealthInv
    BY <1>1, <1>4 DEF HealthInv, prudynt_alive, pid_live
<1> QED BY <1>2, <1>3, <1>5, <1>6, <1>7, <1>8, <1>9, <1>10 DEF IInv, CoveredInv, WTypeOK, CountsOK, FlagsOK

\* IInv is inductive, and so is CoveredInv on a covered camera.
LEMMA WIInvStep == IInv /\ [WNext]_vars => IInv'
BY ScriptType, CountsStep, FlagsStep, CallStep, EntryStep DEF IInv, WTypeOK, CountsOK, FlagsOK

LEMMA CoveredStep == Covered /\ IInv /\ CoveredInv /\ [WNext]_vars => CoveredInv'
BY LaunchStep, AgeStep, BootStep, HealthStep DEF IInv, WTypeOK, CoveredInv

\* No counter of the loop exceeds its limit, whoever else calls the script and whatever fails.
THEOREM WatchTypeCorrect == WSpec => []WTypeOK
<1>1. IInv => WTypeOK
    BY DEF IInv
<1> QED BY <1>1, WInitInv, WIInvStep, PTL DEF WSpec

\* On a covered camera, whatever the intervals, limits and timeouts: the types, and a camera
\* on which nothing went wrong is never restarted.
THEOREM WatchSafe == Covered => (WSpec => []WatchInv)
<1> SUFFICES ASSUME Covered PROVE WSpec => []WatchInv
    OBVIOUS
<1>1. IInv /\ CoveredInv => WatchInv
    BY DEF IInv, CoveredInv, HealthInv, WatchInv, HealthyUntouched
<1>2. IInv /\ CoveredInv /\ [WNext]_vars => CoveredInv'
    BY CoveredStep
<1> QED BY <1>1, <1>2, WInitInv, WIInvStep, PTL DEF WSpec

\* On a covered camera the watchdog never restarts a prudynt in its bring-up, also after
\* crashes, wedges, aborted restarts, portal mode and reboots.
THEOREM BringupSafe == Covered => (WSpec => BringupUndisturbed)
<1> SUFFICES ASSUME Covered PROVE WSpec => BringupUndisturbed
    OBVIOUS
<1>1. IInv /\ CoveredInv /\ [WNext]_vars => CoveredInv'
    BY CoveredStep
<1>2. IInv /\ CoveredInv /\ [WNext]_vars
        => [wpc # "s31" /\ wpc' = "s31" => \A p \in Pid : proc[p] # "boot"]_vars
    BY RestartWarranted
<1> QED BY <1>1, <1>2, WInitInv, WIInvStep, PTL DEF WSpec, BringupUndisturbed

-----------------------------------------------------------------------------
(* The reboot backstop, with the history variable of MCStreamWatchdog. A   *)
(* wedged prudynt answers nothing and survives every restart, so what is   *)
(* left of the way to the reboot can be read off the counters: the probe   *)
(* and the sleep under way, the grace, the cycles until DOWN_STREAK_LIMIT  *)
(* and the rounds until RESTART_LIMIT. Due says that it fits.              *)

\* A camera that is covered and whose recovery is not slower than its watch.
Timely == Covered /\ RECOVER_INTERVAL <= INTERVAL

\* The time of m passes after the first, of m cycles after n restarts and of m fast rounds.
PassTime == RETRY_DELAY + 2 * CHECK_TIMEOUT
Passes(m) == m * PassTime
FailTime == 2 * CHECK_TIMEOUT + Passes(RETRY_COUNT - 1)
Cycle(n) == current_interval(n) + ProbeTime
Cycles(m, n) == m * Cycle(n)
Round == DOWN_STREAK_LIMIT * (RECOVER_INTERVAL + ProbeTime) + AbortTime
Rounds(m) == m * Round

\* From the restart after n others to the reboot, and from the end of the grace to the reboot.
Final(n) == AbortTime + Rounds(RESTART_LIMIT - 1 - n)
Full(n) == Cycles(DOWN_STREAK_LIMIT, n) + Final(n)

\* No sleep and no timeout is longer than the code sets it, and confirm_gone has nothing to see.
TimerInv ==
    /\ wpc = "probe" => count \in 1 .. RETRY_COUNT /\ timer + Passes(RETRY_COUNT - count) <= FailTime
    /\ wpc = "rtp" => count \in 1 .. RETRY_COUNT /\ timer <= RTP_WINDOW
    /\ wpc = "sleep" => timer <= INTERVAL
    /\ wpc = "top" => timer = 0
    /\ wpc = "confirm" => ~prudynt_alive
    /\ pc[Watchdog] = "termwait" => wait[Watchdog] <= TERM_GRACE
    /\ pc[Watchdog] = "killwait" => wait[Watchdog] <= KILL_GRACE

\* A prudynt that is probed or stopped by the loop has been seen alive: no grace is armed for
\* it any more.
Seen == LAST_LIVE /\ ~STREAMER_WAS_DISABLED
Stopping == pc[Watchdog] \in {"check", "termwait", "killwait", "rmpid", "confirm"}
SeenInv ==
    /\ wpc \in {"probe", "rtp"} /\ ~entry => Seen
    /\ wpc = "confirm" => ~STREAMER_WAS_DISABLED
    /\ wpc = "s31" /\ Stopping /\ prudynt_alive => Seen
    /\ wpc = "s31" /\ pc[Watchdog] = "idle" /\ rc[Watchdog] = 1 => Seen

\* What is left of the bound: before the loop, in the loop, with a grace to come or running, and
\* during a restart.
EntryDue ==
    /\ wpc = "entry" => stuck + FailTime + GRACE + Full(0) <= RebootBound
    /\ wpc = "probe" /\ entry => stuck + timer + Passes(RETRY_COUNT - count) + GRACE + Full(0) <= RebootBound
    /\ wpc = "rtp" => stuck + timer + GRACE + Full(0) <= RebootBound
LeftInCycle == Cycles(DOWN_STREAK_LIMIT - 1 - DOWN_STREAK, RESTART_COUNT) + Final(RESTART_COUNT)
LoopDue ==
    /\ wpc = "probe" /\ ~entry => stuck + timer + Passes(RETRY_COUNT - count) + LeftInCycle <= RebootBound
    /\ wpc \in {"sleep", "top"} => stuck + timer + ProbeTime + LeftInCycle <= RebootBound
    /\ wpc \in {"sleep", "top"} /\ ~Seen => stuck + timer + GRACE + Full(RESTART_COUNT) <= RebootBound
    /\ wpc \in {"sleep", "top", "probe"} /\ ~entry /\ GRACE_UNTIL > 0 =>
           stuck + GRACE_UNTIL + Full(RESTART_COUNT) <= RebootBound
RestartDue ==
    wpc = "s31" =>
    /\ pc[Watchdog] = "check" => stuck + Final(RESTART_COUNT) <= RebootBound
    /\ pc[Watchdog] = "termwait" =>
           stuck + wait[Watchdog] + KILL_GRACE + Rounds(RESTART_LIMIT - 1 - RESTART_COUNT) <= RebootBound
    /\ pc[Watchdog] = "killwait" => stuck + wait[Watchdog] + Rounds(RESTART_LIMIT - 1 - RESTART_COUNT) <= RebootBound
    /\ pc[Watchdog] \in {"rmpid", "confirm", "idle"} => stuck + Rounds(RESTART_LIMIT - 1 - RESTART_COUNT) <= RebootBound
    /\ pc[Watchdog] = "hb" \/ (pc[Watchdog] = "idle" /\ rc[Watchdog] = 0) =>
           stuck + RECOVER_INTERVAL + GRACE + Rounds(RESTART_LIMIT - 1 - RESTART_COUNT) <= RebootBound
Due == EntryDue /\ LoopDue /\ RestartDue
BackstopInv == stuck \in Nat /\ (Acting => Due) /\ (~Acting => stuck = 0)

\* Multiples.
LEMMA OneMore == ASSUME NEW m \in Nat, NEW x \in Nat PROVE (m + 1) * x = m * x + x /\ m * x \in Nat /\ 0 * x = 0
BY SMT
LEMMA NoMore == ASSUME NEW m \in Nat, NEW k \in Nat, NEW x \in Nat, m <= k PROVE m * x <= k * x
BY SMT

\* The times are numbers, and a probe that fails takes no longer than the longest one.
LEMMA TimesNat == /\ PassTime \in Nat /\ ProbeTime \in Nat /\ AbortTime \in Nat /\ FailTime \in Nat /\ Round \in Nat
                  /\ FailTime <= ProbeTime /\ RTP_WINDOW <= ProbeTime
<1> USE WatchAssumption, InitAssumption
<1>1. PassTime \in Nat /\ AbortTime \in Nat
    BY DEF PassTime, AbortTime
<1>2. PICK r \in Nat : RETRY_COUNT = r + 1
    <2>1. RETRY_COUNT - 1 \in Nat /\ RETRY_COUNT = (RETRY_COUNT - 1) + 1
        OBVIOUS
    <2> QED BY <2>1
<1>3. PICK w \in Nat : w = 2 * CHECK_TIMEOUT + RTP_WINDOW
    OBVIOUS
<1>4. /\ RETRY_COUNT * w = r * w + w /\ r * w \in Nat
      /\ r * RETRY_DELAY \in Nat /\ r * PassTime \in Nat
    BY <1>1, <1>2, OneMore
<1>5. r * PassTime <= r * w + r * RETRY_DELAY
    <2>1. r * (w + RETRY_DELAY) = r * w + r * RETRY_DELAY
        OBVIOUS
    <2>2. PassTime \in Nat /\ w + RETRY_DELAY \in Nat /\ PassTime <= w + RETRY_DELAY
        BY <1>3 DEF PassTime
    <2>3. PassTime * r <= (w + RETRY_DELAY) * r
        BY <2>2, NoMore
    <2>4. PassTime * r = r * PassTime /\ (w + RETRY_DELAY) * r = r * (w + RETRY_DELAY)
        BY <2>2
    <2> QED BY <2>1, <2>3, <2>4
<1>6. ProbeTime = r * w + w + r * RETRY_DELAY
    BY <1>2, <1>3, <1>4 DEF ProbeTime
<1>7. FailTime = 2 * CHECK_TIMEOUT + r * PassTime
    BY <1>2 DEF FailTime, Passes
<1>8. Round \in Nat
    <2>1. RECOVER_INTERVAL + ProbeTime \in Nat
        BY <1>4, <1>6
    <2> QED BY <1>1, <2>1, OneMore DEF Round
<1> QED BY <1>1, <1>3, <1>4, <1>5, <1>6, <1>7, <1>8

LEMMA PassFacts == /\ Passes(0) = 0
                   /\ \A m \in Nat : Passes(m) \in Nat /\ Passes(m + 1) = Passes(m) + PassTime
                   /\ \A m, k \in Nat : m <= k => Passes(m) <= Passes(k)
BY TimesNat, OneMore, NoMore DEF Passes
LEMMA CycleFacts == \A n \in Nat :
                   /\ Cycle(n) = current_interval(n) + ProbeTime /\ Cycle(n) \in Nat
                   /\ Cycles(0, n) = 0
                   /\ \A m \in Nat : Cycles(m, n) \in Nat /\ Cycles(m + 1, n) = Cycles(m, n) + Cycle(n)
                   /\ \A m, k \in Nat : m <= k => Cycles(m, n) <= Cycles(k, n)
<1> TAKE n \in Nat
<1>1. Cycle(n) \in Nat
    BY TimesNat, IntervalNat DEF Cycle
<1> QED BY <1>1, OneMore, NoMore DEF Cycles, Cycle
LEMMA RoundFacts == /\ Rounds(0) = 0
                    /\ \A m \in Nat : Rounds(m) \in Nat /\ Rounds(m + 1) = Rounds(m) + Round
                    /\ \A m, k \in Nat : m <= k => Rounds(m) <= Rounds(k)
BY TimesNat, OneMore, NoMore DEF Rounds

\* After the first restart all rounds are fast, so the longest way is the one from the start.
LEMMA FullFacts == \A n \in 0 .. RESTART_LIMIT - 1 :
                   /\ Final(n) = AbortTime + Rounds(RESTART_LIMIT - 1 - n)
                   /\ Rounds(RESTART_LIMIT - 1 - n) \in Nat /\ Rounds(RESTART_LIMIT - 1 - n) + AbortTime <= Full(0)
                   /\ Full(n) = Cycles(DOWN_STREAK_LIMIT, n) + Final(n)
                   /\ Full(n) \in Nat /\ Full(n) <= Full(0)
                   /\ n > 0 => Full(n) = Rounds(RESTART_LIMIT - n)
<1> USE WatchAssumption, TimesNat
<1> TAKE n \in 0 .. RESTART_LIMIT - 1
<1>1. /\ n \in Nat /\ RESTART_LIMIT - 1 - n \in Nat /\ RESTART_LIMIT - 1 \in Nat /\ RESTART_LIMIT - 1 - 0 = RESTART_LIMIT - 1
      /\ RESTART_LIMIT - n = (RESTART_LIMIT - 1 - n) + 1 /\ RESTART_LIMIT - n \in Nat
      /\ DOWN_STREAK_LIMIT \in Nat
    OBVIOUS
<1>2. /\ Rounds(RESTART_LIMIT - 1 - n) \in Nat /\ Rounds(RESTART_LIMIT - 1) \in Nat
      /\ Rounds(RESTART_LIMIT - 1 - n) <= Rounds(RESTART_LIMIT - 1)
      /\ Rounds(RESTART_LIMIT - n) = Rounds(RESTART_LIMIT - 1 - n) + Round
      /\ n > 0 => Rounds(RESTART_LIMIT - n) <= Rounds(RESTART_LIMIT - 1)
    <2>1. n > 0 => RESTART_LIMIT - n <= RESTART_LIMIT - 1
        OBVIOUS
    <2>2. RESTART_LIMIT - 1 - n <= RESTART_LIMIT - 1
        OBVIOUS
    <2> QED BY <1>1, <2>1, <2>2, RoundFacts
<1>3. Cycles(DOWN_STREAK_LIMIT, n) \in Nat /\ Cycles(DOWN_STREAK_LIMIT, 0) \in Nat
    BY <1>1, CycleFacts
<1>4. Full(0) = Cycles(DOWN_STREAK_LIMIT, 0) + AbortTime + Rounds(RESTART_LIMIT - 1)
    BY <1>1, <1>2, <1>3 DEF Full, Final
<1>5. ASSUME n > 0 PROVE Full(n) = Rounds(RESTART_LIMIT - n)
    <2>1. Cycles(DOWN_STREAK_LIMIT, n) + AbortTime = Round
        BY <1>5 DEF Cycles, Cycle, current_interval, Round
    <2> QED BY <1>2, <1>3, <2>1 DEF Full, Final
<1>6. Full(n) = Cycles(DOWN_STREAK_LIMIT, n) + Final(n) /\ Final(n) = AbortTime + Rounds(RESTART_LIMIT - 1 - n)
    BY DEF Full, Final
<1>7. CASE n = 0
    BY <1>2, <1>3, <1>4, <1>6, <1>7
<1>8. CASE n > 0
    BY <1>2, <1>3, <1>4, <1>5, <1>6, <1>8
<1> QED BY <1>7, <1>8

\* RebootBound is the longest way from a sleep or a probe before the grace.
LEMMA BoundSum == RebootBound = INTERVAL + GRACE + ProbeTime + Full(0)
<1> USE WatchAssumption, TimesNat
<1>1. PICK d \in Nat : DOWN_STREAK_LIMIT = d + 1
    <2>1. DOWN_STREAK_LIMIT - 1 \in Nat /\ DOWN_STREAK_LIMIT = (DOWN_STREAK_LIMIT - 1) + 1
        OBVIOUS
    <2> QED BY <2>1
<1>2. DOWN_STREAK_LIMIT - 1 = d /\ RESTART_LIMIT - 1 - 0 = RESTART_LIMIT - 1
    BY <1>1
<1>3. PICK c \in Nat : c = INTERVAL + ProbeTime
    OBVIOUS
<1>4. Cycle(0) = c
    BY <1>3 DEF Cycle, current_interval
<1>5. Cycles(DOWN_STREAK_LIMIT, 0) = d * c + c /\ d * c \in Nat
    BY <1>1, <1>4, OneMore DEF Cycles
<1>6. RESTART_LIMIT - 1 \in Nat
    OBVIOUS
<1>7. Rounds(RESTART_LIMIT - 1) \in Nat
    BY <1>6, RoundFacts
<1>8. RebootBound = INTERVAL + GRACE + ProbeTime + INTERVAL + d * c + ProbeTime + AbortTime + Rounds(RESTART_LIMIT - 1)
    BY <1>2, <1>3 DEF RebootBound, Rounds, Round
<1> QED BY <1>2, <1>3, <1>5, <1>7, <1>8 DEF Full, Final

\* A wedged prudynt is the only one, is alive, answers nothing and cannot change.
LEMMA WedgedFacts == OnePrudynt /\ Wedged => /\ prudynt_alive /\ ~Answers /\ Stats = {}
                                             /\ \A p \in Pid : proc[p] \in {"gone", "dstate"} /\ ~Killable(p)
<1> SUFFICES ASSUME OnePrudynt, Wedged
             PROVE  /\ prudynt_alive /\ ~Answers /\ Stats = {}
                    /\ \A p \in Pid : proc[p] \in {"gone", "dstate"} /\ ~Killable(p)
    OBVIOUS
<1>1. PICK p \in Pid : proc[p] = "dstate"
    BY DEF Wedged
<1>2. \A q \in Pid : proc[q] \in {"gone", "dstate"}
    BY <1>1 DEF OnePrudynt, pid_live
<1>3. prudynt_alive /\ ~Answers /\ \A q \in Pid : ~Killable(q)
    BY <1>1, <1>2 DEF prudynt_alive, pid_live, Answers, Killable
<1>4. \A q \in Pid : proc[q] # "frozen" /\ proc[q] # "stalled" /\ proc[q] # "serve"
    BY <1>2
<1>5. Stats = {}
    <2>1. \A q \in Pid : (CASE proc[q] = "frozen"  -> {0}
                          [] proc[q] = "stalled" -> {1}
                          [] proc[q] = "serve"   -> IF viewer = "none" THEN {0, 1} ELSE {1}
                          [] OTHER               -> {}) = {}
        BY <1>4
    <2> QED BY <2>1 DEF Stats
<1> QED BY <1>2, <1>3, <1>5

\* What a failed pass leads to, with the clock readable.
Repeated == /\ count < RETRY_COUNT /\ count' = count + 1 /\ wpc' = "probe"
            /\ timer' \in Nat /\ timer' <= PassTime
            /\ UNCHANGED <<initVars, entry, local>>
Forgiven == /\ ~entry /\ count >= RETRY_COUNT /\ GRACE_UNTIL > 0 /\ DOWN_STREAK' = 0
            /\ Sleep(current_interval(RESTART_COUNT))
            /\ UNCHANGED <<initVars, entry, RESTART_COUNT, GRACE_UNTIL, LAST_LIVE, STREAMER_WAS_DISABLED>>
Noted == /\ ~entry /\ count >= RETRY_COUNT /\ ~(GRACE_UNTIL > 0)
         /\ DOWN_STREAK' = DOWN_STREAK + 1 /\ DOWN_STREAK + 1 < DOWN_STREAK_LIMIT
         /\ Sleep(current_interval(RESTART_COUNT))
         /\ UNCHANGED <<initVars, entry, RESTART_COUNT, GRACE_UNTIL, LAST_LIVE, STREAMER_WAS_DISABLED>>
Judged == /\ ~entry /\ count >= RETRY_COUNT /\ ~(DOWN_STREAK + 1 < DOWN_STREAK_LIMIT) /\ CallRestart
          /\ UNCHANGED <<entry, RESTART_COUNT, GRACE_UNTIL, LAST_LIVE, STREAMER_WAS_DISABLED>>
LEMMA FailOutcomes == Covered /\ PassFails /\ count \in Nat =>
                        \/ Repeated
                        \/ EntryFails /\ count >= RETRY_COUNT
                        \/ Forgiven \/ Noted \/ Judged
<1> SUFFICES ASSUME Covered, PassFails, count \in Nat
             PROVE Repeated \/ (EntryFails /\ count >= RETRY_COUNT) \/ Forgiven \/ Noted \/ Judged
    OBVIOUS
<1> USE WatchAssumption
<1>1. CASE count < RETRY_COUNT
    <2>1. PICK t \in 0 .. 2 * CHECK_TIMEOUT : At("probe", RETRY_DELAY + t)
        BY <1>1 DEF PassFails
    <2> QED BY <1>1, <2>1 DEF PassFails, Repeated, At, PassTime
<1>2. CASE ~(count < RETRY_COUNT) /\ entry
    BY <1>2 DEF PassFails, EntryFails
<1>3. CASE ~(count < RETRY_COUNT) /\ ~entry
    <2>0. count >= RETRY_COUNT
        BY <1>3
    <2>1. PICK inside \in within_grace :
              IF inside
              THEN DOWN_STREAK' = 0 /\ Sleep(current_interval(RESTART_COUNT)) /\ UNCHANGED initVars
              ELSE /\ DOWN_STREAK' = DOWN_STREAK + 1
                   /\ IF DOWN_STREAK + 1 < DOWN_STREAK_LIMIT
                      THEN Sleep(current_interval(RESTART_COUNT)) /\ UNCHANGED initVars
                      ELSE CallRestart
        BY <1>3 DEF PassFails
    <2>2. UNCHANGED <<entry, RESTART_COUNT, GRACE_UNTIL, LAST_LIVE, STREAMER_WAS_DISABLED>>
        BY <1>3 DEF PassFails
    <2>3. inside = (GRACE_UNTIL > 0)
        BY Zenon DEF Covered, within_grace
    <2>4. CASE inside
        BY <1>3, <2>0, <2>1, <2>2, <2>3, <2>4 DEF Forgiven
    <2>5. CASE ~inside
        <3>1. CASE DOWN_STREAK + 1 < DOWN_STREAK_LIMIT
            BY <1>3, <2>0, <2>1, <2>2, <2>3, <2>5, <3>1 DEF Noted
        <3>2. CASE ~(DOWN_STREAK + 1 < DOWN_STREAK_LIMIT)
            BY <1>3, <2>0, <2>1, <2>2, <2>3, <2>5, <3>2 DEF Judged
        <3> QED BY <3>1, <3>2
    <2> QED BY <2>4, <2>5
<1> QED BY <1>1, <1>2, <1>3

\* A first pass and the sleeps keep their time.
LEMMA AttemptTime == Attempt(1) => /\ wpc' = "probe" /\ count' = 1 /\ timer' \in Nat /\ timer' <= 2 * CHECK_TIMEOUT
                                   /\ count' \in 1 .. RETRY_COUNT
                                   /\ timer' + Passes(RETRY_COUNT - count') <= FailTime
<1> SUFFICES ASSUME Attempt(1)
             PROVE  /\ wpc' = "probe" /\ count' = 1 /\ timer' \in Nat /\ timer' <= 2 * CHECK_TIMEOUT
                    /\ count' \in 1 .. RETRY_COUNT /\ timer' + Passes(RETRY_COUNT - count') <= FailTime
    OBVIOUS
<1> USE WatchAssumption
<1>1. PICK t \in 0 .. 2 * CHECK_TIMEOUT : At("probe", t)
    BY DEF Attempt
<1>2. wpc' = "probe" /\ count' = 1 /\ timer' \in Nat /\ timer' <= 2 * CHECK_TIMEOUT
    BY <1>1 DEF At, Attempt
<1>3. RETRY_COUNT - 1 \in Nat
    OBVIOUS
<1>4. Passes(RETRY_COUNT - 1) \in Nat
    BY <1>3, PassFacts
<1> QED BY <1>2, <1>4 DEF FailTime
LEMMA IntervalTime == Timely => \A n \in Nat : current_interval(n) <= INTERVAL
BY WatchAssumption DEF Timely, current_interval

LEMMA TimerStep == Timely /\ IInv /\ TimerInv /\ [WNext]_vars => TimerInv'
<1> SUFFICES ASSUME Timely, IInv, TimerInv, [WNext]_vars PROVE TimerInv'
    OBVIOUS
<1> USE WatchAssumption, InitAssumption, IntervalTime DEF Timely, IInv, WTypeOK, TypeOK, CallInv, TimerInv, env, initVars, At, Sleep
<1>1. CASE watch_entry \/ watch_live
    BY <1>1, AttemptTime DEF watch_entry, watch_live
<1>2. CASE watch_disabled \/ watch_gone \/ confirm_gone_again
    BY <1>2 DEF watch_disabled, watch_gone, confirm_gone_again, prudynt_alive, pid_live
<1>3. CASE confirm_gone_reappeared
    BY <1>3, AttemptTime DEF confirm_gone_reappeared
<1>4. ASSUME CallRestart PROVE TimerInv'
    BY <1>4 DEF CallRestart, Invoke, Goto
<1>5. CASE confirm_gone_confirmed
    BY <1>4, <1>5 DEF confirm_gone_confirmed
<1>6. CASE check_rtsp_stream \/ check_rtsp_egress
    <2>1. /\ wpc \in {"probe", "rtp"} /\ UNCHANGED env
          /\ \/ PassFails
             \/ PassServes
             \/ At("rtp", RTP_WINDOW) /\ UNCHANGED <<initVars, count, entry, local>>
        BY <1>6, ProbeCases
    <2>2. count \in 1 .. RETRY_COUNT
        BY <2>1
    <2>3. CASE Repeated
        <3>1. PICK m \in Nat : m = RETRY_COUNT - (count + 1)
            BY <2>2, <2>3 DEF Repeated
        <3>2. m + 1 <= RETRY_COUNT - 1 /\ m + 1 \in Nat /\ RETRY_COUNT - 1 \in Nat
            BY <2>2, <3>1
        <3>3. Passes(m + 1) = Passes(m) + PassTime /\ Passes(m + 1) <= Passes(RETRY_COUNT - 1)
              /\ Passes(m) \in Nat /\ Passes(RETRY_COUNT - 1) \in Nat
            BY <3>2, PassFacts
        <3>4. timer' + Passes(m) <= FailTime
            BY <2>3, <3>3, TimesNat DEF Repeated, FailTime
        <3> QED BY <2>1, <2>2, <2>3, <3>1, <3>4 DEF Repeated
    <2>4. CASE EntryFails \/ Forgiven \/ Noted
        BY <2>1, <2>4 DEF EntryFails, Forgiven, Noted
    <2>5. CASE Judged
        BY <1>4, <2>5 DEF Judged
    <2>6. CASE PassServes
        <3>1. CASE entry
            BY <2>1, <2>6, <3>1 DEF PassServes
        <3>2. CASE ~entry
            <4>1. RESTART_COUNT' \in Nat
                BY <2>6, <3>2 DEF PassServes
            <4> QED BY <2>1, <2>6, <3>2, <4>1 DEF PassServes
        <3> QED BY <3>1, <3>2
    <2>7. CASE At("rtp", RTP_WINDOW) /\ UNCHANGED <<initVars, count, entry, local>>
        BY <2>1, <2>2, <2>7
    <2> QED BY <2>1, <2>2, <2>3, <2>4, <2>5, <2>6, <2>7, FailOutcomes
<1>7. CASE do_restart
    BY <1>7 DEF do_restart, Restarted
<1>8. CASE watch_sleep \/ ViewerEnv \/ PortalSwitch \/ WatchdogStop \/ WatchdogStart
    BY <1>8 DEF watch_sleep, ViewerEnv, PortalSwitch, WatchdogStop, WatchdogStart, watch, prudynt_alive, pid_live
<1>9. CASE WTick
    <2>1. /\ wait' \in [Callers -> Nat] /\ wait'[Watchdog] <= wait[Watchdog]
          /\ timer' \in Nat /\ timer' <= timer
          /\ UNCHANGED <<proc, pc, wpc, count>>
        BY <1>9 DEF WTick, TimersDown, Less
    <2>2. wpc = "probe" => Passes(RETRY_COUNT - count) \in Nat
        BY PassFacts
    <2> QED BY <2>1, <2>2, TimesNat DEF prudynt_alive, pid_live
<1>10. CASE OwnStep
    <2> USE DEF Goto, Exit, watch
    <2>0. pc[Watchdog] # "idle" /\ wpc = "s31" /\ UNCHANGED <<wpc, timer, count>>
        BY <1>10 DEF OwnStep, S31Step, stop_daemon_term, stop_daemon_gone, stop_daemon_kill, stop_daemon_polled,
            stop_daemon_rmpid, stop_daemon_confirm, reclaim_wait, config_checked, start_daemon, restart_heartbeat
    <2>1. CASE stop_daemon_term(Watchdog)    BY <2>0, <2>1 DEF stop_daemon_term
    <2>2. CASE stop_daemon_gone(Watchdog)    BY <2>0, <2>2 DEF stop_daemon_gone
    <2>3. CASE stop_daemon_kill(Watchdog)    BY <2>0, <2>3 DEF stop_daemon_kill
    <2>4. CASE stop_daemon_polled(Watchdog)  BY <2>0, <2>4 DEF stop_daemon_polled
    <2>5. CASE stop_daemon_rmpid(Watchdog)   BY <2>0, <2>5 DEF stop_daemon_rmpid
    <2>6. CASE stop_daemon_confirm(Watchdog) BY <2>0, <2>6 DEF stop_daemon_confirm
    <2>7. CASE reclaim_wait(Watchdog)        BY <2>0, <2>7 DEF reclaim_wait, EnterStart
    <2>8. CASE config_checked(Watchdog)      BY <2>0, <2>8 DEF config_checked
    <2>9. CASE start_daemon(Watchdog)        BY <2>0, <2>9 DEF start_daemon
    <2>10. CASE restart_heartbeat(Watchdog)  BY <2>0, <2>10 DEF restart_heartbeat
    <2> QED BY <1>10, <2>1, <2>2, <2>3, <2>4, <2>5, <2>6, <2>7, <2>8, <2>9, <2>10 DEF OwnStep, S31Step
<1>11. CASE \E c \in Callers : OtherCall(c) \/ OtherStep(c)
    BY <1>11 DEF OtherCall, OtherStep, Covered
<1>12. CASE \E p \in Pid : ProcEnv(p)
    BY <1>12 DEF ProcEnv, watch, BootDone, Crash, Fail, Killable, prudynt_alive, pid_live
<1>13. CASE Reboot
    BY <1>13 DEF Reboot
<1>14. CASE UNCHANGED vars
    BY <1>14 DEF vars, watch, prudynt_alive, pid_live
<1> QED BY <1>1, <1>2, <1>3, <1>5, <1>6, <1>7, <1>8, <1>9, <1>10, <1>11, <1>12, <1>13, <1>14 DEF WNext, WatchStep

LEMMA SeenStep == Covered /\ IInv /\ LaunchInv /\ TimerInv /\ SeenInv /\ [WNext]_vars => SeenInv'
<1> SUFFICES ASSUME Covered, IInv, LaunchInv, TimerInv, SeenInv, [WNext]_vars PROVE SeenInv'
    OBVIOUS
<1>0. /\ TypeOK /\ EntryInv /\ CallInv /\ Watchdog \in Callers
      /\ wpc = "confirm" => ~prudynt_alive
    BY WatchAssumption DEF IInv, WTypeOK, TimerInv
<1> USE <1>0 DEF TypeOK, SeenInv, Seen, Stopping, prudynt_alive, pid_live, env, initVars, At, Sleep
<1>1. CASE watch_entry \/ watch_live \/ confirm_gone_reappeared
    BY <1>1 DEF watch_entry, watch_live, confirm_gone_reappeared, Attempt, EntryInv, CallInv
<1>2. CASE watch_disabled \/ watch_gone \/ confirm_gone_again
    BY <1>2 DEF watch_disabled, watch_gone, confirm_gone_again, local
<1>3. CASE confirm_gone_confirmed
    BY <1>3 DEF confirm_gone_confirmed, CallRestart, Invoke, Goto
<1>4. CASE check_rtsp_stream \/ check_rtsp_egress
    <2>0. wpc \in {"probe", "rtp"}
        BY <1>4, ProbeCases
    <2>1. CASE Retry
        BY <2>0, <2>1 DEF Retry, local
    <2>5. CASE EntryFails \/ Excused
        <3>1. wpc' \in {"top", "sleep"}
            BY <2>5 DEF EntryFails, Excused
        <3> QED BY <3>1
    <2>2. CASE Warranted
        BY <2>0, <2>2 DEF Warranted, CallRestart, Invoke, Goto
    <2>3. CASE PassServes
        BY <2>0, <2>3 DEF PassServes
    <2>4. CASE At("rtp", RTP_WINDOW) /\ UNCHANGED <<initVars, count, entry, local>>
        BY <2>0, <2>4 DEF local
    <2> QED BY <1>4, <2>1, <2>2, <2>3, <2>4, <2>5, ProbeCases, FailCases
<1>5. CASE do_restart \/ watch_sleep \/ ViewerEnv \/ PortalSwitch \/ WatchdogStop \/ WatchdogStart \/ WTick
    BY <1>5 DEF do_restart, Restarted, watch_sleep, ViewerEnv, PortalSwitch, WatchdogStop, WatchdogStart, WTick, watch, local
<1>6. CASE OwnStep
    <2> USE DEF Goto, Exit
    <2>0. UNCHANGED <<wpc, entry, LAST_LIVE, STREAMER_WAS_DISABLED>>
        BY <1>6 DEF OwnStep, watch, local
    <2>a. pc[Watchdog] # "idle" => op[Watchdog] = "restart"
        BY DEF CallInv
    <2>1. CASE stop_daemon_term(Watchdog)    BY <2>0, <2>1 DEF stop_daemon_term
    <2>2. CASE stop_daemon_gone(Watchdog)    BY <2>0, <2>a, <2>2 DEF stop_daemon_gone
    <2>3. CASE stop_daemon_kill(Watchdog)    BY <2>0, <2>3 DEF stop_daemon_kill
    <2>4. CASE stop_daemon_polled(Watchdog)  BY <2>0, <2>4 DEF stop_daemon_polled
    <2>5. CASE stop_daemon_rmpid(Watchdog)   BY <2>0, <2>5 DEF stop_daemon_rmpid
    <2>6. CASE stop_daemon_confirm(Watchdog) BY <2>0, <2>a, <2>6 DEF stop_daemon_confirm
    <2>7. CASE reclaim_wait(Watchdog)        BY <2>0, <2>7 DEF reclaim_wait, EnterStart
    <2>8. CASE config_checked(Watchdog)      BY <2>0, <2>8 DEF config_checked
    <2>9. CASE start_daemon(Watchdog)        BY <2>0, <2>9 DEF start_daemon, LaunchInv
    <2>10. CASE restart_heartbeat(Watchdog)  BY <2>0, <2>10 DEF restart_heartbeat
    <2> QED BY <1>6, <2>1, <2>2, <2>3, <2>4, <2>5, <2>6, <2>7, <2>8, <2>9, <2>10 DEF OwnStep, S31Step
<1>7. CASE \E c \in Callers : OtherCall(c) \/ OtherStep(c)
    BY <1>7 DEF OtherCall, OtherStep, Covered
<1>8. CASE \E p \in Pid : ProcEnv(p)
    BY <1>8 DEF ProcEnv, watch, local, BootDone, Crash, Fail, Killable
<1>9. CASE Reboot
    BY <1>9 DEF Reboot
<1>10. CASE UNCHANGED vars
    BY <1>10 DEF vars, watch, local
<1> QED BY <1>1, <1>2, <1>3, <1>4, <1>5, <1>6, <1>7, <1>8, <1>9, <1>10 DEF WNext, WatchStep

\* What is left of a round is no more than a whole one.
LEMMA LeftFacts == IInv => /\ wpc # "reboot" => /\ RESTART_COUNT \in 0 .. RESTART_LIMIT - 1
                                                /\ Full(RESTART_COUNT) \in Nat /\ Full(RESTART_COUNT) <= Full(0)
                                                /\ Final(RESTART_COUNT) \in Nat
                           /\ wpc \notin {"s31", "reboot"} =>
                                 LeftInCycle \in Nat /\ LeftInCycle + Cycle(RESTART_COUNT) <= Full(RESTART_COUNT)
<1> SUFFICES ASSUME IInv, wpc # "reboot"
             PROVE  /\ RESTART_COUNT \in 0 .. RESTART_LIMIT - 1
                    /\ Full(RESTART_COUNT) \in Nat /\ Full(RESTART_COUNT) <= Full(0)
                    /\ Final(RESTART_COUNT) \in Nat
                    /\ wpc # "s31" => LeftInCycle \in Nat /\ LeftInCycle + Cycle(RESTART_COUNT) <= Full(RESTART_COUNT)
    OBVIOUS
<1> USE WatchAssumption, TimesNat
<1>1. RESTART_COUNT \in 0 .. RESTART_LIMIT - 1 /\ RESTART_COUNT \in Nat
    BY DEF IInv, LimitInv, WTypeOK
<1>2. /\ Full(RESTART_COUNT) \in Nat /\ Full(RESTART_COUNT) <= Full(0)
      /\ Full(RESTART_COUNT) = Cycles(DOWN_STREAK_LIMIT, RESTART_COUNT) + Final(RESTART_COUNT)
      /\ Final(RESTART_COUNT) \in Nat
    BY <1>1, FullFacts
<1>3. ASSUME wpc # "s31" PROVE LeftInCycle \in Nat /\ LeftInCycle + Cycle(RESTART_COUNT) <= Full(RESTART_COUNT)
    <2>1. PICK m \in Nat : m = DOWN_STREAK_LIMIT - 1 - DOWN_STREAK
        BY <1>3 DEF IInv, LimitInv, WTypeOK
    <2>2. m + 1 \in Nat /\ m + 1 <= DOWN_STREAK_LIMIT /\ DOWN_STREAK_LIMIT \in Nat
        BY <2>1 DEF IInv, WTypeOK
    <2>3. /\ Cycles(m, RESTART_COUNT) \in Nat /\ Cycle(RESTART_COUNT) \in Nat
          /\ Cycles(m + 1, RESTART_COUNT) = Cycles(m, RESTART_COUNT) + Cycle(RESTART_COUNT)
          /\ Cycles(m + 1, RESTART_COUNT) <= Cycles(DOWN_STREAK_LIMIT, RESTART_COUNT)
          /\ Cycles(DOWN_STREAK_LIMIT, RESTART_COUNT) \in Nat
        BY <1>1, <2>2, CycleFacts
    <2> QED BY <1>2, <2>1, <2>3 DEF LeftInCycle
<1> QED BY <1>1, <1>2, <1>3

\* Wherever the loop is when prudynt gets stuck, the whole bound is enough.
LEMMA FreshDue == Timely /\ IInv /\ TimerInv /\ stuck = 0 /\ wpc # "reboot" => Due
<1> SUFFICES ASSUME Timely, IInv, TimerInv, stuck = 0, wpc # "reboot" PROVE Due
    OBVIOUS
<1> USE WatchAssumption, InitAssumption, TimesNat, BoundSum, LeftFacts
<1>1. /\ Rounds(RESTART_LIMIT - 1 - RESTART_COUNT) \in Nat
      /\ Rounds(RESTART_LIMIT - 1 - RESTART_COUNT) + AbortTime <= Full(0)
      /\ Final(RESTART_COUNT) = AbortTime + Rounds(RESTART_LIMIT - 1 - RESTART_COUNT)
      /\ Full(0) \in Nat
    BY FullFacts
<1>2. RESTART_COUNT \in Nat /\ Cycle(RESTART_COUNT) \in Nat
    BY CycleFacts
<1>3. timer \in Nat /\ wait[Watchdog] \in Nat /\ GRACE_UNTIL \in 0 .. GRACE
    BY DEF IInv, WTypeOK, TypeOK
<1>4. wpc = "probe" => /\ Passes(RETRY_COUNT - count) \in Nat
                       /\ timer + Passes(RETRY_COUNT - count) <= ProbeTime
    <2>1. wpc = "probe" => Passes(RETRY_COUNT - count) \in Nat
        BY PassFacts DEF TimerInv
    <2> QED BY <1>3, <2>1 DEF TimerInv
<1>7. EntryDue
    BY <1>1, <1>3, <1>4 DEF EntryDue, TimerInv
<1>5. LoopDue
    <2>1. wpc \in {"sleep", "top"} => timer <= INTERVAL
        BY DEF TimerInv
    <2> QED BY <1>1, <1>2, <1>3, <1>4, <2>1 DEF LoopDue
<1>6. RestartDue
    BY <1>1, <1>3 DEF RestartDue, TimerInv, AbortTime, Timely
<1> QED BY <1>5, <1>6, <1>7 DEF Due

\* What is left is used up as time passes.
LEMMA TickDue == Timely /\ IInv /\ TimerInv /\ Acting /\ Due /\ WTick /\ stuck \in Nat /\ stuck' = stuck + 1 => Due'
<1> SUFFICES ASSUME Timely, IInv, TimerInv, Acting, Due, WTick, stuck \in Nat, stuck' = stuck + 1 PROVE Due'
    OBVIOUS
<1> USE WatchAssumption, InitAssumption, TimesNat, BoundSum, LeftFacts
<1>1. /\ UNCHANGED <<pc, rc, wpc, count, entry, RESTART_COUNT, DOWN_STREAK, LAST_LIVE, STREAMER_WAS_DISABLED>>
      /\ timer \in Nat /\ wait[Watchdog] \in Nat /\ GRACE_UNTIL \in 0 .. GRACE
      /\ timer' = Less(timer) /\ GRACE_UNTIL' = Less(GRACE_UNTIL)
      /\ wait'[Watchdog] = Less(wait[Watchdog])
    BY DEF WTick, TimersDown, Less, IInv, WTypeOK, TypeOK
<1>2. \/ wpc = "s31" /\ pc[Watchdog] # "idle" /\ Asleep(Watchdog)
      \/ wpc \in {"confirm", "probe", "rtp", "sleep"} /\ timer > 0
    BY DEF WTick, WatchIdles, Acting
<1>3. LeftInCycle' = LeftInCycle /\ Seen' = Seen
    BY <1>1 DEF LeftInCycle, Seen
<1>4. /\ Rounds(RESTART_LIMIT - 1 - RESTART_COUNT) \in Nat /\ Full(0) \in Nat
    BY FullFacts DEF Acting
<1>5. wpc = "probe" => Passes(RETRY_COUNT - count) \in Nat
    BY PassFacts DEF TimerInv
<1>6. EntryDue'
    BY <1>1, <1>2, <1>4, <1>5 DEF Due, EntryDue, Less
<1>7. LoopDue'
    BY <1>1, <1>2, <1>3, <1>5 DEF Due, LoopDue, Less, Acting
<1>8. RestartDue'
    BY <1>1, <1>2, <1>4 DEF Due, RestartDue, Less, Asleep
<1> QED BY <1>6, <1>7, <1>8 DEF Due

\* The loop looks at the wedged prudynt: a grace is armed for one it had not seen.
LEMMA LiveDue == Timely /\ IInv /\ TimerInv /\ Due /\ stuck \in Nat /\ stuck' = stuck /\ watch_live => Due'
<1> SUFFICES ASSUME Timely, IInv, TimerInv, Due, stuck \in Nat, stuck' = stuck, watch_live PROVE Due'
    OBVIOUS
<1> USE WatchAssumption, TimesNat, BoundSum, LeftFacts
<1>1. /\ wpc = "top" /\ timer = 0 /\ ~entry /\ ~entry' /\ UNCHANGED RESTART_COUNT /\ Attempt(1)
      /\ GRACE_UNTIL \in 0 .. GRACE /\ DOWN_STREAK \in Nat
    BY DEF watch_live, TimerInv, IInv, WTypeOK, EntryInv
<1>2. wpc' = "probe" /\ timer' \in Nat /\ count' = 1 /\ timer' + Passes(RETRY_COUNT - count') <= ProbeTime
    <2>1. RETRY_COUNT - 1 \in Nat
        OBVIOUS
    <2>2. Passes(RETRY_COUNT - 1) \in Nat
        BY <2>1, PassFacts
    <2> QED BY <1>1, <2>2, AttemptTime
<1>3. PICK n \in 0 .. RESTART_LIMIT - 1 : n = RESTART_COUNT
    BY <1>1
<1>4. Passes(RETRY_COUNT - count') \in Nat
    BY <1>2, PassFacts
<1>5. Full(n) \in Nat /\ LeftInCycle \in Nat /\ Full(RESTART_COUNT') = Full(n)
    BY <1>1, <1>3
<1>6. CASE Seen
    <2>1. GRACE_UNTIL' = GRACE_UNTIL /\ LeftInCycle' = LeftInCycle
        BY <1>1, <1>6 DEF watch_live, LeftInCycle, Seen
    <2> QED BY <1>1, <1>2, <1>3, <1>4, <1>5, <2>1 DEF Due, EntryDue, LoopDue, RestartDue
<1>7. CASE ~Seen
    <2>1. GRACE_UNTIL' = GRACE /\ DOWN_STREAK' = 0
        BY <1>7, GraceExact DEF watch_live, Seen, Timely
    <2>2. LeftInCycle' = Cycles(DOWN_STREAK_LIMIT - 1, n) + Final(n)
        BY <1>1, <1>3, <2>1 DEF LeftInCycle
    <2>3. LeftInCycle' + ProbeTime <= Full(n) /\ LeftInCycle' \in Nat
        <3>1. n \in Nat /\ DOWN_STREAK_LIMIT - 1 \in Nat /\ (DOWN_STREAK_LIMIT - 1) + 1 = DOWN_STREAK_LIMIT
            OBVIOUS
        <3>2. /\ Cycles(DOWN_STREAK_LIMIT - 1, n) \in Nat
              /\ Cycles(DOWN_STREAK_LIMIT, n) = Cycles(DOWN_STREAK_LIMIT - 1, n) + Cycle(n)
              /\ Cycle(n) = current_interval(n) + ProbeTime /\ current_interval(n) \in Nat
            BY <3>1, CycleFacts, IntervalNat
        <3>3. Full(n) = Cycles(DOWN_STREAK_LIMIT, n) + Final(n) /\ Final(n) \in Nat
            BY <1>1, <1>3, FullFacts
        <3> QED BY <2>2, <3>2, <3>3
    <2>4. stuck + GRACE + Full(n) <= RebootBound
        BY <1>1, <1>3, <1>7 DEF Due, LoopDue
    <2> QED BY <1>1, <1>2, <1>4, <1>5, <2>1, <2>3, <2>4 DEF Due, EntryDue, LoopDue, RestartDue
<1> QED BY <1>6, <1>7

\* It fails a pass.
LEMMA FailDue == Timely /\ IInv /\ TimerInv /\ SeenInv /\ Due /\ stuck \in Nat /\ stuck' = stuck
                   /\ prudynt_alive /\ wpc = "probe" /\ timer = 0 /\ PassFails => Due'
<1> SUFFICES ASSUME Timely, IInv, TimerInv, SeenInv, Due, stuck \in Nat, stuck' = stuck,
                    prudynt_alive, wpc = "probe", timer = 0, PassFails
             PROVE  Due'
    OBVIOUS
<1> USE WatchAssumption, TimesNat, BoundSum, LeftFacts
<1>1. /\ count \in 1 .. RETRY_COUNT /\ GRACE_UNTIL \in 0 .. GRACE /\ DOWN_STREAK \in 0 .. DOWN_STREAK_LIMIT - 1
      /\ (~entry => Seen)
    BY DEF TimerInv, IInv, WTypeOK, LimitInv, SeenInv
<1>2. PICK n \in 0 .. RESTART_LIMIT - 1 : n = RESTART_COUNT
    OBVIOUS
<1>3. /\ Full(n) \in Nat /\ Full(n) <= Full(0) /\ Full(n) = Cycles(DOWN_STREAK_LIMIT, n) + Final(n)
      /\ Final(n) \in Nat /\ Full(0) \in Nat
    BY <1>2, FullFacts
<1>4. /\ n \in Nat /\ Cycle(n) = current_interval(n) + ProbeTime /\ current_interval(n) \in Nat
      /\ DOWN_STREAK_LIMIT - 1 \in Nat /\ Cycles(DOWN_STREAK_LIMIT - 1, n) \in Nat
      /\ Cycles(DOWN_STREAK_LIMIT, n) = Cycles(DOWN_STREAK_LIMIT - 1, n) + Cycle(n)
    <2>1. n \in Nat /\ DOWN_STREAK_LIMIT - 1 \in Nat /\ (DOWN_STREAK_LIMIT - 1) + 1 = DOWN_STREAK_LIMIT
        OBVIOUS
    <2> QED BY <2>1, CycleFacts, IntervalNat
<1>5. CASE Repeated
    <2>1. PICK m \in Nat : m = RETRY_COUNT - (count + 1)
        BY <1>1, <1>5 DEF Repeated
    <2>2. Passes(m + 1) = Passes(m) + PassTime /\ Passes(m) \in Nat
        BY PassFacts
    <2>3. /\ RETRY_COUNT - count = m + 1 /\ RETRY_COUNT - count' = m /\ timer' \in Nat
          /\ timer' + Passes(RETRY_COUNT - count') <= Passes(RETRY_COUNT - count)
        BY <1>1, <1>5, <2>1, <2>2 DEF Repeated
    <2>4. UNCHANGED <<entry, RESTART_COUNT, GRACE_UNTIL, LeftInCycle>> /\ wpc' = "probe"
        BY <1>5 DEF Repeated, local, LeftInCycle
    <2> QED BY <1>3, <2>2, <2>3, <2>4 DEF Due, EntryDue, LoopDue, RestartDue
<1>6. ASSUME count >= RETRY_COUNT PROVE Passes(RETRY_COUNT - count) = 0
    <2>1. RETRY_COUNT - count = 0
        BY <1>1, <1>6
    <2> QED BY <2>1, PassFacts
<1>7. CASE EntryFails /\ count >= RETRY_COUNT
    <2>1. /\ wpc' = "top" /\ timer' = 0 /\ ~entry' /\ GRACE_UNTIL' = GRACE /\ RESTART_COUNT' = n /\ entry
          /\ LeftInCycle' = LeftInCycle
        BY <1>2, <1>7, GraceExact DEF EntryFails, At, Timely, LeftInCycle
    <2>2. stuck + GRACE + Full(0) <= RebootBound
        BY <1>3, <1>6, <1>7, <2>1 DEF Due, EntryDue
    <2>3. LeftInCycle + ProbeTime <= Full(0) /\ LeftInCycle \in Nat
        BY <1>2, <1>3, <1>4
    <2> QED BY <1>3, <2>1, <2>2, <2>3 DEF Due, EntryDue, LoopDue, RestartDue
<1>8. CASE Forgiven
    <2>1. /\ wpc' = "sleep" /\ timer' = current_interval(n) /\ ~entry' /\ ~entry /\ DOWN_STREAK' = 0 /\ RESTART_COUNT' = n
          /\ GRACE_UNTIL' = GRACE_UNTIL /\ GRACE_UNTIL > 0 /\ Seen'
        BY <1>1, <1>2, <1>8 DEF Forgiven, At, Sleep, Seen
    <2>2. LeftInCycle' = Cycles(DOWN_STREAK_LIMIT - 1, n) + Final(n)
        BY <2>1 DEF LeftInCycle
    <2>3. stuck + GRACE_UNTIL + Full(n) <= RebootBound
        BY <1>2, <2>1 DEF Due, LoopDue
    <2> QED BY <1>1, <1>3, <1>4, <2>1, <2>2, <2>3 DEF Due, EntryDue, LoopDue, RestartDue
<1>9. CASE Noted
    <2>1. /\ wpc' = "sleep" /\ timer' = current_interval(n) /\ ~entry /\ DOWN_STREAK' = DOWN_STREAK + 1 /\ RESTART_COUNT' = n
          /\ GRACE_UNTIL' = 0 /\ Seen' /\ DOWN_STREAK + 1 < DOWN_STREAK_LIMIT /\ count >= RETRY_COUNT
        BY <1>1, <1>2, <1>9 DEF Noted, At, Sleep, Seen
    <2>2. PICK m \in Nat : m = DOWN_STREAK_LIMIT - 1 - (DOWN_STREAK + 1)
        BY <1>1, <2>1
    <2>3. DOWN_STREAK_LIMIT - 1 - DOWN_STREAK = m + 1 /\ DOWN_STREAK_LIMIT - 1 - DOWN_STREAK' = m
        BY <1>1, <2>1, <2>2
    <2>4. Cycles(m + 1, n) = Cycles(m, n) + Cycle(n) /\ Cycles(m, n) \in Nat
        BY <1>4, CycleFacts
    <2>5. LeftInCycle = Cycles(m + 1, n) + Final(n) /\ LeftInCycle' = Cycles(m, n) + Final(n)
        BY <1>2, <2>1, <2>3 DEF LeftInCycle
    <2>6. stuck + LeftInCycle <= RebootBound
        BY <1>6, <2>1 DEF Due, LoopDue
    <2> QED BY <1>3, <1>4, <2>1, <2>4, <2>5, <2>6 DEF Due, EntryDue, LoopDue, RestartDue
<1>10. CASE Judged
    <2>1. /\ wpc' = "s31" /\ ~entry /\ RESTART_COUNT' = n /\ pc'[Watchdog] = "check"
          /\ ~(DOWN_STREAK + 1 < DOWN_STREAK_LIMIT) /\ count >= RETRY_COUNT
        BY <1>2, <1>10 DEF Judged, CallRestart, Invoke, Goto, At, IInv, WTypeOK, TypeOK
    <2>2. DOWN_STREAK_LIMIT - 1 - DOWN_STREAK = 0
        BY <1>1, <2>1
    <2>3. LeftInCycle = Final(n)
        BY <1>2, <1>3, <1>4, <2>2, CycleFacts DEF LeftInCycle
    <2>4. stuck + LeftInCycle <= RebootBound
        BY <1>6, <2>1 DEF Due, LoopDue
    <2> QED BY <2>1, <2>3, <2>4 DEF Due, EntryDue, LoopDue, RestartDue
<1> QED BY <1>1, <1>5, <1>7, <1>8, <1>9, <1>10, FailOutcomes DEF Timely

\* A packet count that cannot be taken again is no evidence: the probe passes once more.
LEMMA ServeDue == Timely /\ IInv /\ SeenInv /\ Due /\ stuck \in Nat /\ stuck' = stuck
                    /\ prudynt_alive /\ wpc = "rtp" /\ timer = 0 /\ PassServes => Due'
<1> SUFFICES ASSUME Timely, IInv, SeenInv, Due, stuck \in Nat, stuck' = stuck,
                    prudynt_alive, wpc = "rtp", timer = 0, PassServes
             PROVE  Due'
    OBVIOUS
<1> USE WatchAssumption, TimesNat, BoundSum, LeftFacts
<1>1. GRACE_UNTIL \in 0 .. GRACE /\ RESTART_COUNT \in Nat /\ (~entry => Seen)
    BY DEF IInv, WTypeOK, SeenInv
<1>2. stuck + GRACE + Full(0) <= RebootBound /\ Full(0) \in Nat
    BY <1>1, FullFacts DEF Due, EntryDue
<1>3. CASE entry
    <2>1. /\ wpc' = "top" /\ timer' = 0 /\ GRACE_UNTIL' = 0 /\ RESTART_COUNT' = RESTART_COUNT
          /\ LeftInCycle' = LeftInCycle
        BY <1>3 DEF PassServes, At, LeftInCycle
    <2>2. LeftInCycle + ProbeTime <= Full(0) /\ LeftInCycle \in Nat
        <3>1. Cycle(RESTART_COUNT) = current_interval(RESTART_COUNT) + ProbeTime /\ current_interval(RESTART_COUNT) \in Nat
            BY <1>1, CycleFacts, IntervalNat
        <3> QED BY <1>2, <3>1
    <2> QED BY <1>1, <1>2, <2>1, <2>2 DEF Due, EntryDue, LoopDue, RestartDue
<1>4. CASE ~entry
    <2>1. PICK n \in 0 .. RESTART_LIMIT - 1 : RESTART_COUNT' = n
        BY <1>1, <1>4 DEF PassServes
    <2>2. /\ wpc' = "sleep" /\ timer' = current_interval(n) /\ DOWN_STREAK' = 0 /\ ~entry'
          /\ GRACE_UNTIL' = GRACE_UNTIL /\ Seen'
        BY <1>1, <1>4, <2>1 DEF PassServes, Sleep, At, Seen
    <2>3. LeftInCycle' = Cycles(DOWN_STREAK_LIMIT - 1, n) + Final(n)
        BY <2>1, <2>2 DEF LeftInCycle
    <2>4. /\ Full(n) \in Nat /\ Full(n) <= Full(0) /\ Full(n) = Cycles(DOWN_STREAK_LIMIT, n) + Final(n)
          /\ Final(n) \in Nat
        BY FullFacts
    <2>5. /\ Cycle(n) = current_interval(n) + ProbeTime /\ current_interval(n) \in Nat
          /\ Cycles(DOWN_STREAK_LIMIT - 1, n) \in Nat
          /\ Cycles(DOWN_STREAK_LIMIT, n) = Cycles(DOWN_STREAK_LIMIT - 1, n) + Cycle(n)
        <3>1. n \in Nat /\ DOWN_STREAK_LIMIT - 1 \in Nat /\ (DOWN_STREAK_LIMIT - 1) + 1 = DOWN_STREAK_LIMIT
            OBVIOUS
        <3> QED BY <3>1, CycleFacts, IntervalNat
    <2> QED BY <1>1, <1>2, <2>1, <2>2, <2>3, <2>4, <2>5 DEF Due, EntryDue, LoopDue, RestartDue
<1> QED BY <1>3, <1>4

\* A restart of it is aborted, in time, and brings the reboot one round nearer.
LEMMA RestartedDue == Timely /\ IInv /\ SeenInv /\ Due /\ stuck \in Nat /\ stuck' = stuck
                        /\ wpc' # "reboot" /\ do_restart => Due'
<1> SUFFICES ASSUME Timely, IInv, SeenInv, Due, stuck \in Nat, stuck' = stuck, wpc' # "reboot", do_restart PROVE Due'
    OBVIOUS
<1> USE WatchAssumption, TimesNat, BoundSum
<1>1. /\ wpc = "s31" /\ pc[Watchdog] = "idle" /\ rc[Watchdog] \in {0, 1}
      /\ RESTART_COUNT \in Nat /\ RESTART_COUNT < RESTART_LIMIT
    BY DEF do_restart, Restarted, IInv, LimitInv, WTypeOK, TypeOK
<1>2. PICK n \in 1 .. RESTART_LIMIT - 1 : n = RESTART_COUNT + 1
    BY <1>1 DEF do_restart, Restarted, At
<1>3. /\ wpc' = "sleep" /\ timer' = RECOVER_INTERVAL /\ RESTART_COUNT' = n /\ DOWN_STREAK' = 0
      /\ Seen' = Seen /\ GRACE_UNTIL' \in (IF rc[Watchdog] = 0 THEN arm_grace ELSE {0})
    BY <1>1, <1>2 DEF do_restart, Restarted, At, Sleep, current_interval, Seen
<1>4. RESTART_LIMIT - n \in Nat /\ RESTART_LIMIT - 1 - RESTART_COUNT = RESTART_LIMIT - n
    BY <1>1, <1>2
<1>5. /\ Full(n) = Rounds(RESTART_LIMIT - n) /\ Full(n) = Cycles(DOWN_STREAK_LIMIT, n) + Final(n)
      /\ Full(n) \in Nat /\ Final(n) \in Nat
    BY <1>2, FullFacts
<1>6. /\ LeftInCycle' = Cycles(DOWN_STREAK_LIMIT - 1, n) + Final(n)
      /\ RECOVER_INTERVAL + ProbeTime + LeftInCycle' = Full(n) /\ LeftInCycle' \in Nat
    <2>1. n \in Nat /\ DOWN_STREAK_LIMIT - 1 \in Nat /\ (DOWN_STREAK_LIMIT - 1) + 1 = DOWN_STREAK_LIMIT
        BY <1>2
    <2>2. /\ Cycle(n) = current_interval(n) + ProbeTime /\ Cycles(DOWN_STREAK_LIMIT - 1, n) \in Nat
          /\ Cycles(DOWN_STREAK_LIMIT, n) = Cycles(DOWN_STREAK_LIMIT - 1, n) + Cycle(n)
        BY <2>1, CycleFacts
    <2>4. current_interval(n) = RECOVER_INTERVAL
        BY <1>2 DEF current_interval
    <2>3. LeftInCycle' = Cycles(DOWN_STREAK_LIMIT - 1, n) + Final(n)
        BY <1>3 DEF LeftInCycle
    <2> QED BY <1>5, <2>2, <2>3, <2>4
<1>7. stuck + Full(n) <= RebootBound
    BY <1>1, <1>4, <1>5 DEF Due, RestartDue
<1>8. CASE rc[Watchdog] = 1
    <2>1. Seen' /\ GRACE_UNTIL' = 0
        BY <1>1, <1>3, <1>8 DEF SeenInv
    <2> QED BY <1>3, <1>6, <1>7, <2>1 DEF Due, EntryDue, LoopDue, RestartDue
<1>9. CASE rc[Watchdog] = 0
    <2>1. GRACE_UNTIL' = GRACE
        BY <1>3, <1>9, GraceExact DEF Timely
    <2>2. stuck + RECOVER_INTERVAL + GRACE + Full(n) <= RebootBound
        BY <1>1, <1>4, <1>5, <1>9 DEF Due, RestartDue
    <2> QED BY <1>3, <1>5, <1>6, <1>7, <2>1, <2>2 DEF Due, EntryDue, LoopDue, RestartDue
<1> QED BY <1>1, <1>8, <1>9
LEMMA AbortDue == IInv /\ LaunchInv /\ Due /\ stuck \in Nat /\ stuck' = stuck
                    /\ prudynt_alive /\ Acting /\ OwnStep => Due'
<1> SUFFICES ASSUME IInv, LaunchInv, Due, stuck \in Nat, stuck' = stuck, prudynt_alive, Acting, OwnStep PROVE Due'
    OBVIOUS
<1> USE WatchAssumption, InitAssumption, TimesNat, BoundSum, LeftFacts DEF Goto, Exit
<1>1. /\ UNCHANGED <<wpc, timer, count, entry, RESTART_COUNT>> /\ wpc # "reboot"
      /\ pc \in [Callers -> Steps] /\ wait \in [Callers -> Nat] /\ rc \in [Callers -> {0, 1}] /\ Watchdog \in Callers
    BY DEF OwnStep, watch, local, IInv, WTypeOK, TypeOK, Acting
<1>2. pc[Watchdog] # "idle"
    BY DEF OwnStep, S31Step, stop_daemon_term, stop_daemon_gone, stop_daemon_kill, stop_daemon_polled,
            stop_daemon_rmpid, stop_daemon_confirm, reclaim_wait, config_checked, start_daemon, restart_heartbeat
<1>3. wpc = "s31"
    BY <1>2 DEF IInv, CallInv
<1>4. PICK k \in Nat : k = Rounds(RESTART_LIMIT - 1 - RESTART_COUNT)
    BY <1>1, FullFacts
<1>5. Final(RESTART_COUNT) = TERM_GRACE + KILL_GRACE + k
    BY <1>1, <1>4, FullFacts DEF AbortTime
<1>6. RestartDue /\ (RestartDue' => Due')
    BY <1>1, <1>3 DEF Due, EntryDue, LoopDue
<1>7. RestartDue'
    <2> USE <1>1, <1>3, <1>4, <1>5, <1>6 DEF RestartDue
    <2>1. CASE stop_daemon_term(Watchdog)    BY <2>1 DEF stop_daemon_term
    <2>2. CASE stop_daemon_gone(Watchdog)    BY <2>2 DEF stop_daemon_gone, LaunchInv
    <2>3. CASE stop_daemon_kill(Watchdog)    BY <2>3 DEF stop_daemon_kill
    <2>4. CASE stop_daemon_polled(Watchdog)  BY <2>4 DEF stop_daemon_polled
    <2>5. CASE stop_daemon_rmpid(Watchdog)   BY <2>5 DEF stop_daemon_rmpid
    <2>6. CASE stop_daemon_confirm(Watchdog) BY <2>6 DEF stop_daemon_confirm
    <2>7. CASE reclaim_wait(Watchdog) \/ config_checked(Watchdog) \/ start_daemon(Watchdog)
        BY <2>7 DEF reclaim_wait, config_checked, start_daemon, LaunchInv
    <2>8. CASE restart_heartbeat(Watchdog)   BY <2>8 DEF restart_heartbeat
    <2> QED BY <2>1, <2>2, <2>3, <2>4, <2>5, <2>6, <2>7, <2>8 DEF OwnStep, S31Step
<1> QED BY <1>6, <1>7

\* Every step of the camera on which prudynt stays stuck and the watchdog at work.
LEMMA DueStep == Timely /\ IInv /\ LaunchInv /\ TimerInv /\ SeenInv /\ Due /\ stuck \in Nat /\ stuck' = stuck
                   /\ Acting /\ Acting' /\ [WNext]_vars /\ ~WTick => Due'
<1> SUFFICES ASSUME Timely, IInv, LaunchInv, TimerInv, SeenInv, Due, stuck \in Nat, stuck' = stuck,
                    Acting, Acting', [WNext]_vars, ~WTick
             PROVE  Due'
    OBVIOUS
<1>0. /\ Wedged /\ ~disabled /\ wpc \notin {"off", "reboot"} /\ ~disabled' /\ wpc' \notin {"off", "reboot"}
      /\ prudynt_alive /\ ~Answers /\ Stats = {} /\ wpc # "confirm"
      /\ \A p \in Pid : proc[p] \in {"gone", "dstate"} /\ ~Killable(p)
    BY WedgedFacts DEF Acting, LaunchInv, TimerInv
<1>1. ASSUME UNCHANGED <<wpc, timer, count, entry, RESTART_COUNT, GRACE_UNTIL, DOWN_STREAK, LAST_LIVE, STREAMER_WAS_DISABLED,
                         pc, rc, wait>>
      PROVE  Due'
    <2>1. LeftInCycle' = LeftInCycle /\ Seen' = Seen
        BY <1>1 DEF LeftInCycle, Seen
    <2> QED BY <1>1, <2>1 DEF Due, EntryDue, LoopDue, RestartDue
<1>2. CASE watch_entry
    <2>1. Attempt(1) /\ UNCHANGED entry /\ entry /\ wpc = "entry"
        BY <1>0, <1>2 DEF watch_entry, IInv, EntryInv
    <2>2. wpc' = "probe" /\ timer' \in Nat /\ count' = 1 /\ timer' + Passes(RETRY_COUNT - count') <= FailTime
        BY <2>1, AttemptTime
    <2>3. Passes(RETRY_COUNT - count') \in Nat
        BY <2>2, PassFacts, WatchAssumption
    <2>4. Full(0) \in Nat
        BY FullFacts, WatchAssumption
    <2> QED BY <2>1, <2>2, <2>3, <2>4, TimesNat, BoundSum, WatchAssumption DEF Due, EntryDue, LoopDue, RestartDue
<1>3. CASE watch_live
    BY <1>3, LiveDue
<1>4. CASE check_rtsp_stream
    BY <1>0, <1>4, FailDue DEF check_rtsp_stream
<1>5. CASE check_rtsp_egress
    <2>1. check_video_rtp = {2}
        BY <1>0 DEF check_video_rtp
    <2>2. PassServes /\ wpc = "rtp" /\ timer = 0
        BY <1>5, <2>1 DEF check_rtsp_egress
    <2> QED BY <1>0, <2>2, ServeDue
<1>6. CASE do_restart
    BY <1>0, <1>6, RestartedDue
<1>7. CASE watch_sleep
    <2>1. /\ wpc = "sleep" /\ wpc' = "top" /\ timer = 0 /\ timer' = 0 /\ LeftInCycle' = LeftInCycle /\ Seen' = Seen
          /\ UNCHANGED <<entry, RESTART_COUNT, GRACE_UNTIL>>
        BY <1>7 DEF watch_sleep, At, LeftInCycle, Seen, local
    <2> QED BY <2>1 DEF Due, EntryDue, LoopDue, RestartDue
<1>8. CASE OwnStep
    BY <1>0, <1>8, AbortDue
<1>9. CASE watch_disabled \/ watch_gone \/ confirm_gone_again \/ confirm_gone_reappeared \/ confirm_gone_confirmed
    BY <1>0, <1>9 DEF watch_disabled, is_streamer_disabled, watch_gone, confirm_gone_again, confirm_gone_reappeared,
        confirm_gone_confirmed
<1>10. CASE Reboot \/ WatchdogStop \/ WatchdogStart
    BY <1>0, <1>10 DEF Reboot, WatchdogStop, WatchdogStart
<1>11. CASE PortalSwitch
    BY <1>0, <1>11 DEF PortalSwitch
<1>12. CASE \E c \in Callers : OtherCall(c) \/ OtherStep(c)
    BY <1>12 DEF OtherCall, OtherStep, Timely, Covered
<1>13. CASE \E p \in Pid : ProcEnv(p)
    BY <1>0, <1>13 DEF ProcEnv, BootDone, Crash, Fail
<1>14. CASE ViewerEnv \/ UNCHANGED vars
    BY <1>1, <1>14 DEF ViewerEnv, vars, initVars, watch, local
<1> QED BY <1>2, <1>3, <1>4, <1>5, <1>6, <1>7, <1>8, <1>9, <1>10, <1>11, <1>12, <1>13, <1>14 DEF WNext, WatchStep

\* Due leaves no room beyond the bound.
LEMMA DueBound == IInv /\ LaunchInv /\ TimerInv /\ Acting /\ Due /\ stuck \in Nat => stuck <= RebootBound
<1> SUFFICES ASSUME IInv, LaunchInv, TimerInv, Acting, Due, stuck \in Nat PROVE stuck <= RebootBound
    OBVIOUS
<1> USE WatchAssumption, InitAssumption, TimesNat, BoundSum, LeftFacts
<1>0. /\ prudynt_alive /\ wpc \in Places \ {"off", "reboot", "confirm"}
      /\ timer \in Nat /\ GRACE_UNTIL \in 0 .. GRACE /\ wait[Watchdog] \in Nat
      /\ pc[Watchdog] \in Steps
    BY WedgedFacts DEF Acting, LaunchInv, TimerInv, IInv, WTypeOK, TypeOK
<1>1. Full(0) \in Nat /\ Rounds(RESTART_LIMIT - 1 - RESTART_COUNT) \in Nat
    BY <1>0, FullFacts
<1>2. CASE wpc \in {"entry", "rtp"}
    BY <1>0, <1>1, <1>2 DEF Due, EntryDue
<1>3. CASE wpc = "probe"
    <2>1. Passes(RETRY_COUNT - count) \in Nat
        BY <1>3, PassFacts DEF TimerInv
    <2>2. LeftInCycle \in Nat
        BY <1>3
    <2>3. CASE entry
        BY <1>0, <1>1, <1>3, <2>1, <2>3 DEF Due, EntryDue
    <2>4. CASE ~entry
        BY <1>0, <1>1, <1>3, <2>1, <2>2, <2>4 DEF Due, LoopDue
    <2> QED BY <2>3, <2>4
<1>4. CASE wpc \in {"sleep", "top"}
    BY <1>0, <1>1, <1>4 DEF Due, LoopDue
<1>5. CASE wpc = "s31"
    <2>1. pc[Watchdog] \in {"check", "termwait", "killwait", "rmpid", "confirm", "idle", "hb"}
        BY <1>0 DEF LaunchInv, Steps, Waiting
    <2> QED BY <1>0, <1>1, <1>5, <2>1 DEF Due, RestartDue
<1> QED BY <1>0, <1>2, <1>3, <1>4, <1>5 DEF Places

\* "the warranted-restart budget reaches the reboot backstop in minutes": wherever the loop is
\* when prudynt gets stuck, the reboot is asked for within RebootBound, for all tunables.
THEOREM BackstopSafe == Timely => (MCSpec => []BackstopInTime)
<1> SUFFICES ASSUME Timely PROVE MCSpec => []BackstopInTime
    OBVIOUS
<1>1. MCInit => IInv /\ CoveredInv /\ TimerInv /\ SeenInv /\ BackstopInv
    <2> SUFFICES ASSUME MCInit PROVE IInv /\ CoveredInv /\ TimerInv /\ SeenInv /\ BackstopInv
        OBVIOUS
    <2>1. IInv /\ CoveredInv
        BY WInitInv DEF MCInit
    <2>2. /\ wpc \in {"off", "entry"} /\ pc = [c \in Callers |-> "idle"] /\ stuck = 0
          /\ \A p \in Pid : proc[p] # "dstate"
        BY DEF MCInit, WInit, BootWatch
    <2>3. TimerInv /\ SeenInv
        BY <2>2, WatchAssumption DEF TimerInv, SeenInv, Stopping
    <2>4. ~Acting
        BY <2>2 DEF Acting, Wedged
    <2> QED BY <2>1, <2>2, <2>3, <2>4 DEF BackstopInv
<1>2. IInv /\ CoveredInv /\ TimerInv /\ SeenInv /\ BackstopInv /\ [MCNext]_mcVars
        => IInv' /\ CoveredInv' /\ TimerInv' /\ SeenInv' /\ BackstopInv'
    <2> SUFFICES ASSUME IInv, CoveredInv, TimerInv, SeenInv, BackstopInv, [MCNext]_mcVars
                 PROVE  IInv' /\ CoveredInv' /\ TimerInv' /\ SeenInv' /\ BackstopInv'
        OBVIOUS
    <2>1. [WNext]_vars
        BY DEF MCNext, mcVars
    <2>2. IInv' /\ CoveredInv' /\ TimerInv' /\ SeenInv'
        BY <2>1, WIInvStep, CoveredStep, TimerStep, SeenStep DEF Timely, CoveredInv
    <2>3. CASE UNCHANGED mcVars
        <3>1. Acting' = Acting /\ stuck' = stuck /\ UNCHANGED vars
            BY <2>3 DEF mcVars, vars, Acting, Wedged, initVars, watch, env
        <3>2. Due => Due'
            BY <2>3 DEF mcVars, vars, initVars, watch, env, local, Due, EntryDue, LoopDue, RestartDue, LeftInCycle, Seen
        <3> QED BY <2>2, <3>1, <3>2 DEF BackstopInv
    <2>4. CASE MCNext
        <3>1. CASE ~(Acting /\ Acting')
            <4>1. stuck' = 0
                BY <2>4, <3>1 DEF MCNext
            <4>0. (Timely /\ IInv /\ TimerInv /\ stuck = 0 /\ wpc # "reboot" => Due)'
                BY FreshDue, PTL
            <4>2. wpc' # "reboot" => Due'
                <5>1. Timely'
                    BY DEF Timely, Covered
                <5> QED BY <2>2, <4>0, <4>1, <5>1
            <4>3. Acting' => wpc' # "reboot"
                BY DEF Acting
            <4> QED BY <2>2, <4>1, <4>2, <4>3 DEF BackstopInv
        <3>2. CASE Acting /\ Acting' /\ WTick
            <4>1. stuck' = stuck + 1 /\ stuck \in Nat /\ Due
                BY <2>4, <3>2 DEF MCNext, BackstopInv
            <4>2. Due'
                BY <3>2, <4>1, TickDue
            <4> QED BY <2>2, <3>2, <4>1, <4>2 DEF BackstopInv
        <3>3. CASE Acting /\ Acting' /\ ~WTick
            <4>1. stuck' = stuck /\ stuck \in Nat /\ Due
                BY <2>4, <3>3 DEF MCNext, BackstopInv
            <4>2. Due'
                BY <2>1, <3>3, <4>1, DueStep DEF CoveredInv
            <4> QED BY <2>2, <3>3, <4>1, <4>2 DEF BackstopInv
        <3> QED BY <3>1, <3>2, <3>3
    <2> QED BY <2>3, <2>4
<1>3. IInv /\ CoveredInv /\ TimerInv /\ BackstopInv => BackstopInTime
    <2>1. RebootBound \in Nat
        <3>1. Full(0) \in Nat
            BY FullFacts, WatchAssumption
        <3> QED BY <3>1, BoundSum, TimesNat, WatchAssumption
    <2> QED BY <2>1, DueBound DEF BackstopInv, BackstopInTime, CoveredInv
<1> QED BY <1>1, <1>2, <1>3, PTL DEF MCSpec
=============================================================================
