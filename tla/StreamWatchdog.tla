--------------------------- MODULE StreamWatchdog ---------------------------
(***************************************************************************)
(* The stream watchdog, overlay/etc/init.d/S32prudyntwd: the watch() loop  *)
(* that probes prudynt, restarts it through S31prudynt (module             *)
(* PrudyntInit) and escalates to a reboot, beside other callers of the     *)
(* same script, the portal-mode switch, RTSP viewers and a prudynt that    *)
(* boots, serves, fails and dies.                                          *)
(*                                                                         *)
(* GRACE_UNTIL is kept as the time left until the deadline, so that no     *)
(* variable grows without bound; HEALTHY_STREAK stops counting at the      *)
(* limit it is compared with.                                              *)
(***************************************************************************)
EXTENDS PrudyntInit

CONSTANTS
    Watchdog,               \* the caller of S31prudynt that is the watchdog
    INTERVAL, RECOVER_INTERVAL,
    RETRY_COUNT, RETRY_DELAY, CHECK_TIMEOUT, RTP_WINDOW,
    GRACE,
    DOWN_STREAK_LIMIT, HEALTHY_STREAK_LIMIT, RESTART_LIMIT,
    GONE_CONFIRM_DELAY, GONE_CONFIRM_BUDGET,
    BRINGUP,                \* longest bring-up of a healthy prudynt
    UptimeFails,            \* TRUE if /proc/uptime may be unreadable
    PortalMode,             \* TRUE if the kill switch may be used
    MaxFaults,              \* bound: how often prudynt or a viewer misbehaves
    MaxOthers               \* bound: how often another caller runs S31prudynt

ASSUME WatchAssumption ==
    /\ Watchdog \in Callers
    /\ INTERVAL \in Nat /\ RECOVER_INTERVAL \in Nat
    /\ RETRY_COUNT \in Nat \ {0} /\ RETRY_DELAY \in Nat
    /\ CHECK_TIMEOUT \in Nat /\ RTP_WINDOW \in Nat /\ GRACE \in Nat
    /\ DOWN_STREAK_LIMIT \in Nat \ {0} /\ HEALTHY_STREAK_LIMIT \in Nat \ {0}
    /\ RESTART_LIMIT \in Nat \ {0}
    /\ GONE_CONFIRM_DELAY \in Nat \ {0} /\ GONE_CONFIRM_BUDGET \in Nat
    /\ BRINGUP \in Nat /\ MaxFaults \in Nat /\ MaxOthers \in Nat
    /\ UptimeFails \in BOOLEAN /\ PortalMode \in BOOLEAN

VARIABLES
    wpc,                    \* where watch() is
    timer,                  \* time left in its current sleep or timeout
    count,                  \* probe attempt, or time confirm_gone has waited
    entry,                  \* TRUE during the probe before the loop
    RESTART_COUNT, GRACE_UNTIL, DOWN_STREAK, HEALTHY_STREAK,
    LAST_LIVE, STREAMER_WAS_DISABLED,
    disabled,               \* disable_streamer is set or /run/portal_mode exists
    viewer,                 \* the RTSP client of ch0
    age,                    \* how long each prudynt has been up, to BRINGUP
    faults,                 \* faults so far
    others                  \* invocations by other callers so far

local == <<RESTART_COUNT, GRACE_UNTIL, DOWN_STREAK, HEALTHY_STREAK, LAST_LIVE,
           STREAMER_WAS_DISABLED>>
watch == <<wpc, timer, count, entry, local>>
env == <<disabled, viewer, age, faults, others>>
vars == <<initVars, watch, env>>

Places == {"off", "entry", "top", "confirm", "probe", "rtp", "s31", "sleep", "reboot"}

-----------------------------------------------------------------------------
(* What the probes see. A query of the control socket may always fail.     *)

\* RTSP OPTIONS is answered (curl or the raw nc request).
Answers == \E p \in Pid : proc[p] \in {"serve", "frozen", "stalled"}

\* The replies `prudyntctl json stream0.stats` may give: fps of the encoder and subs,
\* 1 when ch0 has its own RTSP subscriber. Without a consumer the encoder is idle
\* unless something else (a recording) keeps it warm.
Stats ==
    {[fps |-> f, subs |-> IF viewer = "none" THEN 0 ELSE 1] :
        f \in UNION {CASE proc[p] = "frozen"  -> {0}
                       [] proc[p] = "stalled" -> {1}
                       [] proc[p] = "serve"   -> IF viewer = "none" THEN {0, 1} ELSE {1}
                       [] OTHER               -> {} : p \in Pid}}

\* Mutant: fps = 0 counts as frozen without a subscriber.
check_frames_ungated == {2} \cup {IF s.fps > 0 THEN 0 ELSE 1 : s \in Stats}

\* 0 frames flow, 1 confirmed frozen, 2 inconclusive.
check_frames == {2} \cup {IF s.fps > 0 THEN 0 ELSE IF s.subs = 1 THEN 1 ELSE 2 : s \in Stats}

\* First sample of check_video_rtp: only a channel with its own subscriber is judged.
HasSubscriber == {FALSE} \cup {s.subs = 1 : s \in Stats}

\* Second sample, RTP_WINDOW later: a stall is confirmed only if the subscriber is
\* still there and no packet left. What a paused client gets counts as no packet.
check_video_rtp ==
    {2} \cup {IF s.subs # 1 THEN 2
              ELSE IF viewer = "playing" /\ \E p \in Pid : proc[p] = "serve" THEN 0
              ELSE 1 : s \in Stats}

-----------------------------------------------------------------------------
(* Helpers of the loop. *)

is_streamer_disabled == disabled

\* The new deadline: a full grace from now, or the old one if the uptime is unreadable.
arm_grace == {GRACE} \cup (IF UptimeFails THEN {GRACE_UNTIL} ELSE {})

\* An unreadable uptime counts as inside the grace.
within_grace == {GRACE_UNTIL > 0} \cup (IF UptimeFails THEN {TRUE} ELSE {})

current_interval(restarts) == IF restarts > 0 THEN RECOVER_INTERVAL ELSE INTERVAL

At(place, t) == wpc' = place /\ timer' = t

\* One pass of check_rtsp_stream begins: curl and nc may each take their timeout.
Attempt(i) == /\ \E t \in 0 .. 2 * CHECK_TIMEOUT : At("probe", t)
              /\ count' = i

Sleep(t) == At("sleep", t) /\ count' = 0

\* The state of the shell variables when the script starts.
FreshWatch == /\ timer = 0 /\ count = 0 /\ entry = TRUE
              /\ RESTART_COUNT = 0 /\ GRACE_UNTIL = 0
              /\ DOWN_STREAK = 0 /\ HEALTHY_STREAK = 0
              /\ LAST_LIVE = FALSE /\ STREAMER_WAS_DISABLED = FALSE

\* rcS has run S31prudynt start (a prudynt that dies at once is a Crash) and then
\* S32prudyntwd start, which does nothing while the streamer is disabled.
BootWatch ==
    /\ \E p \in Pid : /\ proc = [q \in Pid |-> IF q = p THEN "boot" ELSE "gone"]
                      /\ pidfile = p
    /\ hb = TRUE
    /\ op = [c \in Callers |-> "start"]
    /\ pc = [c \in Callers |-> "idle"]
    /\ wait = [c \in Callers |-> 0]
    /\ rc = [c \in Callers |-> 0]
    /\ FreshWatch
    /\ disabled \in {FALSE, PortalMode}
    /\ wpc = IF disabled THEN "off" ELSE "entry"
    /\ viewer = "none"
    /\ age = [p \in Pid |-> 0]

WInit == BootWatch /\ faults = 0 /\ others = 0

-----------------------------------------------------------------------------
(* watch(): the steps between two of its sleeps and calls. *)

\* Before the loop: a live prudynt is probed, otherwise the first bring-up is protected.
watch_entry ==
    /\ wpc = "entry"
    /\ IF prudynt_alive THEN Attempt(1) /\ UNCHANGED <<entry, local>>
       ELSE /\ GRACE_UNTIL' \in arm_grace
            /\ LAST_LIVE' = FALSE
            /\ At("top", 0) /\ count' = 0 /\ entry' = FALSE
            /\ UNCHANGED <<RESTART_COUNT, DOWN_STREAK, HEALTHY_STREAK, STREAMER_WAS_DISABLED>>
    /\ UNCHANGED <<initVars, env>>

\* Top of the loop, streamer disabled: nothing is touched.
watch_disabled ==
    /\ wpc = "top" /\ is_streamer_disabled
    /\ STREAMER_WAS_DISABLED' = TRUE
    /\ Sleep(INTERVAL)
    /\ UNCHANGED <<initVars, entry, RESTART_COUNT, GRACE_UNTIL, DOWN_STREAK,
                   HEALTHY_STREAK, LAST_LIVE, env>>

\* Top of the loop, prudynt alive. Leaving a disabled window arms the grace and resets
\* both streaks (and LAST_LIVE, which is then TRUE); an incarnation that was not there
\* in the last cycle arms the grace and resets DOWN_STREAK.
watch_live ==
    /\ wpc = "top" /\ ~is_streamer_disabled /\ prudynt_alive
    /\ IF STREAMER_WAS_DISABLED \/ ~LAST_LIVE
       THEN GRACE_UNTIL' \in arm_grace /\ DOWN_STREAK' = 0
       ELSE UNCHANGED <<GRACE_UNTIL, DOWN_STREAK>>
    /\ HEALTHY_STREAK' = IF STREAMER_WAS_DISABLED THEN 0 ELSE HEALTHY_STREAK
    /\ STREAMER_WAS_DISABLED' = FALSE
    /\ LAST_LIVE' = TRUE
    /\ Attempt(1)
    /\ UNCHANGED <<initVars, entry, RESTART_COUNT, env>>

\* Top of the loop, no live prudynt: confirm_gone starts polling.
watch_gone ==
    /\ wpc = "top" /\ ~is_streamer_disabled /\ ~prudynt_alive
    /\ IF STREAMER_WAS_DISABLED
       THEN GRACE_UNTIL' \in arm_grace /\ DOWN_STREAK' = 0 /\ HEALTHY_STREAK' = 0
       ELSE UNCHANGED <<GRACE_UNTIL, DOWN_STREAK, HEALTHY_STREAK>>
    /\ STREAMER_WAS_DISABLED' = FALSE
    /\ LAST_LIVE' = FALSE
    /\ At("confirm", GONE_CONFIRM_DELAY) /\ count' = 0
    /\ UNCHANGED <<initVars, entry, RESTART_COUNT, env>>

\* confirm_gone polls again, and has not used up its budget.
confirm_gone_again ==
    /\ wpc = "confirm" /\ timer = 0 /\ ~prudynt_alive
    /\ count + GONE_CONFIRM_DELAY < GONE_CONFIRM_BUDGET
    /\ At("confirm", GONE_CONFIRM_DELAY)
    /\ count' = count + GONE_CONFIRM_DELAY
    /\ UNCHANGED <<initVars, entry, local, env>>

\* The process reappeared: it is a fresh incarnation, and it is probed.
confirm_gone_reappeared ==
    /\ wpc = "confirm" /\ timer = 0 /\ prudynt_alive
    /\ GRACE_UNTIL' \in arm_grace
    /\ DOWN_STREAK' = 0
    /\ LAST_LIVE' = TRUE
    /\ Attempt(1)
    /\ UNCHANGED <<initVars, entry, RESTART_COUNT, HEALTHY_STREAK, STREAMER_WAS_DISABLED, env>>

\* do_restart calls S31prudynt restart and waits for it.
CallRestart == /\ Invoke(Watchdog, "restart")
               /\ At("s31", 0) /\ count' = 0

\* Mutant: one poll is taken for confirmation.
confirm_gone_hasty ==
    /\ wpc = "confirm" /\ timer = 0 /\ ~prudynt_alive
    /\ CallRestart
    /\ UNCHANGED <<entry, local, env>>

\* Gone for the whole budget.
confirm_gone_confirmed ==
    /\ wpc = "confirm" /\ timer = 0 /\ ~prudynt_alive
    /\ count + GONE_CONFIRM_DELAY >= GONE_CONFIRM_BUDGET
    /\ CallRestart
    /\ UNCHANGED <<entry, local, env>>

\* A pass of check_rtsp_stream fails. A further attempt follows after RETRY_DELAY, or
\* the cycle is over and nothing was served.
PassFails ==
    IF count < RETRY_COUNT
    THEN /\ \E t \in 0 .. 2 * CHECK_TIMEOUT : At("probe", RETRY_DELAY + t)
         /\ count' = count + 1
         /\ UNCHANGED <<initVars, entry, local>>
    ELSE IF entry
    THEN /\ GRACE_UNTIL' \in arm_grace
         /\ LAST_LIVE' = prudynt_alive
         /\ At("top", 0) /\ count' = 0 /\ entry' = FALSE
         /\ UNCHANGED <<initVars, RESTART_COUNT, DOWN_STREAK, HEALTHY_STREAK,
                        STREAMER_WAS_DISABLED>>
    ELSE /\ HEALTHY_STREAK' = 0
         /\ \E inside \in within_grace :
              IF inside
              THEN DOWN_STREAK' = 0 /\ Sleep(current_interval(RESTART_COUNT)) /\ UNCHANGED initVars
              ELSE /\ DOWN_STREAK' = DOWN_STREAK + 1
                   /\ IF DOWN_STREAK + 1 < DOWN_STREAK_LIMIT
                      THEN Sleep(current_interval(RESTART_COUNT)) /\ UNCHANGED initVars
                      ELSE CallRestart
         /\ UNCHANGED <<entry, RESTART_COUNT, GRACE_UNTIL, LAST_LIVE, STREAMER_WAS_DISABLED>>

\* A pass succeeds, and with it the probe.
PassServes ==
    /\ IF entry
       THEN /\ GRACE_UNTIL' = 0
            /\ HEALTHY_STREAK' = HEALTHY_STREAK_LIMIT
            /\ LAST_LIVE' = prudynt_alive
            /\ At("top", 0) /\ count' = 0 /\ entry' = FALSE
            /\ UNCHANGED <<RESTART_COUNT, DOWN_STREAK>>
       ELSE /\ HEALTHY_STREAK' = IF HEALTHY_STREAK < HEALTHY_STREAK_LIMIT
                                 THEN HEALTHY_STREAK + 1 ELSE HEALTHY_STREAK
            /\ DOWN_STREAK' = 0
            /\ RESTART_COUNT' = IF HEALTHY_STREAK + 1 >= HEALTHY_STREAK_LIMIT
                                THEN 0 ELSE RESTART_COUNT
            /\ Sleep(current_interval(RESTART_COUNT'))
            /\ UNCHANGED <<entry, GRACE_UNTIL, LAST_LIVE>>
    /\ UNCHANGED <<initVars, STREAMER_WAS_DISABLED>>

\* check_rtsp_stream up to the first sample of the packet counter.
check_rtsp_stream ==
    /\ wpc = "probe" /\ timer = 0
    /\ IF ~Answers THEN PassFails
       ELSE \E frames \in check_frames, subscriber \in HasSubscriber :
               IF frames = 1 THEN PassFails
               ELSE IF ~subscriber THEN PassServes
               ELSE At("rtp", RTP_WINDOW) /\ UNCHANGED <<initVars, count, entry, local>>
    /\ UNCHANGED env

\* The second sample decides.
check_rtsp_egress ==
    /\ wpc = "rtp" /\ timer = 0
    /\ \E egress \in check_video_rtp : IF egress = 1 THEN PassFails ELSE PassServes
    /\ UNCHANGED env

\* S31prudynt has returned to do_restart: the counter, the streaks and the deadline are
\* set, and the loop either asks for a reboot or sleeps.
Restarted(n, deadlines, escalate) ==
    /\ wpc = "s31" /\ pc[Watchdog] = "idle"
    /\ RESTART_COUNT' = n
    /\ DOWN_STREAK' = 0 /\ HEALTHY_STREAK' = 0
    /\ GRACE_UNTIL' \in deadlines
    /\ IF escalate THEN At("reboot", 0) /\ count' = 0 ELSE Sleep(current_interval(n))
    /\ UNCHANGED <<initVars, entry, LAST_LIVE, STREAMER_WAS_DISABLED, env>>

do_restart_no_grace ==
    Restarted(RESTART_COUNT + 1, {0}, RESTART_COUNT + 1 >= RESTART_LIMIT)
do_restart_always_grace ==
    Restarted(RESTART_COUNT + 1, arm_grace, RESTART_COUNT + 1 >= RESTART_LIMIT)
do_restart_uncounted ==
    LET n == RESTART_COUNT + 1 - rc[Watchdog]
    IN  Restarted(n, IF rc[Watchdog] = 0 THEN arm_grace ELSE {0}, n >= RESTART_LIMIT)

\* A fresh process gets its grace. After an aborted restart there is nothing to protect
\* and the next cycle is past the grace. The RESTART_LIMITth restart leads to do_reboot.
do_restart ==
    Restarted(RESTART_COUNT + 1, IF rc[Watchdog] = 0 THEN arm_grace ELSE {0},
              RESTART_COUNT + 1 >= RESTART_LIMIT)

watch_sleep ==
    /\ wpc = "sleep" /\ timer = 0
    /\ At("top", 0)
    /\ UNCHANGED <<initVars, count, entry, local, env>>

WatchStep ==
    \/ watch_entry \/ watch_disabled \/ watch_live \/ watch_gone
    \/ confirm_gone_again \/ confirm_gone_reappeared \/ confirm_gone_confirmed
    \/ check_rtsp_stream \/ check_rtsp_egress \/ do_restart \/ watch_sleep

-----------------------------------------------------------------------------
(* The world around the loop. *)

\* The age of a prudynt that is not booting does not matter.
Aged == age' = [p \in Pid |-> IF proc'[p] = "boot" THEN age[p] ELSE 0]

\* The watchdog's own S31prudynt runs.
OwnStep == /\ S31Step(Watchdog)
           /\ Aged
           /\ UNCHANGED <<watch, disabled, viewer, faults, others>>

\* Somebody else calls the script, for example `service restart prudynt` of the web UI.
OtherCall(c) == /\ c # Watchdog /\ others < MaxOthers
                /\ \E o \in CallerOps : Invoke(c, o)
                /\ others' = others + 1
                /\ UNCHANGED <<watch, disabled, viewer, age, faults>>

OtherStep(c) == /\ c # Watchdog
                /\ S31Step(c)
                /\ Aged
                /\ UNCHANGED <<watch, disabled, viewer, faults, others>>

\* prudynt comes up, dies, or stops delivering.
ProcEnv(p) ==
    /\ \/ BootDone(p) /\ UNCHANGED faults
       \/ (Crash(p) \/ Fail(p)) /\ faults < MaxFaults /\ faults' = faults + 1
    /\ Aged
    /\ UNCHANGED <<pidfile, hb, op, pc, wait, rc, watch, disabled, viewer, others>>

\* A client of ch0 comes, pauses or leaves. One that holds a paused session cannot be
\* told from a stall (a known limitation of the probe), so it counts as a fault.
ViewerEnv ==
    /\ \/ viewer' \in {"none", "playing"} \ {viewer} /\ UNCHANGED faults
       \/ viewer = "playing" /\ viewer' = "paused" /\ faults < MaxFaults /\ faults' = faults + 1
    /\ UNCHANGED <<initVars, watch, disabled, age, others>>

PortalSwitch == /\ PortalMode
                /\ disabled' = ~disabled
                /\ UNCHANGED <<initVars, watch, viewer, age, faults, others>>

\* S32prudyntwd stop; and start, which refuses while the streamer is disabled.
WatchdogStop == /\ wpc \notin {"off", "s31", "reboot"}
                /\ wpc' = "off" /\ timer' = 0 /\ count' = 0 /\ entry' = TRUE
                /\ RESTART_COUNT' = 0 /\ GRACE_UNTIL' = 0
                /\ DOWN_STREAK' = 0 /\ HEALTHY_STREAK' = 0
                /\ LAST_LIVE' = FALSE /\ STREAMER_WAS_DISABLED' = FALSE
                /\ UNCHANGED <<initVars, env>>

WatchdogStart == /\ wpc = "off" /\ ~is_streamer_disabled
                 /\ At("entry", 0)
                 /\ UNCHANGED <<initVars, count, entry, local, env>>

\* do_reboot has called reboot and parked; the camera comes up again.
Reboot ==
    /\ wpc = "reboot"
    /\ \E p \in Pid : /\ proc' = [q \in Pid |-> IF q = p THEN "boot" ELSE "gone"]
                      /\ pidfile' = p
    /\ hb' = TRUE
    /\ op' = [c \in Callers |-> "start"]
    /\ pc' = [c \in Callers |-> "idle"]
    /\ wait' = [c \in Callers |-> 0]
    /\ rc' = [c \in Callers |-> 0]
    /\ timer' = 0 /\ count' = 0 /\ entry' = TRUE
    /\ RESTART_COUNT' = 0 /\ GRACE_UNTIL' = 0
    /\ DOWN_STREAK' = 0 /\ HEALTHY_STREAK' = 0
    /\ LAST_LIVE' = FALSE /\ STREAMER_WAS_DISABLED' = FALSE
    /\ disabled' \in {FALSE, PortalMode}
    /\ wpc' = IF disabled' THEN "off" ELSE "entry"
    /\ viewer' = "none"
    /\ age' = [p \in Pid |-> 0]
    /\ UNCHANGED <<faults, others>>

\* watch() is in a sleep or a timeout, waits for S31prudynt, or is not running.
WatchIdles == \/ wpc \in {"off", "reboot"}
              \/ wpc = "s31" /\ pc[Watchdog] # "idle"
              \/ wpc \in {"confirm", "probe", "rtp", "sleep"} /\ timer > 0

Less(n) == IF n = 0 THEN 0 ELSE n - 1

WTick == /\ \A c \in Callers : pc[c] = "idle" \/ Asleep(c)
         /\ WatchIdles
         /\ \A p \in Pid : proc[p] = "boot" => age[p] < BRINGUP
         /\ TimersDown
         /\ timer' = Less(timer)
         /\ GRACE_UNTIL' = Less(GRACE_UNTIL)
         /\ age' = [p \in Pid |-> IF proc[p] = "boot" THEN age[p] + 1 ELSE 0]
         /\ UNCHANGED <<proc, pidfile, hb, op, pc, rc, wpc, count, entry, RESTART_COUNT,
                        DOWN_STREAK, HEALTHY_STREAK, LAST_LIVE, STREAMER_WAS_DISABLED,
                        disabled, viewer, faults, others>>

WNext == \/ WatchStep \/ OwnStep \/ WTick \/ Reboot
         \/ \E c \in Callers : OtherCall(c) \/ OtherStep(c)
         \/ \E p \in Pid : ProcEnv(p)
         \/ ViewerEnv \/ PortalSwitch \/ WatchdogStop \/ WatchdogStart

\* Scripts run on, time passes, a bring-up ends, and a reboot that was asked for happens.
WFairness == /\ WF_vars(WatchStep) /\ WF_vars(OwnStep) /\ SF_vars(WTick)
             /\ WF_vars(Reboot)
             /\ \A c \in Callers : WF_vars(OtherStep(c))
             /\ \A p \in Pid : WF_vars(BootDone(p) /\ ProcEnv(p))

WSpec == WInit /\ [][WNext]_vars /\ WFairness

-----------------------------------------------------------------------------
WTypeOK ==
    /\ TypeOK
    /\ wpc \in Places /\ timer \in Nat /\ count \in Nat /\ entry \in BOOLEAN
    /\ RESTART_COUNT \in 0 .. RESTART_LIMIT /\ GRACE_UNTIL \in 0 .. GRACE
    /\ DOWN_STREAK \in 0 .. DOWN_STREAK_LIMIT
    /\ HEALTHY_STREAK \in 0 .. HEALTHY_STREAK_LIMIT
    /\ LAST_LIVE \in BOOLEAN /\ STREAMER_WAS_DISABLED \in BOOLEAN
    /\ disabled \in BOOLEAN /\ viewer \in {"none", "playing", "paused"}
    /\ age \in [Pid -> 0 .. BRINGUP] /\ faults \in 0 .. MaxFaults
    /\ others \in 0 .. MaxOthers

\* "Recovers a dead/streamless/wedged prudynt without ever disturbing one that is still
\* bootstrapping": the watchdog never restarts a prudynt in its bring-up.
BringupUndisturbed ==
    [][wpc # "s31" /\ wpc' = "s31" => \A p \in Pid : proc[p] # "boot"]_vars

\* "we never double-drive an in-flight external `service restart prudynt`": on a camera
\* without other faults a GONE prudynt is not restarted while someone else's restart of
\* it is under way.
NoDoubleDrive ==
    [][faults = 0 /\ wpc = "confirm" /\ wpc' = "s31" => \A c \in Callers : pc[c] = "idle"]_vars

\* A camera on which nothing ever went wrong is never restarted, whatever viewers come
\* and go, whatever queries fail, and however often the portal mode is used.
HealthyUntouched == faults = 0 => RESTART_COUNT = 0 /\ wpc \notin {"s31", "reboot"}

\* A stream that is down comes back, by restarts or in the end by a reboot, unless the
\* streamer is disabled or the watchdog stopped.
StreamReturns == []<>(Answers \/ disabled \/ wpc = "off")

\* Types with the limits of every counter, and no restart of a healthy camera.
WatchInv == WTypeOK /\ HealthyUntouched
=============================================================================
