---------------------------- MODULE PrudyntInit ----------------------------
(***************************************************************************)
(* The init script of the streamer, package/prudynt-t/files/S31prudynt,    *)
(* run by several callers at once: rcS at boot, the stream watchdog and    *)
(* whoever types `service restart prudynt` (web UI, MQTT, day/night).      *)
(* Nothing in the script serialises two invocations, so every command of   *)
(* it that reads or writes shared state is an action of its own.           *)
(*                                                                         *)
(* Time is discrete: Tick is one unit, the timers count units down, and    *)
(* time does not pass while a script has a command left to run.            *)
(***************************************************************************)
EXTENDS Naturals, FiniteSets

CONSTANTS
    Callers,        \* processes that run S31prudynt
    CallerOps,      \* the subcommands they run
    Pid,            \* process ids prudynt can get
    NoPid,          \* "no pid in the pidfile"
    TERM_GRACE,     \* time units waited after SIGTERM
    KILL_GRACE,     \* time units waited after SIGKILL
    RECLAIM_WAIT,   \* settle time between a confirmed death and a start
    JCT_TIMEOUT     \* bound of one jct probe of the configuration

ASSUME InitAssumption ==
    /\ NoPid \notin Pid
    /\ CallerOps \subseteq {"start", "stop", "restart"}
    /\ TERM_GRACE \in Nat /\ KILL_GRACE \in Nat
    /\ RECLAIM_WAIT \in Nat /\ JCT_TIMEOUT \in Nat

VARIABLES
    proc,       \* what each pid is doing; "gone" covers zombies as well
    pidfile,    \* the pid in /run/prudynt.pid, or NoPid
    hb,         \* TRUE while S99heartbeat runs
    op,         \* the argument the caller's current or last invocation has
    pc,         \* where that invocation is; "idle" between invocations
    wait,       \* time left in the sleep the invocation is in
    rc          \* exit status of the caller's last invocation

initVars == <<proc, pidfile, hb, op, pc, wait, rc>>

Kinds == {"gone",     \* no such process, or a zombie
          "boot",     \* bringing the sensor and the encoder up
          "serve",    \* streaming
          "mute",     \* alive, RTSP socket does not answer
          "frozen",   \* socket answers, encoder emits no frame
          "stalled",  \* frames are encoded, no RTP packet leaves
          "dstate"}   \* stuck in a VPU ioctl: no signal has an effect

Ops == {"start", "stop", "restart"}
Waiting == {"termwait", "killwait", "reclaim", "c1"}
Steps == {"idle", "check", "rmgone", "rmpid", "confirm", "start", "hb"} \cup Waiting

-----------------------------------------------------------------------------
\* A zombie or dead task is not live, a task in D state is.
pid_live(p) == proc[p] # "gone"

\* pidfile pid first, then every pid of that name: a live prudynt is never missed.
prudynt_alive == \E p \in Pid : pid_live(p)

Killable(p) == pid_live(p) /\ proc[p] # "dstate"

\* The invocation of c goes on at step s with timer t.
Goto(c, s, t) == /\ pc' = [pc EXCEPT ![c] = s]
                 /\ wait' = [wait EXCEPT ![c] = t]

Exit(c, status) == /\ Goto(c, "idle", 0)
                   /\ rc' = [rc EXCEPT ![c] = status]

\* validate_and_restore_config and `daynight-state migrate`: they touch no state
\* of this module, but two jct probes may each take their full timeout.
EnterStart(c) == \E t \in 0 .. 2 * JCT_TIMEOUT : Goto(c, "c1", t)

Init == /\ proc = [p \in Pid |-> "gone"]
        /\ pidfile = NoPid
        /\ hb = FALSE
        /\ op = [c \in Callers |-> "start"]
        /\ pc = [c \in Callers |-> "idle"]
        /\ wait = [c \in Callers |-> 0]
        /\ rc = [c \in Callers |-> 0]

\* start(): straight to the configuration check. stop(), restart(): the heartbeat
\* is stopped first.
Invoke(c, o) ==
    /\ pc[c] = "idle"
    /\ op' = [op EXCEPT ![c] = o]
    /\ IF o = "start" THEN EnterStart(c) /\ hb' = hb
                      ELSE Goto(c, "check", 0) /\ hb' = FALSE
    /\ UNCHANGED <<proc, pidfile, rc>>

\* stop_daemon: the fast path when nothing is alive, else SIGTERM to the pidfile's
\* pid, or to every prudynt when there is none. A process may exit at once, later
\* (Crash), or not at all.
stop_daemon_term(c) ==
    /\ pc[c] = "check"
    /\ IF ~prudynt_alive
       THEN Goto(c, "rmgone", 0) /\ proc' = proc
       ELSE LET signalled == {p \in Pid : Killable(p) /\ (pidfile = NoPid \/ pidfile = p)}
            IN  /\ \E dead \in SUBSET signalled :
                      proc' = [p \in Pid |-> IF p \in dead THEN "gone" ELSE proc[p]]
                /\ Goto(c, "termwait", TERM_GRACE)
    /\ UNCHANGED <<pidfile, hb, op, rc>>

\* The fast path ends: the stale pidfile is dropped and the stop has succeeded.
stop_daemon_gone(c) ==
    /\ pc[c] = "rmgone"
    /\ pidfile' = NoPid
    /\ IF op[c] = "restart" THEN Goto(c, "reclaim", RECLAIM_WAIT) /\ rc' = rc
                            ELSE Exit(c, 0)
    /\ UNCHANGED <<proc, hb, op>>

\* Mutant: the poll after SIGKILL runs one unit too long.
stop_daemon_kill_late(c) ==
    /\ pc[c] = "termwait"
    /\ IF ~prudynt_alive
       THEN Goto(c, "rmpid", 0) /\ proc' = proc
       ELSE /\ wait[c] = 0
            /\ proc' = [p \in Pid |-> IF Killable(p) THEN "gone" ELSE proc[p]]
            /\ Goto(c, "killwait", KILL_GRACE + 1)
    /\ UNCHANGED <<pidfile, hb, op, rc>>

\* The poll after SIGTERM ends: dead, or the grace is over and SIGKILL goes to the
\* pidfile's pid and to every prudynt by name.
stop_daemon_kill(c) ==
    /\ pc[c] = "termwait"
    /\ IF ~prudynt_alive
       THEN Goto(c, "rmpid", 0) /\ proc' = proc
       ELSE /\ wait[c] = 0
            /\ proc' = [p \in Pid |-> IF Killable(p) THEN "gone" ELSE proc[p]]
            /\ Goto(c, "killwait", KILL_GRACE)
    /\ UNCHANGED <<pidfile, hb, op, rc>>

\* The poll after SIGKILL ends, one way or the other.
stop_daemon_polled(c) ==
    /\ pc[c] = "killwait"
    /\ ~prudynt_alive \/ wait[c] = 0
    /\ Goto(c, "rmpid", 0)
    /\ UNCHANGED <<proc, pidfile, hb, op, rc>>

stop_daemon_rmpid(c) ==
    /\ pc[c] = "rmpid"
    /\ pidfile' = NoPid
    /\ Goto(c, "confirm", 0)
    /\ UNCHANGED <<proc, hb, op, rc>>

\* Mutant: the heartbeat is stopped after the daemon instead of before it.
stop_daemon_confirm_hb_last(c) ==
    /\ pc[c] = "confirm"
    /\ IF prudynt_alive THEN Exit(c, 1)
       ELSE IF op[c] = "restart" THEN Goto(c, "reclaim", RECLAIM_WAIT) /\ rc' = rc
       ELSE Exit(c, 0)
    /\ hb' = FALSE
    /\ UNCHANGED <<proc, pidfile, op>>

\* Mutant: restart() does not look at the result of stop_daemon.
stop_daemon_confirm_ignored(c) ==
    /\ pc[c] = "confirm"
    /\ IF op[c] = "restart" THEN Goto(c, "reclaim", RECLAIM_WAIT) /\ rc' = rc ELSE Exit(c, 0)
    /\ UNCHANGED <<proc, pidfile, hb, op>>

\* Only a confirmed death lets restart() go on to the reclaim wait; otherwise the
\* invocation fails and launches nothing.
stop_daemon_confirm(c) ==
    /\ pc[c] = "confirm"
    /\ IF prudynt_alive THEN Exit(c, 1)
       ELSE IF op[c] = "restart" THEN Goto(c, "reclaim", RECLAIM_WAIT) /\ rc' = rc
       ELSE Exit(c, 0)
    /\ UNCHANGED <<proc, pidfile, hb, op>>

\* Mutant: the settle is skipped.
reclaim_wait_skipped(c) ==
    /\ pc[c] = "reclaim"
    /\ EnterStart(c)
    /\ UNCHANGED <<proc, pidfile, hb, op, rc>>

\* Mutant: the counter of the settle loop is not advanced.
reclaim_wait_forever(c) ==
    /\ pc[c] = "reclaim" /\ wait[c] = 0
    /\ Goto(c, "reclaim", RECLAIM_WAIT)
    /\ UNCHANGED <<proc, pidfile, hb, op, rc>>

\* reclaim_wait is over: restart() calls start().
reclaim_wait(c) ==
    /\ pc[c] = "reclaim" /\ wait[c] = 0
    /\ EnterStart(c)
    /\ UNCHANGED <<proc, pidfile, hb, op, rc>>

\* The configuration is checked (module ConfigHeal) and the sidecar migrated.
config_checked(c) ==
    /\ pc[c] = "c1" /\ wait[c] = 0
    /\ Goto(c, "start", 0)
    /\ UNCHANGED <<proc, pidfile, hb, op, rc>>

\* start-stop-daemon -S -p: refuses when the pid in the pidfile is a live prudynt,
\* else launches one and writes the pidfile. Without a pidfile it looks no further.
start_daemon(c) ==
    /\ pc[c] = "start"
    /\ IF pidfile # NoPid /\ pid_live(pidfile)
       THEN Exit(c, 1) /\ UNCHANGED <<proc, pidfile>>
       ELSE \E p \in Pid : /\ ~pid_live(p)
                           /\ proc' = [proc EXCEPT ![p] = "boot"]
                           /\ pidfile' = p
                           /\ Goto(c, "hb", 0)
                           /\ rc' = rc
    /\ UNCHANGED <<hb, op>>

\* start() after a successful start_daemon.
restart_heartbeat(c) ==
    /\ pc[c] = "hb"
    /\ hb' = TRUE
    /\ Exit(c, 0)
    /\ UNCHANGED <<proc, pidfile, op>>

\* One command of the invocation of c.
S31Step(c) ==
    \/ stop_daemon_term(c) \/ stop_daemon_gone(c) \/ stop_daemon_kill(c)
    \/ stop_daemon_polled(c) \/ stop_daemon_rmpid(c) \/ stop_daemon_confirm(c)
    \/ reclaim_wait(c) \/ config_checked(c) \/ start_daemon(c) \/ restart_heartbeat(c)

-----------------------------------------------------------------------------
\* What prudynt itself does. A process in D state stays there.
BootDone(p) == proc[p] = "boot" /\ proc' = [proc EXCEPT ![p] = "serve"]

Crash(p) == Killable(p) /\ proc' = [proc EXCEPT ![p] = "gone"]

\* A streaming or starting process stops delivering, in one of the ways the
\* watchdog tells apart, or gets stuck in the driver.
Fail(p) == /\ proc[p] \in {"boot", "serve"}
           /\ \E k \in {"mute", "frozen", "stalled", "dstate"} :
                 proc' = [proc EXCEPT ![p] = k]

ProcStep(p) == /\ BootDone(p) \/ Crash(p) \/ Fail(p)
               /\ UNCHANGED <<pidfile, hb, op, pc, wait, rc>>

\* An invocation waits: it sleeps and its wait cannot end before the next poll.
Asleep(c) == /\ wait[c] > 0
             /\ \/ pc[c] \in {"reclaim", "c1"}
                \/ pc[c] \in {"termwait", "killwait"} /\ prudynt_alive

TimersDown == wait' = [c \in Callers |-> IF wait[c] = 0 THEN 0 ELSE wait[c] - 1]

Tick == /\ \A c \in Callers : pc[c] = "idle" \/ Asleep(c)
        /\ \E c \in Callers : pc[c] # "idle"
        /\ TimersDown
        /\ UNCHANGED <<proc, pidfile, hb, op, pc, rc>>

Next == \/ \E c \in Callers, o \in CallerOps : Invoke(c, o)
        \/ \E c \in Callers : S31Step(c)
        \/ \E p \in Pid : ProcStep(p)
        \/ Tick

\* Time passes, and a running shell script runs on as it does: no infinite run of
\* the others fits between two of its polls (strong, because their steps and the
\* death and rebirth of prudynt may disable a poll's outcome in between).
Fairness == /\ \A c \in Callers : SF_initVars(S31Step(c))
            /\ SF_initVars(Tick)

Spec == Init /\ [][Next]_initVars /\ Fairness

-----------------------------------------------------------------------------
\* Every variable has its type; no timer runs below zero.
TypeOK ==
    /\ proc \in [Pid -> Kinds]
    /\ pidfile \in Pid \cup {NoPid}
    /\ hb \in BOOLEAN
    /\ op \in [Callers -> Ops]
    /\ pc \in [Callers -> Steps]
    /\ wait \in [Callers -> Nat]
    /\ rc \in [Callers -> {0, 1}]

\* stop_daemon's contract: "caller MUST NOT start a new prudynt on top -- that is
\* what wedges the VPU". There are never two live prudynt processes.
OnePrudynt == \A p, q \in Pid : pid_live(p) /\ pid_live(q) => p = q

\* Nobody is inside the script.
Quiescent == \A c \in Callers : pc[c] = "idle"

\* Every invocation stops the heartbeat before it touches prudynt and only a launch
\* starts it again: whatever the interleaving, once all invocations have returned a
\* prudynt that can still be signalled is accompanied by its heartbeat.
HeartbeatFollows ==
    Quiescent => \A p \in Pid : Killable(p) => hb

\* Every invocation ends: the watchdog, which calls the script synchronously, and
\* rcS, which runs it inline, are never blocked for good.
Terminates == \A c \in Callers : pc[c] # "idle" ~> pc[c] = "idle"
=============================================================================
