--------------------------- MODULE MCPrudyntInit ---------------------------
(***************************************************************************)
(* PrudyntInit for TLC, with three history variables.                      *)
(***************************************************************************)
EXTENDS PrudyntInit

VARIABLES
    settled,    \* time since a prudynt was last alive, counted up to RECLAIM_WAIT
    elapsed,    \* time each invocation has spent in stop_daemon
    overlapped  \* TRUE once two invocations have run at the same time

mcVars == <<proc, pidfile, hb, op, pc, wait, rc, settled, elapsed, overlapped>>

InStop(c) == pc[c] \in {"check", "rmgone", "termwait", "killwait", "rmpid", "confirm"}

MCInit == Init /\ settled = RECLAIM_WAIT /\ elapsed = [c \in Callers |-> 0]
          /\ overlapped = FALSE

\* While a prudynt is alive nothing has settled; afterwards each Tick counts.
Settle(step) ==
    settled' = IF prudynt_alive \/ prudynt_alive' THEN 0
               ELSE IF step = "tick" /\ settled < RECLAIM_WAIT THEN settled + 1
               ELSE settled

\* An invocation that leaves stop_daemon forgets how long it took.
Measure(step) ==
    elapsed' = [c \in Callers |->
                  IF ~InStop(c)' THEN 0
                  ELSE IF step = "tick" THEN elapsed[c] + 1 ELSE elapsed[c]]

\* The history after a step.
History(step) ==
    /\ Settle(step) /\ Measure(step)
    /\ overlapped' = (overlapped \/ \E c, d \in Callers :
                         c # d /\ pc'[c] # "idle" /\ pc'[d] # "idle")

MCNext ==
    \/ /\ \/ \E c \in Callers, o \in CallerOps : Invoke(c, o)
          \/ \E c \in Callers : S31Step(c)
          \/ \E p \in Pid : ProcStep(p)
       /\ History("step")
    \/ Tick /\ History("tick")

MCSpec == /\ MCInit /\ [][MCNext]_mcVars
          /\ \A c \in Callers : SF_mcVars(S31Step(c) /\ History("step"))
          /\ SF_mcVars(Tick /\ History("tick"))

-----------------------------------------------------------------------------
\* "caller MUST NOT start a new prudynt on top -- that is what wedges the VPU": as long
\* as invocations follow one another, restart never leads to two live prudynts.
NeverOnTop == ~overlapped => OnePrudynt

\* restart() never launches sooner than RECLAIM_WAIT after the last prudynt died:
\* "never go below 15s", the settle the VPU needs.
ReclaimRespected ==
    [][\A c \in Callers : op[c] = "restart" /\ pc[c] = "start" /\ pc'[c] = "hb"
         => settled = RECLAIM_WAIT \/ overlapped]_mcVars

\* stop_daemon takes at most TERM_GRACE + KILL_GRACE, whatever prudynt does with the
\* signals: rcK runs it inside the hardware watchdog's budget.
StopBudget == \A c \in Callers : elapsed[c] <= TERM_GRACE + KILL_GRACE
=============================================================================
