------------------------- MODULE PrudyntInitProofs -------------------------
(***************************************************************************)
(* Proofs about S31prudynt for every set of callers and pids and every     *)
(* value of the timeouts.                                                  *)
(***************************************************************************)
EXTENDS MCPrudyntInit, TLAPS

\* Every step of the script and of prudynt keeps the types.
LEMMA TypeStep == TypeOK /\ [Next]_initVars => TypeOK'
<1> SUFFICES ASSUME TypeOK, [Next]_initVars PROVE TypeOK'
    OBVIOUS
<1> USE InitAssumption DEF TypeOK, Kinds, Ops, Steps, Waiting
<1>1. ASSUME NEW c \in Callers, NEW o \in CallerOps, Invoke(c, o) PROVE TypeOK'
    <2>1. hb' \in BOOLEAN
        BY <1>1, Zenon DEF Invoke
    <2>2. wait' \in [Callers -> Nat]
        <3>1. CASE o = "start"
            <4>1. PICK t \in 0 .. 2 * JCT_TIMEOUT : Goto(c, "c1", t)
                BY <1>1, <3>1 DEF Invoke, EnterStart
            <4> QED BY <4>1 DEF Goto
        <3>2. CASE o # "start"
            BY <1>1, <3>2 DEF Invoke, Goto
        <3> QED BY <3>1, <3>2
    <2>3. op' \in [Callers -> Ops]
        BY <1>1 DEF Invoke
    <2>4. pc' \in [Callers -> Steps]
        BY <1>1 DEF Invoke, EnterStart, Goto
    <2> QED BY <1>1, <2>1, <2>2, <2>3, <2>4 DEF Invoke
<1>2. ASSUME NEW c \in Callers, S31Step(c) PROVE TypeOK'
    <2>1. CASE stop_daemon_term(c)    BY <2>1 DEF stop_daemon_term, Goto
    <2>2. CASE stop_daemon_gone(c)    BY <2>2 DEF stop_daemon_gone, Goto, Exit
    <2>3. CASE stop_daemon_kill(c)    BY <2>3 DEF stop_daemon_kill, Goto
    <2>4. CASE stop_daemon_polled(c)  BY <2>4 DEF stop_daemon_polled, Goto
    <2>5. CASE stop_daemon_rmpid(c)   BY <2>5 DEF stop_daemon_rmpid, Goto
    <2>6. CASE stop_daemon_confirm(c) BY <2>6 DEF stop_daemon_confirm, Goto, Exit
    <2>7. CASE reclaim_wait(c)        BY <2>7 DEF reclaim_wait, EnterStart, Goto
    <2>8. CASE config_checked(c)      BY <2>8 DEF config_checked, Goto
    <2>9. CASE start_daemon(c)        BY <2>9 DEF start_daemon, Goto, Exit
    <2>10. CASE restart_heartbeat(c)  BY <2>10 DEF restart_heartbeat, Goto, Exit
    <2> QED BY <1>2, <2>1, <2>2, <2>3, <2>4, <2>5, <2>6, <2>7, <2>8, <2>9, <2>10 DEF S31Step
<1>3. ASSUME NEW p \in Pid, ProcStep(p) PROVE TypeOK'
    BY <1>3 DEF ProcStep, BootDone, Crash, Fail
<1>4. CASE Tick
    BY <1>4 DEF Tick, TimersDown
<1>5. CASE UNCHANGED initVars
    BY <1>5 DEF initVars
<1> QED BY <1>1, <1>2, <1>3, <1>4, <1>5 DEF Next

\* The script starts well typed.
LEMMA TypeInit == Init => TypeOK
<1> SUFFICES ASSUME Init PROVE TypeOK
    OBVIOUS
<1>1. hb \in BOOLEAN
    BY Zenon DEF Init
<1> QED BY <1>1 DEF Init, TypeOK, Kinds, Ops, Steps, Waiting

\* The state of S31prudynt is well typed in every reachable state.
THEOREM TypeCorrect == Spec => []TypeOK
BY TypeInit, TypeStep, PTL DEF Spec

-----------------------------------------------------------------------------
\* A heartbeat that is off beside a prudynt that can be signalled is off because an
\* invocation is about to kill that prudynt, or has just launched it.
HBInv == ~hb /\ (\E p \in Pid : Killable(p)) =>
            \E c \in Callers : pc[c] \in {"check", "termwait", "hb"}

\* Every step of the script keeps HBInv, for any number of overlapping callers.
LEMMA HBStep == TypeOK /\ HBInv /\ [Next]_initVars => HBInv'
<1> SUFFICES ASSUME TypeOK, HBInv, [Next]_initVars,
                    ~hb', NEW q \in Pid, Killable(q)'
             PROVE  \E c \in Callers : pc'[c] \in {"check", "termwait", "hb"}
    BY DEF HBInv
<1> USE DEF TypeOK
<1>1. ASSUME NEW c \in Callers, NEW o \in CallerOps, Invoke(c, o)
      PROVE  \E d \in Callers : pc'[d] \in {"check", "termwait", "hb"}
    <2>1. CASE o # "start"
        BY <1>1, <2>1 DEF Invoke, Goto
    <2>2. CASE o = "start"
        <3>1. PICK d \in Callers : pc[d] \in {"check", "termwait", "hb"}
            BY <1>1, <2>2 DEF Invoke, HBInv, Killable, pid_live
        <3>2. pc[c] = "idle" /\ d # c
            BY <1>1, <3>1 DEF Invoke
        <3> QED BY <1>1, <2>2, <3>1, <3>2 DEF Invoke, EnterStart, Goto
    <2> QED BY <2>1, <2>2
<1>2. ASSUME NEW c \in Callers, S31Step(c)
      PROVE  \E d \in Callers : pc'[d] \in {"check", "termwait", "hb"}
    <2>1. CASE stop_daemon_term(c)
        <3>1. prudynt_alive
            BY <2>1 DEF stop_daemon_term, prudynt_alive, pid_live, Killable
        <3> QED BY <2>1, <3>1 DEF stop_daemon_term, Goto
    <2>2. CASE stop_daemon_kill(c)
        <3>1. ~Killable(q)'
            <4>1. CASE ~prudynt_alive
                BY <2>2, <4>1 DEF stop_daemon_kill, prudynt_alive, pid_live, Killable
            <4>2. CASE prudynt_alive
                BY <2>2, <4>2 DEF stop_daemon_kill, pid_live, Killable
            <4> QED BY <4>1, <4>2
        <3> QED BY <3>1
    <2>3. CASE start_daemon(c)
        <3>1. CASE pidfile # NoPid /\ pid_live(pidfile)
            <4>1. PICK d \in Callers : pc[d] \in {"check", "termwait", "hb"}
                BY <2>3, <3>1 DEF start_daemon, HBInv, Killable, pid_live
            <4> QED BY <2>3, <3>1, <4>1 DEF start_daemon, Exit, Goto
        <3>2. CASE ~(pidfile # NoPid /\ pid_live(pidfile))
            BY <2>3, <3>2 DEF start_daemon, Goto
        <3> QED BY <3>1, <3>2
    <2>4. CASE restart_heartbeat(c)
        BY <2>4 DEF restart_heartbeat
    <2>5. ASSUME pc[c] \notin {"check", "termwait", "hb"},
                 hb' = hb, proc' = proc,
                 \A d \in Callers : d # c => pc'[d] = pc[d]
          PROVE  \E d \in Callers : pc'[d] \in {"check", "termwait", "hb"}
        BY <2>5 DEF HBInv, Killable, pid_live
    <2>6. CASE stop_daemon_gone(c)    BY <2>5, <2>6 DEF stop_daemon_gone, Goto, Exit
    <2>7. CASE stop_daemon_polled(c)  BY <2>5, <2>7 DEF stop_daemon_polled, Goto
    <2>8. CASE stop_daemon_rmpid(c)   BY <2>5, <2>8 DEF stop_daemon_rmpid, Goto
    <2>9. CASE stop_daemon_confirm(c) BY <2>5, <2>9 DEF stop_daemon_confirm, Goto, Exit
    <2>10. CASE reclaim_wait(c)       BY <2>5, <2>10 DEF reclaim_wait, EnterStart, Goto
    <2>11. CASE config_checked(c)     BY <2>5, <2>11 DEF config_checked, Goto
    <2> QED BY <1>2, <2>1, <2>2, <2>3, <2>4, <2>6, <2>7, <2>8, <2>9, <2>10, <2>11 DEF S31Step
<1>3. ASSUME NEW p \in Pid, ProcStep(p)
      PROVE  \E d \in Callers : pc'[d] \in {"check", "termwait", "hb"}
    BY <1>3 DEF ProcStep, BootDone, Crash, Fail, HBInv, Killable, pid_live
<1>4. CASE Tick
    BY <1>4 DEF Tick, HBInv, Killable, pid_live
<1>5. CASE UNCHANGED initVars
    BY <1>5 DEF initVars, HBInv, Killable, pid_live
<1> QED BY <1>1, <1>2, <1>3, <1>4, <1>5 DEF Next

\* However many callers run the script at once: when all of them have returned, a
\* prudynt that can run has its heartbeat (stop_heartbeat precedes stop_daemon, and
\* restart_heartbeat follows every launch).
THEOREM HeartbeatSafe == Spec => []HeartbeatFollows
<1>1. Init => HBInv
    BY DEF Init, HBInv, Killable, pid_live
<1>2. TypeOK /\ HBInv => HeartbeatFollows
    BY DEF TypeOK, HBInv, HeartbeatFollows, Quiescent
<1> QED BY <1>1, <1>2, TypeInit, TypeStep, HBStep, PTL DEF Spec

-----------------------------------------------------------------------------
\* No two invocations are under way.
Single == \A c, d \in Callers : pc[c] # "idle" /\ pc[d] # "idle" => c = d

\* From the moment stop_daemon has seen prudynt gone until the launch, nothing of that
\* name is alive: a restart that is alone never launches on top of a survivor.
DeadInv == /\ OnePrudynt
           /\ \A c \in Callers : pc[c] \in {"rmgone", "reclaim", "c1", "start"} => ~prudynt_alive

\* Every step keeps DeadInv, as long as invocations follow one another and plain `start` is
\* left to the boot.
LEMMA DeadStep == "start" \notin CallerOps /\ TypeOK /\ Single /\ DeadInv /\ [Next]_initVars /\ Single' => DeadInv'
<1> SUFFICES ASSUME "start" \notin CallerOps, TypeOK, Single, DeadInv, [Next]_initVars, Single' PROVE DeadInv'
    OBVIOUS
<1> USE DEF TypeOK, DeadInv, OnePrudynt, pid_live, prudynt_alive
<1>1. ASSUME NEW c \in Callers, NEW o \in CallerOps, Invoke(c, o) PROVE DeadInv'
    BY <1>1 DEF Invoke, Goto
<1>2. ASSUME NEW c \in Callers, S31Step(c) PROVE DeadInv'
    <2>0. \A d \in Callers : d # c => pc[d] = "idle"
        BY <1>2 DEF Single, S31Step, stop_daemon_term, stop_daemon_gone, stop_daemon_kill, stop_daemon_polled,
            stop_daemon_rmpid, stop_daemon_confirm, reclaim_wait, config_checked, start_daemon, restart_heartbeat
    <2>1. CASE stop_daemon_term(c)
        BY <2>0, <2>1 DEF stop_daemon_term, Goto, Killable
    <2>2. CASE stop_daemon_gone(c)
        BY <2>0, <2>2 DEF stop_daemon_gone, Goto, Exit
    <2>3. CASE stop_daemon_kill(c)
        BY <2>0, <2>3 DEF stop_daemon_kill, Goto, Killable
    <2>4. CASE stop_daemon_polled(c)
        BY <2>0, <2>4 DEF stop_daemon_polled, Goto
    <2>5. CASE stop_daemon_rmpid(c)
        BY <2>0, <2>5 DEF stop_daemon_rmpid, Goto
    <2>6. CASE stop_daemon_confirm(c)
        BY <2>0, <2>6 DEF stop_daemon_confirm, Goto, Exit
    <2>7. CASE reclaim_wait(c)
        BY <2>0, <2>7 DEF reclaim_wait, EnterStart, Goto
    <2>8. CASE config_checked(c)
        BY <2>0, <2>8 DEF config_checked, Goto
    <2>9. CASE start_daemon(c)
        BY <2>0, <2>9 DEF start_daemon, Goto, Exit
    <2>10. CASE restart_heartbeat(c)
        BY <2>0, <2>10 DEF restart_heartbeat, Goto, Exit
    <2> QED BY <1>2, <2>1, <2>2, <2>3, <2>4, <2>5, <2>6, <2>7, <2>8, <2>9, <2>10 DEF S31Step
<1>3. ASSUME NEW p \in Pid, ProcStep(p) PROVE DeadInv'
    BY <1>3 DEF ProcStep, BootDone, Crash, Fail, Killable
<1>4. CASE Tick
    BY <1>4 DEF Tick
<1>5. CASE UNCHANGED initVars
    BY <1>5 DEF initVars
<1> QED BY <1>1, <1>2, <1>3, <1>4, <1>5 DEF Next

\* One caller that leaves plain `start` to the boot.
OneCaller == /\ \A c, d \in Callers : c = d
             /\ "start" \notin CallerOps

\* A caller that is alone and only stops and restarts never has two live prudynts, for
\* every timeout and however prudynt dies or hangs.
THEOREM OnePrudyntSafe == OneCaller => (Spec => []OnePrudynt)
<1> SUFFICES ASSUME OneCaller PROVE Spec => []OnePrudynt
    OBVIOUS
<1>1. Init => DeadInv
    BY DEF Init, DeadInv, OnePrudynt, pid_live, prudynt_alive
<1>2. TypeOK /\ DeadInv /\ [Next]_initVars => DeadInv'
    BY DeadStep DEF OneCaller, Single
<1>3. DeadInv => OnePrudynt
    BY DEF DeadInv
<1> QED BY <1>1, <1>2, <1>3, TypeInit, TypeStep, PTL DEF Spec

-----------------------------------------------------------------------------
(* With the history variables of MCPrudyntInit. *)

HistoryOK == settled \in 0 .. RECLAIM_WAIT /\ elapsed \in [Callers -> Nat]

\* Without an overlap in the past, nobody overlaps now.
OverlapInv == ~overlapped => Single

\* How long an invocation may have been in stop_daemon, by phase.
BudgetInv == \A c \in Callers :
    /\ ~InStop(c) \/ pc[c] \in {"check", "rmgone"} => elapsed[c] = 0
    /\ pc[c] = "termwait" => elapsed[c] + wait[c] <= TERM_GRACE
    /\ pc[c] = "killwait" => elapsed[c] + wait[c] <= TERM_GRACE + KILL_GRACE
    /\ elapsed[c] <= TERM_GRACE + KILL_GRACE

\* What is left of the settle is still waited for; after it the VPU has settled.
SettleInv == \A c \in Callers :
    /\ pc[c] = "reclaim" => settled + wait[c] >= RECLAIM_WAIT
    /\ pc[c] \in {"c1", "start"} => settled = RECLAIM_WAIT

\* The history only observes.
LEMMA Observes == [MCNext]_mcVars => [Next]_initVars
BY DEF MCNext, Next, mcVars, initVars

\* The types of the history.
LEMMA HistoryStep == TypeOK /\ HistoryOK /\ [MCNext]_mcVars => HistoryOK'
<1> SUFFICES ASSUME TypeOK, HistoryOK, [MCNext]_mcVars PROVE HistoryOK'
    OBVIOUS
<1> USE InitAssumption DEF HistoryOK
<1>1. CASE History("step") \/ History("tick")
    BY <1>1 DEF History, Settle, Measure
<1>2. CASE UNCHANGED mcVars
    BY <1>2 DEF mcVars
<1> QED BY <1>1, <1>2 DEF MCNext

\* overlapped remembers every overlap.
LEMMA OverlapStep == OverlapInv /\ [MCNext]_mcVars => OverlapInv' /\ (~overlapped' => ~overlapped)
<1> SUFFICES ASSUME OverlapInv, [MCNext]_mcVars PROVE OverlapInv' /\ (~overlapped' => ~overlapped)
    OBVIOUS
<1>1. CASE History("step") \/ History("tick")
    BY <1>1 DEF History, OverlapInv, Single
<1>2. CASE UNCHANGED mcVars
    BY <1>2 DEF mcVars, OverlapInv, Single
<1> QED BY <1>1, <1>2 DEF MCNext

\* Every step keeps each invocation within its budget.
LEMMA BudgetStep == TypeOK /\ HistoryOK /\ BudgetInv /\ [MCNext]_mcVars => BudgetInv'
<1> SUFFICES ASSUME TypeOK, HistoryOK, BudgetInv, [MCNext]_mcVars PROVE BudgetInv'
    OBVIOUS
<1> USE InitAssumption DEF TypeOK, HistoryOK, BudgetInv, InStop, Measure
<1>1. ASSUME NEW c \in Callers, NEW o \in CallerOps, Invoke(c, o), Measure("step") PROVE BudgetInv'
    BY <1>1 DEF Invoke, EnterStart, Goto
<1>2. ASSUME NEW c \in Callers, S31Step(c), Measure("step") PROVE BudgetInv'
    <2>1. CASE stop_daemon_term(c)    BY <1>2, <2>1 DEF stop_daemon_term, Goto
    <2>2. CASE stop_daemon_gone(c)    BY <1>2, <2>2 DEF stop_daemon_gone, Goto, Exit
    <2>3. CASE stop_daemon_kill(c)    BY <1>2, <2>3 DEF stop_daemon_kill, Goto
    <2>4. CASE stop_daemon_polled(c)  BY <1>2, <2>4 DEF stop_daemon_polled, Goto
    <2>5. CASE stop_daemon_rmpid(c)   BY <1>2, <2>5 DEF stop_daemon_rmpid, Goto
    <2>6. CASE stop_daemon_confirm(c) BY <1>2, <2>6 DEF stop_daemon_confirm, Goto, Exit
    <2>7. CASE reclaim_wait(c)        BY <1>2, <2>7 DEF reclaim_wait, EnterStart, Goto
    <2>8. CASE config_checked(c)      BY <1>2, <2>8 DEF config_checked, Goto
    <2>9. CASE start_daemon(c)        BY <1>2, <2>9 DEF start_daemon, Goto, Exit
    <2>10. CASE restart_heartbeat(c)  BY <1>2, <2>10 DEF restart_heartbeat, Goto, Exit
    <2> QED BY <1>2, <2>1, <2>2, <2>3, <2>4, <2>5, <2>6, <2>7, <2>8, <2>9, <2>10 DEF S31Step
<1>3. ASSUME NEW p \in Pid, ProcStep(p), Measure("step") PROVE BudgetInv'
    BY <1>3 DEF ProcStep
<1>4. CASE Tick /\ Measure("tick")
    BY <1>4 DEF Tick, TimersDown, Asleep
<1>5. CASE UNCHANGED mcVars
    BY <1>5 DEF mcVars
<1> QED BY <1>1, <1>2, <1>3, <1>4, <1>5 DEF MCNext, History

\* Every step of invocations that follow one another keeps the settle.
LEMMA SettleStep == "start" \notin CallerOps /\ TypeOK /\ HistoryOK /\ Single /\ DeadInv /\ SettleInv
                      /\ [MCNext]_mcVars /\ Single' => SettleInv'
<1> SUFFICES ASSUME "start" \notin CallerOps, TypeOK, HistoryOK, Single, DeadInv, SettleInv, [MCNext]_mcVars, Single'
             PROVE  SettleInv'
    OBVIOUS
<1> USE InitAssumption DEF TypeOK, HistoryOK, SettleInv, Settle
<1>0. (\A c \in Callers : pc'[c] \in {"rmgone", "reclaim", "c1", "start"} => ~prudynt_alive')
    BY Observes, DeadStep DEF DeadInv, prudynt_alive, pid_live
<1>1. ASSUME NEW c \in Callers, NEW o \in CallerOps, Invoke(c, o), Settle("step") PROVE SettleInv'
    <2>1. pc' = [pc EXCEPT ![c] = "check"] /\ wait' = [wait EXCEPT ![c] = 0] /\ pc[c] = "idle"
        BY <1>1 DEF Invoke, Goto
    <2>2. \A d \in Callers : d # c => pc'[d] = "idle"
        BY <2>1 DEF Single
    <2> QED BY <2>1, <2>2
<1>2. ASSUME NEW c \in Callers, S31Step(c), Settle("step") PROVE SettleInv'
    <2>0. \A d \in Callers : d # c => pc[d] = "idle"
        BY <1>2 DEF Single, S31Step, stop_daemon_term, stop_daemon_gone, stop_daemon_kill, stop_daemon_polled,
            stop_daemon_rmpid, stop_daemon_confirm, reclaim_wait, config_checked, start_daemon, restart_heartbeat
    <2>1. CASE stop_daemon_term(c)    BY <2>0, <2>1 DEF stop_daemon_term, Goto
    <2>2. CASE stop_daemon_gone(c)    BY <1>2, <2>0, <2>2 DEF stop_daemon_gone, Goto, Exit
    <2>3. CASE stop_daemon_kill(c)    BY <2>0, <2>3 DEF stop_daemon_kill, Goto
    <2>4. CASE stop_daemon_polled(c)  BY <2>0, <2>4 DEF stop_daemon_polled, Goto
    <2>5. CASE stop_daemon_rmpid(c)   BY <2>0, <2>5 DEF stop_daemon_rmpid, Goto
    <2>6. CASE stop_daemon_confirm(c) BY <1>2, <2>0, <2>6 DEF stop_daemon_confirm, Goto, Exit
    <2>7. CASE reclaim_wait(c)
        BY <1>0, <1>2, <2>0, <2>7 DEF reclaim_wait, EnterStart, Goto, DeadInv
    <2>8. CASE config_checked(c)
        BY <1>0, <1>2, <2>0, <2>8 DEF config_checked, Goto, DeadInv
    <2>9. CASE start_daemon(c)        BY <2>0, <2>9 DEF start_daemon, Goto, Exit
    <2>10. CASE restart_heartbeat(c)  BY <2>0, <2>10 DEF restart_heartbeat, Goto, Exit
    <2> QED BY <1>2, <2>1, <2>2, <2>3, <2>4, <2>5, <2>6, <2>7, <2>8, <2>9, <2>10 DEF S31Step
<1>3. ASSUME NEW p \in Pid, ProcStep(p), Settle("step") PROVE SettleInv'
    BY <1>0, <1>3 DEF ProcStep, DeadInv
<1>4. CASE Tick /\ Settle("tick")
    BY <1>0, <1>4 DEF Tick, TimersDown, Asleep, DeadInv
<1>5. CASE UNCHANGED mcVars
    BY <1>5 DEF mcVars
<1> QED BY <1>1, <1>2, <1>3, <1>4, <1>5 DEF MCNext, History

\* What invocations that follow one another keep.
SerialInv == ~overlapped => DeadInv /\ SettleInv
MCIInv == TypeOK /\ HistoryOK /\ OverlapInv /\ BudgetInv

\* The boot satisfies both.
LEMMA MCInitInv == MCInit => MCIInv /\ SerialInv
<1> SUFFICES ASSUME MCInit PROVE MCIInv /\ SerialInv
    OBVIOUS
<1> USE InitAssumption DEF MCInit, Init
<1>1. TypeOK
    BY TypeInit
<1>2. HistoryOK /\ OverlapInv /\ BudgetInv
    BY DEF HistoryOK, OverlapInv, Single, BudgetInv, InStop
<1>3. SerialInv
    BY DEF SerialInv, DeadInv, SettleInv, OnePrudynt, prudynt_alive, pid_live
<1> QED BY <1>1, <1>2, <1>3 DEF MCIInv

\* Both are inductive, SerialInv without plain `start`.
LEMMA MCStep == MCIInv /\ [MCNext]_mcVars => MCIInv'
BY Observes, TypeStep, HistoryStep, OverlapStep, BudgetStep DEF MCIInv

LEMMA SerialStep == "start" \notin CallerOps /\ MCIInv /\ SerialInv /\ [MCNext]_mcVars => SerialInv'
<1> SUFFICES ASSUME "start" \notin CallerOps, MCIInv, SerialInv, [MCNext]_mcVars, ~overlapped'
             PROVE  (DeadInv /\ SettleInv)'
    BY DEF SerialInv
<1>1. ~overlapped /\ Single /\ Single'
    BY OverlapStep DEF MCIInv, OverlapInv
<1> QED BY <1>1, Observes, DeadStep, SettleStep DEF MCIInv, SerialInv

\* stop_daemon ends within TERM_GRACE + KILL_GRACE, for every value of both, any number of
\* callers at once and any behaviour of prudynt.
THEOREM StopBudgetSafe == MCSpec => []StopBudget
<1>1. MCIInv => StopBudget
    BY DEF MCIInv, BudgetInv, StopBudget
<1> QED BY <1>1, MCInitInv, MCStep, PTL DEF MCSpec

\* Callers that stop and restart one after the other never have two live prudynts, for every
\* timeout and however prudynt dies or hangs. (Overlapping ones, and `start`, do: see the runs.)
THEOREM NeverOnTopSafe == "start" \notin CallerOps => (MCSpec => []NeverOnTop)
<1> SUFFICES ASSUME "start" \notin CallerOps PROVE MCSpec => []NeverOnTop
    OBVIOUS
<1>1. SerialInv => NeverOnTop
    BY DEF SerialInv, DeadInv, NeverOnTop
<1>2. MCIInv /\ SerialInv /\ [MCNext]_mcVars => SerialInv'
    BY SerialStep
<1> QED BY <1>1, <1>2, MCInitInv, MCStep, PTL DEF MCSpec

\* restart() launches no sooner than RECLAIM_WAIT after the last prudynt died, whatever the
\* settle time is, as long as invocations follow one another.
THEOREM ReclaimSafe == "start" \notin CallerOps => (MCSpec => ReclaimRespected)
<1> SUFFICES ASSUME "start" \notin CallerOps PROVE MCSpec => ReclaimRespected
    OBVIOUS
<1>1. MCIInv /\ SerialInv /\ [MCNext]_mcVars => SerialInv'
    BY SerialStep
<1>2. SerialInv /\ [MCNext]_mcVars
        => [\A c \in Callers : op[c] = "restart" /\ pc[c] = "start" /\ pc'[c] = "hb"
              => settled = RECLAIM_WAIT \/ overlapped]_mcVars
    BY DEF SerialInv, SettleInv
<1> QED BY <1>1, <1>2, MCInitInv, MCStep, PTL DEF MCSpec, ReclaimRespected
=============================================================================
