-------------------------- MODULE HaPublishProofs ---------------------------
(***************************************************************************)
(* The confirmed-value cache of the Home Assistant integration says what   *)
(* the broker holds, for any number of processes, values and faults.       *)
(***************************************************************************)
EXTENDS HaPublish, TLAPS

\* What a process publishes is a state of the entity.
ValInv == \A p \in Procs :
            /\ pc[p] \in {"act", "lock", "steal", "pid", "check", "send", "cache", "unlock"} => val[p] \in Values
            /\ pc[p] = "capture" => val[p] \in Values \cup {""}

Critical == {"pid", "check", "send", "cache", "unlock"}

\* Unless the lock was stolen or given up on: whoever is between ha_lock and ha_unlock holds
\* it, alone, and a lock that is free or dead is held by nobody.
LockInv == excuse = {} =>
    /\ \A p \in Procs : locked[p] <=> pc[p] \in Critical
    /\ \A p, q \in Procs : locked[p] /\ locked[q] => p = q
    /\ lock \in {NoLock, Dead} => \A p \in Procs : ~locked[p]
    /\ \A p \in Procs : lock = Owner(p) => locked[p]

\* Between the acknowledgement and the cache the broker holds what is about to be remembered.
AckInv == excuse = {} => \A p \in Procs : pc[p] = "cache" => retained = val[p]

\* TypeOK, as what is counted and what is not.
CountersOK == /\ epoch \in 0 .. MaxCmds /\ e0 \in [Procs -> 0 .. MaxCmds] /\ landed \in 0 .. MaxCmds
              /\ changes \in 0 .. MaxChanges /\ faults \in 0 .. MaxFaults
StatesOK == /\ actual \in Values /\ cache \in Values \cup {"none"} /\ retained \in Values \cup {"none"}
            /\ lock \in {NoLock, NoPid, Dead} \cup {Owner(p) : p \in Procs}
            /\ pc \in [Procs -> Places] /\ val \in [Procs -> Values \cup {"none", ""}]
            /\ force \in [Procs -> BOOLEAN] /\ locked \in [Procs -> BOOLEAN] /\ reconnect \in BOOLEAN
            /\ excuse \subseteq {"stolen", "unlocked", "unacked", "wiped"}

IInv == HaInv /\ ValInv /\ LockInv /\ AckInv

\* The command handler is a process, and the bounds are numbers.
LEMMA CmdProc == Cmd \in Procs /\ MaxCmds \in Nat /\ MaxChanges \in Nat /\ MaxFaults \in Nat
BY HaAssumption DEF Procs

\* The states of the lock directory can be told apart.
LEMMA LockStates == /\ NoLock # NoPid /\ NoLock # Dead /\ NoPid # Dead
                    /\ \A p \in Procs : Owner(p) \notin {NoLock, NoPid, Dead}
                    /\ \A p, q \in Procs : Owner(p) = Owner(q) => p = q
BY HaAssumption DEF NoLock, NoPid, Dead, Owner, Procs

\* The startup of ha-daemon satisfies the invariant.
LEMMA InitIInv == Init => IInv
<1> SUFFICES ASSUME Init PROVE IInv
    OBVIOUS
<1> USE CmdProc DEF Init
<1>1. reconnect \in BOOLEAN
    BY Zenon
<1>a. actual \in Values /\ cache \in Values \cup {"none"} /\ retained \in Values \cup {"none"}
    OBVIOUS
<1>b. epoch \in 0 .. MaxCmds /\ changes \in 0 .. MaxChanges /\ faults \in 0 .. MaxFaults /\ landed \in 0 .. MaxCmds
    OBVIOUS
<1>c. pc \in [Procs -> Places]
    BY DEF Places
<1>d. val \in [Procs -> Values \cup {"none", ""}] 
    OBVIOUS
<1>e. e0 \in [Procs -> 0 .. MaxCmds]
    OBVIOUS
<1>f. force \in [Procs -> BOOLEAN] /\ locked \in [Procs -> BOOLEAN]
    OBVIOUS
<1>g. lock \in {NoLock, NoPid, Dead} \cup {Owner(p) : p \in Procs}
    OBVIOUS
<1>2. TypeOK
    BY <1>1, <1>a, <1>b, <1>c, <1>d, <1>e, <1>f, <1>g DEF TypeOK
<1>3. CacheHonest /\ ValInv /\ AckInv
    BY DEF CacheHonest, ValInv, AckInv
<1>4. LockInv
    BY LockStates DEF LockInv, Critical
<1> QED BY <1>2, <1>3, <1>4 DEF IInv, HaInv

\* Every step keeps counters and epochs in their ranges.
LEMMA CountersStep == CountersOK /\ [Next]_vars => CountersOK'
<1> SUFFICES ASSUME CountersOK, [Next]_vars PROVE CountersOK'
    OBVIOUS
<1> USE CmdProc DEF CountersOK, At
<1>1. ASSUME NEW p \in Procs, Step(p) PROVE CountersOK'
    <2>1. CASE ha_state_read(p)
        <3>1. faults' = faults \/ (faults < MaxFaults /\ faults' = faults + 1)
            BY <2>1, Zenon DEF ha_state_read, Fault
        <3>2. e0' = e0 /\ epoch' = epoch /\ landed' = landed /\ changes' = changes
            BY <2>1, Zenon DEF ha_state_read
        <3> QED BY <3>1, <3>2
    <2>2. CASE ha_pub_state(p)
        <3>1. CASE Done(p)
            <4>1. /\ e0' = [e0 EXCEPT ![p] = 0] /\ epoch' = epoch /\ landed' = landed
                  /\ changes' = changes /\ faults' = faults
                BY <2>2, <3>1, Zenon DEF ha_pub_state, Done, bounds
            <4> QED BY <4>1
        <3>2. CASE Request(p)
            BY <2>2, <3>2 DEF ha_pub_state, Request, bounds
        <3> QED BY <2>2, <3>1, <3>2 DEF ha_pub_state
    <2>3. CASE ha_lock_mkdir(p)
        BY <2>3 DEF ha_lock_mkdir, bounds
    <2>4. CASE ha_lock_pid(p)
        BY <2>4 DEF ha_lock_pid, locals, bounds
    <2>5. CASE ha_lock_orphan(p)
        BY <2>5 DEF ha_lock_orphan, locals, bounds
    <2>6. CASE ha_lock_steal(p)
        BY <2>6 DEF ha_lock_steal, Orphan, locals, bounds
    <2>7. CASE ha_lock_gives_up(p)
        BY <2>7 DEF ha_lock_gives_up, Fault, locals
    <2>8. CASE ha_pub_check(p)
        BY <2>8 DEF ha_pub_check, locals, bounds
    <2>9. CASE ha_pub_send(p)
        BY <2>9 DEF ha_pub_send, Lands, Fault, locals
    <2>10. CASE ha_cache_write(p)
        BY <2>10 DEF ha_cache_write, locals, bounds
    <2>11. CASE ha_unlock(p)
        BY <2>11 DEF ha_unlock, Done, bounds
    <2>12. CASE p = Cmd /\ cmd_act
        BY <2>12 DEF cmd_act, Done, bounds
    <2> QED BY <1>1, <2>1, <2>2, <2>3, <2>4, <2>5, <2>6, <2>7, <2>8, <2>9, <2>10, <2>11, <2>12 DEF Step
<1>2. ASSUME NEW p \in Procs, Kill(p) PROVE CountersOK'
    BY <1>2 DEF Kill, Fault, Reset
<1>3. ASSUME NEW p \in Procs, NEW f \in BOOLEAN, ha_state(p, f) PROVE CountersOK'
    BY <1>3 DEF ha_state, bounds
<1>4. CASE cmd_stamp
    BY <1>4 DEF cmd_stamp, bounds
<1>5. CASE Change
    BY <1>5 DEF Change, locals
<1>6. CASE BrokerRestart
    BY <1>6 DEF BrokerRestart, Fault, locals
<1>7. CASE ServiceRestart
    BY <1>7 DEF ServiceRestart, Fault, Reset
<1>8. CASE UNCHANGED vars
    BY <1>8 DEF vars, locals, bounds
<1> QED BY <1>1, <1>2, <1>3, <1>4, <1>5, <1>6, <1>7, <1>8 DEF Next

\* Every step keeps the other types.
LEMMA StatesStep == StatesOK /\ ValInv /\ [Next]_vars => StatesOK'
<1> SUFFICES ASSUME StatesOK, ValInv, [Next]_vars PROVE StatesOK'
    OBVIOUS
<1> USE CmdProc DEF StatesOK, ValInv, Places, At
<1>1. ASSUME NEW p \in Procs, Step(p) PROVE StatesOK'
    <2>1. CASE ha_state_read(p)
        BY <2>1 DEF ha_state_read
    <2>2. CASE ha_pub_state(p)
        BY <2>2 DEF ha_pub_state, Done, Request, bounds
    <2>3. CASE ha_lock_mkdir(p)
        BY <2>3 DEF ha_lock_mkdir, bounds
    <2>4. CASE ha_lock_pid(p)
        BY <2>4 DEF ha_lock_pid, locals, bounds
    <2>5. CASE ha_lock_orphan(p)
        BY <2>5 DEF ha_lock_orphan, locals, bounds
    <2>6. CASE ha_lock_steal(p)
        BY <2>6 DEF ha_lock_steal, Orphan, locals, bounds
    <2>7. CASE ha_lock_gives_up(p)
        BY <2>7 DEF ha_lock_gives_up, Fault, locals
    <2>8. CASE ha_pub_check(p)
        BY <2>8 DEF ha_pub_check, locals, bounds
    <2>9. CASE ha_pub_send(p)
        BY <2>9 DEF ha_pub_send, Lands, Fault, locals
    <2>10. CASE ha_cache_write(p)
        BY <2>10 DEF ha_cache_write, locals, bounds
    <2>11. CASE ha_unlock(p)
        BY <2>11 DEF ha_unlock, Done, bounds
    <2>12. CASE p = Cmd /\ cmd_act
        <3>1. actual' \in Values /\ (val[Cmd] \in Values)
            BY <2>12 DEF cmd_act
        <3>2. CASE Done(Cmd)
            BY <2>12, <3>1, <3>2 DEF cmd_act, Done
        <3>3. CASE ~Done(Cmd)
            <4>1. PICK v \in {val[Cmd], actual'} : val' = [val EXCEPT ![Cmd] = v]
                BY <2>12, <3>3 DEF cmd_act
            <4>2. pc' = [pc EXCEPT ![Cmd] = "capture"] /\ force' = force /\ locked' = locked
                BY <2>12, <3>3 DEF cmd_act
            <4> QED BY <2>12, <3>1, <4>1, <4>2 DEF cmd_act
        <3> QED BY <3>2, <3>3
    <2> QED BY <1>1, <2>1, <2>2, <2>3, <2>4, <2>5, <2>6, <2>7, <2>8, <2>9, <2>10, <2>11, <2>12 DEF Step
<1>2. ASSUME NEW p \in Procs, Kill(p) PROVE StatesOK'
    BY <1>2 DEF Kill, Fault, Reset
<1>3. ASSUME NEW p \in Procs, NEW f \in BOOLEAN, ha_state(p, f) PROVE StatesOK'
    BY <1>3 DEF ha_state, bounds
<1>4. CASE cmd_stamp
    BY <1>4 DEF cmd_stamp, bounds
<1>5. CASE Change
    BY <1>5 DEF Change, locals
<1>6. CASE BrokerRestart
    BY <1>6 DEF BrokerRestart, Fault, locals
<1>7. CASE ServiceRestart
    BY <1>7 DEF ServiceRestart, Fault, Reset
<1>8. CASE UNCHANGED vars
    BY <1>8 DEF vars, locals, bounds
<1> QED BY <1>1, <1>2, <1>3, <1>4, <1>5, <1>6, <1>7, <1>8 DEF Next

\* Every step keeps the values publishable.
LEMMA ValStep == TypeOK /\ ValInv /\ [Next]_vars => ValInv'
<1> SUFFICES ASSUME TypeOK, ValInv, [Next]_vars PROVE ValInv'
    OBVIOUS
<1> USE CmdProc DEF TypeOK, ValInv, Places, At
<1>1. ASSUME NEW p \in Procs, Step(p) PROVE ValInv'
    <2>1. CASE ha_state_read(p)
        BY <2>1 DEF ha_state_read, Fault, bounds
    <2>2. CASE ha_pub_state(p)
        BY <2>2 DEF ha_pub_state, Done, Request, bounds
    <2>3. CASE ha_lock_mkdir(p)
        BY <2>3 DEF ha_lock_mkdir, bounds
    <2>4. CASE ha_lock_pid(p)
        BY <2>4 DEF ha_lock_pid, locals, bounds
    <2>5. CASE ha_lock_orphan(p)
        BY <2>5 DEF ha_lock_orphan, locals, bounds
    <2>6. CASE ha_lock_steal(p)
        BY <2>6 DEF ha_lock_steal, Orphan, locals, bounds
    <2>7. CASE ha_lock_gives_up(p)
        BY <2>7 DEF ha_lock_gives_up, Fault, locals
    <2>8. CASE ha_pub_check(p)
        BY <2>8 DEF ha_pub_check, locals, bounds
    <2>9. CASE ha_pub_send(p)
        BY <2>9 DEF ha_pub_send, Lands, Fault, locals
    <2>10. CASE ha_cache_write(p)
        BY <2>10 DEF ha_cache_write, locals, bounds
    <2>11. CASE ha_unlock(p)
        BY <2>11 DEF ha_unlock, Done, bounds
    <2>12. CASE p = Cmd /\ cmd_act
        BY <2>12 DEF cmd_act, Done, bounds
    <2> QED BY <1>1, <2>1, <2>2, <2>3, <2>4, <2>5, <2>6, <2>7, <2>8, <2>9, <2>10, <2>11, <2>12 DEF Step
<1>2. ASSUME NEW p \in Procs, Kill(p) PROVE ValInv'
    BY <1>2 DEF Kill, Fault, Reset
<1>3. ASSUME NEW p \in Procs, NEW f \in BOOLEAN, ha_state(p, f) PROVE ValInv'
    BY <1>3 DEF ha_state, bounds
<1>4. CASE cmd_stamp
    BY <1>4 DEF cmd_stamp, bounds
<1>5. CASE Change
    BY <1>5 DEF Change, locals
<1>6. CASE BrokerRestart
    BY <1>6 DEF BrokerRestart, Fault, locals
<1>7. CASE ServiceRestart
    BY <1>7 DEF ServiceRestart, Fault, Reset
<1>8. CASE UNCHANGED vars
    BY <1>8 DEF vars, locals, bounds
<1> QED BY <1>1, <1>2, <1>3, <1>4, <1>5, <1>6, <1>7, <1>8 DEF Next

\* Every step that needs no excuse keeps the lock exclusive.
LEMMA LockStep == TypeOK /\ LockInv /\ [Next]_vars => LockInv'
<1> SUFFICES ASSUME TypeOK, LockInv, [Next]_vars PROVE LockInv'
    OBVIOUS
<1> USE CmdProc DEF LockInv, Critical, At
<1>a. pc \in [Procs -> Places] /\ locked \in [Procs -> BOOLEAN]
    BY DEF TypeOK
<1> USE <1>a, LockStates
<1>1. ASSUME NEW p \in Procs, Step(p) PROVE LockInv'
    <2>1. CASE ha_state_read(p)
        BY <2>1 DEF ha_state_read, Fault, bounds
    <2>2. CASE ha_pub_state(p)
        BY <2>2 DEF ha_pub_state, Done, Request, bounds
    <2>3. CASE ha_lock_mkdir(p)
        BY <2>3 DEF ha_lock_mkdir, bounds
    <2>4. CASE ha_lock_pid(p)
        BY <2>4 DEF ha_lock_pid, locals, bounds
    <2>5. CASE ha_lock_orphan(p)
        BY <2>5 DEF ha_lock_orphan, locals, bounds
    <2>6. CASE ha_lock_steal(p)
        BY <2>6 DEF ha_lock_steal, Orphan, locals, bounds
    <2>7. CASE ha_lock_gives_up(p)
        BY <2>7 DEF ha_lock_gives_up, Fault, locals
    <2>8. CASE ha_pub_check(p)
        BY <2>8 DEF ha_pub_check, locals, bounds
    <2>9. CASE ha_pub_send(p)
        BY <2>9 DEF ha_pub_send, Lands, Fault, locals
    <2>10. CASE ha_cache_write(p)
        BY <2>10 DEF ha_cache_write, locals, bounds
    <2>11. CASE ha_unlock(p)
        BY <2>11 DEF ha_unlock, Done, bounds
    <2>12. CASE p = Cmd /\ cmd_act
        BY <2>12 DEF cmd_act, Done, bounds
    <2> QED BY <1>1, <2>1, <2>2, <2>3, <2>4, <2>5, <2>6, <2>7, <2>8, <2>9, <2>10, <2>11, <2>12 DEF Step
<1>2. ASSUME NEW p \in Procs, Kill(p) PROVE LockInv'
    BY <1>2 DEF Kill, Fault, Reset
<1>3. ASSUME NEW p \in Procs, NEW f \in BOOLEAN, ha_state(p, f) PROVE LockInv'
    BY <1>3 DEF ha_state, bounds
<1>4. CASE cmd_stamp
    BY <1>4 DEF cmd_stamp, bounds
<1>5. CASE Change
    BY <1>5 DEF Change, locals
<1>6. CASE BrokerRestart
    BY <1>6 DEF BrokerRestart, Fault, locals
<1>7. CASE ServiceRestart
    BY <1>7 DEF ServiceRestart, Fault, Reset
<1>8. CASE UNCHANGED vars
    BY <1>8 DEF vars, locals, bounds
<1> QED BY <1>1, <1>2, <1>3, <1>4, <1>5, <1>6, <1>7, <1>8 DEF Next

\* Every step that needs no excuse keeps the cache honest.
LEMMA CacheStep == IInv /\ [Next]_vars => (CacheHonest /\ AckInv)'
<1> SUFFICES ASSUME IInv, [Next]_vars PROVE (CacheHonest /\ AckInv)'
    OBVIOUS
<1> USE CmdProc DEF LockInv, AckInv, CacheHonest, Critical, At
<1>a. /\ pc \in [Procs -> Places] /\ val \in [Procs -> Values \cup {"none", ""}]
      /\ LockInv /\ AckInv /\ CacheHonest
    BY DEF IInv, HaInv, TypeOK
<1> USE <1>a
<1>1. ASSUME NEW p \in Procs, Step(p) PROVE (CacheHonest /\ AckInv)'
    <2>1. CASE ha_state_read(p)
        BY <2>1 DEF ha_state_read, Fault, bounds
    <2>2. CASE ha_pub_state(p)
        BY <2>2 DEF ha_pub_state, Done, Request, bounds
    <2>3. CASE ha_lock_mkdir(p)
        BY <2>3 DEF ha_lock_mkdir, bounds
    <2>4. CASE ha_lock_pid(p)
        BY <2>4 DEF ha_lock_pid, locals, bounds
    <2>5. CASE ha_lock_orphan(p)
        BY <2>5 DEF ha_lock_orphan, locals, bounds
    <2>6. CASE ha_lock_steal(p)
        BY <2>6 DEF ha_lock_steal, Orphan, locals, bounds
    <2>7. CASE ha_lock_gives_up(p)
        BY <2>7 DEF ha_lock_gives_up, Fault, locals
    <2>8. CASE ha_pub_check(p)
        BY <2>8 DEF ha_pub_check, locals, bounds
    <2>9. CASE ha_pub_send(p)
        BY <2>9 DEF ha_pub_send, Lands, Fault, locals
    <2>10. CASE ha_cache_write(p)
        BY <2>10 DEF ha_cache_write, locals, bounds
    <2>11. CASE ha_unlock(p)
        BY <2>11 DEF ha_unlock, Done, bounds
    <2>12. CASE p = Cmd /\ cmd_act
        BY <2>12 DEF cmd_act, Done, bounds
    <2> QED BY <1>1, <2>1, <2>2, <2>3, <2>4, <2>5, <2>6, <2>7, <2>8, <2>9, <2>10, <2>11, <2>12 DEF Step
<1>2. ASSUME NEW p \in Procs, Kill(p) PROVE (CacheHonest /\ AckInv)'
    BY <1>2 DEF Kill, Fault, Reset
<1>3. ASSUME NEW p \in Procs, NEW f \in BOOLEAN, ha_state(p, f) PROVE (CacheHonest /\ AckInv)'
    BY <1>3 DEF ha_state, bounds
<1>4. CASE cmd_stamp
    BY <1>4 DEF cmd_stamp, bounds
<1>5. CASE Change
    BY <1>5 DEF Change, locals
<1>6. CASE BrokerRestart
    BY <1>6 DEF BrokerRestart, Fault, locals
<1>7. CASE ServiceRestart
    BY <1>7 DEF ServiceRestart, Fault, Reset
<1>8. CASE UNCHANGED vars
    BY <1>8 DEF vars, locals, bounds
<1> QED BY <1>1, <1>2, <1>3, <1>4, <1>5, <1>6, <1>7, <1>8 DEF Next

\* The invariant is inductive.
LEMMA IInvStep == IInv /\ [Next]_vars => IInv'
<1> SUFFICES ASSUME IInv, [Next]_vars PROVE IInv'
    OBVIOUS
<1>1. CountersOK /\ StatesOK
    BY DEF IInv, HaInv, TypeOK, CountersOK, StatesOK
<1>2. CountersOK' /\ StatesOK'
    BY <1>1, CountersStep, StatesStep DEF IInv
<1>3. TypeOK'
    BY <1>2 DEF TypeOK, CountersOK, StatesOK
<1> QED BY <1>3, ValStep, LockStep, CacheStep DEF IInv, HaInv

\* Whenever no publish is under way the cache of the Home Assistant scripts is what the broker
\* holds, whatever runs concurrently, unless a lock was stolen or given up on, a delivery was
\* not confirmed or the broker forgot.
THEOREM HaSafe == Spec => []HaInv
<1>1. IInv => HaInv
    BY DEF IInv
<1> QED BY InitIInv, IInvStep, <1>1, PTL DEF Spec

\* No captured epoch and no result at the broker is ahead of the epoch.
EpochInv == landed <= epoch /\ \A p \in Procs : e0[p] <= epoch

\* Unless a lock was stolen or given up on, a process that passed the check under the lock and
\* has not published yet has nothing newer at the broker.
FreshInv == excuse = {} => \A p \in Procs : pc[p] = "send" => landed <= e0[p]

\* Every step keeps the epochs in order.
LEMMA EpochStep == CountersOK /\ EpochInv /\ [Next]_vars => EpochInv'
<1> SUFFICES ASSUME CountersOK, EpochInv, [Next]_vars PROVE EpochInv'
    OBVIOUS
<1> USE CmdProc DEF EpochInv, CountersOK, At
<1>1. ASSUME NEW p \in Procs, Step(p) PROVE EpochInv'
    <2>1. CASE ha_state_read(p)
        BY <2>1 DEF ha_state_read, Fault, bounds
    <2>2. CASE ha_pub_state(p)
        <3>1. epoch' = epoch /\ landed' = landed
            BY <2>2, Zenon DEF ha_pub_state
        <3>2. CASE Done(p)
            <4>1. e0' = [e0 EXCEPT ![p] = 0]
                BY <3>2, Zenon DEF Done
            <4> QED BY <3>1, <4>1
        <3>3. CASE Request(p)
            <4>1. e0' = [e0 EXCEPT ![p] = epoch]
                BY <3>3, Zenon DEF Request
            <4> QED BY <3>1, <4>1
        <3> QED BY <2>2, <3>2, <3>3, Zenon DEF ha_pub_state
    <2>3. CASE ha_lock_mkdir(p)
        BY <2>3 DEF ha_lock_mkdir, bounds
    <2>4. CASE ha_lock_pid(p)
        BY <2>4 DEF ha_lock_pid, locals, bounds
    <2>5. CASE ha_lock_orphan(p)
        BY <2>5 DEF ha_lock_orphan, locals, bounds
    <2>6. CASE ha_lock_steal(p)
        BY <2>6 DEF ha_lock_steal, locals, bounds
    <2>7. CASE ha_lock_gives_up(p)
        BY <2>7 DEF ha_lock_gives_up, Fault, locals
    <2>8. CASE ha_pub_check(p)
        BY <2>8 DEF ha_pub_check, locals, bounds
    <2>9. CASE ha_pub_send(p)
        BY <2>9 DEF ha_pub_send, Lands, Fault, locals
    <2>10. CASE ha_cache_write(p)
        BY <2>10 DEF ha_cache_write, locals, bounds
    <2>11. CASE ha_unlock(p)
        BY <2>11 DEF ha_unlock, Done, bounds
    <2>12. CASE p = Cmd /\ cmd_act
        BY <2>12 DEF cmd_act, Done, bounds
    <2> QED BY <1>1, <2>1, <2>2, <2>3, <2>4, <2>5, <2>6, <2>7, <2>8, <2>9, <2>10, <2>11, <2>12 DEF Step
<1>2. ASSUME NEW p \in Procs, Kill(p) PROVE EpochInv'
    BY <1>2 DEF Kill, Fault, Reset
<1>3. ASSUME NEW p \in Procs, NEW f \in BOOLEAN, ha_state(p, f) PROVE EpochInv'
    BY <1>3 DEF ha_state, bounds
<1>4. CASE cmd_stamp
    BY <1>4 DEF cmd_stamp, bounds
<1>5. CASE Change
    BY <1>5 DEF Change, locals
<1>6. CASE BrokerRestart
    BY <1>6 DEF BrokerRestart, Fault, locals
<1>7. CASE ServiceRestart
    BY <1>7 DEF ServiceRestart, Fault, Reset
<1>8. CASE UNCHANGED vars
    BY <1>8 DEF vars, locals, bounds
<1> QED BY <1>1, <1>2, <1>3, <1>4, <1>5, <1>6, <1>7, <1>8 DEF Next

\* Every step keeps what is about to be published fresh: only a holder of the lock publishes.
LEMMA FreshStep == TypeOK /\ LockInv /\ EpochInv /\ FreshInv /\ [Next]_vars => FreshInv'
<1> SUFFICES ASSUME TypeOK, LockInv, EpochInv, FreshInv, [Next]_vars PROVE FreshInv'
    OBVIOUS
<1> USE CmdProc DEF LockInv, EpochInv, FreshInv, Critical, At
<1>a. /\ pc \in [Procs -> Places] /\ locked \in [Procs -> BOOLEAN]
      /\ epoch \in 0 .. MaxCmds /\ landed \in 0 .. MaxCmds /\ e0 \in [Procs -> 0 .. MaxCmds]
    BY Zenon DEF TypeOK
<1> USE <1>a
<1>1. ASSUME NEW p \in Procs, Step(p) PROVE FreshInv'
    <2>1. CASE ha_state_read(p)
        BY <2>1 DEF ha_state_read, Fault, bounds
    <2>2. CASE ha_pub_state(p)
        <3>1. landed' = landed /\ excuse' = excuse
            BY <2>2, Zenon DEF ha_pub_state
        <3>2. CASE Done(p)
            <4>1. e0' = [e0 EXCEPT ![p] = 0] /\ pc' = [pc EXCEPT ![p] = "idle"]
                BY <3>2, Zenon DEF Done
            <4> QED BY <3>1, <4>1
        <3>3. CASE Request(p)
            <4>1. e0' = [e0 EXCEPT ![p] = epoch] /\ pc' = [pc EXCEPT ![p] = "lock"]
                BY <3>3, Zenon DEF Request
            <4> QED BY <3>1, <4>1
        <3> QED BY <2>2, <3>2, <3>3, Zenon DEF ha_pub_state
    <2>3. CASE ha_lock_mkdir(p)
        BY <2>3 DEF ha_lock_mkdir, bounds
    <2>4. CASE ha_lock_pid(p)
        BY <2>4 DEF ha_lock_pid, locals, bounds
    <2>5. CASE ha_lock_orphan(p)
        BY <2>5 DEF ha_lock_orphan, locals, bounds
    <2>6. CASE ha_lock_steal(p)
        BY <2>6 DEF ha_lock_steal, locals, bounds
    <2>7. CASE ha_lock_gives_up(p)
        BY <2>7 DEF ha_lock_gives_up, Fault, locals
    <2>8. CASE ha_pub_check(p)
        BY <2>8 DEF ha_pub_check, locals, bounds
    <2>9. CASE ha_pub_send(p)
        BY <2>9 DEF ha_pub_send, Lands, Fault, locals
    <2>10. CASE ha_cache_write(p)
        BY <2>10 DEF ha_cache_write, locals, bounds
    <2>11. CASE ha_unlock(p)
        BY <2>11 DEF ha_unlock, Done, bounds
    <2>12. CASE p = Cmd /\ cmd_act
        BY <2>12 DEF cmd_act, Done, bounds
    <2> QED BY <1>1, <2>1, <2>2, <2>3, <2>4, <2>5, <2>6, <2>7, <2>8, <2>9, <2>10, <2>11, <2>12 DEF Step
<1>2. ASSUME NEW p \in Procs, Kill(p) PROVE FreshInv'
    BY <1>2 DEF Kill, Fault, Reset
<1>3. ASSUME NEW p \in Procs, NEW f \in BOOLEAN, ha_state(p, f) PROVE FreshInv'
    BY <1>3 DEF ha_state, bounds
<1>4. CASE cmd_stamp
    BY <1>4 DEF cmd_stamp, bounds
<1>5. CASE Change
    BY <1>5 DEF Change, locals
<1>6. CASE BrokerRestart
    BY <1>6 DEF BrokerRestart, Fault, locals
<1>7. CASE ServiceRestart
    BY <1>7 DEF ServiceRestart, Fault, Reset
<1>8. CASE UNCHANGED vars
    BY <1>8 DEF vars, locals, bounds
<1> QED BY <1>1, <1>2, <1>3, <1>4, <1>5, <1>6, <1>7, <1>8 DEF Next

\* A poll that captured its epoch before a command was stamped does not overwrite the command's
\* result at the broker, for any number of polls and commands, unless a lock was stolen or given
\* up on, a delivery was not confirmed or the broker forgot.
THEOREM SupersededSafe == Spec => SupersededSilent
<1>1. Init => IInv /\ EpochInv /\ FreshInv
    <2>1. ASSUME Init PROVE EpochInv /\ FreshInv
        BY <2>1 DEF Init, EpochInv, FreshInv
    <2> QED BY <2>1, InitIInv
<1>2. IInv /\ EpochInv /\ FreshInv /\ [Next]_vars => (IInv /\ EpochInv /\ FreshInv)'
    <2>1. IInv => TypeOK /\ LockInv /\ CountersOK
        BY DEF IInv, HaInv, TypeOK, CountersOK
    <2> QED BY <2>1, IInvStep, EpochStep, FreshStep
<1>3. IInv /\ FreshInv =>
        [\A p \in Polls : pc[p] = "send" /\ pc'[p] # "send" /\ e0[p] < landed
           => retained' = retained \/ excuse # {}]_vars
    <2> SUFFICES ASSUME IInv, FreshInv, NEW p \in Polls, pc[p] = "send", e0[p] < landed
                 PROVE  excuse # {}
        OBVIOUS
    <2>1. e0 \in [Procs -> 0 .. MaxCmds] /\ landed \in 0 .. MaxCmds
        BY Zenon DEF IInv, HaInv, TypeOK
    <2>2. p \in Procs
        BY DEF Procs
    <2> QED BY <2>1, <2>2, CmdProc DEF FreshInv
<1> QED BY <1>1, <1>2, <1>3, PTL DEF Spec, SupersededSilent
=============================================================================
