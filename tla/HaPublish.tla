------------------------------ MODULE HaPublish -----------------------------
(***************************************************************************)
(* How the Home Assistant integration publishes the state of one entity    *)
(* (package/thingino-ha/files: ha-common, ha-commands, ha-state,           *)
(* ha-daemon): the serial command handler and any number of ha-state runs  *)
(* share the confirmed-value cache, the command epoch, the per-entity lock *)
(* and the retained message at the broker. Processes are killed, publishes *)
(* are lost or their acknowledgement is, the broker forgets, and the       *)
(* service is restarted.                                                   *)
(***************************************************************************)
EXTENDS Naturals

CONSTANTS
    Cmd,            \* ha-commands, and the loop of ha-daemon that restarts it
    Polls,          \* ha-state: the periodic one and those started after a command
    Values,         \* states of the entity
    MaxCmds,        \* bound: commands
    MaxChanges,     \* bound: changes of the entity by others
    MaxFaults       \* bound: kills, failed publishes, broker and service restarts

ASSUME HaAssumption == /\ Cmd \notin Polls /\ {"none", ""} \cap Values = {}
                       /\ {"none", "empty", "dead"} \cap (Polls \cup {Cmd}) = {}
                       /\ MaxCmds \in Nat /\ MaxChanges \in Nat /\ MaxFaults \in Nat

VARIABLES
    actual,         \* the state of the entity
    cache,          \* the last confirmed value
    retained,       \* what the broker holds
    epoch,          \* the command epoch
    lock,           \* the lock directory: none, empty, dead, or its owner
    pc,             \* where each process is
    val, e0, force, \* its state value, captured epoch and force flag
    locked,         \* it holds the lock, or believes so
    reconnect,      \* ha-daemon owes a forced ha-state before ha-commands runs on
    changes, faults,
    landed,         \* history: the epoch of the last command result at the broker
    excuse          \* history: what a property may have to exempt

Procs == Polls \cup {Cmd}
locals == <<val, e0, force, locked>>
bounds == <<changes, faults>>
vars == <<actual, cache, retained, epoch, lock, pc, locals, reconnect, bounds, landed, excuse>>

Places == {"idle", "act", "read", "capture", "lock", "steal", "pid", "check", "send",
           "cache", "unlock"}
NoLock == <<"none">>
NoPid == <<"empty">>
Dead == <<"dead">>
Owner(p) == <<p>>

At(p, place) == pc' = [pc EXCEPT ![p] = place]
Fault == faults < MaxFaults /\ faults' = faults + 1

Init == /\ actual \in Values /\ cache = "none" /\ retained \in Values \cup {"none"}
        /\ epoch = 0 /\ lock = NoLock
        /\ pc = [p \in Procs |-> "idle"]
        /\ val = [p \in Procs |-> "none"] /\ e0 = [p \in Procs |-> 0]
        /\ force = [p \in Procs |-> FALSE] /\ locked = [p \in Procs |-> FALSE]
        /\ reconnect = FALSE
        /\ changes = 0 /\ faults = 0
        /\ landed = 0 /\ excuse = {}

-----------------------------------------------------------------------------
(* What is published. *)

\* dispatch: the epoch is bumped before the command acts.
cmd_stamp == /\ pc[Cmd] = "idle" /\ ~reconnect
             /\ epoch < MaxCmds /\ epoch' = epoch + 1
             /\ \E v \in Values : val' = [val EXCEPT ![Cmd] = v]
             /\ force' = [force EXCEPT ![Cmd] = FALSE]
             /\ At(Cmd, "act")
             /\ UNCHANGED <<actual, cache, retained, lock, e0, locked, reconnect, bounds, landed,
                            excuse>>

\* The end of a publish, or of a skipped one.
Done(p) == /\ At(p, "idle")
           /\ val' = [val EXCEPT ![p] = "none"] /\ e0' = [e0 EXCEPT ![p] = 0]
           /\ force' = [force EXCEPT ![p] = FALSE] /\ locked' = [locked EXCEPT ![p] = FALSE]

\* The actuator is driven, and may not follow. The payload is published, or for some
\* entities the state read back; nothing for a payload that is not known or a command
\* that physical privacy intercepts.
cmd_act == /\ pc[Cmd] = "act"
           /\ \/ /\ actual' \in {actual, val[Cmd]}
                 /\ \E v \in {val[Cmd], actual'} : val' = [val EXCEPT ![Cmd] = v]
                 /\ At(Cmd, "capture") /\ UNCHANGED <<e0, force, locked>>
              \/ Done(Cmd) /\ UNCHANGED actual
           /\ UNCHANGED <<cache, retained, epoch, lock, reconnect, bounds, landed, excuse>>

\* A run of ha-state, forced at startup, after a reconnect and every RECONCILE_INTERVAL.
ha_state(p, f) ==
    /\ pc[p] = "idle"
    /\ p = Cmd => f /\ reconnect
    /\ force' = [force EXCEPT ![p] = f]
    /\ reconnect' = (reconnect /\ p # Cmd)
    /\ At(p, "read")
    /\ UNCHANGED <<actual, cache, retained, epoch, lock, val, e0, locked, bounds, landed,
                   excuse>>

\* The state is read; a sensor that has none gives nothing.
ha_state_read(p) ==
    /\ pc[p] = "read"
    /\ \/ val' = [val EXCEPT ![p] = actual] /\ UNCHANGED faults
       \/ val' = [val EXCEPT ![p] = ""] /\ Fault
    /\ At(p, "capture")
    /\ UNCHANGED <<actual, cache, retained, epoch, lock, e0, force, locked, reconnect, changes,
                   landed, excuse>>

\* The epoch is captured and the message is made.
Request(p) == At(p, "lock") /\ e0' = [e0 EXCEPT ![p] = epoch] /\ UNCHANGED <<val, force, locked>>

\* Mutant: force does not bypass the cache.
ha_pub_state_unforced(p) ==
    /\ pc[p] = "capture"
    /\ IF val[p] \in {"", cache} THEN Done(p) ELSE Request(p)
    /\ UNCHANGED <<actual, cache, retained, epoch, lock, reconnect, bounds, landed, excuse>>

\* ha_pub_state: the epoch is captured, and a value equal to the cache is skipped unless
\* forced. ha-state queues the message and flushes later; ha-commands goes on at once.
ha_pub_state(p) ==
    /\ pc[p] = "capture"
    /\ IF val[p] = "" \/ (~force[p] /\ val[p] = cache) THEN Done(p) ELSE Request(p)
    /\ UNCHANGED <<actual, cache, retained, epoch, lock, reconnect, bounds, landed, excuse>>

-----------------------------------------------------------------------------
(* The per-entity lock. *)

ha_lock_mkdir(p) ==
    /\ pc[p] = "lock" /\ lock = NoLock
    /\ lock' = NoPid
    /\ locked' = [locked EXCEPT ![p] = TRUE]
    /\ At(p, "pid")
    /\ UNCHANGED <<actual, cache, retained, epoch, val, e0, force, reconnect, bounds, landed,
                   excuse>>

ha_lock_pid(p) ==
    /\ pc[p] = "pid"
    /\ lock' = IF lock = NoLock THEN NoLock ELSE Owner(p)
    /\ At(p, "check")
    /\ UNCHANGED <<actual, cache, retained, epoch, locals, reconnect, bounds, landed, excuse>>

\* The owner is dead, or the lock has aged: nobody who lives is still holding it.
Orphan == lock = Dead \/ (lock # NoLock /\ \A q \in Procs : ~locked[q])

ha_lock_orphan(p) ==
    /\ pc[p] = "lock" /\ Orphan
    /\ At(p, "steal")
    /\ UNCHANGED <<actual, cache, retained, epoch, lock, locals, reconnect, bounds, landed, excuse>>

\* mv aside, of whatever lock is there by now; then mkdir is tried again.
ha_lock_steal(p) ==
    /\ pc[p] = "steal"
    /\ excuse' = IF lock # NoLock /\ ~Orphan THEN excuse \cup {"stolen"} ELSE excuse
    /\ lock' = NoLock
    /\ At(p, "lock")
    /\ UNCHANGED <<actual, cache, retained, epoch, locals, reconnect, bounds, landed>>

\* The wait is bounded, and the directory may not be creatable: publish without it.
ha_lock_gives_up(p) ==
    /\ pc[p] = "lock"
    /\ Fault
    /\ excuse' = excuse \cup {"unlocked"}
    /\ At(p, "check")
    /\ UNCHANGED <<actual, cache, retained, epoch, lock, locals, reconnect, changes, landed>>

-----------------------------------------------------------------------------
(* _ha_pub_confirm under the lock. *)

\* Mutant: the epoch is not looked at again.
ha_pub_check_skipped(p) ==
    /\ pc[p] = "check"
    /\ At(p, "send")
    /\ UNCHANGED <<actual, cache, retained, epoch, lock, locals, reconnect, bounds, landed, excuse>>

\* A snapshot that a command has superseded is dropped.
ha_pub_check(p) ==
    /\ pc[p] = "check"
    /\ At(p, IF epoch # e0[p] THEN "unlock" ELSE "send")
    /\ UNCHANGED <<actual, cache, retained, epoch, lock, locals, reconnect, bounds, landed, excuse>>

\* The broker has the message.
Lands(p) == /\ retained' = val[p]
            /\ landed' = IF p = Cmd /\ ~force[p] THEN e0[p] ELSE landed

\* Mutant: the cache is written to also when the publish has failed.
ha_pub_send_trusting(p) ==
    /\ pc[p] = "send"
    /\ \/ Lands(p) /\ At(p, "cache") /\ UNCHANGED <<faults, excuse>>
       \/ Fault /\ At(p, "cache") /\ UNCHANGED <<retained, landed, excuse>>
    /\ UNCHANGED <<actual, cache, epoch, lock, locals, reconnect, changes>>

\* mosquitto_pub -q 1 under timeout: confirmed, lost, or delivered and not confirmed.
ha_pub_send(p) ==
    /\ pc[p] = "send"
    /\ \/ Lands(p) /\ At(p, "cache") /\ UNCHANGED <<faults, excuse>>
       \/ Fault /\ At(p, "unlock") /\ UNCHANGED <<retained, landed, excuse>>
       \/ /\ Fault /\ Lands(p) /\ At(p, "unlock")
          /\ excuse' = excuse \cup {"unacked"}
    /\ UNCHANGED <<actual, cache, epoch, lock, locals, reconnect, changes>>

\* Only now the value is remembered.
ha_cache_write(p) ==
    /\ pc[p] = "cache"
    /\ cache' = val[p]
    /\ At(p, "unlock")
    /\ UNCHANGED <<actual, retained, epoch, lock, locals, reconnect, bounds, landed, excuse>>

\* rm -rf of the lock, whoever's it is by now; nothing if the wait had been given up.
ha_unlock(p) ==
    /\ pc[p] = "unlock"
    /\ lock' = IF locked[p] THEN NoLock ELSE lock
    /\ Done(p)
    /\ UNCHANGED <<actual, cache, retained, epoch, reconnect, bounds, landed, excuse>>

-----------------------------------------------------------------------------
Step(p) ==
    \/ ha_state_read(p) \/ ha_pub_state(p) \/ ha_lock_mkdir(p) \/ ha_lock_pid(p)
    \/ ha_lock_orphan(p) \/ ha_lock_steal(p) \/ ha_lock_gives_up(p) \/ ha_pub_check(p)
    \/ ha_pub_send(p) \/ ha_cache_write(p) \/ ha_unlock(p)
    \/ p = Cmd /\ cmd_act

\* The entity is changed by something else than a command.
Change == /\ changes < MaxChanges /\ changes' = changes + 1
          /\ actual' \in Values \ {actual}
          /\ UNCHANGED <<cache, retained, epoch, lock, pc, locals, reconnect, faults, landed, excuse>>

Reset(S) == /\ pc' = [p \in Procs |-> IF p \in S THEN "idle" ELSE pc[p]]
            /\ val' = [p \in Procs |-> IF p \in S THEN "none" ELSE val[p]]
            /\ e0' = [p \in Procs |-> IF p \in S THEN 0 ELSE e0[p]]
            /\ force' = [p \in Procs |-> IF p \in S THEN FALSE ELSE force[p]]
            /\ locked' = [p \in Procs |-> IF p \in S THEN FALSE ELSE locked[p]]
            /\ lock' = IF \E p \in S : lock = Owner(p) THEN Dead ELSE lock
            /\ excuse' = IF \E p \in S : pc[p] = "cache" THEN excuse \cup {"unacked"} ELSE excuse

\* A process is killed; its lock stays. ha-commands is restarted after a forced ha-state.
Kill(p) == /\ pc[p] # "idle" /\ Fault
           /\ Reset({p})
           /\ reconnect' = (reconnect \/ p = Cmd)
           /\ UNCHANGED <<actual, cache, retained, epoch, changes, landed>>

\* The broker restarts without its retained messages: the subscriber drops.
BrokerRestart == /\ Fault
                 /\ retained' = "none"
                 /\ reconnect' = TRUE
                 /\ excuse' = excuse \cup {"wiped"}
                 /\ UNCHANGED <<actual, cache, epoch, lock, pc, locals, changes, landed>>

\* S93ha restart: everything is killed, and ha-daemon clears the cache when it starts.
ServiceRestart == /\ Fault
                  /\ Reset(Procs)
                  /\ cache' = "none"
                  /\ reconnect' = FALSE
                  /\ UNCHANGED <<actual, retained, epoch, changes, landed>>

Next == \/ \E p \in Procs : Step(p) \/ Kill(p) \/ (\E f \in BOOLEAN : ha_state(p, f))
        \/ cmd_stamp \/ Change \/ BrokerRestart \/ ServiceRestart

\* Processes run on, ha-daemon polls and reconciles, and restarts ha-commands.
Fairness == /\ \A p \in Procs : WF_vars(Step(p))
            /\ SF_vars(\E p \in Procs : ha_state(p, TRUE))

Spec == Init /\ [][Next]_vars /\ Fairness

-----------------------------------------------------------------------------
TypeOK ==
    /\ actual \in Values /\ cache \in Values \cup {"none"} /\ retained \in Values \cup {"none"}
    /\ epoch \in 0 .. MaxCmds
    /\ lock \in {NoLock, NoPid, Dead} \cup {Owner(p) : p \in Procs}
    /\ pc \in [Procs -> Places] /\ val \in [Procs -> Values \cup {"none", ""}]
    /\ e0 \in [Procs -> 0 .. MaxCmds] /\ force \in [Procs -> BOOLEAN]
    /\ locked \in [Procs -> BOOLEAN] /\ reconnect \in BOOLEAN
    /\ changes \in 0 .. MaxChanges /\ faults \in 0 .. MaxFaults
    /\ landed \in 0 .. MaxCmds
    /\ excuse \subseteq {"stolen", "unlocked", "unacked", "wiped"}

\* "the cache == the last broker-acked value": whenever no publish is under way, the
\* broker holds what the cache says, whatever was published concurrently. Exempt are a
\* lock that was stolen or not obtained, a delivery that was not confirmed, and a broker
\* that has forgotten.
CacheHonest ==
    (\A p \in Procs : pc[p] # "cache") /\ excuse = {} => cache \in {"none", retained}

\* A poll that captured its epoch before a command was stamped does not overwrite the
\* command's result at the broker.
SupersededSilent ==
    [][\A p \in Polls : pc[p] = "send" /\ pc'[p] # "send" /\ e0[p] < landed
         => retained' = retained \/ excuse # {}]_vars

\* "healing any retained value that drifted": once the entity rests, Home Assistant
\* comes to show its state for good, whatever was lost, killed or restarted before.
Converges == <>[](retained = actual)

\* Types, and a cache that says what the broker holds.
HaInv == TypeOK /\ CacheHonest
=============================================================================
