--------------------------- MODULE PhysicalPrivacy --------------------------
(***************************************************************************)
(* Physical privacy, overlay/usr/sbin/physical-privacy: `on` parks the     *)
(* lens facing the camera body, `off` brings it back, and both do the slow *)
(* part in a detached waiter under the lock directory. Beside them run the *)
(* guards of the other scripts (light, daynight, the motors wrapper, the   *)
(* day/night commands), the boot re-park of S60physical-privacy, power     *)
(* cuts, a motor that falls short or cannot be read, a full overlay and    *)
(* killed processes.                                                       *)
(*                                                                         *)
(* A caller is one process slot: the invocation ("p") and its waiter ("w"). *)
(* The two emitters behave alike and are one.                              *)
(***************************************************************************)
EXTENDS Naturals

CONSTANTS
    Callers,        \* processes that run one of the scripts
    Ops,            \* what they run
    Modes,          \* day/night intents in use, a subset of auto, day, night
    MaxOps,         \* bound: invocations, not counting `off` during privacy
    MaxFaults       \* bound: power cuts, kills, motor and flash faults

ASSUME PrivacyAssumption ==
    /\ Ops \subseteq {"on", "off", "force", "reenter", "guard", "motors", "light",
                      "exec", "toggle", "setpose"}
    /\ Modes \subseteq {"auto", "day", "night"} /\ Modes # {}
    /\ MaxOps \in Nat /\ MaxFaults \in Nat

VARIABLES
    active,         \* "active" of the state file on flash
    pose,           \* its pose
    saved,          \* its snapshot
    armed,          \* the /run marker exists
    lock,           \* the lock directory: none, empty, or the pid in it
    tilt,           \* where the lens is
    emitter,        \* an IR or white LED is lit
    muted,          \* prudynt's mic_muted
    mode,           \* day/night intent, in the sidecar and in the engine
    live,           \* what the engine shows
    op, ppc, wpc,   \* per caller: command, place of the invocation and of its waiter
    loc,            \* per caller: SY, MODE, LIVE and PT
    boot,           \* S60physical-privacy found active and has yet to run reenter
    ops, faults,    \* counters of the bounds
    intent,         \* history: the day/night intents last chosen outside privacy
    excuse          \* history: what happened that a property may have to exempt

files == <<active, pose, saved>>
hist == <<ops, faults, intent, excuse>>
vars == <<files, armed, lock, tilt, emitter, muted, mode, live, op, ppc, wpc, loc,
          boot, hist>>

Tilts == {"scene", "other", "body"}
NoLock == <<"none", "-">>
NoPid == <<"empty", "-">>      \* a lock directory without a pid
Dead == <<"dead", "-">>        \* one with the pid of a process that is gone
NoSnap == [tilt |-> "none", mode |-> "none", live |-> "none"]
Snap == [tilt : Tilts \cup {"none"}, mode : {"auto", "day", "night", "none"}, live : {"day", "night", "none"}]
NoLoc == [snap |-> NoSnap, pt |-> "body"]
PPlaces == {"idle", "guard", "rcheck", "mkdir", "pid", "stale", "break", "remkdir", "held",
            "write", "freeze", "dark", "backup", "light", "apply", "pose"}
WPlaces == {"idle", "claim", "rdark", "seek", "off", "dark", "arm", "disarm", "ir", "mode",
            "exit"}

\* kill -0: an invocation and a waiter live until they exit.
pid_live(l) == \E c \in Callers : \/ l = <<c, "p">> /\ ppc[c] # "idle"
                                  \/ l = <<c, "w">> /\ wpc[c] # "idle"

lock_busy == pid_live(lock)

\* The guard of light, of daynight and of do_guard; the marker or the persisted flag.
privacy_active == armed \/ active

\* The invocation, or the waiter, goes on at a place. A slot forgets its command when
\* neither runs any more.
Command(c, ends) == op' = IF ends THEN [op EXCEPT ![c] = "off"] ELSE op
P(c, place) == /\ ppc' = [ppc EXCEPT ![c] = place]
               /\ Command(c, place = "idle" /\ wpc[c] = "idle")
W(c, place) == /\ wpc' = [wpc EXCEPT ![c] = place]
               /\ Command(c, place = "idle" /\ ppc[c] = "idle")

\* One more fault, if the bound allows it.
Fault == faults < MaxFaults /\ faults' = faults + 1
NoFault == faults' = faults

Init == /\ \/ active = FALSE
           \/ active = TRUE             \* the snapshot was lost with the file's tail
        /\ pose = "body" /\ saved = NoSnap /\ armed = FALSE /\ lock = NoLock
        /\ tilt = "scene" /\ emitter = FALSE /\ muted = FALSE
        /\ mode \in Modes
        /\ live = IF mode = "auto" THEN "day" ELSE mode
        /\ op = [c \in Callers |-> "off"]
        /\ ppc = [c \in Callers |-> "idle"] /\ wpc = [c \in Callers |-> "idle"]
        /\ loc = [c \in Callers |-> NoLoc]
        /\ boot = active
        /\ ops = 0 /\ faults = 0 /\ intent = {mode} /\ excuse = {}

-----------------------------------------------------------------------------
(* The scripts are called. *)

Entry(o) == CASE o \in {"on", "off", "force"} -> "mkdir"
              [] o = "reenter"                -> "rcheck"
              [] o \in {"guard", "motors"}    -> "guard"
              [] o \in {"light", "exec"}      -> "light"
              [] o = "toggle"                 -> "apply"
              [] o = "setpose"                -> "pose"

\* `off` may be repeated as long as there is privacy; the others count. S60 runs reenter
\* once per boot. The engine runs the executor when it switches, and once at boot.
Invoke(c, o) ==
    /\ ppc[c] = "idle" /\ wpc[c] = "idle"
    /\ o = "reenter" => boot
    /\ IF o = "reenter" \/ (o = "off" /\ privacy_active) THEN ops' = ops
       ELSE ops < MaxOps /\ ops' = ops + 1
    /\ boot' = (boot /\ o # "reenter")
    /\ op' = [op EXCEPT ![c] = o]
    /\ ppc' = [ppc EXCEPT ![c] = Entry(o)]
    /\ IF o = "exec" /\ mode = "auto" THEN live' \in {"day", "night"} ELSE live' = live
    /\ UNCHANGED <<files, armed, lock, tilt, emitter, muted, mode, wpc, loc, faults,
                   intent, excuse>>

\* do_guard, and the motors wrapper, which looks at the marker only: a transition drops
\* the command, privacy turns it into `off`, otherwise it goes on.
do_guard(c) ==
    /\ ppc[c] = "guard"
    /\ IF lock_busy THEN P(c, "idle")
       ELSE IF armed \/ (op[c] = "guard" /\ active)
       THEN ppc' = [ppc EXCEPT ![c] = "mkdir"] /\ op' = [op EXCEPT ![c] = "off"]
       ELSE P(c, "apply")
    /\ UNCHANGED <<files, armed, lock, tilt, emitter, muted, mode, live, wpc, loc, boot, hist>>

\* light on, or the executor switching to night: refused while privacy is active. The
\* executor switching to day turns the IR off.
light(c) ==
    /\ ppc[c] = "light"
    /\ IF op[c] = "exec" /\ live = "day"
       THEN emitter' = FALSE /\ P(c, "idle")
       ELSE emitter' = emitter /\ P(c, IF privacy_active THEN "idle" ELSE "apply")
    /\ UNCHANGED <<files, armed, lock, tilt, muted, mode, live, wpc, loc, boot, hist>>

\* A transition has read a snapshot: a change now may survive it or be overridden.
Transit == \E c \in Callers : loc[c].snap # NoSnap

\* What was let through happens: the GPIO is set, the lens is moved by the user, or the
\* day/night mode is changed (and the engine calls the executor).
apply(c) ==
    /\ ppc[c] = "apply" /\ op[c] # "setpose"
    /\ \/ /\ op[c] \in {"light", "exec"}
          /\ emitter' = TRUE /\ P(c, "idle")
          /\ UNCHANGED <<tilt, mode, live, intent>>
       \/ /\ op[c] = "motors"
          /\ tilt' \in {"scene", "other"} /\ P(c, "idle")
          /\ UNCHANGED <<emitter, mode, live, intent>>
       \/ /\ op[c] \in {"guard", "toggle"}
          /\ \E m \in Modes :
                /\ mode' = m
                /\ live' = IF m = "auto" THEN live ELSE m
                /\ intent' = IF active THEN intent
                             ELSE {m} \cup (IF Transit THEN intent ELSE {})
                /\ IF m = "auto" THEN P(c, "idle")
                   ELSE /\ ppc' = [ppc EXCEPT ![c] = "light"]
                        /\ op' = [op EXCEPT ![c] = "exec"]
          /\ UNCHANGED <<tilt, emitter>>
    /\ UNCHANGED <<files, armed, lock, muted, wpc, loc, boot, ops, faults, excuse>>

-----------------------------------------------------------------------------
(* The lock. *)

\* rm -rf of the lock: an excuse if its owner is alive, and not the one who removes it.
Remove(self) ==
    /\ lock' = NoLock
    /\ excuse' = IF lock \notin {NoLock, self} /\ (lock_busy \/ lock = NoPid)
                 THEN excuse \cup {"stolen"} ELSE excuse

\* echo pid >LOCK/pid, which does nothing without the directory. A lock of another
\* process is stolen by it.
WritePid(pid, own) ==
    /\ lock' = IF lock = NoLock THEN NoLock ELSE IF pid_live(pid) THEN pid ELSE Dead
    /\ excuse' = IF lock \in own \cup {NoLock, Dead} THEN excuse ELSE excuse \cup {"stolen"}

\* mkdir succeeds for one.
acquire_lock_mkdir(c) ==
    /\ ppc[c] \in {"mkdir", "remkdir"}
    /\ IF lock = NoLock THEN lock' = NoPid /\ P(c, "pid")
       ELSE lock' = lock /\ P(c, IF ppc[c] = "mkdir" THEN "stale" ELSE "idle")
    /\ UNCHANGED <<files, armed, tilt, emitter, muted, mode, live, wpc, loc, boot, hist>>

acquire_lock_pid(c) ==
    /\ ppc[c] = "pid"
    /\ WritePid(<<c, "p">>, {NoPid})
    /\ P(c, "held")
    /\ UNCHANGED <<files, armed, tilt, emitter, muted, mode, live, wpc, loc, boot,
                   ops, faults, intent>>

\* Mutant: a lock whose owner is dead is never broken.
acquire_lock_stale_kept(c) ==
    /\ ppc[c] = "stale"
    /\ P(c, "idle")
    /\ UNCHANGED <<files, armed, lock, tilt, emitter, muted, mode, live, wpc, loc, boot, hist>>

\* The lock is there: stale if it names no live process.
acquire_lock_stale(c) ==
    /\ ppc[c] = "stale"
    /\ P(c, IF lock_busy THEN "idle" ELSE "break")
    /\ UNCHANGED <<files, armed, lock, tilt, emitter, muted, mode, live, wpc, loc, boot, hist>>

acquire_lock_break(c) ==
    /\ ppc[c] = "break"
    /\ Remove(<<c, "p">>)
    /\ P(c, "remkdir")
    /\ UNCHANGED <<files, armed, tilt, emitter, muted, mode, live, wpc, loc, boot,
                   ops, faults, intent>>

\* do_reenter looks at the flag before it takes the lock.
reenter_check(c) ==
    /\ ppc[c] = "rcheck"
    /\ P(c, IF active THEN "mkdir" ELSE "idle")
    /\ UNCHANGED <<files, armed, lock, tilt, emitter, muted, mode, live, wpc, loc, boot, hist>>

-----------------------------------------------------------------------------
(* The invocation under the lock. *)

\* Nothing to do: release_lock and return.
NothingToDo(c) == \/ op[c] = "on" /\ privacy_active
                  \/ op[c] \in {"off", "force"} /\ ~privacy_active
                  \/ op[c] = "reenter" /\ armed

\* The snapshot `on` takes: the tilt, or home when it cannot be read; the intent; and
\* the live mode, which follows the intent unless that is auto.
Snapshot(t) == [tilt |-> t, mode |-> mode, live |-> IF mode = "auto" THEN live ELSE mode]

held(c) ==
    /\ ppc[c] = "held"
    /\ \/ /\ NothingToDo(c)
          /\ Remove(<<c, "p">>) /\ P(c, "idle") /\ UNCHANGED <<wpc, loc, faults>>
       \/ /\ ~NothingToDo(c) /\ op[c] = "on"
          /\ \/ NoFault /\ loc' = [loc EXCEPT ![c] = [snap |-> Snapshot(tilt), pt |-> pose]]
             \/ Fault /\ loc' = [loc EXCEPT ![c] = [snap |-> Snapshot("scene"), pt |-> pose]]
          /\ P(c, "write") /\ UNCHANGED <<wpc, lock, excuse>>
       \/ /\ ~NothingToDo(c) /\ op[c] # "on"
          /\ loc' = [loc EXCEPT ![c] = [snap |-> saved, pt |-> pose]]
          /\ excuse' = IF op[c] = "reenter" /\ ~active THEN excuse \cup {"late"} ELSE excuse
          /\ P(c, "backup") /\ W(c, "claim") /\ NoFault /\ lock' = lock
    /\ UNCHANGED <<files, armed, tilt, emitter, muted, mode, live, boot, ops, intent>>

\* write_on, first of all; if it fails nothing else happens.
on_write(c) ==
    /\ ppc[c] = "write"
    /\ \/ /\ NoFault /\ P(c, "freeze")
          /\ active' = TRUE /\ pose' = loc[c].pt /\ saved' = loc[c].snap
          /\ UNCHANGED <<lock, excuse, loc>>
       \/ /\ Fault /\ P(c, "idle")
          /\ Remove(<<c, "p">>)
          /\ loc' = [loc EXCEPT ![c] = NoLoc]
          /\ UNCHANGED files
    /\ UNCHANGED <<armed, tilt, emitter, muted, mode, live, wpc, boot, ops, intent>>

\* freeze_daynight LIVE.
on_freeze(c) ==
    /\ ppc[c] = "freeze"
    /\ mode' = loc[c].snap.live /\ live' = loc[c].snap.live
    /\ P(c, "dark")
    /\ UNCHANGED <<files, armed, lock, tilt, emitter, muted, wpc, loc, boot, hist>>

\* Emitters off, verified; mic_mute; then the waiter is started.
on_dark(c) ==
    /\ ppc[c] = "dark"
    /\ emitter' = FALSE /\ muted' = TRUE
    /\ P(c, "backup") /\ W(c, "claim")
    /\ UNCHANGED <<files, armed, lock, tilt, mode, live, loc, boot, hist>>

\* The invocation writes the waiter's pid once more and returns.
backup(c) ==
    /\ ppc[c] = "backup"
    /\ WritePid(<<c, "w">>, {<<c, "p">>, <<c, "w">>})
    /\ P(c, "idle")
    /\ UNCHANGED <<files, armed, tilt, emitter, muted, mode, live, wpc, loc, boot,
                   ops, faults, intent>>

-----------------------------------------------------------------------------
(* The waiter. *)

waiter_claim(c) ==
    /\ wpc[c] = "claim"
    /\ WritePid(<<c, "w">>, {<<c, "p">>, <<c, "w">>})
    /\ W(c, IF op[c] = "reenter" THEN "rdark" ELSE "seek")
    /\ UNCHANGED <<files, armed, tilt, emitter, muted, mode, live, ppc, loc, boot,
                   ops, faults, intent>>

\* A move takes seconds and no invocation does: those that were under way when it began
\* are over when it ends, and those that came later are at most looking at the lock, at
\* the marker or at the flag.
Settled == \A c \in Callers :
              ppc[c] \in {"idle", "mkdir", "stale", "guard", "light", "rcheck", "pose"}

\* seek_tilt: the target, or wherever a motor that falls short leaves the lens.
seek_tilt(target) == \/ NoFault /\ tilt' = target
                     \/ Fault /\ tilt' \in Tilts

on_seek(c) ==
    /\ wpc[c] = "seek" /\ op[c] \in {"on", "reenter"} /\ Settled
    /\ seek_tilt(loc[c].pt)
    /\ W(c, IF op[c] = "on" THEN "dark" ELSE "arm")
    /\ UNCHANGED <<files, armed, lock, emitter, muted, mode, live, ppc, loc, boot,
                   ops, intent, excuse>>

\* Emitters off: `reenter` before the move (with mic_mute), `on` again after it.
waiter_dark(c) ==
    /\ wpc[c] \in {"rdark", "dark"}
    /\ emitter' = FALSE
    /\ muted' = (muted \/ wpc[c] = "rdark")
    /\ W(c, IF wpc[c] = "rdark" THEN "seek" ELSE "arm")
    /\ UNCHANGED <<files, armed, lock, tilt, mode, live, ppc, loc, boot, hist>>

arm(c) ==
    /\ wpc[c] = "arm"
    /\ armed' = TRUE
    /\ W(c, "exit")
    /\ UNCHANGED <<files, lock, tilt, emitter, muted, mode, live, ppc, loc, boot, hist>>

\* Mutant: the guard is lifted without looking where the lens is.
off_seek_trusting(c) ==
    /\ wpc[c] = "seek" /\ op[c] \in {"off", "force"} /\ Settled
    /\ seek_tilt(IF loc[c].snap.tilt = "none" THEN "scene" ELSE loc[c].snap.tilt)
    /\ W(c, "off")
    /\ UNCHANGED <<files, armed, lock, emitter, muted, mode, live, ppc, loc, boot, ops,
                   intent, excuse>>

\* `off` moves the lens back. The guard is lifted if the lens verifiably arrived; without
\* a snapshot, and on --force when the tilt cannot be read, also if it did not. The fault
\* of a move may be that its end cannot be read.
off_seek(c) ==
    /\ wpc[c] = "seek" /\ op[c] \in {"off", "force"} /\ Settled
    /\ LET lost == loc[c].snap.tilt = "none"
           target == IF lost THEN "scene" ELSE loc[c].snap.tilt
       IN  /\ seek_tilt(target)
           /\ \E readable \in BOOLEAN :
                LET open == lost \/ (~readable /\ op[c] = "force")
                IN  /\ readable \/ faults' # faults
                    /\ W(c, IF open \/ (readable /\ tilt' = target) THEN "off" ELSE "exit")
                    /\ excuse' = IF open THEN excuse \cup {"open"} ELSE excuse
    /\ UNCHANGED <<files, armed, lock, emitter, muted, mode, live, ppc, loc, boot, ops, intent>>

\* write_off; if it fails privacy stays armed.
off_write(c) ==
    /\ wpc[c] = "off"
    /\ \/ NoFault /\ active' = FALSE /\ saved' = NoSnap /\ W(c, "disarm")
       \/ Fault /\ UNCHANGED <<active, saved>> /\ W(c, "exit")
    /\ UNCHANGED <<pose, armed, lock, tilt, emitter, muted, mode, live, ppc, loc, boot,
                   ops, intent, excuse>>

off_disarm(c) ==
    /\ wpc[c] = "disarm"
    /\ armed' = FALSE
    /\ W(c, "ir")
    /\ UNCHANGED <<files, lock, tilt, emitter, muted, mode, live, ppc, loc, boot, hist>>

\* The IR is lit again if it was night, unless the guard is up again.
off_ir(c) ==
    /\ wpc[c] = "ir"
    /\ emitter' = (emitter \/ (loc[c].snap.live = "night" /\ ~privacy_active))
    /\ W(c, "mode")
    /\ UNCHANGED <<files, armed, lock, tilt, muted, mode, live, ppc, loc, boot, hist>>

\* set_daynight auto, or freeze_daynight with the forced mode of the snapshot; mic_restore.
Restore(c, newMode, newLive) ==
    /\ wpc[c] = "mode"
    /\ mode' = newMode /\ live' = newLive
    /\ muted' = FALSE
    /\ W(c, "exit")
    /\ UNCHANGED <<files, armed, lock, tilt, emitter, ppc, loc, boot, hist>>

\* Mutants: only auto is restored; an empty mode of the snapshot is restored too.
off_mode_auto_only(c) == Restore(c, IF loc[c].snap.mode = "auto" THEN "auto" ELSE mode, live)
off_mode(c) == LET m == loc[c].snap.mode
               IN  Restore(c, IF m = "none" THEN mode ELSE m,
                              IF m \in {"none", "auto"} THEN live ELSE m)

\* The EXIT trap releases the lock, whoever's it is.
waiter_exit(c) ==
    /\ wpc[c] = "exit"
    /\ Remove(<<c, "w">>)
    /\ W(c, "idle")
    /\ loc' = [loc EXCEPT ![c] = NoLoc]
    /\ UNCHANGED <<files, armed, tilt, emitter, muted, mode, live, ppc, boot,
                   ops, faults, intent>>

-----------------------------------------------------------------------------
(* set-pose takes no lock. *)

\* The tilt is read and the state file rewritten without a snapshot.
do_set_pose_write(c) ==
    /\ ppc[c] = "apply" /\ op[c] = "setpose"
    /\ pose' = loc[c].pt /\ active' = FALSE /\ saved' = NoSnap
    /\ excuse' = IF active \/ lock_busy THEN excuse \cup {"setpose"} ELSE excuse
    /\ loc' = [loc EXCEPT ![c] = NoLoc]
    /\ P(c, "idle")
    /\ UNCHANGED <<armed, lock, tilt, emitter, muted, mode, live, wpc, boot, ops, faults, intent>>

\* Refused during privacy, and given up when the tilt cannot be read or the write fails.
do_set_pose(c) ==
    /\ ppc[c] = "pose"
    /\ \/ privacy_active /\ P(c, "idle") /\ loc' = loc /\ NoFault
       \/ ~privacy_active /\ P(c, "idle") /\ loc' = loc /\ Fault
       \/ ~privacy_active /\ P(c, "apply") /\ loc' = [loc EXCEPT ![c].pt = tilt] /\ NoFault
    /\ UNCHANGED <<files, armed, lock, tilt, emitter, muted, mode, live, wpc, boot, ops,
                   intent, excuse>>

-----------------------------------------------------------------------------
Step(c) ==
    \/ do_guard(c) \/ light(c) \/ apply(c)
    \/ acquire_lock_mkdir(c) \/ acquire_lock_pid(c) \/ acquire_lock_stale(c)
    \/ acquire_lock_break(c) \/ reenter_check(c) \/ held(c) \/ on_write(c)
    \/ on_freeze(c) \/ on_dark(c) \/ backup(c) \/ do_set_pose(c) \/ do_set_pose_write(c)

WaiterStep(c) ==
    \/ waiter_claim(c) \/ on_seek(c) \/ waiter_dark(c) \/ arm(c) \/ off_seek(c)
    \/ off_write(c) \/ off_disarm(c) \/ off_ir(c) \/ off_mode(c)
    \/ waiter_exit(c)

\* `off` is cut short after it has dropped the snapshot and before it has restored it,
\* or `on` after it has raised the guard and before its second turning off of the emitters,
\* which also catches what was lit by a command that passed the guard before.
OffCut(S) == IF \E c \in S : wpc[c] \in {"disarm", "ir", "mode"} THEN {"cut"} ELSE {}
OnCut(c) == IF op[c] = "on" /\ (ppc[c] \in {"freeze", "dark"} \/ wpc[c] \in {"claim", "seek", "dark"})
            THEN {"undark"} ELSE {}

\* A process is killed: no trap runs.
Kill(c) ==
    /\ Fault
    /\ ppc[c] # "idle" \/ wpc[c] # "idle"
    /\ ppc' = [ppc EXCEPT ![c] = "idle"] /\ wpc' = [wpc EXCEPT ![c] = "idle"]
    /\ Command(c, TRUE) /\ loc' = [loc EXCEPT ![c] = NoLoc]
    /\ lock' = IF lock \in {<<c, "p">>, <<c, "w">>} THEN Dead ELSE lock
    /\ excuse' = excuse \cup OffCut({c}) \cup OnCut(c)
    /\ UNCHANGED <<files, armed, tilt, emitter, muted, mode, live, boot, ops, intent>>

\* Power is lost: flash is kept, /run is not, and the boot homes the lens.
PowerCut ==
    /\ Fault
    /\ armed' = FALSE /\ lock' = NoLock /\ tilt' = "scene" /\ emitter' = FALSE
    /\ muted' = FALSE
    /\ ppc' = [c \in Callers |-> "idle"] /\ wpc' = [c \in Callers |-> "idle"]
    /\ op' = [c \in Callers |-> "off"] /\ loc' = [c \in Callers |-> NoLoc]
    /\ live' = IF mode = "auto" THEN "day" ELSE mode
    /\ boot' = active
    /\ excuse' = excuse \cup OffCut(Callers)
    /\ UNCHANGED <<files, mode, ops, intent>>

Next == \/ \E c \in Callers : \/ \E o \in Ops : Invoke(c, o)
                              \/ Step(c) \/ WaiterStep(c) \/ Kill(c)
        \/ PowerCut

\* Processes run on, and someone keeps asking for `off`.
Fairness == /\ \A c \in Callers : WF_vars(Step(c)) /\ WF_vars(WaiterStep(c))
            /\ SF_vars(\E c \in Callers : Invoke(c, "off"))

Spec == Init /\ [][Next]_vars /\ Fairness

-----------------------------------------------------------------------------
TypeOK ==
    /\ active \in BOOLEAN /\ pose \in Tilts /\ saved \in Snap /\ armed \in BOOLEAN
    /\ lock \in {NoLock, NoPid, Dead} \cup (Callers \X {"p", "w"})
    /\ tilt \in Tilts /\ emitter \in BOOLEAN /\ muted \in BOOLEAN
    /\ mode \in {"auto", "day", "night"} /\ live \in {"day", "night"}
    /\ op \in [Callers -> Ops \cup {"off", "exec"}]
    /\ ppc \in [Callers -> PPlaces] /\ wpc \in [Callers -> WPlaces]
    /\ loc \in [Callers -> [snap : Snap, pt : Tilts]]
    /\ boot \in BOOLEAN /\ ops \in 0 .. MaxOps /\ faults \in 0 .. MaxFaults
    /\ intent \subseteq {"auto", "day", "night"}
    /\ excuse \subseteq {"stolen", "open", "setpose", "late", "cut", "undark"}

Quiescent == \A c \in Callers : ppc[c] = "idle" /\ wpc[c] = "idle"

\* "Lifting the guard while the lens still faces the body would let a concurrent actor
\* [...] light IR at the pose and warm the sensor": whatever runs at the same time and
\* whatever fails, no emitter is lit while the lens faces the body. Exempt are the two
\* ways in which `off` fails open, a stolen lock, set-pose racing a transition, reenter
\* overtaken by an `off` between its check and its lock, and `on` until its second turning
\* off of the emitters: the moment after its move, and for good if it is killed before that.
NoWarming == tilt = "body" /\ emitter => \/ \E c \in Callers : wpc[c] = "dark"
                                        \/ excuse \ {"cut"} # {}

\* "So "armed" implies the lens is parked AND no emitter is lit", and the microphone is
\* muted: on a camera whose motor and flash work, once the transition is over.
ArmedMeansPrivate ==
    armed /\ faults = 0 /\ excuse = {} /\ (\A c \in Callers : wpc[c] = "idle")
      => tilt = pose /\ ~emitter /\ muted

\* "Reboot/power-safe": when nothing runs, privacy that is armed is also persisted, so
\* that a power cut does not end it. Exempt is an `off` that was killed half way.
ArmedPersists == armed /\ Quiescent => active \/ excuse # {}

\* "restores it exactly on `off`": after privacy the day/night intent is the one chosen
\* before it, whatever was toggled meanwhile, unless `off` was cut short.
SnapshotRestored == Quiescent /\ ~active /\ excuse \ {"undark"} = {} => mode \in intent

\* "a retried off recovers" and "the unit is never wedged with no software escape": as
\* long as `off` is repeated, privacy ends, whatever was killed or failed before.
Recoverable == active ~> ~active

\* What the privacy promises while it is on: dark and parked, and still so after a power cut.
PrivacyInv == TypeOK /\ NoWarming /\ ArmedMeansPrivate /\ ArmedPersists
=============================================================================
