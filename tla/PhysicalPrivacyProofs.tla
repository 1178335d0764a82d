----------------------- MODULE PhysicalPrivacyProofs -----------------------
(***************************************************************************)
(* What physical privacy promises holds for any number of callers,         *)
(* invocations and faults: PrivacyInv and SnapshotRestored. The argument:  *)
(* unless a lock was stolen its holder is alone (LockInv), so the flag on  *)
(* flash follows the phases of the holder (FlagInv), an emitter is lit     *)
(* under the flag only by an `on` that will turn it off again (DarkInv),   *)
(* the marker follows the flag and the lens the pose (ArmInv, PoseInv),    *)
(* and the intent survives in the snapshot (IntentInv).                    *)
(***************************************************************************)
EXTENDS PhysicalPrivacy, TLAPS

Transitions == {"on", "off", "force", "reenter"}

\* What an invocation and a waiter may be running where they are.
PlaceInv == \A c \in Callers :
    /\ ppc[c] \in {"mkdir", "stale", "break", "remkdir", "pid", "held", "backup"} => op[c] \in Transitions
    /\ ppc[c] \in {"write", "freeze", "dark"} => op[c] = "on"
    /\ ppc[c] = "rcheck" => op[c] = "reenter"
    /\ ppc[c] = "guard" => op[c] \in {"guard", "motors"}
    /\ ppc[c] = "light" => op[c] \in {"light", "exec"}
    /\ ppc[c] = "apply" => op[c] \in {"light", "exec", "motors", "guard", "toggle", "setpose"}
    /\ ppc[c] = "pose" => op[c] = "setpose"
    /\ wpc[c] # "idle" => op[c] \in Transitions /\ ppc[c] \in {"idle", "backup"}
    /\ wpc[c] = "rdark" => op[c] = "reenter"
    /\ wpc[c] = "dark" => op[c] = "on"
    /\ wpc[c] = "arm" => op[c] \in {"on", "reenter"}
    /\ wpc[c] \in {"off", "disarm", "ir", "mode"} => op[c] \in {"off", "force"}

\* A snapshot is whole or missing; only an active privacy has one on flash.
Whole(s) == s = NoSnap \/ s \in [tilt : Tilts, mode : {"auto", "day", "night"}, live : {"day", "night"}]
SnapInv == /\ Whole(saved) /\ (saved # NoSnap => active)
           /\ \A c \in Callers : /\ Whole(loc[c].snap)
                                 /\ ppc[c] \in {"write", "freeze"} => loc[c].snap # NoSnap

\* Unless a lock was stolen, whoever is between acquiring and releasing it owns it.
LockInv == "stolen" \notin excuse =>
    /\ \A c \in Callers :
          /\ ppc[c] = "pid" => lock = NoPid
          /\ ppc[c] \in {"held", "write", "freeze", "dark"} => lock = <<c, "p">>
          /\ wpc[c] # "idle" => \/ lock = <<c, "w">>
                                \/ lock = <<c, "p">> /\ wpc[c] = "claim" /\ ppc[c] = "backup"
    /\ \A c, d \in Callers : ppc[c] = "pid" /\ ppc[d] = "pid" => c = d

\* From raising the guard to the marker, `on` and reenter run under the flag, and `off` until
\* it has returned to its snapshot. `on` starts without flag and marker.
FlagInv == excuse \cap {"stolen", "setpose", "late"} = {} => \A c \in Callers :
    /\ ppc[c] = "write" => ~active
    /\ op[c] = "on" /\ ppc[c] \in {"freeze", "dark"} => active
    /\ op[c] \in {"on", "reenter"} /\ wpc[c] # "idle" => active
    /\ op[c] \in {"off", "force"} /\ wpc[c] \in {"claim", "seek", "off"} /\ loc[c].snap # NoSnap => active
    /\ ppc[c] \in {"write", "freeze", "dark"} => ~armed
    /\ op[c] \in {"on", "reenter"} /\ wpc[c] \in {"claim", "rdark", "seek", "dark", "arm"} => ~armed
    /\ wpc[c] \in {"ir", "mode"} => ~armed

\* `on` has raised the guard and not yet moved the lens; nor turned the emitters off for good.
Entering(c) == op[c] = "on" /\ (ppc[c] \in {"freeze", "dark"} \/ wpc[c] \in {"claim", "seek"})
Passed(c) == ppc[c] = "apply" /\ op[c] \in {"light", "exec"}

\* The lens faces the body only under the flag, and under the flag an emitter is lit, or about
\* to be, only while an `on` is under way.
DarkInv == excuse \subseteq {"cut"} =>
    /\ tilt = "body" => active
    /\ saved.tilt # "body" /\ \A c \in Callers : loc[c].snap.tilt # "body"
    /\ \A c \in Callers : Entering(c) \/ wpc[c] = "off" => tilt # "body"
    /\ active /\ emitter => \E c \in Callers : Entering(c) \/ wpc[c] = "dark"
    /\ active /\ (\E c \in Callers : Passed(c)) => \E c \in Callers : Entering(c)

\* The marker goes before the flag only between the two last steps of `off`.
ArmInv == excuse = {} /\ armed => active \/ \E c \in Callers : wpc[c] = "disarm"

\* `on` or reenter is yet to move the lens; has muted the microphone.
Aiming(c) == \/ ppc[c] \in {"write", "freeze", "dark"}
             \/ op[c] \in {"on", "reenter"} /\ wpc[c] \in {"claim", "rdark", "seek"}
Silenced(c) == \/ op[c] = "on" /\ wpc[c] \in {"claim", "seek", "dark", "arm"}
               \/ op[c] = "reenter" /\ wpc[c] \in {"seek", "arm"}

\* Without faults: who is going to arm has muted and is where the pose is, and so is the lens
\* while the marker stands.
PoseInv == excuse = {} /\ faults = 0 =>
    /\ \A c \in Callers :
          /\ Aiming(c) => loc[c].pt = pose
          /\ wpc[c] \in {"dark", "arm"} => tilt = pose
          /\ Silenced(c) => muted
          /\ ppc[c] = "apply" /\ op[c] = "motors" => ~armed /\ \A d \in Callers : wpc[d] \notin {"dark", "arm"}
    /\ armed /\ (\A c \in Callers : wpc[c] \notin {"off", "disarm"}) => tilt = pose /\ muted

\* The intent is in force, or in a snapshot that `off` will restore.
IntentInv == excuse \subseteq {"undark"} =>
    /\ ~active => mode \in intent \/ \E c \in Callers : wpc[c] \in {"disarm", "ir", "mode"}
    /\ saved # NoSnap => saved.mode \in intent
    /\ \A c \in Callers : /\ loc[c].snap # NoSnap => loc[c].snap.mode \in intent
                          /\ wpc[c] \in {"off", "disarm", "ir", "mode"} => loc[c].snap # NoSnap

IInv == /\ TypeOK /\ PlaceInv /\ SnapInv /\ LockInv /\ FlagInv
        /\ DarkInv /\ ArmInv /\ PoseInv /\ IntentInv


\* TypeOK, as the flags, the places of the processes and the rest.
FlagsOK == active \in BOOLEAN /\ armed \in BOOLEAN /\ emitter \in BOOLEAN /\ muted \in BOOLEAN /\ boot \in BOOLEAN
ControlOK == /\ op \in [Callers -> Ops \cup {"off", "exec"}]
             /\ ppc \in [Callers -> PPlaces] /\ wpc \in [Callers -> WPlaces]
DataOK == /\ pose \in Tilts /\ saved \in Snap
          /\ lock \in {NoLock, NoPid, Dead} \cup (Callers \X {"p", "w"})
          /\ tilt \in Tilts /\ mode \in {"auto", "day", "night"} /\ live \in {"day", "night"}
          /\ loc \in [Callers -> [snap : Snap, pt : Tilts]]
          /\ ops \in 0 .. MaxOps /\ faults \in 0 .. MaxFaults
          /\ intent \subseteq {"auto", "day", "night"}
          /\ excuse \subseteq {"stolen", "open", "setpose", "late", "cut", "undark"}

\* Where the scripts start.
LEMMA EntryPlaces == \A o \in Ops : /\ Entry(o) \in {"mkdir", "rcheck", "guard", "light", "apply", "pose"}
                                    /\ Entry(o) = "apply" => o = "toggle"
BY PrivacyAssumption DEF Entry

\* A camera at boot, in privacy or not, satisfies the invariant.
LEMMA InitIInv == Init => IInv
<1> SUFFICES ASSUME Init PROVE IInv
    OBVIOUS
<1> USE PrivacyAssumption DEF Init
<1>1. FlagsOK
    BY Zenon DEF FlagsOK
<1>2. ControlOK
    BY DEF ControlOK, PPlaces, WPlaces
<1>3. DataOK
    BY DEF DataOK, Tilts, Snap, NoSnap, NoLoc
<1>4. PlaceInv /\ SnapInv
    BY DEF PlaceInv, SnapInv, Whole, NoLoc
<1>5. LockInv /\ FlagInv /\ ArmInv
    BY DEF LockInv, FlagInv, ArmInv
<1>6. DarkInv
    BY DEF DarkInv, Entering, Passed, NoLoc, NoSnap
<1>7. PoseInv
    BY DEF PoseInv, Aiming, Silenced
<1>8. IntentInv
    BY DEF IntentInv, NoLoc
<1> QED BY <1>1, <1>2, <1>3, <1>4, <1>5, <1>6, <1>7, <1>8 DEF IInv, TypeOK, FlagsOK, ControlOK, DataOK


\* Every step leaves the flags Boolean.
LEMMA FlagsStep == FlagsOK /\ [Next]_vars => FlagsOK'
<1> SUFFICES ASSUME FlagsOK, [Next]_vars PROVE FlagsOK'
    OBVIOUS
<1> USE DEF FlagsOK, files, hist
<1>1. CASE \E c \in Callers : \E o \in Ops : Invoke(c, o)
    BY <1>1 DEF Invoke, Entry
<1>2. CASE \E c \in Callers : do_guard(c)
    BY <1>2 DEF do_guard
<1>3. CASE \E c \in Callers : light(c)
    BY <1>3 DEF light
<1>4. CASE \E c \in Callers : apply(c)
    BY <1>4 DEF apply
<1>5. CASE \E c \in Callers : acquire_lock_mkdir(c)
    BY <1>5 DEF acquire_lock_mkdir
<1>6. CASE \E c \in Callers : acquire_lock_pid(c)
    BY <1>6 DEF acquire_lock_pid, WritePid
<1>7. CASE \E c \in Callers : acquire_lock_stale(c)
    BY <1>7 DEF acquire_lock_stale
<1>8. CASE \E c \in Callers : acquire_lock_break(c)
    BY <1>8 DEF acquire_lock_break, Remove
<1>9. CASE \E c \in Callers : reenter_check(c)
    BY <1>9 DEF reenter_check
<1>10. CASE \E c \in Callers : held(c)
    BY <1>10 DEF held, Remove, Snapshot, Fault, NoFault
<1>11. CASE \E c \in Callers : on_write(c)
    BY <1>11 DEF on_write, Remove, Fault, NoFault
<1>12. CASE \E c \in Callers : on_freeze(c)
    BY <1>12 DEF on_freeze
<1>13. CASE \E c \in Callers : on_dark(c)
    BY <1>13 DEF on_dark
<1>14. CASE \E c \in Callers : backup(c)
    BY <1>14 DEF backup, WritePid
<1>15. CASE \E c \in Callers : do_set_pose(c)
    BY <1>15 DEF do_set_pose, Fault, NoFault
<1>16. CASE \E c \in Callers : do_set_pose_write(c)
    BY <1>16 DEF do_set_pose_write
<1>17. CASE \E c \in Callers : waiter_claim(c)
    BY <1>17 DEF waiter_claim, WritePid
<1>18. CASE \E c \in Callers : on_seek(c)
    BY <1>18 DEF on_seek, seek_tilt, Fault, NoFault
<1>19. CASE \E c \in Callers : waiter_dark(c)
    BY <1>19 DEF waiter_dark
<1>20. CASE \E c \in Callers : arm(c)
    BY <1>20 DEF arm
<1>21. CASE \E c \in Callers : off_seek(c)
    BY <1>21 DEF off_seek, seek_tilt, Fault, NoFault
<1>22. CASE \E c \in Callers : off_write(c)
    BY <1>22 DEF off_write, Fault, NoFault
<1>23. CASE \E c \in Callers : off_disarm(c)
    BY <1>23 DEF off_disarm
<1>24. CASE \E c \in Callers : off_ir(c)
    BY <1>24 DEF off_ir
<1>25. CASE \E c \in Callers : off_mode(c)
    BY <1>25 DEF off_mode, Restore
<1>26. CASE \E c \in Callers : waiter_exit(c)
    BY <1>26 DEF waiter_exit, Remove
<1>27. CASE \E c \in Callers : Kill(c)
    BY <1>27 DEF Kill, Fault, OffCut, OnCut
<1>28. CASE PowerCut
    BY <1>28 DEF PowerCut, Fault, OffCut
<1>29. CASE UNCHANGED vars
    BY <1>29 DEF vars
<1> QED BY <1>1, <1>2, <1>3, <1>4, <1>5, <1>6, <1>7, <1>8, <1>9, <1>10, <1>11, <1>12, <1>13, <1>14, <1>15, <1>16, <1>17, <1>18, <1>19, <1>20, <1>21, <1>22, <1>23, <1>24, <1>25, <1>26, <1>27, <1>28, <1>29 DEF Next, Step, WaiterStep

\* Processes go from place to place.
LEMMA ControlStep == ControlOK /\ [Next]_vars => ControlOK'
<1> SUFFICES ASSUME ControlOK, [Next]_vars PROVE ControlOK'
    OBVIOUS
<1> USE DEF ControlOK, P, W, Command, files, hist, PPlaces, WPlaces
<1> USE PrivacyAssumption
<1>1. CASE \E c \in Callers : \E o \in Ops : Invoke(c, o)
    BY <1>1 DEF Invoke, Entry
<1>2. CASE \E c \in Callers : do_guard(c)
    BY <1>2 DEF do_guard
<1>3. CASE \E c \in Callers : light(c)
    BY <1>3 DEF light
<1>4. CASE \E c \in Callers : apply(c)
    BY <1>4 DEF apply
<1>5. CASE \E c \in Callers : acquire_lock_mkdir(c)
    BY <1>5 DEF acquire_lock_mkdir
<1>6. CASE \E c \in Callers : acquire_lock_pid(c)
    BY <1>6 DEF acquire_lock_pid, WritePid
<1>7. CASE \E c \in Callers : acquire_lock_stale(c)
    BY <1>7 DEF acquire_lock_stale
<1>8. CASE \E c \in Callers : acquire_lock_break(c)
    BY <1>8 DEF acquire_lock_break, Remove
<1>9. CASE \E c \in Callers : reenter_check(c)
    BY <1>9 DEF reenter_check
<1>10. CASE \E c \in Callers : held(c)
    BY <1>10 DEF held, Remove, Snapshot, Fault, NoFault
<1>11. CASE \E c \in Callers : on_write(c)
    BY <1>11 DEF on_write, Remove, Fault, NoFault
<1>12. CASE \E c \in Callers : on_freeze(c)
    BY <1>12 DEF on_freeze
<1>13. CASE \E c \in Callers : on_dark(c)
    BY <1>13 DEF on_dark
<1>14. CASE \E c \in Callers : backup(c)
    BY <1>14 DEF backup, WritePid
<1>15. CASE \E c \in Callers : do_set_pose(c)
    BY <1>15 DEF do_set_pose, Fault, NoFault
<1>16. CASE \E c \in Callers : do_set_pose_write(c)
    BY <1>16 DEF do_set_pose_write
<1>17. CASE \E c \in Callers : waiter_claim(c)
    BY <1>17 DEF waiter_claim, WritePid
<1>18. CASE \E c \in Callers : on_seek(c)
    BY <1>18 DEF on_seek, seek_tilt, Fault, NoFault
<1>19. CASE \E c \in Callers : waiter_dark(c)
    BY <1>19 DEF waiter_dark
<1>20. CASE \E c \in Callers : arm(c)
    BY <1>20 DEF arm
<1>21. CASE \E c \in Callers : off_seek(c)
    BY <1>21 DEF off_seek, seek_tilt, Fault, NoFault
<1>22. CASE \E c \in Callers : off_write(c)
    BY <1>22 DEF off_write, Fault, NoFault
<1>23. CASE \E c \in Callers : off_disarm(c)
    BY <1>23 DEF off_disarm
<1>24. CASE \E c \in Callers : off_ir(c)
    BY <1>24 DEF off_ir
<1>25. CASE \E c \in Callers : off_mode(c)
    BY <1>25 DEF off_mode, Restore
<1>26. CASE \E c \in Callers : waiter_exit(c)
    BY <1>26 DEF waiter_exit, Remove
<1>27. CASE \E c \in Callers : Kill(c)
    BY <1>27 DEF Kill, Fault, OffCut, OnCut
<1>28. CASE PowerCut
    BY <1>28 DEF PowerCut, Fault, OffCut
<1>29. CASE UNCHANGED vars
    BY <1>29 DEF vars
<1> QED BY <1>1, <1>2, <1>3, <1>4, <1>5, <1>6, <1>7, <1>8, <1>9, <1>10, <1>11, <1>12, <1>13, <1>14, <1>15, <1>16, <1>17, <1>18, <1>19, <1>20, <1>21, <1>22, <1>23, <1>24, <1>25, <1>26, <1>27, <1>28, <1>29 DEF Next, Step, WaiterStep

\* Files, lens, modes, snapshots and counters keep their ranges.
LEMMA DataStep == DataOK /\ SnapInv /\ [Next]_vars => DataOK'
<1> SUFFICES ASSUME DataOK, SnapInv, [Next]_vars PROVE DataOK'
    OBVIOUS
<1> USE DEF DataOK, files, hist, Snap, Tilts, NoSnap, NoLoc
<1> USE PrivacyAssumption
<1>1. CASE \E c \in Callers : \E o \in Ops : Invoke(c, o)
    BY <1>1 DEF Invoke, Entry
<1>2. CASE \E c \in Callers : do_guard(c)
    BY <1>2 DEF do_guard
<1>3. CASE \E c \in Callers : light(c)
    BY <1>3 DEF light
<1>4. CASE \E c \in Callers : apply(c)
  <2> SUFFICES ASSUME NEW c \in Callers, apply(c) PROVE DataOK'
    BY <1>4
  <2>1. UNCHANGED <<files, armed, lock, muted, wpc, loc, boot, ops, faults, excuse>>
    BY DEF apply
  <2>2. CASE op[c] \in {"light", "exec"}
    BY <2>1, <2>2 DEF apply
  <2>3. CASE op[c] = "motors"
    BY <2>1, <2>3 DEF apply
  <2>4. CASE op[c] \in {"guard", "toggle"}
    <3> PICK m \in Modes :
            /\ mode' = m
            /\ live' = IF m = "auto" THEN live ELSE m
            /\ intent' = IF active THEN intent ELSE {m} \cup (IF Transit THEN intent ELSE {})
      BY <2>4 DEF apply
    <3>1. UNCHANGED <<tilt, emitter>>
      BY <2>4 DEF apply
    <3> QED BY <2>1, <3>1
  <2> QED BY <2>2, <2>3, <2>4 DEF apply
<1>5. CASE \E c \in Callers : acquire_lock_mkdir(c)
    BY <1>5 DEF acquire_lock_mkdir
<1>6. CASE \E c \in Callers : acquire_lock_pid(c)
    BY <1>6 DEF acquire_lock_pid, WritePid
<1>7. CASE \E c \in Callers : acquire_lock_stale(c)
    BY <1>7 DEF acquire_lock_stale
<1>8. CASE \E c \in Callers : acquire_lock_break(c)
    BY <1>8 DEF acquire_lock_break, Remove
<1>9. CASE \E c \in Callers : reenter_check(c)
    BY <1>9 DEF reenter_check
<1>10. CASE \E c \in Callers : held(c)
  <2> SUFFICES ASSUME NEW c \in Callers, held(c) PROVE DataOK'
    BY <1>10
  <2>1. Snapshot(tilt) \in Snap /\ Snapshot("scene") \in Snap
    BY DEF Snapshot
  <2>2. loc' \in [Callers -> [snap : Snap, pt : Tilts]]
    BY <2>1 DEF held
  <2>3. lock' \in {NoLock, NoPid, Dead} \cup (Callers \X {"p", "w"})
    BY DEF held, Remove
  <2>4. faults' \in 0 .. MaxFaults
    BY DEF held, Fault, NoFault
  <2>5. excuse' \subseteq {"stolen", "open", "setpose", "late", "cut", "undark"}
    BY DEF held, Remove
  <2> QED BY <2>2, <2>3, <2>4, <2>5 DEF held
<1>11. CASE \E c \in Callers : on_write(c)
  <2> SUFFICES ASSUME NEW c \in Callers, on_write(c) PROVE DataOK'
    BY <1>11
  <2>2. loc' \in [Callers -> [snap : Snap, pt : Tilts]] /\ pose' \in Tilts /\ saved' \in Snap
    BY DEF on_write
  <2>3. lock' \in {NoLock, NoPid, Dead} \cup (Callers \X {"p", "w"})
    BY DEF on_write, Remove
  <2>4. faults' \in 0 .. MaxFaults
    BY DEF on_write, Fault, NoFault
  <2>5. excuse' \subseteq {"stolen", "open", "setpose", "late", "cut", "undark"}
    BY DEF on_write, Remove
  <2> QED BY <2>2, <2>3, <2>4, <2>5 DEF on_write
<1>12. CASE \E c \in Callers : on_freeze(c)
    BY <1>12 DEF on_freeze, SnapInv, Whole
<1>13. CASE \E c \in Callers : on_dark(c)
    BY <1>13 DEF on_dark
<1>14. CASE \E c \in Callers : backup(c)
    BY <1>14 DEF backup, WritePid
<1>15. CASE \E c \in Callers : do_set_pose(c)
    BY <1>15 DEF do_set_pose, Fault, NoFault
<1>16. CASE \E c \in Callers : do_set_pose_write(c)
    BY <1>16 DEF do_set_pose_write
<1>17. CASE \E c \in Callers : waiter_claim(c)
    BY <1>17 DEF waiter_claim, WritePid
<1>18. CASE \E c \in Callers : on_seek(c)
    BY <1>18 DEF on_seek, seek_tilt, Fault, NoFault
<1>19. CASE \E c \in Callers : waiter_dark(c)
    BY <1>19 DEF waiter_dark
<1>20. CASE \E c \in Callers : arm(c)
    BY <1>20 DEF arm
<1>21. CASE \E c \in Callers : off_seek(c)
    BY <1>21 DEF off_seek, seek_tilt, Fault, NoFault
<1>22. CASE \E c \in Callers : off_write(c)
    BY <1>22 DEF off_write, Fault, NoFault
<1>23. CASE \E c \in Callers : off_disarm(c)
    BY <1>23 DEF off_disarm
<1>24. CASE \E c \in Callers : off_ir(c)
    BY <1>24 DEF off_ir
<1>25. CASE \E c \in Callers : off_mode(c)
    BY <1>25 DEF off_mode, Restore
<1>26. CASE \E c \in Callers : waiter_exit(c)
    BY <1>26 DEF waiter_exit, Remove
<1>27. CASE \E c \in Callers : Kill(c)
    BY <1>27 DEF Kill, Fault, OffCut, OnCut
<1>28. CASE PowerCut
    BY <1>28 DEF PowerCut, Fault, OffCut
<1>29. CASE UNCHANGED vars
    BY <1>29 DEF vars
<1> QED BY <1>1, <1>2, <1>3, <1>4, <1>5, <1>6, <1>7, <1>8, <1>9, <1>10, <1>11, <1>12, <1>13, <1>14, <1>15, <1>16, <1>17, <1>18, <1>19, <1>20, <1>21, <1>22, <1>23, <1>24, <1>25, <1>26, <1>27, <1>28, <1>29 DEF Next, Step, WaiterStep

\* Together: every step keeps the types.
LEMMA TypeStep == TypeOK /\ SnapInv /\ [Next]_vars => TypeOK'
BY FlagsStep, ControlStep, DataStep DEF TypeOK, FlagsOK, ControlOK, DataOK

\* A command is only where its script goes.
LEMMA PlaceStep == TypeOK /\ PlaceInv /\ [Next]_vars => PlaceInv'
<1> SUFFICES ASSUME TypeOK, PlaceInv, [Next]_vars PROVE PlaceInv'
    OBVIOUS
<1> USE DEF TypeOK, PlaceInv, Transitions, P, W, Command, files, hist
<1> USE PrivacyAssumption
<1>1. CASE \E c \in Callers : \E o \in Ops : Invoke(c, o)
    BY <1>1 DEF Invoke, Entry
<1>2. CASE \E c \in Callers : do_guard(c)
    BY <1>2 DEF do_guard
<1>3. CASE \E c \in Callers : light(c)
    BY <1>3 DEF light
<1>4. CASE \E c \in Callers : apply(c)
    BY <1>4 DEF apply
<1>5. CASE \E c \in Callers : acquire_lock_mkdir(c)
    BY <1>5 DEF acquire_lock_mkdir
<1>6. CASE \E c \in Callers : acquire_lock_pid(c)
    BY <1>6 DEF acquire_lock_pid, WritePid
<1>7. CASE \E c \in Callers : acquire_lock_stale(c)
    BY <1>7 DEF acquire_lock_stale
<1>8. CASE \E c \in Callers : acquire_lock_break(c)
    BY <1>8 DEF acquire_lock_break, Remove
<1>9. CASE \E c \in Callers : reenter_check(c)
    BY <1>9 DEF reenter_check
<1>10. CASE \E c \in Callers : held(c)
    BY <1>10 DEF held, Remove, Snapshot, Fault, NoFault
<1>11. CASE \E c \in Callers : on_write(c)
    BY <1>11 DEF on_write, Remove, Fault, NoFault
<1>12. CASE \E c \in Callers : on_freeze(c)
    BY <1>12 DEF on_freeze
<1>13. CASE \E c \in Callers : on_dark(c)
    BY <1>13 DEF on_dark
<1>14. CASE \E c \in Callers : backup(c)
    BY <1>14 DEF backup, WritePid
<1>15. CASE \E c \in Callers : do_set_pose(c)
    BY <1>15 DEF do_set_pose, Fault, NoFault
<1>16. CASE \E c \in Callers : do_set_pose_write(c)
    BY <1>16 DEF do_set_pose_write
<1>17. CASE \E c \in Callers : waiter_claim(c)
    BY <1>17 DEF waiter_claim, WritePid
<1>18. CASE \E c \in Callers : on_seek(c)
    BY <1>18 DEF on_seek, seek_tilt, Fault, NoFault
<1>19. CASE \E c \in Callers : waiter_dark(c)
    BY <1>19 DEF waiter_dark
<1>20. CASE \E c \in Callers : arm(c)
    BY <1>20 DEF arm
<1>21. CASE \E c \in Callers : off_seek(c)
    BY <1>21 DEF off_seek, seek_tilt, Fault, NoFault
<1>22. CASE \E c \in Callers : off_write(c)
    BY <1>22 DEF off_write, Fault, NoFault
<1>23. CASE \E c \in Callers : off_disarm(c)
    BY <1>23 DEF off_disarm
<1>24. CASE \E c \in Callers : off_ir(c)
    BY <1>24 DEF off_ir
<1>25. CASE \E c \in Callers : off_mode(c)
    BY <1>25 DEF off_mode, Restore
<1>26. CASE \E c \in Callers : waiter_exit(c)
    BY <1>26 DEF waiter_exit, Remove
<1>27. CASE \E c \in Callers : Kill(c)
    BY <1>27 DEF Kill, Fault, OffCut, OnCut
<1>28. CASE PowerCut
    BY <1>28 DEF PowerCut, Fault, OffCut
<1>29. CASE UNCHANGED vars
    BY <1>29 DEF vars
<1> QED BY <1>1, <1>2, <1>3, <1>4, <1>5, <1>6, <1>7, <1>8, <1>9, <1>10, <1>11, <1>12, <1>13, <1>14, <1>15, <1>16, <1>17, <1>18, <1>19, <1>20, <1>21, <1>22, <1>23, <1>24, <1>25, <1>26, <1>27, <1>28, <1>29 DEF Next, Step, WaiterStep

\* Snapshots are taken, stored, read and dropped as a whole.
LEMMA SnapStep == TypeOK /\ PlaceInv /\ SnapInv /\ [Next]_vars => SnapInv'
<1> SUFFICES ASSUME TypeOK, PlaceInv, SnapInv, [Next]_vars PROVE SnapInv'
    OBVIOUS
<1> USE DEF TypeOK, SnapInv, PlaceInv, Whole, NoSnap, NoLoc, P, W, files, hist
<1> USE EntryPlaces
<1>1. CASE \E c \in Callers : \E o \in Ops : Invoke(c, o)
    BY <1>1 DEF Invoke
<1>2. CASE \E c \in Callers : do_guard(c)
    BY <1>2 DEF do_guard
<1>3. CASE \E c \in Callers : light(c)
    BY <1>3 DEF light
<1>4. CASE \E c \in Callers : apply(c)
    BY <1>4 DEF apply
<1>5. CASE \E c \in Callers : acquire_lock_mkdir(c)
    BY <1>5 DEF acquire_lock_mkdir
<1>6. CASE \E c \in Callers : acquire_lock_pid(c)
    BY <1>6 DEF acquire_lock_pid, WritePid
<1>7. CASE \E c \in Callers : acquire_lock_stale(c)
    BY <1>7 DEF acquire_lock_stale
<1>8. CASE \E c \in Callers : acquire_lock_break(c)
    BY <1>8 DEF acquire_lock_break, Remove
<1>9. CASE \E c \in Callers : reenter_check(c)
    BY <1>9 DEF reenter_check
<1>10. CASE \E c \in Callers : held(c)
  <2> SUFFICES ASSUME NEW c \in Callers, held(c) PROVE SnapInv'
    BY <1>10
  <2>1. Whole(Snapshot(tilt)) /\ Snapshot(tilt) # NoSnap /\ Whole(Snapshot("scene")) /\ Snapshot("scene") # NoSnap
    BY DEF Snapshot, Tilts
  <2> QED BY <2>1 DEF held, Remove, Fault, NoFault
<1>11. CASE \E c \in Callers : on_write(c)
    BY <1>11 DEF on_write, Remove, Fault, NoFault
<1>12. CASE \E c \in Callers : on_freeze(c)
    BY <1>12 DEF on_freeze
<1>13. CASE \E c \in Callers : on_dark(c)
    BY <1>13 DEF on_dark
<1>14. CASE \E c \in Callers : backup(c)
    BY <1>14 DEF backup, WritePid
<1>15. CASE \E c \in Callers : do_set_pose(c)
    BY <1>15 DEF do_set_pose, Fault, NoFault
<1>16. CASE \E c \in Callers : do_set_pose_write(c)
    BY <1>16 DEF do_set_pose_write
<1>17. CASE \E c \in Callers : waiter_claim(c)
    BY <1>17 DEF waiter_claim, WritePid
<1>18. CASE \E c \in Callers : on_seek(c)
    BY <1>18 DEF on_seek, seek_tilt, Fault, NoFault
<1>19. CASE \E c \in Callers : waiter_dark(c)
    BY <1>19 DEF waiter_dark
<1>20. CASE \E c \in Callers : arm(c)
    BY <1>20 DEF arm
<1>21. CASE \E c \in Callers : off_seek(c)
    BY <1>21 DEF off_seek, seek_tilt, Fault, NoFault
<1>22. CASE \E c \in Callers : off_write(c)
    BY <1>22 DEF off_write, Fault, NoFault
<1>23. CASE \E c \in Callers : off_disarm(c)
    BY <1>23 DEF off_disarm
<1>24. CASE \E c \in Callers : off_ir(c)
    BY <1>24 DEF off_ir
<1>25. CASE \E c \in Callers : off_mode(c)
    BY <1>25 DEF off_mode, Restore
<1>26. CASE \E c \in Callers : waiter_exit(c)
    BY <1>26 DEF waiter_exit, Remove
<1>27. CASE \E c \in Callers : Kill(c)
    BY <1>27 DEF Kill, Fault, OffCut, OnCut
<1>28. CASE PowerCut
    BY <1>28 DEF PowerCut, Fault, OffCut
<1>29. CASE UNCHANGED vars
    BY <1>29 DEF vars
<1> QED BY <1>1, <1>2, <1>3, <1>4, <1>5, <1>6, <1>7, <1>8, <1>9, <1>10, <1>11, <1>12, <1>13, <1>14, <1>15, <1>16, <1>17, <1>18, <1>19, <1>20, <1>21, <1>22, <1>23, <1>24, <1>25, <1>26, <1>27, <1>28, <1>29 DEF Next, Step, WaiterStep

\* The lock has one owner, unless it is stolen.
LEMMA LockStep == TypeOK /\ PlaceInv /\ LockInv /\ [Next]_vars => LockInv'
<1> SUFFICES ASSUME TypeOK, PlaceInv, LockInv, [Next]_vars PROVE LockInv'
    OBVIOUS
<1> USE DEF TypeOK, PlaceInv, LockInv, P, W, files, hist, NoLock, NoPid, Dead, pid_live, lock_busy
<1> USE EntryPlaces
<1>1. CASE \E c \in Callers : \E o \in Ops : Invoke(c, o)
    BY <1>1 DEF Invoke
<1>2. CASE \E c \in Callers : do_guard(c)
    BY <1>2 DEF do_guard
<1>3. CASE \E c \in Callers : light(c)
    BY <1>3 DEF light
<1>4. CASE \E c \in Callers : apply(c)
    BY <1>4 DEF apply
<1>5. CASE \E c \in Callers : acquire_lock_mkdir(c)
    BY <1>5 DEF acquire_lock_mkdir
<1>6. CASE \E c \in Callers : acquire_lock_pid(c)
    BY <1>6 DEF acquire_lock_pid, WritePid
<1>7. CASE \E c \in Callers : acquire_lock_stale(c)
    BY <1>7 DEF acquire_lock_stale
<1>8. CASE \E c \in Callers : acquire_lock_break(c)
    BY <1>8 DEF acquire_lock_break, Remove
<1>9. CASE \E c \in Callers : reenter_check(c)
    BY <1>9 DEF reenter_check
<1>10. CASE \E c \in Callers : held(c)
    BY <1>10 DEF held, Remove, Snapshot, Fault, NoFault
<1>11. CASE \E c \in Callers : on_write(c)
    BY <1>11 DEF on_write, Remove, Fault, NoFault
<1>12. CASE \E c \in Callers : on_freeze(c)
    BY <1>12 DEF on_freeze
<1>13. CASE \E c \in Callers : on_dark(c)
    BY <1>13 DEF on_dark
<1>14. CASE \E c \in Callers : backup(c)
    BY <1>14 DEF backup, WritePid
<1>15. CASE \E c \in Callers : do_set_pose(c)
    BY <1>15 DEF do_set_pose, Fault, NoFault
<1>16. CASE \E c \in Callers : do_set_pose_write(c)
    BY <1>16 DEF do_set_pose_write
<1>17. CASE \E c \in Callers : waiter_claim(c)
    BY <1>17 DEF waiter_claim, WritePid
<1>18. CASE \E c \in Callers : on_seek(c)
    BY <1>18 DEF on_seek, seek_tilt, Fault, NoFault
<1>19. CASE \E c \in Callers : waiter_dark(c)
    BY <1>19 DEF waiter_dark
<1>20. CASE \E c \in Callers : arm(c)
    BY <1>20 DEF arm
<1>21. CASE \E c \in Callers : off_seek(c)
    BY <1>21 DEF off_seek, seek_tilt, Fault, NoFault
<1>22. CASE \E c \in Callers : off_write(c)
    BY <1>22 DEF off_write, Fault, NoFault
<1>23. CASE \E c \in Callers : off_disarm(c)
    BY <1>23 DEF off_disarm
<1>24. CASE \E c \in Callers : off_ir(c)
    BY <1>24 DEF off_ir
<1>25. CASE \E c \in Callers : off_mode(c)
    BY <1>25 DEF off_mode, Restore
<1>26. CASE \E c \in Callers : waiter_exit(c)
    BY <1>26 DEF waiter_exit, Remove
<1>27. CASE \E c \in Callers : Kill(c)
    BY <1>27 DEF Kill, Fault, OffCut, OnCut
<1>28. CASE PowerCut
    BY <1>28 DEF PowerCut, Fault, OffCut
<1>29. CASE UNCHANGED vars
    BY <1>29 DEF vars
<1> QED BY <1>1, <1>2, <1>3, <1>4, <1>5, <1>6, <1>7, <1>8, <1>9, <1>10, <1>11, <1>12, <1>13, <1>14, <1>15, <1>16, <1>17, <1>18, <1>19, <1>20, <1>21, <1>22, <1>23, <1>24, <1>25, <1>26, <1>27, <1>28, <1>29 DEF Next, Step, WaiterStep

\* The flag on flash and the marker follow the phases of the holder of the lock.
LEMMA FlagStep == TypeOK /\ PlaceInv /\ SnapInv /\ LockInv /\ FlagInv /\ [Next]_vars => FlagInv'
<1> SUFFICES ASSUME TypeOK, PlaceInv, SnapInv, LockInv, FlagInv, [Next]_vars PROVE FlagInv'
    OBVIOUS
<1> USE DEF TypeOK, PlaceInv, SnapInv, Whole, Transitions, LockInv, FlagInv, P, W, Command, files, hist, pid_live, lock_busy, privacy_active, NothingToDo
<1> USE EntryPlaces
<1>1. CASE \E c \in Callers : \E o \in Ops : Invoke(c, o)
    BY <1>1 DEF Invoke
<1>2. CASE \E c \in Callers : do_guard(c)
    BY <1>2 DEF do_guard
<1>3. CASE \E c \in Callers : light(c)
    BY <1>3 DEF light
<1>4. CASE \E c \in Callers : apply(c)
    BY <1>4 DEF apply
<1>5. CASE \E c \in Callers : acquire_lock_mkdir(c)
    BY <1>5 DEF acquire_lock_mkdir
<1>6. CASE \E c \in Callers : acquire_lock_pid(c)
    BY <1>6 DEF acquire_lock_pid, WritePid
<1>7. CASE \E c \in Callers : acquire_lock_stale(c)
    BY <1>7 DEF acquire_lock_stale
<1>8. CASE \E c \in Callers : acquire_lock_break(c)
    BY <1>8 DEF acquire_lock_break, Remove
<1>9. CASE \E c \in Callers : reenter_check(c)
    BY <1>9 DEF reenter_check
<1>10. CASE \E c \in Callers : held(c)
  <2> SUFFICES ASSUME NEW c \in Callers, held(c) PROVE FlagInv'
      BY <1>10
  <2>1. CASE NothingToDo(c)
      BY <2>1 DEF held, Remove
  <2>2. CASE ~NothingToDo(c) /\ op[c] = "on"
      BY <2>2 DEF held
  <2>3. CASE ~NothingToDo(c) /\ op[c] # "on"
      <3> SUFFICES ASSUME excuse' \cap {"stolen", "setpose", "late"} = {} PROVE FlagInv'
          OBVIOUS
      <3>1. /\ op' = op /\ ppc' = [ppc EXCEPT ![c] = "backup"] /\ wpc' = [wpc EXCEPT ![c] = "claim"]
            /\ loc' = [loc EXCEPT ![c] = [snap |-> saved, pt |-> pose]] /\ UNCHANGED <<active, armed>>
          BY <2>3 DEF held
      <3>2. excuse \cap {"stolen", "setpose", "late"} = {} /\ (op[c] = "reenter" => active /\ ~armed)
          BY <2>3 DEF held
      <3> QED BY <3>1, <3>2, <2>3
  <2> QED BY <2>1, <2>2, <2>3
<1>11. CASE \E c \in Callers : on_write(c)
    BY <1>11 DEF on_write, Remove, Fault, NoFault
<1>12. CASE \E c \in Callers : on_freeze(c)
    BY <1>12 DEF on_freeze
<1>13. CASE \E c \in Callers : on_dark(c)
    BY <1>13 DEF on_dark
<1>14. CASE \E c \in Callers : backup(c)
    BY <1>14 DEF backup, WritePid
<1>15. CASE \E c \in Callers : do_set_pose(c)
    BY <1>15 DEF do_set_pose, Fault, NoFault
<1>16. CASE \E c \in Callers : do_set_pose_write(c)
    BY <1>16 DEF do_set_pose_write
<1>17. CASE \E c \in Callers : waiter_claim(c)
    BY <1>17 DEF waiter_claim, WritePid
<1>18. CASE \E c \in Callers : on_seek(c)
    BY <1>18 DEF on_seek, seek_tilt, Fault, NoFault
<1>19. CASE \E c \in Callers : waiter_dark(c)
    BY <1>19 DEF waiter_dark
<1>20. CASE \E c \in Callers : arm(c)
    BY <1>20 DEF arm
<1>21. CASE \E c \in Callers : off_seek(c)
    BY <1>21 DEF off_seek, seek_tilt, Fault, NoFault
<1>22. CASE \E c \in Callers : off_write(c)
    BY <1>22 DEF off_write, Fault, NoFault
<1>23. CASE \E c \in Callers : off_disarm(c)
    BY <1>23 DEF off_disarm
<1>24. CASE \E c \in Callers : off_ir(c)
    BY <1>24 DEF off_ir
<1>25. CASE \E c \in Callers : off_mode(c)
    BY <1>25 DEF off_mode, Restore
<1>26. CASE \E c \in Callers : waiter_exit(c)
    BY <1>26 DEF waiter_exit, Remove
<1>27. CASE \E c \in Callers : Kill(c)
    BY <1>27 DEF Kill, Fault, OffCut, OnCut
<1>28. CASE PowerCut
    BY <1>28 DEF PowerCut, Fault, OffCut
<1>29. CASE UNCHANGED vars
    BY <1>29 DEF vars
<1> QED BY <1>1, <1>2, <1>3, <1>4, <1>5, <1>6, <1>7, <1>8, <1>9, <1>10, <1>11, <1>12, <1>13, <1>14, <1>15, <1>16, <1>17, <1>18, <1>19, <1>20, <1>21, <1>22, <1>23, <1>24, <1>25, <1>26, <1>27, <1>28, <1>29 DEF Next, Step, WaiterStep

\* The move of `off`: a lens that fell short faces the body only under the flag.
LEMMA DarkSeek == TypeOK /\ LockInv /\ FlagInv /\ DarkInv /\ (\E c \in Callers : off_seek(c)) => DarkInv'
<1> SUFFICES ASSUME TypeOK, LockInv, FlagInv, DarkInv, NEW c \in Callers, off_seek(c), excuse' \subseteq {"cut"}
             PROVE  DarkInv'
    BY DEF DarkInv
<1> DEFINE target == loc[c].snap.tilt
<1>0. target # "none" /\ excuse' = excuse
    BY DEF off_seek
<1>t. tilt' \in Tilts
    BY <1>0 DEF off_seek, seek_tilt, TypeOK, Tilts, Snap
<1>w. PICK place \in {"off", "exit"} : W(c, place) /\ (place = "off" => tilt' = target)
    BY <1>0 DEF off_seek
<1>1. /\ target # "none" /\ excuse' = excuse /\ tilt' \in Tilts
      /\ (wpc' = [wpc EXCEPT ![c] = "off"] /\ tilt' = target) \/ wpc' = [wpc EXCEPT ![c] = "exit"]
    BY <1>0, <1>t, <1>w DEF W
<1>2. /\ UNCHANGED <<active, saved, emitter, ppc, loc>> /\ wpc[c] = "seek" /\ op[c] \in {"off", "force"} /\ op' = op
    BY <1>1 DEF off_seek, W, Command, files
<1>3. active
    BY <1>1, <1>2 DEF FlagInv, NoSnap
<1>4. \A d \in Callers : ~Entering(d) /\ wpc[d] \notin {"dark", "off"}
    BY <1>1, <1>2 DEF LockInv, Entering
<1> QED BY <1>1, <1>2, <1>3, <1>4 DEF DarkInv, Entering, Passed, TypeOK

\* No step lights an emitter under the flag, or lets one in, without an `on` to turn it off.
LEMMA DarkStep == TypeOK /\ PlaceInv /\ SnapInv /\ LockInv /\ FlagInv /\ DarkInv /\ [Next]_vars => DarkInv'
<1> SUFFICES ASSUME TypeOK, PlaceInv, SnapInv, LockInv, FlagInv, DarkInv, [Next]_vars PROVE DarkInv'
    OBVIOUS
<1> USE DEF TypeOK, PlaceInv, SnapInv, Whole, Transitions, LockInv, FlagInv, DarkInv, Entering, Passed, P, W, Command, files, hist, pid_live, lock_busy, privacy_active, NothingToDo, NoSnap, NoLoc, Settled
<1> USE EntryPlaces
<1>1. CASE \E c \in Callers : \E o \in Ops : Invoke(c, o)
    BY <1>1 DEF Invoke
<1>2. CASE \E c \in Callers : do_guard(c)
    BY <1>2 DEF do_guard
<1>3. CASE \E c \in Callers : light(c)
    BY <1>3 DEF light
<1>4. CASE \E c \in Callers : apply(c)
  <2> SUFFICES ASSUME NEW c \in Callers, apply(c) PROVE DarkInv'
      BY <1>4
  <2>1. CASE op[c] \in {"light", "exec"}
      BY <2>1 DEF apply
  <2>2. CASE op[c] = "motors"
      BY <2>2 DEF apply
  <2>3. CASE op[c] \in {"guard", "toggle"}
      BY <2>3 DEF apply
  <2> QED BY <2>1, <2>2, <2>3 DEF apply
<1>5. CASE \E c \in Callers : acquire_lock_mkdir(c)
    BY <1>5 DEF acquire_lock_mkdir
<1>6. CASE \E c \in Callers : acquire_lock_pid(c)
    BY <1>6 DEF acquire_lock_pid, WritePid
<1>7. CASE \E c \in Callers : acquire_lock_stale(c)
    BY <1>7 DEF acquire_lock_stale
<1>8. CASE \E c \in Callers : acquire_lock_break(c)
    BY <1>8 DEF acquire_lock_break, Remove
<1>9. CASE \E c \in Callers : reenter_check(c)
    BY <1>9 DEF reenter_check
<1>10. CASE \E c \in Callers : held(c)
    BY <1>10 DEF held, Remove, Snapshot, Fault, NoFault
<1>11. CASE \E c \in Callers : on_write(c)
    BY <1>11 DEF on_write, Remove, Fault, NoFault
<1>12. CASE \E c \in Callers : on_freeze(c)
    BY <1>12 DEF on_freeze
<1>13. CASE \E c \in Callers : on_dark(c)
    BY <1>13 DEF on_dark
<1>14. CASE \E c \in Callers : backup(c)
    BY <1>14 DEF backup, WritePid
<1>15. CASE \E c \in Callers : do_set_pose(c)
  <2> SUFFICES ASSUME NEW c \in Callers, do_set_pose(c) PROVE DarkInv'
    BY <1>15
  <2>1. \A d \in Callers : loc'[d].snap = loc[d].snap
    BY DEF do_set_pose
  <2>2. /\ UNCHANGED <<active, saved, tilt, emitter, wpc, excuse>>
        /\ \A d \in Callers : Passed(d)' => Passed(d)
        /\ \A d \in Callers : Entering(d)' <=> Entering(d)
    BY DEF do_set_pose
  <2> QED BY <2>1, <2>2
<1>16. CASE \E c \in Callers : do_set_pose_write(c)
    BY <1>16 DEF do_set_pose_write
<1>17. CASE \E c \in Callers : waiter_claim(c)
    BY <1>17 DEF waiter_claim, WritePid
<1>18. CASE \E c \in Callers : on_seek(c)
    BY <1>18 DEF on_seek, seek_tilt, Fault, NoFault
<1>19. CASE \E c \in Callers : waiter_dark(c)
    BY <1>19 DEF waiter_dark
<1>20. CASE \E c \in Callers : arm(c)
    BY <1>20 DEF arm
<1>21. CASE \E c \in Callers : off_seek(c)
    BY <1>21, DarkSeek
<1>22. CASE \E c \in Callers : off_write(c)
    BY <1>22 DEF off_write, Fault, NoFault
<1>23. CASE \E c \in Callers : off_disarm(c)
    BY <1>23 DEF off_disarm
<1>24. CASE \E c \in Callers : off_ir(c)
    BY <1>24 DEF off_ir
<1>25. CASE \E c \in Callers : off_mode(c)
    BY <1>25 DEF off_mode, Restore
<1>26. CASE \E c \in Callers : waiter_exit(c)
    BY <1>26 DEF waiter_exit, Remove
<1>27. CASE \E c \in Callers : Kill(c)
    BY <1>27 DEF Kill, Fault, OffCut, OnCut
<1>28. CASE PowerCut
    BY <1>28 DEF PowerCut, Fault, OffCut
<1>29. CASE UNCHANGED vars
    BY <1>29 DEF vars
<1> QED BY <1>1, <1>2, <1>3, <1>4, <1>5, <1>6, <1>7, <1>8, <1>9, <1>10, <1>11, <1>12, <1>13, <1>14, <1>15, <1>16, <1>17, <1>18, <1>19, <1>20, <1>21, <1>22, <1>23, <1>24, <1>25, <1>26, <1>27, <1>28, <1>29 DEF Next, Step, WaiterStep

\* The marker is set under the flag and removed right after it.
LEMMA ArmStep == TypeOK /\ PlaceInv /\ FlagInv /\ ArmInv /\ [Next]_vars => ArmInv'
<1> SUFFICES ASSUME TypeOK, PlaceInv, FlagInv, ArmInv, [Next]_vars PROVE ArmInv'
    OBVIOUS
<1> USE DEF TypeOK, PlaceInv, Transitions, FlagInv, ArmInv, P, W, Command, files, hist, privacy_active
<1> USE EntryPlaces
<1>1. CASE \E c \in Callers : \E o \in Ops : Invoke(c, o)
    BY <1>1 DEF Invoke
<1>2. CASE \E c \in Callers : do_guard(c)
    BY <1>2 DEF do_guard
<1>3. CASE \E c \in Callers : light(c)
    BY <1>3 DEF light
<1>4. CASE \E c \in Callers : apply(c)
    BY <1>4 DEF apply
<1>5. CASE \E c \in Callers : acquire_lock_mkdir(c)
    BY <1>5 DEF acquire_lock_mkdir
<1>6. CASE \E c \in Callers : acquire_lock_pid(c)
    BY <1>6 DEF acquire_lock_pid, WritePid
<1>7. CASE \E c \in Callers : acquire_lock_stale(c)
    BY <1>7 DEF acquire_lock_stale
<1>8. CASE \E c \in Callers : acquire_lock_break(c)
    BY <1>8 DEF acquire_lock_break, Remove
<1>9. CASE \E c \in Callers : reenter_check(c)
    BY <1>9 DEF reenter_check
<1>10. CASE \E c \in Callers : held(c)
    BY <1>10 DEF held, Remove, Snapshot, Fault, NoFault
<1>11. CASE \E c \in Callers : on_write(c)
    BY <1>11 DEF on_write, Remove, Fault, NoFault
<1>12. CASE \E c \in Callers : on_freeze(c)
    BY <1>12 DEF on_freeze
<1>13. CASE \E c \in Callers : on_dark(c)
    BY <1>13 DEF on_dark
<1>14. CASE \E c \in Callers : backup(c)
    BY <1>14 DEF backup, WritePid
<1>15. CASE \E c \in Callers : do_set_pose(c)
    BY <1>15 DEF do_set_pose, Fault, NoFault
<1>16. CASE \E c \in Callers : do_set_pose_write(c)
    BY <1>16 DEF do_set_pose_write
<1>17. CASE \E c \in Callers : waiter_claim(c)
    BY <1>17 DEF waiter_claim, WritePid
<1>18. CASE \E c \in Callers : on_seek(c)
    BY <1>18 DEF on_seek, seek_tilt, Fault, NoFault
<1>19. CASE \E c \in Callers : waiter_dark(c)
    BY <1>19 DEF waiter_dark
<1>20. CASE \E c \in Callers : arm(c)
    BY <1>20 DEF arm
<1>21. CASE \E c \in Callers : off_seek(c)
    BY <1>21 DEF off_seek, seek_tilt, Fault, NoFault
<1>22. CASE \E c \in Callers : off_write(c)
    BY <1>22 DEF off_write, Fault, NoFault
<1>23. CASE \E c \in Callers : off_disarm(c)
    BY <1>23 DEF off_disarm
<1>24. CASE \E c \in Callers : off_ir(c)
    BY <1>24 DEF off_ir
<1>25. CASE \E c \in Callers : off_mode(c)
    BY <1>25 DEF off_mode, Restore
<1>26. CASE \E c \in Callers : waiter_exit(c)
    BY <1>26 DEF waiter_exit, Remove
<1>27. CASE \E c \in Callers : Kill(c)
    BY <1>27 DEF Kill, Fault, OffCut, OnCut
<1>28. CASE PowerCut
    BY <1>28 DEF PowerCut, Fault, OffCut
<1>29. CASE UNCHANGED vars
    BY <1>29 DEF vars
<1> QED BY <1>1, <1>2, <1>3, <1>4, <1>5, <1>6, <1>7, <1>8, <1>9, <1>10, <1>11, <1>12, <1>13, <1>14, <1>15, <1>16, <1>17, <1>18, <1>19, <1>20, <1>21, <1>22, <1>23, <1>24, <1>25, <1>26, <1>27, <1>28, <1>29 DEF Next, Step, WaiterStep

\* Without faults the lens is at the pose from the move of `on` to that of `off`.
LEMMA PoseStep == TypeOK /\ PlaceInv /\ LockInv /\ FlagInv /\ ArmInv /\ PoseInv /\ [Next]_vars => PoseInv'
<1> SUFFICES ASSUME TypeOK, PlaceInv, LockInv, FlagInv, ArmInv, PoseInv, [Next]_vars PROVE PoseInv'
    OBVIOUS
<1> USE DEF TypeOK, PlaceInv, Transitions, LockInv, FlagInv, ArmInv, PoseInv, Aiming, Silenced, P, W, Command, files, hist, pid_live, lock_busy, privacy_active, NothingToDo, Settled
<1> USE EntryPlaces
<1>1. CASE \E c \in Callers : \E o \in Ops : Invoke(c, o)
    BY <1>1 DEF Invoke
<1>2. CASE \E c \in Callers : do_guard(c)
    BY <1>2 DEF do_guard
<1>3. CASE \E c \in Callers : light(c)
    BY <1>3 DEF light
<1>4. CASE \E c \in Callers : apply(c)
    BY <1>4 DEF apply
<1>5. CASE \E c \in Callers : acquire_lock_mkdir(c)
    BY <1>5 DEF acquire_lock_mkdir
<1>6. CASE \E c \in Callers : acquire_lock_pid(c)
    BY <1>6 DEF acquire_lock_pid, WritePid
<1>7. CASE \E c \in Callers : acquire_lock_stale(c)
    BY <1>7 DEF acquire_lock_stale
<1>8. CASE \E c \in Callers : acquire_lock_break(c)
    BY <1>8 DEF acquire_lock_break, Remove
<1>9. CASE \E c \in Callers : reenter_check(c)
    BY <1>9 DEF reenter_check
<1>10. CASE \E c \in Callers : held(c)
    BY <1>10 DEF held, Remove, Snapshot, Fault, NoFault
<1>11. CASE \E c \in Callers : on_write(c)
    BY <1>11 DEF on_write, Remove, Fault, NoFault
<1>12. CASE \E c \in Callers : on_freeze(c)
    BY <1>12 DEF on_freeze
<1>13. CASE \E c \in Callers : on_dark(c)
  <2> SUFFICES ASSUME NEW c \in Callers, on_dark(c), excuse' = {}, faults' = 0 PROVE PoseInv'
      BY <1>13 DEF PoseInv
  <2>1. /\ op' = op /\ ppc' = [ppc EXCEPT ![c] = "backup"] /\ wpc' = [wpc EXCEPT ![c] = "claim"] /\ muted'
        /\ UNCHANGED <<armed, tilt, pose, loc, faults, excuse>> /\ ppc[c] = "dark" /\ op[c] = "on" /\ wpc[c] = "idle"
      BY DEF on_dark, P, W, Command, files, hist, PlaceInv, TypeOK
  <2> QED BY <2>1 DEF PoseInv, Aiming, Silenced, TypeOK
<1>14. CASE \E c \in Callers : backup(c)
    BY <1>14 DEF backup, WritePid
<1>15. CASE \E c \in Callers : do_set_pose(c)
    BY <1>15 DEF do_set_pose, Fault, NoFault
<1>16. CASE \E c \in Callers : do_set_pose_write(c)
    BY <1>16 DEF do_set_pose_write
<1>17. CASE \E c \in Callers : waiter_claim(c)
    BY <1>17 DEF waiter_claim, WritePid
<1>18. CASE \E c \in Callers : on_seek(c)
    BY <1>18 DEF on_seek, seek_tilt, Fault, NoFault
<1>19. CASE \E c \in Callers : waiter_dark(c)
    BY <1>19 DEF waiter_dark
<1>20. CASE \E c \in Callers : arm(c)
  <2> SUFFICES ASSUME NEW c \in Callers, arm(c), excuse' = {}, faults' = 0 PROVE PoseInv'
      BY <1>20 DEF PoseInv
  <2>1. /\ op' = op /\ wpc' = [wpc EXCEPT ![c] = "exit"] /\ armed'
        /\ UNCHANGED <<ppc, muted, tilt, pose, loc, faults, excuse>> /\ wpc[c] = "arm" /\ op[c] \in {"on", "reenter"}
      BY DEF arm, W, Command, files, hist, PlaceInv
  <2> QED BY <2>1 DEF PoseInv, Aiming, Silenced, TypeOK
<1>21. CASE \E c \in Callers : off_seek(c)
  <2> SUFFICES ASSUME NEW c \in Callers, off_seek(c), excuse' = {}, faults' = 0 PROVE PoseInv'
      BY <1>21 DEF PoseInv
  <2>0. faults' = faults
      BY DEF off_seek, seek_tilt, Fault, NoFault, TypeOK
  <2>w. W(c, "off")
      <3>1. tilt' = IF loc[c].snap.tilt = "none" THEN "scene" ELSE loc[c].snap.tilt
          BY <2>0 DEF off_seek, seek_tilt, Fault, TypeOK
      <3> QED BY <2>0, <3>1 DEF off_seek
  <2>1. /\ op' = op /\ wpc' = [wpc EXCEPT ![c] = "off"]
        /\ UNCHANGED <<armed, ppc, muted, pose, loc, excuse>> /\ wpc[c] = "seek" /\ op[c] \in {"off", "force"}
      BY <2>w DEF off_seek, W, Command, files
  <2>2. \A d \in Callers : wpc[d] # "idle" => d = c
      BY <2>1 DEF LockInv
  <2>3. \A d \in Callers : ~(ppc[d] = "apply" /\ op[d] = "motors")
      BY DEF off_seek, Settled
  <2> QED BY <2>0, <2>1, <2>2, <2>3 DEF PoseInv, Aiming, Silenced, TypeOK
<1>22. CASE \E c \in Callers : off_write(c)
    BY <1>22 DEF off_write, Fault, NoFault
<1>23. CASE \E c \in Callers : off_disarm(c)
    BY <1>23 DEF off_disarm
<1>24. CASE \E c \in Callers : off_ir(c)
    BY <1>24 DEF off_ir
<1>25. CASE \E c \in Callers : off_mode(c)
    BY <1>25 DEF off_mode, Restore
<1>26. CASE \E c \in Callers : waiter_exit(c)
    BY <1>26 DEF waiter_exit, Remove
<1>27. CASE \E c \in Callers : Kill(c)
    BY <1>27 DEF Kill, Fault, OffCut, OnCut
<1>28. CASE PowerCut
    BY <1>28 DEF PowerCut, Fault, OffCut
<1>29. CASE UNCHANGED vars
    BY <1>29 DEF vars
<1> QED BY <1>1, <1>2, <1>3, <1>4, <1>5, <1>6, <1>7, <1>8, <1>9, <1>10, <1>11, <1>12, <1>13, <1>14, <1>15, <1>16, <1>17, <1>18, <1>19, <1>20, <1>21, <1>22, <1>23, <1>24, <1>25, <1>26, <1>27, <1>28, <1>29 DEF Next, Step, WaiterStep

\* The intent is not lost between its snapshot and its restoration.
LEMMA IntentStep == TypeOK /\ PlaceInv /\ SnapInv /\ LockInv /\ FlagInv /\ IntentInv /\ [Next]_vars => IntentInv'
<1> SUFFICES ASSUME TypeOK, PlaceInv, SnapInv, LockInv, FlagInv, IntentInv, [Next]_vars PROVE IntentInv'
    OBVIOUS
<1> USE DEF TypeOK, PlaceInv, SnapInv, Whole, Transitions, LockInv, FlagInv, IntentInv, P, W, Command, files, hist, privacy_active, NothingToDo, NoSnap, NoLoc, pid_live, lock_busy, Transit
<1> USE EntryPlaces
<1>1. CASE \E c \in Callers : \E o \in Ops : Invoke(c, o)
    BY <1>1 DEF Invoke
<1>2. CASE \E c \in Callers : do_guard(c)
    BY <1>2 DEF do_guard
<1>3. CASE \E c \in Callers : light(c)
    BY <1>3 DEF light
<1>4. CASE \E c \in Callers : apply(c)
    BY <1>4 DEF apply
<1>5. CASE \E c \in Callers : acquire_lock_mkdir(c)
    BY <1>5 DEF acquire_lock_mkdir
<1>6. CASE \E c \in Callers : acquire_lock_pid(c)
    BY <1>6 DEF acquire_lock_pid, WritePid
<1>7. CASE \E c \in Callers : acquire_lock_stale(c)
    BY <1>7 DEF acquire_lock_stale
<1>8. CASE \E c \in Callers : acquire_lock_break(c)
    BY <1>8 DEF acquire_lock_break, Remove
<1>9. CASE \E c \in Callers : reenter_check(c)
    BY <1>9 DEF reenter_check
<1>10. CASE \E c \in Callers : held(c)
    BY <1>10 DEF held, Remove, Snapshot, Fault, NoFault
<1>11. CASE \E c \in Callers : on_write(c)
    BY <1>11 DEF on_write, Remove, Fault, NoFault
<1>12. CASE \E c \in Callers : on_freeze(c)
    BY <1>12 DEF on_freeze
<1>13. CASE \E c \in Callers : on_dark(c)
    BY <1>13 DEF on_dark
<1>14. CASE \E c \in Callers : backup(c)
    BY <1>14 DEF backup, WritePid
<1>15. CASE \E c \in Callers : do_set_pose(c)
    BY <1>15 DEF do_set_pose, Fault, NoFault
<1>16. CASE \E c \in Callers : do_set_pose_write(c)
    BY <1>16 DEF do_set_pose_write
<1>17. CASE \E c \in Callers : waiter_claim(c)
    BY <1>17 DEF waiter_claim, WritePid
<1>18. CASE \E c \in Callers : on_seek(c)
    BY <1>18 DEF on_seek, seek_tilt, Fault, NoFault
<1>19. CASE \E c \in Callers : waiter_dark(c)
    BY <1>19 DEF waiter_dark
<1>20. CASE \E c \in Callers : arm(c)
    BY <1>20 DEF arm
<1>21. CASE \E c \in Callers : off_seek(c)
    BY <1>21 DEF off_seek, seek_tilt, Fault, NoFault
<1>22. CASE \E c \in Callers : off_write(c)
    BY <1>22 DEF off_write, Fault, NoFault
<1>23. CASE \E c \in Callers : off_disarm(c)
    BY <1>23 DEF off_disarm
<1>24. CASE \E c \in Callers : off_ir(c)
    BY <1>24 DEF off_ir
<1>25. CASE \E c \in Callers : off_mode(c)
    BY <1>25 DEF off_mode, Restore
<1>26. CASE \E c \in Callers : waiter_exit(c)
    BY <1>26 DEF waiter_exit, Remove
<1>27. CASE \E c \in Callers : Kill(c)
    BY <1>27 DEF Kill, Fault, OffCut, OnCut
<1>28. CASE PowerCut
    BY <1>28 DEF PowerCut, Fault, OffCut
<1>29. CASE UNCHANGED vars
    BY <1>29 DEF vars
<1> QED BY <1>1, <1>2, <1>3, <1>4, <1>5, <1>6, <1>7, <1>8, <1>9, <1>10, <1>11, <1>12, <1>13, <1>14, <1>15, <1>16, <1>17, <1>18, <1>19, <1>20, <1>21, <1>22, <1>23, <1>24, <1>25, <1>26, <1>27, <1>28, <1>29 DEF Next, Step, WaiterStep

\* The invariant implies what is promised of privacy.
LEMMA IInvSafe == IInv => PrivacyInv /\ SnapshotRestored
<1> SUFFICES ASSUME IInv PROVE PrivacyInv /\ SnapshotRestored
    OBVIOUS
<1> USE DEF IInv
<1>1. NoWarming
    <2> SUFFICES ASSUME tilt = "body", emitter, excuse \ {"cut"} = {} PROVE \E c \in Callers : wpc[c] = "dark"
        BY DEF NoWarming
    <2>1. excuse \subseteq {"cut"}
        OBVIOUS
    <2> QED BY <2>1 DEF DarkInv
<1>2. ArmedMeansPrivate
    <2> SUFFICES ASSUME armed, faults = 0, excuse = {}, \A c \in Callers : wpc[c] = "idle"
                 PROVE  tilt = pose /\ ~emitter /\ muted
        BY DEF ArmedMeansPrivate
    <2>1. active
        BY DEF ArmInv
    <2>2. \A c \in Callers : ~Entering(c)
        BY DEF Entering, FlagInv
    <2>3. ~emitter
        BY <2>1, <2>2 DEF DarkInv
    <2> QED BY <2>3 DEF PoseInv
<1>3. ArmedPersists
    BY DEF ArmInv, ArmedPersists, Quiescent
<1>4. SnapshotRestored
    <2> SUFFICES ASSUME Quiescent, ~active, excuse \ {"undark"} = {} PROVE mode \in intent
        BY DEF SnapshotRestored
    <2>1. excuse \subseteq {"undark"}
        OBVIOUS
    <2> QED BY <2>1 DEF IntentInv, Quiescent
<1> QED BY <1>1, <1>2, <1>3, <1>4 DEF PrivacyInv

\* The invariant is inductive.
LEMMA IInvHolds == Spec => []IInv
<1>1. IInv /\ [Next]_vars => IInv'
    BY TypeStep, PlaceStep, SnapStep, LockStep, FlagStep, DarkStep, ArmStep, PoseStep, IntentStep DEF IInv
<1> QED BY InitIInv, <1>1, PTL DEF Spec

\* Whatever runs at the same time, fails or is killed, no emitter is lit while the lens faces
\* the body, on a working camera the marker means parked, dark and muted, and privacy that
\* is armed survives a power cut (up to the exemptions PrivacyInv names).
THEOREM PrivacySafe == Spec => []PrivacyInv
BY IInvHolds, IInvSafe, PTL

\* After privacy the day/night intent is one chosen before it, whatever was toggled meanwhile
\* and however many transitions, unless a transition was cut short or the lock stolen.
THEOREM SnapshotSafe == Spec => []SnapshotRestored
BY IInvHolds, IInvSafe, PTL
=============================================================================
