-------------------------- MODULE ConfigHealProofs --------------------------
(***************************************************************************)
(* The heal of prudynt.json never tears the file and never replaces a      *)
(* valid one, for any number of callers and of power cuts.                 *)
(***************************************************************************)
EXTENDS ConfigHeal, TLAPS

\* As long as no two invocations have overlapped since the boot, one at a time is between its
\* entry and its launch, and its temporary file is what its step needs: open while it is
\* written, complete when it is synced, complete and on flash when it is renamed.
AloneInv ==
    "heal" \notin clash =>
        \A c \in Callers :
            /\ pc[c] # "idle" => \A d \in Callers \ {c} : pc[d] = "idle"
            /\ fd[c] = IF pc[c] = "write" THEN "tmp" ELSE "none"
            /\ pc[c] \in {"sync", "mv"} => tmp = "rom"
            /\ pc[c] = "mv" => synced

IInv == HealInv /\ AloneInv

\* The state after a boot satisfies the invariant.
LEMMA InitIInv == Init => IInv
<1> SUFFICES ASSUME Init PROVE IInv
    OBVIOUS
<1>1. synced \in BOOLEAN /\ excused \in BOOLEAN
    BY Zenon DEF Init
<1>2. TypeOK
    BY <1>1, HealAssumption DEF Init, TypeOK, Contents, Files, Steps
<1>3. NeverTorn
    BY DEF Init, NeverTorn
<1>4. AloneInv
    BY DEF Init, AloneInv
<1> QED BY <1>2, <1>3, <1>4 DEF IInv, HealInv

\* Every step keeps the types.
LEMMA TypeStep == TypeOK /\ [Next]_vars => TypeOK'
<1> SUFFICES ASSUME TypeOK, [Next]_vars PROVE TypeOK'
    OBVIOUS
<1> USE HealAssumption DEF TypeOK, Contents, Files, Steps
<1>1. ASSUME NEW c \in Callers, HealStep(c) PROVE TypeOK'
    <2>1. CASE heal_begin(c)
        BY <2>1 DEF heal_begin, Unlinked, Entered
    <2>2. CASE heal_probe(c)
        BY <2>2 DEF heal_probe, jct, Timeout
    <2>3. CASE heal_romprobe(c)
        BY <2>3 DEF heal_romprobe, jct, Timeout
    <2>4. CASE heal_copy(c)
        <3>1. synced' \in BOOLEAN
            BY <2>4, Zenon DEF heal_copy
        <3> QED BY <2>4, <3>1 DEF heal_copy
    <2>5. CASE heal_write(c)
        BY <2>5 DEF heal_write
    <2>6. CASE heal_write_fails(c)
        BY <2>6 DEF heal_write_fails, Unlinked
    <2>7. CASE heal_sync(c)
        <3>1. synced' \in BOOLEAN
            BY <2>7, Zenon DEF heal_sync
        <3> QED BY <2>7, <3>1 DEF heal_sync
    <2>8. CASE heal_mv(c)
        BY <2>8 DEF heal_mv
    <2>9. CASE launch(c)
        BY <2>9 DEF launch
    <2> QED BY <1>1, <2>1, <2>2, <2>3, <2>4, <2>5, <2>6, <2>7, <2>8, <2>9 DEF HealStep
<1>2. CASE SaveOpen
    <2>1. excused' \in BOOLEAN
        BY <1>2, Zenon DEF SaveOpen
    <2> QED BY <1>2, <2>1 DEF SaveOpen
<1>3. CASE SaveWrite
    BY <1>3 DEF SaveWrite
<1>4. CASE PowerCut
    <2>1. excused' \in BOOLEAN /\ synced' \in BOOLEAN
        BY <1>4, Zenon DEF PowerCut
    <2> QED BY <1>4, <2>1 DEF PowerCut
<1>5. CASE UNCHANGED vars
    BY <1>5 DEF vars
<1> QED BY <1>1, <1>2, <1>3, <1>4, <1>5 DEF Next

\* Every step keeps the temporary file fit for the invocation that uses it.
LEMMA AloneStep == TypeOK /\ AloneInv /\ [Next]_vars => AloneInv'
<1> SUFFICES ASSUME TypeOK, AloneInv, [Next]_vars, "heal" \notin clash' PROVE AloneInv'
    BY DEF AloneInv
<1> USE DEF TypeOK, AloneInv
<1>1. ASSUME NEW c \in Callers, HealStep(c) PROVE AloneInv'
    <2>1. CASE heal_begin(c)
        <3>1. "heal" \notin clash /\ \A d \in Callers \ {c} : pc[d] = "idle"
            BY <2>1 DEF heal_begin, Entered
        <3>2. \A d \in Callers : fd[d] = "none"
            BY <2>1, <3>1 DEF heal_begin
        <3> QED BY <2>1, <3>1, <3>2 DEF heal_begin, Unlinked
    <2>2. CASE heal_probe(c)
        BY <2>2 DEF heal_probe, Timeout
    <2>3. CASE heal_romprobe(c)
        BY <2>3 DEF heal_romprobe, Timeout
    <2>4. CASE heal_copy(c)
        BY <2>4 DEF heal_copy
    <2>5. CASE heal_write(c)
        BY <2>5 DEF heal_write
    <2>6. CASE heal_write_fails(c)
        BY <2>6 DEF heal_write_fails, Unlinked
    <2>7. CASE heal_sync(c)
        BY <2>7 DEF heal_sync
    <2>8. CASE heal_mv(c)
        BY <2>8 DEF heal_mv
    <2>9. CASE launch(c)
        BY <2>9 DEF launch
    <2> QED BY <1>1, <2>1, <2>2, <2>3, <2>4, <2>5, <2>6, <2>7, <2>8, <2>9 DEF HealStep
<1>2. CASE SaveOpen
    BY <1>2 DEF SaveOpen
<1>3. CASE SaveWrite
    BY <1>3 DEF SaveWrite
<1>4. CASE PowerCut
    BY <1>4 DEF PowerCut
<1>5. CASE UNCHANGED vars
    BY <1>5 DEF vars
<1> QED BY <1>1, <1>2, <1>3, <1>4, <1>5 DEF Next

\* No step tears the file.
LEMMA TornStep == IInv /\ [Next]_vars => NeverTorn'
<1> SUFFICES ASSUME IInv, [Next]_vars, ~excused', "heal" \notin clash'
             PROVE  "corrupt" \notin cut' \cup {cfg'}
    BY DEF NeverTorn
<1> USE DEF IInv, HealInv, TypeOK, NeverTorn
<1>1. ASSUME NEW c \in Callers, HealStep(c) PROVE "corrupt" \notin cut' \cup {cfg'}
    <2>1. CASE heal_begin(c)
        BY <2>1 DEF heal_begin, Entered
    <2>2. CASE heal_probe(c)
        BY <2>2 DEF heal_probe, Timeout
    <2>3. CASE heal_romprobe(c)
        BY <2>3 DEF heal_romprobe, Timeout
    <2>4. CASE heal_copy(c)
        BY <2>4 DEF heal_copy
    <2>5. CASE heal_write(c)
        BY <2>5 DEF heal_write
    <2>6. CASE heal_write_fails(c)
        BY <2>6 DEF heal_write_fails
    <2>7. CASE heal_sync(c)
        BY <2>7 DEF heal_sync
    <2>8. CASE heal_mv(c)
        <3>1. tmp = "rom" /\ synced
            BY <2>8 DEF heal_mv, AloneInv
        <3> QED BY <2>8, <3>1 DEF heal_mv
    <2>9. CASE launch(c)
        BY <2>9 DEF launch
    <2> QED BY <1>1, <2>1, <2>2, <2>3, <2>4, <2>5, <2>6, <2>7, <2>8, <2>9 DEF HealStep
<1>2. CASE SaveOpen
    BY <1>2 DEF SaveOpen
<1>3. CASE SaveWrite
    BY <1>3 DEF SaveWrite
<1>4. CASE PowerCut
    BY <1>4 DEF PowerCut
<1>5. CASE UNCHANGED vars
    BY <1>5 DEF vars
<1> QED BY <1>1, <1>2, <1>3, <1>4, <1>5 DEF Next

\* Neither a reader nor a power cut ever finds a configuration torn by the restore of
\* S31prudynt, whatever the number of callers and of power cuts, unless two of them overlapped.
THEOREM HealSafe == Spec => []HealInv
<1>1. IInv /\ [Next]_vars => IInv'
    BY TypeStep, AloneStep, TornStep DEF IInv, HealInv
<1>2. IInv => HealInv
    BY DEF IInv
<1> QED BY InitIInv, <1>1, <1>2, PTL DEF Spec

\* An invocation that is past its probe found the file invalid, and nothing has changed it since:
\* no save is under way beside an invocation, and no other invocation.
KeptInv ==
    clash = {} =>
        \A c \in Callers : /\ pc[c] # "idle" => saver = "none"
                           /\ pc[c] \in {"romprobe", "copy", "write", "sync", "mv"} => cfg \notin Valid

\* Every step keeps the finding of the probe true until the rename.
LEMMA KeptStep == TypeOK /\ AloneInv /\ KeptInv /\ [Next]_vars => KeptInv'
<1> SUFFICES ASSUME TypeOK, AloneInv, KeptInv, [Next]_vars, clash' = {} PROVE KeptInv'
    BY DEF KeptInv
<1> USE DEF TypeOK, KeptInv
<1>1. ASSUME NEW c \in Callers, HealStep(c) PROVE KeptInv'
    <2>1. CASE heal_begin(c)
        <3>1. clash = {} /\ saver = "none"
            BY <2>1 DEF heal_begin, Entered
        <3> QED BY <2>1, <3>1 DEF heal_begin
    <2>2. CASE heal_probe(c)
        <3>1. PICK ok \in jct(cfg) : /\ pc' = [pc EXCEPT ![c] = IF ok THEN "launch" ELSE "romprobe"]
                                     /\ Timeout(cfg, ok)
            BY <2>2 DEF heal_probe
        <3>2. clash = {} /\ (~ok => cfg \notin Valid)
            BY <3>1 DEF Timeout
        <3> QED BY <2>2, <3>1, <3>2 DEF heal_probe
    <2>3. CASE heal_romprobe(c)
        BY <2>3 DEF heal_romprobe, Timeout
    <2>4. CASE heal_copy(c)
        BY <2>4 DEF heal_copy
    <2>5. CASE heal_write(c)
        BY <2>5 DEF heal_write, AloneInv
    <2>6. CASE heal_write_fails(c)
        BY <2>6 DEF heal_write_fails
    <2>7. CASE heal_sync(c)
        BY <2>7 DEF heal_sync
    <2>8. CASE heal_mv(c)
        <3>1. \A d \in Callers \ {c} : pc[d] = "idle"
            BY <2>8 DEF heal_mv, AloneInv
        <3> QED BY <2>8, <3>1 DEF heal_mv
    <2>9. CASE launch(c)
        BY <2>9 DEF launch
    <2> QED BY <1>1, <2>1, <2>2, <2>3, <2>4, <2>5, <2>6, <2>7, <2>8, <2>9 DEF HealStep
<1>2. CASE SaveOpen
    BY <1>2 DEF SaveOpen
<1>3. CASE SaveWrite
    BY <1>3 DEF SaveWrite
<1>4. CASE PowerCut
    BY <1>4 DEF PowerCut
<1>5. CASE UNCHANGED vars
    BY <1>5 DEF vars
<1> QED BY <1>1, <1>2, <1>3, <1>4, <1>5 DEF Next

\* The restore never replaces a valid configuration, for any number of callers and of power cuts,
\* unless invocations or saves overlapped since the boot or a probe was cut off.
THEOREM KeptSafe == Spec => UserConfigKept
<1>1. Init => IInv /\ KeptInv
    BY InitIInv DEF Init, KeptInv
<1>2. IInv /\ KeptInv /\ [Next]_vars => IInv' /\ KeptInv'
    BY TypeStep, AloneStep, TornStep, KeptStep DEF IInv, HealInv
<1>3. IInv /\ KeptInv /\ [Next]_vars =>
          [cfg = "user" /\ (\E c \in Callers : heal_mv(c)) => cfg' = "user" \/ clash # {}]_vars
    <2>1. ASSUME KeptInv, NEW c \in Callers, heal_mv(c), cfg = "user" PROVE clash # {}
        BY <2>1 DEF KeptInv, heal_mv, Valid
    <2> QED BY <2>1
<1> QED BY <1>1, <1>2, <1>3, PTL DEF Spec, UserConfigKept
=============================================================================
