----------------------------- MODULE ConfigHeal -----------------------------
(***************************************************************************)
(* validate_and_restore_config ("C1") of S31prudynt: before every launch   *)
(* /etc/prudynt.json is probed and, when it does not yield the brick       *)
(* field, replaced by the ROM copy through the temporary file              *)
(* /etc/prudynt.json.c1tmp. The invocations are not serialised, the power  *)
(* may be cut at any point, the overlay may be full, and the web UI saves  *)
(* the same file in place (truncate, then write).                          *)
(***************************************************************************)
EXTENDS Naturals

CONSTANTS
    Callers,        \* processes that run `S31prudynt start` or `restart`
    Roms,           \* what /rom/etc/prudynt.json may be on this unit
    Saves,          \* TRUE if the web UI saves the configuration meanwhile
    MaxFaults       \* bound: power cuts and failed writes

ASSUME HealAssumption ==
    /\ Roms \subseteq {"clean", "unclean", "empty"}
    /\ Saves \in BOOLEAN /\ MaxFaults \in Nat

VARIABLES
    cfg,        \* /etc/prudynt.json as processes see it
    cut,        \* what a power cut may leave of /etc/prudynt.json
    tmp,        \* the .c1tmp file: absent, partly written or complete
    synced,     \* TRUE if the data of .c1tmp is on flash
    rom,        \* the ROM copy
    pc,         \* where each invocation is
    fd,         \* the name of the file the caller's cp is writing to
    saver,      \* the web UI's save: idle, or the name its open file has
    excused,    \* history: since the last boot the file was found, or saved, torn
    clash,      \* history: overlaps and probes cut off since the boot
    faults      \* power cuts and failed writes so far

vars == <<cfg, cut, tmp, synced, rom, pc, fd, saver, excused, clash, faults>>

Contents == {"user", "rom", "corrupt", "missing"}
Files == {"none", "tmp", "cfg", "orphan"}
Steps == {"idle", "probe", "romprobe", "copy", "write", "sync", "mv", "launch"}
Valid == {"user", "rom"}

\* `jct get image.isp_bypass`: a boolean on a file that parses, nothing otherwise.
\* A probe that is cut off by `timeout` prints nothing either.
jct(content) == {(content \in Valid), FALSE}

Timeout(content, ok) == clash' = IF content \in Valid /\ ~ok THEN clash \cup {"timeout"} ELSE clash

Init == /\ cfg \in {"user", "corrupt", "missing"}
        /\ cut = {cfg}
        /\ tmp \in {"none", "part", "rom"}      \* an orphan of an earlier cut
        /\ synced = FALSE
        /\ rom \in Roms
        /\ pc = [c \in Callers |-> "idle"]
        /\ fd = [c \in Callers |-> "none"]
        /\ saver = "none"
        /\ excused = (cfg = "corrupt")
        /\ clash = {}
        /\ faults = 0

\* rm -f .c1tmp: a file someone still writes to lives on without a name.
Unlinked(f) == [c \in Callers |-> IF f[c] = "tmp" THEN "orphan" ELSE f[c]]

\* An invocation begins while another one or a save is under way.
Entered(c) == clash' = clash \cup {k \in {"heal", "save"} :
                 IF k = "heal" THEN \E d \in Callers \ {c} : pc[d] # "idle" ELSE saver # "none"}

\* Mutant: a missing live file is taken for "nothing to validate".
heal_begin_skips_missing(c) ==
    /\ pc[c] = "idle"
    /\ IF rom = "empty" \/ cfg = "missing"
       THEN pc' = [pc EXCEPT ![c] = "launch"] /\ UNCHANGED <<tmp, fd>>
       ELSE /\ pc' = [pc EXCEPT ![c] = "probe"]
            /\ tmp' = "none"
            /\ fd' = Unlinked(fd)
    /\ Entered(c)
    /\ UNCHANGED <<cfg, cut, synced, rom, saver, excused, faults>>

\* The entry: without jct or a ROM copy ("empty") nothing is done. Otherwise an orphan
\* temporary file is reclaimed.
heal_begin(c) ==
    /\ pc[c] = "idle"
    /\ IF rom = "empty"
       THEN pc' = [pc EXCEPT ![c] = "launch"] /\ UNCHANGED <<tmp, fd>>
       ELSE /\ pc' = [pc EXCEPT ![c] = "probe"]
            /\ tmp' = "none"
            /\ fd' = Unlinked(fd)
    /\ Entered(c)
    /\ UNCHANGED <<cfg, cut, synced, rom, saver, excused, faults>>

\* Mutant: only "true" counts as valid, a file whose field is "false" is replaced.
heal_probe_true_only(c) ==
    /\ pc[c] = "probe"
    /\ \E ok \in {cfg = "rom", FALSE} :
          pc' = [pc EXCEPT ![c] = IF ok THEN "launch" ELSE "romprobe"]
    /\ UNCHANGED <<cfg, cut, tmp, synced, rom, fd, saver, excused, clash, faults>>

\* The live file is probed: only a boolean answer leaves it alone.
heal_probe(c) ==
    /\ pc[c] = "probe"
    /\ \E ok \in jct(cfg) : /\ pc' = [pc EXCEPT ![c] = IF ok THEN "launch" ELSE "romprobe"]
                            /\ Timeout(cfg, ok)
    /\ UNCHANGED <<cfg, cut, tmp, synced, rom, fd, saver, excused, faults>>

\* The ROM copy is used only if it probes clean itself.
heal_romprobe(c) ==
    /\ pc[c] = "romprobe"
    /\ LET content == IF rom = "clean" THEN "rom" ELSE "corrupt"
       IN  \E ok \in jct(content) : /\ pc' = [pc EXCEPT ![c] = IF ok THEN "copy" ELSE "launch"]
                                     /\ Timeout(content, ok)
    /\ UNCHANGED <<cfg, cut, tmp, synced, rom, fd, saver, excused, faults>>

\* cp opens (and truncates) the temporary file.
heal_copy(c) ==
    /\ pc[c] = "copy"
    /\ tmp' = "part" /\ synced' = FALSE
    /\ fd' = [fd EXCEPT ![c] = "tmp"]
    /\ pc' = [pc EXCEPT ![c] = "write"]
    /\ UNCHANGED <<cfg, cut, rom, saver, excused, clash, faults>>

\* cp writes the data into whatever name its file has by now.
heal_write(c) ==
    /\ pc[c] = "write"
    /\ tmp' = IF fd[c] = "tmp" THEN "rom" ELSE tmp
    /\ cfg' = IF fd[c] = "cfg" THEN "rom" ELSE cfg
    /\ fd' = [fd EXCEPT ![c] = "none"]
    /\ cut' = IF fd[c] = "cfg" THEN cut \cup {"rom"} ELSE cut
    /\ pc' = [pc EXCEPT ![c] = "sync"]
    /\ UNCHANGED <<synced, rom, saver, excused, clash, faults>>

\* cp fails (overlay full): the temporary file is removed and the live one left.
heal_write_fails(c) ==
    /\ pc[c] = "write"
    /\ faults < MaxFaults /\ faults' = faults + 1
    /\ tmp' = "none"
    /\ fd' = Unlinked([fd EXCEPT ![c] = "none"])
    /\ pc' = [pc EXCEPT ![c] = "launch"]
    /\ UNCHANGED <<cfg, cut, synced, rom, saver, excused, clash>>

\* Mutant: no sync before the rename.
heal_sync_skipped(c) ==
    /\ pc[c] = "sync"
    /\ pc' = [pc EXCEPT ![c] = "mv"]
    /\ UNCHANGED <<cfg, cut, tmp, synced, rom, fd, saver, excused, clash, faults>>

\* sync: all of the visible state is on flash.
heal_sync(c) ==
    /\ pc[c] = "sync"
    /\ synced' = TRUE
    /\ cut' = {cfg}
    /\ pc' = [pc EXCEPT ![c] = "mv"]
    /\ UNCHANGED <<cfg, tmp, rom, fd, saver, excused, clash, faults>>

\* mv: the rename is atomic; until the next sync a cut may leave the old file. It
\* fails when the temporary file is gone, and what is left of it is removed.
heal_mv(c) ==
    /\ pc[c] = "mv"
    /\ IF tmp = "none" THEN UNCHANGED <<cfg, cut, fd, saver>>
       ELSE LET new == IF tmp = "rom" THEN "rom" ELSE "corrupt"
            IN  /\ cfg' = new
                /\ cut' = cut \cup {IF synced THEN new ELSE "corrupt"}
                /\ fd' = [d \in Callers |-> IF fd[d] = "cfg" THEN "orphan"
                                            ELSE IF fd[d] = "tmp" THEN "cfg" ELSE fd[d]]
                /\ saver' = IF saver = "cfg" THEN "orphan" ELSE saver
    /\ tmp' = "none"
    /\ pc' = [pc EXCEPT ![c] = "launch"]
    /\ UNCHANGED <<synced, rom, excused, clash, faults>>

\* start() goes on to migrate the sidecar and to launch prudynt.
launch(c) ==
    /\ pc[c] = "launch"
    /\ pc' = [pc EXCEPT ![c] = "idle"]
    /\ UNCHANGED <<cfg, cut, tmp, synced, rom, fd, saver, excused, clash, faults>>

HealStep(c) ==
    \/ heal_begin(c) \/ heal_probe(c) \/ heal_romprobe(c) \/ heal_copy(c)
    \/ heal_write(c) \/ heal_write_fails(c) \/ heal_sync(c) \/ heal_mv(c) \/ launch(c)

\* The web UI stores the configuration with jct: the file is truncated, then written.
SaveOpen == /\ Saves /\ saver = "none"
            /\ saver' = "cfg" /\ cfg' = "corrupt"
            /\ cut' = cut \cup {"corrupt"}
            /\ excused' = TRUE
            /\ clash' = IF \E c \in Callers : pc[c] # "idle" THEN clash \cup {"save"} ELSE clash
            /\ UNCHANGED <<tmp, synced, rom, pc, fd, faults>>

SaveWrite == /\ saver # "none"
             /\ cfg' = IF saver = "cfg" THEN "user" ELSE cfg
             /\ cut' = IF saver = "cfg" THEN cut \cup {"user"} ELSE cut
             /\ saver' = "none"
             /\ UNCHANGED <<tmp, synced, rom, pc, fd, excused, clash, faults>>

\* The power fails and the camera boots again.
PowerCut == /\ faults < MaxFaults /\ faults' = faults + 1
            /\ cfg' \in cut
            /\ cut' = {cfg'}
            /\ tmp' \in IF tmp = "none" THEN {"none"} ELSE {"none", "part", tmp}
            /\ synced' = FALSE
            /\ pc' = [c \in Callers |-> "idle"]
            /\ fd' = [c \in Callers |-> "none"]
            /\ saver' = "none"
            /\ excused' = (cfg' = "corrupt") /\ clash' = {}
            /\ UNCHANGED rom

Next == (\E c \in Callers : HealStep(c)) \/ SaveOpen \/ SaveWrite \/ PowerCut

\* The watchdog restarts a streamer that does not stream, so the script runs again and
\* again. Nothing is assumed of the web UI or of the power.
Spec == Init /\ [][Next]_vars /\ \A c \in Callers : WF_vars(HealStep(c))

-----------------------------------------------------------------------------
TypeOK ==
    /\ cfg \in Contents /\ cut \subseteq Contents
    /\ tmp \in {"none", "part", "rom"} /\ synced \in BOOLEAN
    /\ rom \in {"clean", "unclean", "empty"}
    /\ pc \in [Callers -> Steps] /\ fd \in [Callers -> Files] /\ saver \in Files
    /\ excused \in BOOLEAN /\ clash \subseteq {"heal", "save", "timeout"} /\ faults \in 0 .. MaxFaults

\* "live file is the old contents or the full ROM copy, never a truncated blend":
\* neither a reader nor a power cut ever finds an unparseable configuration that was
\* not there at boot and that no save left, as long as invocations do not overlap.
NeverTorn == "corrupt" \in cut \cup {cfg} => excused \/ "heal" \in clash

\* The restore never replaces a configuration that is valid ("Every ambiguous case
\* [...] leaves the live file EXACTLY as-is"), as long as it is alone with the file and no
\* probe is cut off.
UserConfigKept ==
    [][cfg = "user" /\ (\E c \in Callers : heal_mv(c)) => cfg' = "user" \/ clash # {}]_vars

\* A missing or unparseable configuration is healed as soon as an invocation gets far
\* enough, also one left by a save that never ended or that the power cut in half.
\* (Two invocations may for ever remove each other's temporary file, and every probe of
\* the ROM copy may be cut off.)
BrickHeals == cfg \notin Valid /\ rom = "clean" ~> cfg \in Valid \/ {"heal", "timeout"} \cap clash # {}

\* Types, and never a torn configuration.
HealInv == TypeOK /\ NeverTorn
=============================================================================
