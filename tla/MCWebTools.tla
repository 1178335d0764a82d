----------------------------- MODULE MCWebTools -----------------------------
(***************************************************************************)
(* The tools of the web interface for TLC: the confirmation dialog, the    *)
(* command stream, the text editor, the file manager and the SD card page. *)
(* They are different pages, or parts of a page with no state in common:   *)
(* each behaviour follows one of them (part) and leaves the others alone.  *)
(***************************************************************************)
EXTENDS ConfirmDialog, CommandStream, TextEditor, FileManager, SdCard

VARIABLE part

mvars == <<part, cvars, kvars, edvars, dvars, sdvars>>

\* Whoever does not take part has one initial state.
MCInit == /\ part \in {"confirm", "command", "editor", "files", "sdcard"}
          /\ CInit /\ (part # "confirm" => onPage = {})
          /\ KInit /\ (part # "command" => kPage = "ping")
          /\ EdInit /\ (part # "editor" => edPage = "info")
          /\ FmInit /\ (part # "files" => path = CHOOSE d \in Dirs : TRUE)
          /\ SdInit /\ (part # "sdcard" => card)

ConfirmStep(A) == part = "confirm" /\ A /\ UNCHANGED <<part, kvars, edvars, dvars, sdvars>>
CommandStep(A) == part = "command" /\ A /\ UNCHANGED <<part, cvars, edvars, dvars, sdvars>>
EditorStep(A) == part = "editor" /\ A /\ UNCHANGED <<part, cvars, kvars, dvars, sdvars>>
FilesStep(A) == part = "files" /\ A /\ UNCHANGED <<part, cvars, kvars, edvars, sdvars>>
SdCardStep(A) == part = "sdcard" /\ A /\ UNCHANGED <<part, cvars, kvars, edvars, dvars>>

MCNext == ConfirmStep(CNext) \/ CommandStep(KNext) \/ EditorStep(EdNext) \/ FilesStep(FmNext) \/ SdCardStep(SdNext)

\* Animations end and their events are delivered, idle callbacks run, requests end, intervals fire.
MCSpec == /\ MCInit /\ [][MCNext]_mvars
          /\ WF_mvars(ConfirmStep(ShownEnds)) /\ WF_mvars(ConfirmStep(HideEnds)) /\ WF_mvars(ConfirmStep(handleHidden))
          /\ WF_mvars(ConfirmStep(scanConfirmTriggers))
          /\ WF_mvars(CommandStep(CmdProgress))
          /\ WF_mvars(FilesStep(DirEnds)) /\ WF_mvars(FilesStep(runDirectoryWatch))

\* What no step of a tool may do: take the user to another directory unasked, or format with
\* a filesystem the dialog did not name.
ToolSteps == [][SilentStays /\ NamedFormat]_mvars

\* What must end, ends: questions nobody can see, scans, spinning buttons, stale listings.
ToolsReturn == LateQuestionEnds /\ ScanFollows /\ ButtonsReturn /\ ListingFresh
=============================================================================
