----------------------------- MODULE TextEditor -----------------------------
(***************************************************************************)
(* The text editor of the file manager and of the info page                *)
(* (tool-file-manager.js and its copy in info.js): one dialog, one         *)
(* textarea and one record of the current file for every load and save     *)
(* that is under way. A text is a pair: the file it was written for and a  *)
(* number. Texts are taken up to the newlines at their end, which          *)
(* texteditor.cgi drops; every file can be written.                        *)
(***************************************************************************)
EXTENDS Naturals, FiniteSets

CONSTANTS
    Files,
    MaxEdits,       \* bound: times the user types
    MaxEdOps        \* bound: loads and saves begun

NoFile == "no file"     \* textEditorState.currentFile is null

ASSUME EditorAssumption == NoFile \notin Files /\ IsFiniteSet(Files) /\ MaxEdits \in Nat /\ MaxEdOps \in Nat

VARIABLES
    edPage,     \* which of the two pages this is
    stored,     \* the files on the camera
    edOpen,     \* TRUE while the dialog is open
    cur, orig, modified,            \* textEditorState
    text, textOff, saveOff, reloadOff,  \* the textarea, and what is disabled
    loads,      \* loads under way; got is what the camera read, once it has
    saves,      \* saves under way: backup delay, sent, or written by the camera
    edits, edOps,
    clash,      \* history: a load was under way while the text was modified or being saved
    raced       \* history: typed or loaded during a save, saved during a load, or a save's answer lost

camVars == <<stored>>
stateVars == <<cur, orig, modified>>
domVars == <<text, textOff, saveOff, reloadOff>>
edvars == <<edPage, camVars, edOpen, stateVars, domVars, loads, saves, edits, edOps, clash, raced>>

Blank == <<NoFile, 0>>
Texts == {Blank} \cup (Files \X (0..MaxEdits))

EdInit == /\ edPage \in {"files", "info"}
          /\ stored = [f \in Files |-> <<f, 0>>]
          /\ edOpen = FALSE /\ cur = NoFile /\ orig = Blank /\ modified = FALSE
          /\ text = Blank /\ textOff = FALSE /\ saveOff = FALSE /\ reloadOff = FALSE
          /\ loads = {} /\ saves = {} /\ edits = 0 /\ edOps = 0
          /\ clash = FALSE /\ raced = FALSE

\* The copy in info.js empties the textarea before it loads.
TextWhileLoading == IF edPage = "info" THEN Blank ELSE text

loadTextFile(f) ==
    /\ edOps < MaxEdOps
    /\ edOps' = edOps + 1
    /\ textOff' = TRUE /\ saveOff' = TRUE /\ reloadOff' = TRUE
    /\ text' = TextWhileLoading
    /\ loads' = loads \cup {[id |-> edOps + 1, file |-> f, got |-> {}]}
    /\ raced' = (raced \/ saves # {})
    /\ clash' = (clash \/ modified \/ saves # {})

\* "Edit" in the file actions, or editFile() of the info page.
fileActionEdit(f) ==
    /\ ~edOpen
    /\ edOpen' = TRUE
    /\ loadTextFile(f)
    /\ UNCHANGED <<edPage, camVars, stateVars, saves, edits>>

\* "Reload": confirm() answers with a promise, which is true, so the load begins at once.
reloadTextBtn ==
    /\ edOpen /\ ~reloadOff /\ cur # NoFile
    /\ loadTextFile(cur)
    /\ UNCHANGED <<edPage, camVars, edOpen, stateVars, saves, edits>>

LoadServed(l) ==
    /\ l.got = {}
    /\ loads' = (loads \ {l}) \cup {[l EXCEPT !.got = {stored[l.file]}]}
    /\ UNCHANGED <<edPage, camVars, edOpen, stateVars, domVars, saves, edits, edOps, clash, raced>>

\* Mutant: a text with changes is not overwritten, whichever file has been loaded.
loadAnswer_keeps_text(l) ==
    \E t \in l.got :
    /\ loads' = loads \ {l}
    /\ cur' = l.file /\ orig' = t /\ UNCHANGED modified
    /\ text' = (IF modified THEN text ELSE t) /\ textOff' = FALSE /\ saveOff' = ~modified /\ reloadOff' = FALSE
    /\ UNCHANGED <<edPage, camVars, edOpen, saves, edits, edOps, clash, raced>>

\* The rest of loadTextFile, whatever the dialog shows by then.
loadAnswer(l) ==
    \E t \in l.got :
    /\ loads' = loads \ {l}
    /\ cur' = l.file /\ orig' = t /\ modified' = FALSE
    /\ text' = t /\ textOff' = FALSE /\ saveOff' = TRUE /\ reloadOff' = FALSE
    /\ UNCHANGED <<edPage, camVars, edOpen, saves, edits, edOps, clash, raced>>

\* catch: the file and the flag stay as they were.
loadFails(l) ==
    /\ loads' = loads \ {l}
    /\ text' = Blank /\ textOff' = TRUE /\ saveOff' = TRUE /\ reloadOff' = TRUE
    /\ UNCHANGED <<edPage, camVars, edOpen, stateVars, saves, edits, edOps, clash, raced>>

\* The user types: every text is a new one, or the one that was loaded.
input ==
    /\ edOpen /\ ~textOff /\ cur # NoFile /\ edits < MaxEdits
    /\ edits' = edits + 1
    /\ text' \in {<<cur, edits + 1>>, orig}
    /\ modified' = (text' # orig)
    /\ saveOff' = ~modified'
    /\ raced' = (raced \/ saves # {})
    /\ clash' = (clash \/ loads # {})
    /\ UNCHANGED <<edPage, camVars, edOpen, cur, orig, textOff, reloadOff, loads, saves, edOps>>

\* saveTextFile up to its first await. With the automatic backup that is a delay of 100 ms,
\* without it the request, for what state and textarea hold now.
SaveBegun(backup) ==
    /\ edOps < MaxEdOps
    /\ edOps' = edOps + 1
    /\ saves' = saves \cup {[id |-> edOps + 1, step |-> IF backup THEN "delay" ELSE "sent", file |-> cur, text |-> text]}
    /\ raced' = (raced \/ loads # {})

\* The save button, or Ctrl+S.
saveTextFile(backup) ==
    /\ edOpen /\ ~saveOff /\ cur # NoFile /\ modified
    /\ SaveBegun(backup)
    /\ saveOff' = ~backup
    /\ UNCHANGED <<edPage, camVars, edOpen, stateVars, text, textOff, reloadOff, loads, edits, clash>>

\* The delay is over: file and text are read only now.
saveSent(s) ==
    /\ s.step = "delay"
    /\ saves' = (saves \ {s}) \cup {[s EXCEPT !.step = "sent", !.file = cur, !.text = text]}
    /\ saveOff' = TRUE
    /\ UNCHANGED <<edPage, camVars, edOpen, stateVars, text, textOff, reloadOff, loads, edits, edOps, clash, raced>>

SaveServed(s) ==
    /\ s.step = "sent" /\ s.file # NoFile
    /\ stored' = [stored EXCEPT ![s.file] = s.text]
    /\ saves' = (saves \ {s}) \cup {[s EXCEPT !.step = "done"]}
    /\ UNCHANGED <<edPage, edOpen, stateVars, domVars, loads, edits, edOps, clash, raced>>

\* Whatever the textarea holds by now counts as saved.
saveAnswer(s) ==
    /\ s.step = "done"
    /\ saves' = saves \ {s}
    /\ orig' = text /\ modified' = FALSE /\ saveOff' = TRUE
    /\ UNCHANGED <<edPage, camVars, edOpen, cur, text, textOff, reloadOff, loads, edits, edOps, clash, raced>>

\* catch: the request, or its answer, was lost; a request for no file always ends here.
saveFails(s) ==
    /\ s.step # "delay"
    /\ saves' = saves \ {s}
    /\ saveOff' = ~modified
    /\ raced' = (raced \/ s.step = "done")
    /\ UNCHANGED <<edPage, camVars, edOpen, stateVars, text, textOff, reloadOff, loads, edits, edOps, clash>>

\* The dialog was closed: a modified text is saved unasked, then the state is reset.
hiddenModal(backup) ==
    /\ edOpen
    /\ edOpen' = FALSE
    /\ IF cur # NoFile /\ modified
       THEN SaveBegun(backup) /\ saveOff' = (saveOff \/ ~backup)
       ELSE UNCHANGED <<saves, edOps, saveOff, raced>>
    /\ cur' = NoFile /\ orig' = Blank /\ modified' = FALSE /\ text' = Blank
    /\ UNCHANGED <<edPage, camVars, textOff, reloadOff, loads, edits, clash>>

EdNext == \/ \E f \in Files : fileActionEdit(f)
          \/ reloadTextBtn \/ input
          \/ \E l \in loads : LoadServed(l) \/ loadAnswer(l) \/ loadFails(l)
          \/ \E b \in BOOLEAN : saveTextFile(b) \/ hiddenModal(b)
          \/ \E s \in saves : saveSent(s) \/ SaveServed(s) \/ saveAnswer(s) \/ saveFails(s)
-----------------------------------------------------------------------------
\* Every variable has its type.
EdTypeOK ==
    /\ stored \in [Files -> Texts] /\ edOpen \in BOOLEAN
    /\ cur \in Files \cup {NoFile} /\ orig \in Texts /\ modified \in BOOLEAN
    /\ text \in Texts /\ textOff \in BOOLEAN /\ saveOff \in BOOLEAN /\ reloadOff \in BOOLEAN
    /\ \A l \in loads : l.file \in Files /\ l.got \subseteq Texts
    /\ \A s \in saves : s.step \in {"delay", "sent", "done"} /\ s.file \in Files \cup {NoFile} /\ s.text \in Texts
    /\ edits \in 0..MaxEdits /\ edOps \in 0..MaxEdOps /\ clash \in BOOLEAN /\ raced \in BOOLEAN

\* Late loads, delayed saves and reopened dialogs never write the text of one file into
\* another (currentFile and the textarea are read again after every await).
NoForeignText == \A f \in Files : stored[f] \in {Blank} \cup ({f} \X (0..MaxEdits))

\* A text that can be edited and is not what the camera has is flagged as modified, so closing
\* the dialog or "Reload" would notice it; unless the user typed or loaded during a save or its
\* answer was lost.
UnsavedIsFlagged == cur # NoFile /\ ~textOff /\ ~raced /\ text # stored[cur] => modified

\* A file the user never emptied is blanked only if a load ("Reload", or a late one) was under
\* way while its text was modified or being saved: no other order of loads, saves and closes
\* sends an empty textarea.
BlankOnlyByLoad == (\E f \in Files : stored[f] = Blank) => clash

\* "Do you want to save before closing?" (tool-file-manager.js:764): what is saved is what the
\* user wrote, never an empty text. The code breaks this.
NeverBlanked == \A f \in Files : stored[f] # Blank

\* Each file keeps its own text, unsaved text is flagged, and only a load can blank a file.
EditorInv == EdTypeOK /\ NoForeignText /\ UnsavedIsFlagged /\ BlankOnlyByLoad
=============================================================================
