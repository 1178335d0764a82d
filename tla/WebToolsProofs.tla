--------------------------- MODULE WebToolsProofs ---------------------------
(***************************************************************************)
(* Proofs about the tools of the web interface, for any sets of callers,   *)
(* commands, files, directories and filesystems and any number of presses, *)
(* requests, loads and saves: the confirmation dialog, the command stream, *)
(* the SD card page, the text editor and the file manager.                 *)
(***************************************************************************)
EXTENDS MCWebTools, FiniteSetTheorems, TLAPS

\* A scan that is still to come is scheduled, so there is at most one.
Page == /\ onPage \subseteq Elements /\ attached \subseteq onPage
        /\ scanScheduled \in BOOLEAN /\ scans \in 0..1 /\ (scans > 0 => scanScheduled)
        /\ clicks \in [Elements -> Nat] /\ presses \in 0..MaxPresses

Modal == /\ modal \in {"hidden", "showing", "shown", "hiding"} /\ fading \in BOOLEAN
         /\ early \in BOOLEAN /\ doubled \in BOOLEAN /\ bypass \subseteq Elements

Counts == asked \in [Callers -> Nat] /\ acts \in [Callers -> Nat] /\ yes \in Nat

\* A caller has one open question, unless it was started again meanwhile.
OneEach == ~doubled => \A c \in Callers : asked[c] <= 1

\* A bypass is an answer that was not acted on yet.
Budget == /\ \A e \in Elements : acts[e] <= yes /\ (e \in bypass => acts[e] < yes)
          /\ ~doubled => \A c \in Handlers : acts[c] <= yes

\* OrphanOnlyFromFades, with the fade-in the dialog comes from.
NoOrphan == modal \in {"showing", "shown"} /\ Open = {} => early

\* The part about the dialog. OneAnswerOneAct alone does not see the answers that were given
\* and not acted on: they are in bypass and in the open questions of the handlers.
Dialog == Modal /\ Counts /\ OneEach /\ Budget /\ NeverUnanswerable /\ NoOrphan

CInd == Page /\ Dialog

\* A page that was loaded and scanned satisfies the invariant.
LEMMA CIndInit == CInit => CInd
<1> SUFFICES ASSUME CInit PROVE CInd
  OBVIOUS
<1>1. Page
  <2>1. presses \in 0..MaxPresses
    BY ConfirmAssumption DEF CInit
  <2>2. clicks \in [Elements -> Nat]
    BY DEF CInit
  <2>3. scanScheduled \in BOOLEAN /\ scans \in 0..1 /\ (scans > 0 => scanScheduled)
    <3>1. scans = 0 /\ scanScheduled \in BOOLEAN
      BY DEF CInit
    <3> QED
      BY <3>1
  <2>4. onPage \subseteq Elements /\ attached \subseteq onPage
    BY DEF CInit
  <2> QED
    BY <2>1, <2>2, <2>3, <2>4 DEF Page
<1>2. Modal
  BY DEF CInit, Modal
<1>3. Counts
  BY DEF CInit, Counts
<1>4. OneEach /\ Budget
  BY DEF CInit, OneEach, Budget, Callers
<1>5. NeverUnanswerable /\ NoOrphan
  BY DEF CInit, NeverUnanswerable, NoOrphan, Open
<1> QED
  BY <1>1, <1>2, <1>3, <1>4, <1>5 DEF CInd, Dialog

\* Asking keeps the dialog's part, also for a caller that acts without waiting.
LEMMA AskingKeeps ==
  ASSUME Dialog, NEW c \in Callers, showConfirmDialog(c), UNCHANGED <<fading, yes, bypass>>,
         acts' = acts \/ (c \in Unawaited /\ acts' = [acts EXCEPT ![c] = @ + 1])
  PROVE  Dialog'
<1>1. Modal'
  BY DEF Dialog, Modal, showConfirmDialog, Show
<1>2. Counts'
  BY DEF Dialog, Counts, showConfirmDialog
<1>3. asked'[c] = asked[c] + 1 /\ asked[c] \in Nat /\ \A d \in Callers \ {c} : asked'[d] = asked[d]
  BY DEF Dialog, Counts, showConfirmDialog
<1>4. OneEach'
  <2>1. ~doubled' => ~doubled /\ ~(asked[c] > 0)
    BY DEF Dialog, Modal, showConfirmDialog
  <2>2. ASSUME ~doubled', NEW d \in Callers PROVE asked'[d] <= 1
    <3>1. CASE d = c
      BY <1>3, <2>1, <2>2, <3>1
    <3>2. CASE d # c
      BY <1>3, <2>1, <2>2, <3>2 DEF Dialog, OneEach
    <3> QED
      BY <3>1, <3>2
  <2> QED
    BY <2>2 DEF OneEach
<1>5. \A d \in Elements \cup Handlers : acts'[d] = acts[d]
  BY ConfirmAssumption DEF Dialog, Counts, Callers
<1>6. Budget'
  BY <1>5 DEF Dialog, Modal, Budget, showConfirmDialog
<1>7. c \in Open'
  BY <1>3 DEF Open
<1>8. NeverUnanswerable' /\ NoOrphan'
  BY <1>7 DEF Dialog, Modal, NeverUnanswerable, NoOrphan, showConfirmDialog, Show
<1> QED
  BY <1>1, <1>2, <1>4, <1>6, <1>8 DEF Dialog

\* An element that was let through uses up its bypass.
LEMMA ActingKeeps ==
  ASSUME Dialog, NEW e \in Elements, e \in bypass, bypass' = bypass \ {e}, Acts(e), UNCHANGED <<fading, yes>>
  PROVE  Dialog'
<1>1. Modal'
  BY DEF Dialog, Modal, Acts
<1>2. Counts'
  BY DEF Dialog, Counts, Acts, Callers
<1>3. OneEach'
  BY DEF Dialog, OneEach, Acts
<1>4. acts'[e] = acts[e] + 1 /\ \A d \in Callers \ {e} : acts'[d] = acts[d]
  BY DEF Dialog, Counts, Acts, Callers
<1>5. Budget'
  BY <1>4, ConfirmAssumption DEF Dialog, Counts, Budget, Acts, Callers
<1>6. NeverUnanswerable' /\ NoOrphan'
  BY DEF Dialog, NeverUnanswerable, NoOrphan, Open, Acts
<1> QED
  BY <1>1, <1>2, <1>3, <1>5, <1>6 DEF Dialog

\* A click on a scanned element acts or asks.
LEMMA ClickKeeps ==
  ASSUME Dialog, NEW e \in Elements, handleConfirmableClick(e), UNCHANGED <<fading, yes>>
  PROVE  Dialog'
<1>1. CASE e \in bypass
  BY <1>1, ActingKeeps DEF handleConfirmableClick
<1>2. CASE e \notin bypass
  BY <1>2, AskingKeeps DEF handleConfirmableClick, Asks, Callers
<1> QED
  BY <1>1, <1>2

\* The end of all open questions, with or without an answer.
LEMMA FinalizeKeeps ==
  ASSUME Dialog, NEW r \in BOOLEAN, finalize(r), yes' = IF r THEN yes + 1 ELSE yes,
         doubled' = doubled, fading' \in BOOLEAN
  PROVE  Dialog'
<1>1. Modal'
  BY DEF Dialog, Modal, finalize, Hide
<1>2. \A c \in Callers : asked'[c] = 0
  BY DEF finalize
<1>3. OneEach' /\ Open' = {}
  BY <1>2 DEF OneEach, Open
<1>4. Counts'
  BY DEF Dialog, Counts, finalize
<1>5. NeverUnanswerable' /\ NoOrphan'
  BY <1>3 DEF Dialog, Modal, NeverUnanswerable, NoOrphan, finalize, Hide
<1>6. Budget'
  <2>1. CASE ~r
    BY <2>1 DEF Dialog, Budget, finalize
  <2>2. CASE r
    <3>1. yes' = yes + 1 /\ yes \in Nat /\ yes' \in Nat
      BY <2>2 DEF Dialog, Counts
    <3>2. ASSUME NEW e \in Elements PROVE acts'[e] <= yes' /\ (e \in bypass' => acts'[e] < yes')
      <4>1. acts'[e] = acts[e] /\ acts[e] \in Nat
        BY <2>2, ConfirmAssumption DEF Dialog, Counts, finalize, Callers
      <4> QED
        BY <3>1, <4>1 DEF Dialog, Budget
    <3>3. ASSUME ~doubled', NEW c \in Handlers PROVE acts'[c] <= yes'
      <4>1. acts'[c] = acts[c] + asked[c] /\ acts[c] \in Nat /\ asked[c] \in Nat
        BY <2>2 DEF Dialog, Counts, finalize, Callers
      <4>2. acts[c] <= yes /\ asked[c] <= 1
        BY <3>3 DEF Dialog, Budget, OneEach, Callers
      <4> QED
        BY <3>1, <4>1, <4>2
    <3> QED
      BY <3>2, <3>3 DEF Budget
  <2> QED
    BY <2>1, <2>2
<1> QED
  BY <1>1, <1>3, <1>4, <1>5, <1>6 DEF Dialog

\* Every press, answer and animation keeps the invariant.
LEMMA CIndStep == CInd /\ [CNext]_cvars => CInd'
<1> SUFFICES ASSUME CInd, [CNext]_cvars PROVE CInd'
  OBVIOUS
<1>1. ASSUME NEW c \in Callers, Press(c) PROVE CInd'
  <2>1. Page'
    BY <1>1, ConfirmAssumption DEF CInd, Page, Press
  <2>2. UNCHANGED <<fading, yes>>
    BY <1>1 DEF Press
  <2>3. CASE c \in attached
    <3>1. c \in Elements /\ handleConfirmableClick(c)
      BY <1>1, <2>3, ConfirmAssumption DEF CInd, Page, Press
    <3> QED
      BY <2>1, <2>2, <3>1, ClickKeeps DEF CInd
  <2>4. CASE c \notin attached /\ c \in Handlers
    <3>1. Asks(c)
      BY <1>1, <2>4, ConfirmAssumption DEF Press
    <3> QED
      BY <2>1, <2>2, <3>1, AskingKeeps DEF CInd, Asks
  <2>5. CASE c \notin attached /\ c \in Unawaited
    <3>1. showConfirmDialog(c) /\ bypass' = bypass /\ acts' = [acts EXCEPT ![c] = @ + 1]
      BY <1>1, <2>5, ConfirmAssumption DEF Press
    <3> QED
      BY <2>1, <2>2, <2>5, <3>1, AskingKeeps DEF CInd
  <2>6. CASE c \notin attached /\ c \notin Handlers /\ c \notin Unawaited
    <3>1. UNCHANGED <<modal, asked, bypass, acts, early, doubled>>
      BY <1>1, <2>6 DEF Press
    <3> QED
      BY <2>1, <2>2, <3>1 DEF CInd, Dialog, Modal, Counts, OneEach, Budget, NeverUnanswerable, NoOrphan, Open
  <2> QED
    BY <2>3, <2>4, <2>5, <2>6
<1>2. ASSUME NEW e \in Elements, clickAgain(e) PROVE CInd'
  <2>1. Page'
    BY <1>2 DEF CInd, Page, clickAgain
  <2> QED
    BY <1>2, <2>1, ClickKeeps DEF CInd, clickAgain
<1>3. ASSUME NEW e \in Elements, confirmMutationObserver(e) PROVE CInd'
  <2>1. Page'
    BY <1>3 DEF CInd, Page, confirmMutationObserver
  <2> QED
    BY <1>3, <2>1 DEF confirmMutationObserver, CInd, Dialog, Modal, Counts, OneEach, Budget, NeverUnanswerable, NoOrphan, Open
<1>4. ASSUME NEW r \in BOOLEAN, answer(r) PROVE CInd'
  <2>1. clicks' \in [Elements -> Nat]
    BY <1>4 DEF CInd, Page, Dialog, Counts, answer, finalize, Callers
  <2>2. Page'
    BY <1>4, <2>1 DEF CInd, Page, answer
  <2> QED
    BY <1>4, <2>2, FinalizeKeeps DEF CInd, Dialog, Modal, answer
<1>5. CASE ShownEnds
  BY <1>5 DEF ShownEnds, CInd, Page, Dialog, Modal, Counts, OneEach, Budget, NeverUnanswerable, NoOrphan, Open
<1>6. CASE HideEnds
  BY <1>6 DEF HideEnds, CInd, Page, Dialog, Modal, Counts, OneEach, Budget, NeverUnanswerable, NoOrphan, Open
<1>7. CASE handleHidden
  <2>1. CASE Open # {}
    <3>1. finalize(FALSE) /\ yes' = yes /\ doubled' = doubled /\ fading' = FALSE
      BY <1>7, <2>1 DEF handleHidden
    <3>2. Page'
      BY <1>7, <3>1 DEF CInd, Page, handleHidden, finalize
    <3> QED
      BY <3>1, <3>2, FinalizeKeeps DEF CInd
  <2>2. CASE Open = {}
    BY <1>7, <2>2 DEF handleHidden, CInd, Page, Dialog, Modal, Counts, OneEach, Budget, NeverUnanswerable, NoOrphan, Open
  <2> QED
    BY <2>1, <2>2
<1>8. CASE Escape
  BY <1>8 DEF Escape, CInd, Page, Dialog, Modal, Counts, OneEach, Budget, NeverUnanswerable, NoOrphan, Open
<1>9. CASE scanConfirmTriggers
  <2>1. Page'
    <3>1. scanScheduled' \in BOOLEAN /\ scans' \in 0..1 /\ (scans' > 0 => scanScheduled')
      <4>1. scans \in 0..1 /\ scans > 0 /\ scans' = scans - 1
        BY <1>9 DEF CInd, Page, scanConfirmTriggers
      <4>2. scanScheduled' \in BOOLEAN
        BY <1>9 DEF scanConfirmTriggers
      <4> QED
        BY <4>1, <4>2
    <3>2. onPage' \subseteq Elements /\ attached' \subseteq onPage' /\ clicks' \in [Elements -> Nat] /\ presses' \in 0..MaxPresses
      BY <1>9 DEF CInd, Page, scanConfirmTriggers
    <3> QED
      BY <3>1, <3>2 DEF Page
  <2> QED
    BY <1>9, <2>1 DEF scanConfirmTriggers, CInd, Dialog, Modal, Counts, OneEach, Budget, NeverUnanswerable, NoOrphan, Open
<1>10. CASE UNCHANGED cvars
  BY <1>10 DEF cvars, CInd, Page, Dialog, Modal, Counts, OneEach, Budget, NeverUnanswerable, NoOrphan, Open
<1> QED
  BY <1>1, <1>2, <1>3, <1>4, <1>5, <1>6, <1>7, <1>8, <1>9, <1>10 DEF CNext, Animation

\* The invariant says what DialogInv says.
LEMMA CIndInv == CInd => DialogInv
<1> SUFFICES ASSUME CInd PROVE DialogInv
  OBVIOUS
<1>1. CTypeOK
  BY DEF CInd, Page, Dialog, Modal, Counts, CTypeOK
<1>2. OneAnswerOneAct
  BY DEF CInd, Dialog, Budget, OneAnswerOneAct
<1>3. NeverUnanswerable /\ OrphanOnlyFromFades
  BY DEF CInd, Dialog, NoOrphan, OrphanOnlyFromFades
<1> QED
  BY <1>1, <1>2, <1>3 DEF DialogInv

\* One "Continue", one act, and no question behind a dialog that is gone, for every order in
\* which callers press, the dialog fades and questions are answered.
THEOREM DialogSafe == CSpec => []DialogInv
<1> QED
  BY CIndInit, CIndStep, CIndInv, PTL DEF CSpec

-----------------------------------------------------------------------------

\* The types of the page's own state.
Flags == /\ kPage \in {"upgrade", "ping", "reset"}
         /\ commandInFlight \in BOOLEAN /\ reboot \in BOOLEAN /\ kRunning \in BOOLEAN
         /\ left \in BOOLEAN /\ cut \in BOOLEAN /\ kCmds \in 0..MaxCmds

\* The requests under way and the buttons they came from.
Asked == /\ kReqs \subseteq [from : {"ota", "upload", "ping", "reset"}, cmd : Commands]
         /\ busyBtn \subseteq {"ota", "upload"}

\* The output element keeps at most one command.
OneKept == encoded = {} \/ \E c \in Commands : encoded = {c}

\* The commands on the camera, each the one that was asked for.
Running == cam \subseteq {k \in [id : Nat, cmd : Commands, asked : Commands, read : BOOLEAN, step : {"fetch", "runs"}] :
                             k.cmd = k.asked}

\* Until a stream breaks, the flag says exactly whether there is a command on the camera.
FlagExact == ~cut => \/ cam = {} /\ ~commandInFlight
                     \/ (\E k : cam = {k} /\ k.read) /\ commandInFlight /\ ~left

\* On the upgrade page a command that is kept is streamed, or the page has gone to reboot.
UpgradeLeaves == kPage = "upgrade" /\ encoded # {} => reboot /\ (commandInFlight \/ left)

\* The reset page asks once: while it waits for the answer nothing is kept.
ResetOnce == kPage = "reset" => /\ (kCmds = 0 => kReqs = {} /\ encoded = {})
                                /\ (kReqs # {} => encoded = {} /\ \E r : kReqs = {r})

\* RunsWhatWasAsked rests on UpgradeLeaves and ResetOnce: startStreaming prefers what is kept,
\* and only the ping page clears it.
KInd == Flags /\ Asked /\ OneKept /\ Running /\ FlagExact /\ UpgradeLeaves /\ ResetOnce

\* A page that has just been opened satisfies the invariant.
LEMMA KIndInit == KInit => KInd
<1> SUFFICES ASSUME KInit PROVE KInd
  OBVIOUS
<1>1. Flags
  <2>1. kCmds \in 0..MaxCmds
    BY CommandAssumption DEF KInit
  <2> QED
    BY <2>1 DEF KInit, Flags
<1>2. Asked /\ OneKept /\ Running
  BY DEF KInit, Asked, OneKept, Running
<1>3. FlagExact /\ UpgradeLeaves /\ ResetOnce
  BY DEF KInit, FlagExact, UpgradeLeaves, ResetOnce
<1> QED
  BY <1>1, <1>2, <1>3 DEF KInd

\* What an answer starts is what it brings.
LEMMA KeptIsAsked ==
  ASSUME KInd, NEW r \in kReqs, ~commandInFlight, ~left
  PROVE  r.cmd \in Commands /\ Kept(r.cmd) = {r.cmd}
<1>1. r.cmd \in Commands
  BY DEF KInd, Asked
<1>2. encoded = {} \/ kPage = "ping"
  BY DEF KInd, Flags, UpgradeLeaves, ResetOnce
<1> QED
  BY <1>1, <1>2 DEF Kept

\* Every request, answer, failure and end of a stream keeps the invariant.
LEMMA KIndStep == KInd /\ [KNext]_kvars => KInd'
<1> SUFFICES ASSUME KInd, [KNext]_kvars PROVE KInd'
  OBVIOUS
<1> USE CommandAssumption DEF pageVars
<1>1. ASSUME NEW c \in Commands, NEW b \in {"ota", "upload"}, requestOtaCommand(b, c) PROVE KInd'
  <2>1. Flags'
    BY <1>1 DEF KInd, Flags, requestOtaCommand, Request
  <2>2. Asked'
    BY <1>1 DEF KInd, Asked, requestOtaCommand, Request
  <2>3. OneKept'
    BY <1>1 DEF KInd, OneKept, requestOtaCommand, Request
  <2>4. Running'
    BY <1>1 DEF KInd, Flags, Running, requestOtaCommand, Request
  <2>5. FlagExact'
    BY <1>1 DEF KInd, Flags, FlagExact, requestOtaCommand, Request
  <2>6. UpgradeLeaves'
    BY <1>1 DEF KInd, Flags, UpgradeLeaves, requestOtaCommand, Request
  <2>7. ResetOnce'
    BY <1>1 DEF KInd, Flags, ResetOnce, requestOtaCommand, Request
  <2> QED
    BY <2>1, <2>2, <2>3, <2>4, <2>5, <2>6, <2>7 DEF KInd
<1>2. ASSUME NEW c \in Commands, requestResetCommand(c) PROVE KInd'
  <2>1. Flags'
    BY <1>2 DEF KInd, Flags, requestResetCommand, Request
  <2>2. Asked'
    BY <1>2 DEF KInd, Asked, requestResetCommand, Request
  <2>3. OneKept'
    BY <1>2 DEF KInd, OneKept, requestResetCommand, Request
  <2>4. Running'
    BY <1>2 DEF KInd, Flags, Running, requestResetCommand, Request
  <2>5. FlagExact'
    BY <1>2 DEF KInd, Flags, FlagExact, requestResetCommand, Request
  <2>6. UpgradeLeaves'
    BY <1>2 DEF KInd, Flags, UpgradeLeaves, requestResetCommand, Request
  <2>7. ResetOnce'
    BY <1>2 DEF KInd, Flags, ResetOnce, requestResetCommand, Request
  <2> QED
    BY <2>1, <2>2, <2>3, <2>4, <2>5, <2>6, <2>7 DEF KInd
<1>3. ASSUME NEW c \in Commands, submitForm(c) PROVE KInd'
  <2>1. Flags'
    BY <1>3 DEF KInd, Flags, submitForm, Request
  <2>2. Asked'
    BY <1>3 DEF KInd, Asked, submitForm, Request
  <2>3. OneKept'
    BY <1>3 DEF KInd, OneKept, submitForm, Request
  <2>4. Running'
    BY <1>3 DEF KInd, Flags, Running, submitForm, Request
  <2>5. FlagExact'
    BY <1>3 DEF KInd, Flags, FlagExact, submitForm, Request
  <2>6. UpgradeLeaves'
    BY <1>3 DEF KInd, Flags, UpgradeLeaves, submitForm, Request
  <2>7. ResetOnce'
    BY <1>3 DEF KInd, Flags, ResetOnce, submitForm, Request
  <2> QED
    BY <2>1, <2>2, <2>3, <2>4, <2>5, <2>6, <2>7 DEF KInd
<1>4. CASE clearOutput
  <2>1. Flags'
    BY <1>4 DEF KInd, Flags, clearOutput
  <2>2. Asked'
    BY <1>4 DEF KInd, Asked, clearOutput
  <2>3. OneKept'
    BY <1>4 DEF KInd, OneKept, clearOutput
  <2>4. Running'
    BY <1>4 DEF KInd, Flags, Running, clearOutput
  <2>5. FlagExact'
    BY <1>4 DEF KInd, Flags, FlagExact, clearOutput
  <2>6. UpgradeLeaves'
    BY <1>4 DEF KInd, Flags, UpgradeLeaves, clearOutput
  <2>7. ResetOnce'
    BY <1>4 DEF KInd, Flags, ResetOnce, clearOutput
  <2> QED
    BY <2>1, <2>2, <2>3, <2>4, <2>5, <2>6, <2>7 DEF KInd
<1>5. ASSUME NEW r \in kReqs, startCommand(r) PROVE KInd'
  <2>1. Flags'
    BY <1>5 DEF KInd, Flags, startCommand, startStreaming
  <2>2. Asked'
    BY <1>5 DEF KInd, Asked, startCommand
  <2>3. CASE commandInFlight
    <3>1. UNCHANGED <<commandInFlight, encoded, cam, left, cut, kPage, kCmds>>
      BY <1>5, <2>3 DEF startCommand, startStreaming
    <3>2. (OneKept /\ Running /\ FlagExact)'
      BY <3>1 DEF KInd, OneKept, Running, FlagExact
    <3>3. UpgradeLeaves'
      BY <1>5, <3>1 DEF KInd, Flags, UpgradeLeaves, startCommand
    <3>4. ResetOnce'
      BY <1>5, <3>1 DEF KInd, ResetOnce, startCommand
    <3> QED
      BY <2>1, <2>2, <3>2, <3>3, <3>4 DEF KInd
  <2>4. CASE ~commandInFlight
    <3> DEFINE new == [id |-> kCmds, cmd |-> r.cmd, asked |-> r.cmd, read |-> TRUE, step |-> "fetch"]
    <3>1. r.cmd \in Commands /\ Kept(r.cmd) = {r.cmd}
      BY <1>5, <2>4, KeptIsAsked DEF startCommand
    <3>2. commandInFlight' = TRUE /\ encoded' = {r.cmd} /\ cam' = cam \cup {new}
      BY <1>5, <2>4, <3>1 DEF startCommand, startStreaming
    <3>3. OneKept'
      BY <3>1, <3>2 DEF OneKept
    <3>4. new \in [id : Nat, cmd : Commands, asked : Commands, read : BOOLEAN, step : {"fetch", "runs"}]
      BY <3>1 DEF KInd, Flags
    <3>5. Running'
      <4>1. new.cmd = new.asked
        OBVIOUS
      <4> HIDE DEF new
      <4> QED
        BY <3>2, <3>4, <4>1 DEF KInd, Running
    <3>6. FlagExact'
      <4>1. ~left /\ ~left' /\ cut' = cut
        BY <1>5 DEF startCommand
      <4>2. ~cut => cam' = {new} /\ new.read
        BY <2>4, <3>2 DEF KInd, FlagExact
      <4> QED
        BY <3>2, <4>1, <4>2 DEF FlagExact
    <3>7. UpgradeLeaves'
      BY <1>5, <3>2 DEF UpgradeLeaves, startCommand
    <3>8. ResetOnce'
      <4>1. kPage = "reset" => kReqs' = {} /\ kCmds # 0
        BY <1>5 DEF KInd, ResetOnce, startCommand
      <4> QED
        BY <1>5, <4>1 DEF ResetOnce, startCommand
    <3> QED
      BY <2>1, <2>2, <3>3, <3>5, <3>6, <3>7, <3>8 DEF KInd
  <2> QED
    BY <2>3, <2>4
<1>6. ASSUME NEW r \in kReqs, requestFails(r) PROVE KInd'
  <2>1. Flags'
    BY <1>6 DEF KInd, Flags, requestFails
  <2>2. Asked'
    BY <1>6 DEF KInd, Asked, requestFails
  <2>3. OneKept'
    BY <1>6 DEF KInd, OneKept, requestFails
  <2>4. Running'
    BY <1>6 DEF KInd, Flags, Running, requestFails
  <2>5. FlagExact'
    BY <1>6 DEF KInd, Flags, FlagExact, requestFails
  <2>6. UpgradeLeaves'
    BY <1>6 DEF KInd, Flags, UpgradeLeaves, requestFails
  <2>7. ResetOnce'
    BY <1>6 DEF KInd, Flags, ResetOnce, requestFails
  <2> QED
    BY <2>1, <2>2, <2>3, <2>4, <2>5, <2>6, <2>7 DEF KInd
<1>7. ASSUME NEW k \in cam, CommandBegins(k) PROVE KInd'
  <2>1. Flags'
    BY <1>7 DEF KInd, Flags, CommandBegins
  <2>2. Asked'
    BY <1>7 DEF KInd, Asked, CommandBegins
  <2>3. OneKept'
    BY <1>7 DEF KInd, OneKept, CommandBegins
  <2>4. Running'
    BY <1>7 DEF KInd, Flags, Running, CommandBegins
  <2>5. FlagExact'
    <3>1. ASSUME NEW y, cam = {y}, y.read PROVE cam' = {[k EXCEPT !.step = "runs"]} /\ [k EXCEPT !.step = "runs"].read
      BY <1>7, <3>1 DEF KInd, Running, CommandBegins
    <3> QED
      BY <1>7, <3>1 DEF KInd, FlagExact, CommandBegins
  <2>6. UpgradeLeaves'
    BY <1>7 DEF KInd, Flags, UpgradeLeaves, CommandBegins
  <2>7. ResetOnce'
    BY <1>7 DEF KInd, Flags, ResetOnce, CommandBegins
  <2> QED
    BY <2>1, <2>2, <2>3, <2>4, <2>5, <2>6, <2>7 DEF KInd
<1>8. ASSUME NEW k \in cam, streamEnds(k) PROVE KInd'
  <2>1. Flags'
    BY <1>8 DEF KInd, Flags, streamEnds, finalizeStream
  <2>2. Asked'
    BY <1>8 DEF KInd, Asked, streamEnds, finalizeStream
  <2>3. OneKept'
    BY <1>8 DEF KInd, OneKept, streamEnds, finalizeStream
  <2>4. Running'
    BY <1>8 DEF KInd, Flags, Running, streamEnds, finalizeStream
  <2>5. FlagExact'
    BY <1>8 DEF KInd, Flags, FlagExact, streamEnds, finalizeStream
  <2>6. UpgradeLeaves'
    BY <1>8 DEF KInd, Flags, UpgradeLeaves, streamEnds, finalizeStream
  <2>7. ResetOnce'
    BY <1>8 DEF KInd, Flags, ResetOnce, streamEnds, finalizeStream
  <2> QED
    BY <2>1, <2>2, <2>3, <2>4, <2>5, <2>6, <2>7 DEF KInd
<1>9. ASSUME NEW k \in cam, streamBreaks(k) PROVE KInd'
  <2>1. Flags'
    BY <1>9 DEF KInd, Flags, streamBreaks, finalizeStream
  <2>2. Asked'
    BY <1>9 DEF KInd, Asked, streamBreaks, finalizeStream
  <2>3. OneKept'
    BY <1>9 DEF KInd, OneKept, streamBreaks, finalizeStream
  <2>4. Running'
    BY <1>9 DEF KInd, Flags, Running, streamBreaks, finalizeStream
  <2>5. FlagExact'
    BY <1>9 DEF KInd, Flags, FlagExact, streamBreaks, finalizeStream
  <2>6. UpgradeLeaves'
    BY <1>9 DEF KInd, Flags, UpgradeLeaves, streamBreaks, finalizeStream
  <2>7. ResetOnce'
    BY <1>9 DEF KInd, Flags, ResetOnce, streamBreaks, finalizeStream
  <2> QED
    BY <2>1, <2>2, <2>3, <2>4, <2>5, <2>6, <2>7 DEF KInd
<1>10. ASSUME NEW k \in cam, CommandEndsUnread(k) PROVE KInd'
  <2>1. Flags'
    BY <1>10 DEF KInd, Flags, CommandEndsUnread
  <2>2. Asked'
    BY <1>10 DEF KInd, Asked, CommandEndsUnread
  <2>3. OneKept'
    BY <1>10 DEF KInd, OneKept, CommandEndsUnread
  <2>4. Running'
    BY <1>10 DEF KInd, Flags, Running, CommandEndsUnread
  <2>5. FlagExact'
    BY <1>10 DEF KInd, Flags, FlagExact, CommandEndsUnread
  <2>6. UpgradeLeaves'
    BY <1>10 DEF KInd, Flags, UpgradeLeaves, CommandEndsUnread
  <2>7. ResetOnce'
    BY <1>10 DEF KInd, Flags, ResetOnce, CommandEndsUnread
  <2> QED
    BY <2>1, <2>2, <2>3, <2>4, <2>5, <2>6, <2>7 DEF KInd
<1>11. CASE UNCHANGED kvars
  BY <1>11 DEF kvars, KInd, Flags, Asked, OneKept, Running, FlagExact, UpgradeLeaves, ResetOnce
<1> QED
  BY <1>1, <1>2, <1>3, <1>4, <1>5, <1>6, <1>7, <1>8, <1>9, <1>10, <1>11 DEF KNext

\* The invariant says what CommandInv says.
LEMMA KIndInv == KInd => CommandInv
<1> SUFFICES ASSUME KInd PROVE CommandInv
  OBVIOUS
<1>1. Cardinality({}) = 0 /\ \A x : Cardinality({x}) = 1
  BY FS_EmptySet, FS_Singleton
<1>2. encoded \subseteq Commands /\ Cardinality(encoded) <= 1
  <2>1. CASE encoded = {}
    BY <1>1, <2>1
  <2>2. ASSUME NEW c \in Commands, encoded = {c} PROVE encoded \subseteq Commands /\ Cardinality(encoded) <= 1
    <3>1. Cardinality({c}) = 1
      BY <1>1
    <3> QED
      BY <2>2, <3>1
  <2> QED
    BY <2>1, <2>2 DEF KInd, OneKept
<1>3. KTypeOK /\ RunsWhatWasAsked
  BY <1>2 DEF KInd, Flags, Asked, Running, KTypeOK, RunsWhatWasAsked
<1>4. OneCommandAtATime
  <2>1. CASE cam = {}
    BY <1>1, <2>1 DEF OneCommandAtATime
  <2>2. ASSUME NEW k, cam = {k} PROVE OneCommandAtATime
    <3>1. Cardinality({k}) = 1
      BY <1>1
    <3> QED
      BY <2>2, <3>1 DEF OneCommandAtATime
  <2>3. CASE cut
    BY <2>3 DEF OneCommandAtATime
  <2> QED
    BY <2>1, <2>2, <2>3 DEF KInd, FlagExact
<1>5. RebootAfterCommand
  BY DEF KInd, FlagExact, RebootAfterCommand
<1> QED
  BY <1>3, <1>4, <1>5 DEF CommandInv

\* The camera runs one command at a time, the one the page asked for, and is not rebooted under
\* it, unless a stream broke, whatever requests overlap, fail or are repeated.
THEOREM CommandSafe == KSpec => []CommandInv
<1> QED
  BY KIndInit, KIndStep, KIndInv, PTL DEF KSpec

-----------------------------------------------------------------------------

\* The types of the page's own state.
SdTypes ==
    /\ card \in BOOLEAN /\ known \in {"none", "present", "absent"}
    /\ submitOff \in BOOLEAN /\ refreshOff \in BOOLEAN /\ confirmOff \in BOOLEAN /\ dialog \in BOOLEAN
    /\ pending \in Filesystems /\ overlap \in BOOLEAN

\* At most one radio button is checked.
OneSelected == selected = {} \/ \E f \in Filesystems : selected = {f}

\* What is under way, and the bounds.
Requests ==
    /\ sdLoads \subseteq [id : Nat, got : SUBSET BOOLEAN]
    /\ formats \subseteq [id : Nat, fs : Filesystems, got : SUBSET BOOLEAN]
    /\ sdOps \in 0..MaxSdOps /\ swaps \in 0..MaxSwaps

\* As long as no load came to its end beside a format, a format under way is the only one, the
\* form is locked and no dialog is open. Without this, OneFormat does not follow from step to step.
FormatLocks == ~overlap => formats = {} \/ ((\E x : formats = {x}) /\ submitOff /\ ~dialog)

SdInd == SdTypes /\ OneSelected /\ Requests /\ FormatLocks /\ FormFollowsCard

\* The page with its first load under way satisfies the invariant.
LEMMA SdIndInit == SdInit => SdInd
<1> SUFFICES ASSUME SdInit PROVE SdInd
  OBVIOUS
<1>1. SdTypes
  BY SdAssumption DEF SdInit, SdTypes
<1>2. OneSelected /\ Requests
  BY SdAssumption DEF SdInit, OneSelected, Requests
<1>3. FormatLocks /\ FormFollowsCard
  BY DEF SdInit, FormatLocks, FormFollowsCard
<1> QED
  BY <1>1, <1>2, <1>3 DEF SdInd

\* Every click, answer and failure keeps the invariant.
LEMMA SdIndStep == SdInd /\ [SdNext]_sdvars => SdInd'
<1> SUFFICES ASSUME SdInd, [SdNext]_sdvars PROVE SdInd'
  OBVIOUS
<1> USE SdAssumption
<1>1. CASE loadStateSd
  <2>1. SdTypes'
    BY <1>1 DEF SdInd, SdTypes, loadStateSd
  <2>2. OneSelected'
    BY <1>1 DEF SdInd, OneSelected, loadStateSd
  <2>3. Requests'
    BY <1>1 DEF SdInd, SdTypes, Requests, loadStateSd
  <2>4. FormatLocks'
    BY <1>1 DEF SdInd, SdTypes, FormatLocks, loadStateSd
  <2>5. FormFollowsCard'
    BY <1>1 DEF SdInd, SdTypes, FormFollowsCard, HasCard, loadStateSd
  <2> QED
    BY <2>1, <2>2, <2>3, <2>4, <2>5 DEF SdInd
<1>2. CASE showFormatConfirmModal
  <2>1. SdTypes'
    BY <1>2 DEF SdInd, SdTypes, OneSelected, showFormatConfirmModal
  <2>2. OneSelected'
    BY <1>2 DEF SdInd, OneSelected, showFormatConfirmModal
  <2>3. Requests'
    BY <1>2 DEF SdInd, SdTypes, Requests, showFormatConfirmModal
  <2>4. FormatLocks'
    BY <1>2 DEF SdInd, SdTypes, FormatLocks, showFormatConfirmModal
  <2>5. FormFollowsCard'
    BY <1>2 DEF SdInd, SdTypes, FormFollowsCard, HasCard, showFormatConfirmModal
  <2> QED
    BY <2>1, <2>2, <2>3, <2>4, <2>5 DEF SdInd
<1>3. CASE cancelFormat
  <2>1. SdTypes'
    BY <1>3 DEF SdInd, SdTypes, cancelFormat
  <2>2. OneSelected'
    BY <1>3 DEF SdInd, OneSelected, cancelFormat
  <2>3. Requests'
    BY <1>3 DEF SdInd, SdTypes, Requests, cancelFormat
  <2>4. FormatLocks'
    BY <1>3 DEF SdInd, SdTypes, FormatLocks, cancelFormat
  <2>5. FormFollowsCard'
    BY <1>3 DEF SdInd, SdTypes, FormFollowsCard, HasCard, cancelFormat
  <2> QED
    BY <2>1, <2>2, <2>3, <2>4, <2>5 DEF SdInd
<1>4. CASE executeFormat
  <2>1. SdTypes'
    BY <1>4 DEF SdInd, SdTypes, executeFormat
  <2>2. OneSelected'
    BY <1>4 DEF SdInd, OneSelected, executeFormat
  <2>3. Requests'
    BY <1>4 DEF SdInd, SdTypes, Requests, executeFormat
  <2>4. FormatLocks'
    BY <1>4 DEF SdInd, SdTypes, FormatLocks, executeFormat
  <2>5. FormFollowsCard'
    BY <1>4 DEF SdInd, SdTypes, FormFollowsCard, HasCard, executeFormat
  <2> QED
    BY <2>1, <2>2, <2>3, <2>4, <2>5 DEF SdInd
<1>5. CASE CardSwapped
  <2>1. SdTypes'
    BY <1>5 DEF SdInd, SdTypes, CardSwapped
  <2>2. OneSelected'
    BY <1>5 DEF SdInd, OneSelected, CardSwapped
  <2>3. Requests'
    BY <1>5 DEF SdInd, SdTypes, Requests, CardSwapped
  <2>4. FormatLocks'
    BY <1>5 DEF SdInd, SdTypes, FormatLocks, CardSwapped
  <2>5. FormFollowsCard'
    BY <1>5 DEF SdInd, SdTypes, FormFollowsCard, HasCard, CardSwapped
  <2> QED
    BY <2>1, <2>2, <2>3, <2>4, <2>5 DEF SdInd
<1>6. ASSUME NEW f \in Filesystems, Select(f) PROVE SdInd'
  <2>1. SdTypes'
    BY <1>6 DEF SdInd, SdTypes, Select
  <2>2. OneSelected'
    BY <1>6 DEF SdInd, OneSelected, Select
  <2>3. Requests'
    BY <1>6 DEF SdInd, SdTypes, Requests, Select
  <2>4. FormatLocks'
    BY <1>6 DEF SdInd, SdTypes, FormatLocks, Select
  <2>5. FormFollowsCard'
    BY <1>6 DEF SdInd, SdTypes, FormFollowsCard, HasCard, Select
  <2> QED
    BY <2>1, <2>2, <2>3, <2>4, <2>5 DEF SdInd
<1>7. ASSUME NEW l \in sdLoads, SdLoadServed(l) PROVE SdInd'
  <2>1. SdTypes'
    BY <1>7 DEF SdInd, SdTypes, SdLoadServed
  <2>2. OneSelected'
    BY <1>7 DEF SdInd, OneSelected, SdLoadServed
  <2>3. Requests'
    BY <1>7 DEF SdInd, SdTypes, Requests, SdLoadServed
  <2>4. FormatLocks'
    BY <1>7 DEF SdInd, SdTypes, FormatLocks, SdLoadServed
  <2>5. FormFollowsCard'
    BY <1>7 DEF SdInd, SdTypes, FormFollowsCard, HasCard, SdLoadServed
  <2> QED
    BY <2>1, <2>2, <2>3, <2>4, <2>5 DEF SdInd
<1>8. ASSUME NEW l \in sdLoads, sdLoadAnswer(l) PROVE SdInd'
  <2>1. SdTypes'
    BY <1>8 DEF SdInd, SdTypes, sdLoadAnswer, applyStateSd, populateFilesystems, Requests
  <2>2. OneSelected'
    BY <1>8 DEF SdInd, OneSelected, sdLoadAnswer, applyStateSd, populateFilesystems
  <2>3. Requests'
    BY <1>8 DEF SdInd, SdTypes, Requests, sdLoadAnswer, applyStateSd, populateFilesystems
  <2>4. FormatLocks'
    BY <1>8 DEF SdInd, SdTypes, FormatLocks, sdLoadAnswer, applyStateSd, populateFilesystems
  <2>5. FormFollowsCard'
    BY <1>8 DEF SdInd, SdTypes, FormFollowsCard, HasCard, sdLoadAnswer, applyStateSd, populateFilesystems, Requests
  <2> QED
    BY <2>1, <2>2, <2>3, <2>4, <2>5 DEF SdInd
<1>9. ASSUME NEW l \in sdLoads, sdLoadFails(l) PROVE SdInd'
  <2>1. SdTypes'
    BY <1>9 DEF SdInd, SdTypes, sdLoadFails
  <2>2. OneSelected'
    BY <1>9 DEF SdInd, OneSelected, sdLoadFails
  <2>3. Requests'
    BY <1>9 DEF SdInd, SdTypes, Requests, sdLoadFails
  <2>4. FormatLocks'
    BY <1>9 DEF SdInd, SdTypes, FormatLocks, sdLoadFails
  <2>5. FormFollowsCard'
    BY <1>9 DEF SdInd, SdTypes, FormFollowsCard, HasCard, sdLoadFails
  <2> QED
    BY <2>1, <2>2, <2>3, <2>4, <2>5 DEF SdInd
<1>10. ASSUME NEW x \in formats, FormatServed(x) PROVE SdInd'
  <2>1. SdTypes'
    BY <1>10 DEF SdInd, SdTypes, FormatServed
  <2>2. OneSelected'
    BY <1>10 DEF SdInd, OneSelected, FormatServed
  <2>3. Requests'
    BY <1>10 DEF SdInd, SdTypes, Requests, FormatServed
  <2>4. FormatLocks'
    <3>1. ASSUME NEW y, formats = {y} PROVE formats' = {[x EXCEPT !.got = {card}]}
      BY <1>10, <3>1 DEF FormatServed
    <3> QED
      BY <1>10, <3>1 DEF SdInd, SdTypes, FormatLocks, FormatServed
  <2>5. FormFollowsCard'
    BY <1>10 DEF SdInd, SdTypes, FormFollowsCard, HasCard, FormatServed
  <2> QED
    BY <2>1, <2>2, <2>3, <2>4, <2>5 DEF SdInd
<1>11. ASSUME NEW x \in formats, formatAnswer(x) PROVE SdInd'
  <2>1. SdTypes'
    BY <1>11 DEF SdInd, SdTypes, formatAnswer, applyStateSd, populateFilesystems, Requests
  <2>2. OneSelected'
    BY <1>11 DEF SdInd, OneSelected, formatAnswer, applyStateSd, populateFilesystems
  <2>3. Requests'
    BY <1>11 DEF SdInd, SdTypes, Requests, formatAnswer, applyStateSd, populateFilesystems
  <2>4. FormatLocks'
    <3>1. ASSUME NEW y, formats = {y} PROVE formats' = {}
      BY <1>11, <3>1 DEF formatAnswer
    <3> QED
      BY <1>11, <3>1 DEF SdInd, SdTypes, FormatLocks, formatAnswer
  <2>5. FormFollowsCard'
    BY <1>11 DEF SdInd, SdTypes, FormFollowsCard, HasCard, formatAnswer, applyStateSd, populateFilesystems, Requests
  <2> QED
    BY <2>1, <2>2, <2>3, <2>4, <2>5 DEF SdInd
<1>12. ASSUME NEW x \in formats, formatFails(x) PROVE SdInd'
  <2>1. SdTypes'
    BY <1>12 DEF SdInd, SdTypes, formatFails
  <2>2. OneSelected'
    BY <1>12 DEF SdInd, OneSelected, formatFails
  <2>3. Requests'
    BY <1>12 DEF SdInd, SdTypes, Requests, formatFails
  <2>4. FormatLocks'
    <3>1. ASSUME NEW y, formats = {y} PROVE formats' = {}
      BY <1>12, <3>1 DEF formatFails
    <3> QED
      BY <1>12, <3>1 DEF SdInd, SdTypes, FormatLocks, formatFails
  <2>5. FormFollowsCard'
    BY <1>12 DEF SdInd, SdTypes, FormFollowsCard, HasCard, formatFails
  <2> QED
    BY <2>1, <2>2, <2>3, <2>4, <2>5 DEF SdInd
<1>13. CASE UNCHANGED sdvars
  BY <1>13 DEF sdvars, SdInd, SdTypes, OneSelected, Requests, FormatLocks, FormFollowsCard, HasCard
<1> QED
  BY <1>1, <1>2, <1>3, <1>4, <1>5, <1>6, <1>7, <1>8, <1>9, <1>10, <1>11, <1>12, <1>13 DEF SdNext

\* The invariant says what SdInv says.
LEMMA SdIndInv == SdInd => SdInv
<1> SUFFICES ASSUME SdInd PROVE SdInv
  OBVIOUS
<1>1. Cardinality({}) = 0 /\ \A x : Cardinality({x}) = 1
  BY FS_EmptySet, FS_Singleton
<1>2. SdTypeOK
  <2>1. selected \subseteq Filesystems /\ Cardinality(selected) <= 1
    <3>1. CASE selected = {}
      BY <1>1, <3>1
    <3>2. ASSUME NEW f \in Filesystems, selected = {f} PROVE selected \subseteq Filesystems /\ Cardinality(selected) <= 1
      <4>1. Cardinality({f}) = 1
        BY <1>1
      <4> QED
        BY <3>2, <4>1
    <3> QED
      BY <3>1, <3>2 DEF SdInd, OneSelected
  <2>2. /\ \A l \in sdLoads : l.got \subseteq BOOLEAN
        /\ \A x \in formats : x.fs \in Filesystems /\ x.got \subseteq BOOLEAN
    BY DEF SdInd, Requests
  <2> QED
    BY <2>1, <2>2 DEF SdInd, SdTypes, Requests, SdTypeOK
<1>3. OneFormat
  <2>1. CASE formats = {}
    BY <1>1, <2>1 DEF OneFormat
  <2>2. ASSUME NEW x, formats = {x} PROVE OneFormat
    <3>1. Cardinality({x}) = 1
      BY <1>1
    <3> QED
      BY <2>2, <3>1 DEF OneFormat
  <2>3. CASE overlap
    BY <2>3 DEF OneFormat
  <2> QED
    BY <2>1, <2>2, <2>3 DEF SdInd, FormatLocks
<1> QED
  BY <1>2, <1>3 DEF SdInv, SdInd

\* One format at a time unless a refresh ended beside it, and a form that is usable exactly when
\* the camera's last answer reported a card, whatever failed in between.
THEOREM SdSafe == SdSpec => []SdInv
<1> QED
  BY SdIndInit, SdIndStep, SdIndInv, PTL DEF SdSpec

\* Every step that begins a format takes the filesystem of the open dialog.
LEMMA NamedStep == SdInd /\ [SdNext]_sdvars => [NamedFormat]_sdvars
<1> SUFFICES ASSUME SdInd, SdNext PROVE NamedFormat
  BY DEF sdvars, NamedFormat
<1>1. CASE formats' \subseteq formats
  BY <1>1 DEF NamedFormat
<1>2. CASE executeFormat
  BY <1>2 DEF executeFormat, NamedFormat
<1>3. ASSUME NEW x \in formats, FormatServed(x) PROVE NamedFormat
  BY <1>3 DEF FormatServed, NamedFormat, SdInd, Requests
<1> QED
  BY <1>1, <1>2, <1>3 DEF SdNext, loadStateSd, showFormatConfirmModal, cancelFormat, CardSwapped, Select,
     SdLoadServed, sdLoadAnswer, sdLoadFails, formatAnswer, formatFails

\* What is formatted is what the open dialog named (pendingFilesystem), although a refresh behind
\* the dialog builds the choices anew.
THEOREM FormatNamed == SdSpec => [][NamedFormat]_sdvars
<1> QED
  BY NamedStep, SdIndInit, SdIndStep, PTL DEF SdSpec

-----------------------------------------------------------------------------
\* The loads under way: what each was asked for and has brought, numbered without a gap.
DirReq == [id : Nat, dir : Dirs, silent : BOOLEAN, history : {"push", "replace", "none", "popped"},
           got : SUBSET (Dirs \X (0..MaxDirChanges)), crossed : BOOLEAN]
DirReqs == /\ IsFiniteSet(dirReqs) /\ dirReqs \subseteq DirReq
           /\ \A r \in dirReqs : r.id < Cardinality(dirReqs) /\ \A list \in r.got : list[1] = r.dir
           /\ \A r, o \in dirReqs : r.id = o.id => r = o

DirTypes == /\ dirNow \in [Dirs -> 0..MaxDirChanges] /\ path \in Dirs /\ url \in Dirs
            /\ raw \in Dirs \X (0..MaxDirChanges)
            /\ loading \in BOOLEAN /\ dirHidden \in BOOLEAN /\ watching \in BOOLEAN /\ astray \in BOOLEAN
            /\ dirChanges \in 0..MaxDirChanges

\* The signature is that of the state, or the one of the page's start that no listing has.
SignatureFits == lastSignature = computeEntriesSignature(raw) \/ \E d \in Dirs : lastSignature = <<d, 0>>

\* A silent load or a refresh that no answer overtook is for the directory shown.
StillHere == \A r \in dirReqs : (r.silent \/ r.history = "none") /\ ~r.crossed => r.dir = path

\* A step back that no answer overtook leads where the address points, unless another follows;
\* while one is under way nothing is promised about the address.
PoppedHere == \A r \in dirReqs : r.history = "popped" =>
                  astray /\ (r.crossed \/ url = r.dir \/ \E o \in dirReqs : o.id # r.id /\ o.history = "popped")

\* A silent load is the watch's, which may change the address.
SilentReplaces == \A r \in dirReqs : r.silent => r.history = "replace"

FmInd == DirReqs /\ DirTypes /\ RenderedIsState /\ SignatureFits /\ StillHere /\ PoppedHere /\ SilentReplaces
         /\ (~astray => url = path)

\* A load that is rendered or fails leaves the others, renumbered without a gap.
LEMMA OthersKeep ==
    ASSUME DirReqs, NEW r \in dirReqs, dirReqs' = Others(r)
    PROVE  /\ DirReqs'
           /\ \A n \in dirReqs' : /\ n.crossed
                                  /\ \E o \in dirReqs \ {r} : n.history = o.history /\ n.silent = o.silent
<1> DEFINE S == dirReqs \ {r}
           f == [o \in S |-> [o EXCEPT !.id = IF o.id > r.id THEN o.id - 1 ELSE o.id, !.crossed = TRUE]]
<1>0. dirReqs \subseteq DirReq /\ IsFiniteSet(dirReqs)
    BY DEF DirReqs
<1>1. Cardinality(dirReqs) \in Nat /\ IsFiniteSet(S) /\ Cardinality(S) = Cardinality(dirReqs) - 1
    BY <1>0, FS_CardinalityType, FS_RemoveElement
<1>2. ASSUME NEW o \in S
      PROVE  /\ f[o] \in DirReq /\ f[o].crossed /\ f[o].history = o.history /\ f[o].silent = o.silent
             /\ f[o].dir = o.dir /\ f[o].got = o.got
             /\ f[o].id = IF o.id > r.id THEN o.id - 1 ELSE o.id
             /\ f[o].id < Cardinality(S)
    <2>1. o \in DirReq /\ r \in DirReq /\ o.id # r.id /\ o.id < Cardinality(dirReqs) /\ r.id < Cardinality(dirReqs)
        BY <1>0 DEF DirReqs
    <2>2. (IF o.id > r.id THEN o.id - 1 ELSE o.id) \in Nat /\ (IF o.id > r.id THEN o.id - 1 ELSE o.id) < Cardinality(S)
        BY <1>1, <2>1 DEF DirReq
    <2>3. f[o] = [o EXCEPT !.id = IF o.id > r.id THEN o.id - 1 ELSE o.id, !.crossed = TRUE]
        OBVIOUS
    <2> HIDE DEF f
    <2>4. /\ f[o] \in DirReq /\ f[o].crossed = TRUE /\ f[o].history = o.history /\ f[o].silent = o.silent
          /\ f[o].dir = o.dir /\ f[o].got = o.got
          /\ f[o].id = IF o.id > r.id THEN o.id - 1 ELSE o.id
        BY <2>1, <2>2, <2>3 DEF DirReq
    <2> QED BY <2>2, <2>4
<1>3. ASSUME NEW o \in S, NEW p \in S, f[o].id = f[p].id PROVE o = p
    <2>1. o.id \in Nat /\ p.id \in Nat /\ r.id \in Nat /\ o.id # r.id /\ p.id # r.id /\ (o.id = p.id => o = p)
        BY <1>0 DEF DirReqs, DirReq
    <2>2. f[o].id = (IF o.id > r.id THEN o.id - 1 ELSE o.id) /\ f[p].id = (IF p.id > r.id THEN p.id - 1 ELSE p.id)
        BY <1>2
    <2>3. (IF o.id > r.id THEN o.id - 1 ELSE o.id) = (IF p.id > r.id THEN p.id - 1 ELSE p.id)
        BY <1>3, <2>2
    <2> HIDE DEF f, S
    <2>4. \A i, j, k \in Nat : i # k /\ j # k /\ (IF i > k THEN i - 1 ELSE i) = (IF j > k THEN j - 1 ELSE j) => i = j
        OBVIOUS
    <2> QED BY <2>1, <2>3, <2>4
<1>4. Others(r) = {f[o] : o \in S} /\ f \in [S -> Others(r)]
    BY DEF Others
<1> HIDE DEF f, S
<1>5. f \in Bijection(S, Others(r))
    BY <1>3, <1>4 DEF Bijection, Injection, Surjection, IsInjective
<1>6. ExistsBijection(S, Others(r))
    BY <1>5 DEF ExistsBijection
<1>7. IsFiniteSet(dirReqs') /\ Cardinality(dirReqs') = Cardinality(S)
    BY <1>1, <1>6, FS_Bijection
<1>8. \A n \in dirReqs' : \E o \in S : n = f[o]
    BY <1>4
<1>9. \A n \in dirReqs' : n.crossed /\ \E o \in dirReqs \ {r} : n.history = o.history /\ n.silent = o.silent
    BY <1>2, <1>8 DEF S
<1>10. dirReqs' \subseteq DirReq /\ \A n \in dirReqs' : n.id < Cardinality(dirReqs') /\ \A list \in n.got : list[1] = n.dir
    <2> SUFFICES ASSUME NEW n \in dirReqs'
                 PROVE  n \in DirReq /\ n.id < Cardinality(dirReqs') /\ \A list \in n.got : list[1] = n.dir
        OBVIOUS
    <2>1. PICK o \in S : n = f[o]
        BY <1>8
    <2>2. \A list \in o.got : list[1] = o.dir
        BY DEF DirReqs, S
    <2> QED BY <1>2, <1>7, <2>1, <2>2
<1>11. \A n, m \in dirReqs' : n.id = m.id => n = m
    BY <1>3, <1>8
<1> QED BY <1>7, <1>9, <1>10, <1>11 DEF DirReqs

\* A load that begins gets the next number.
LEMMA LoadJoins ==
    ASSUME DirReqs, NEW d \in Dirs, NEW silent \in BOOLEAN, NEW history \in {"push", "replace", "none", "popped"},
           dirReqs' = dirReqs \cup {Load(d, silent, history)}
    PROVE  /\ DirReqs'
           /\ \A o \in dirReqs : o.id # Load(d, silent, history).id
           /\ Load(d, silent, history).dir = d /\ Load(d, silent, history).silent = silent
           /\ Load(d, silent, history).history = history /\ ~Load(d, silent, history).crossed
<1> DEFINE new == Load(d, silent, history)
<1>0. Cardinality(dirReqs) \in Nat /\ IsFiniteSet(dirReqs)
    BY FS_CardinalityType DEF DirReqs
<1>1. /\ new \in DirReq
      /\ new.id = Cardinality(dirReqs) /\ new.got = {}
      /\ new.dir = d /\ new.silent = silent /\ new.history = history /\ new.crossed = FALSE
    BY <1>0 DEF Load, DirReq
<1> HIDE DEF new
<1>2. \A o \in dirReqs : o.id # new.id /\ o.id < new.id /\ o.id \in Nat
    BY <1>0, <1>1 DEF DirReqs, DirReq
<1>3. new \notin dirReqs /\ dirReqs' = dirReqs \cup {new}
    BY <1>2 DEF new
<1>4. IsFiniteSet(dirReqs') /\ Cardinality(dirReqs') = Cardinality(dirReqs) + 1
    BY <1>0, <1>3, FS_AddElement
<1>5. DirReqs'
    BY <1>0, <1>1, <1>2, <1>3, <1>4 DEF DirReqs
<1> QED BY <1>1, <1>2, <1>5 DEF new

LEMMA FmIndInit == FmInit => FmInd
<1> SUFFICES ASSUME FmInit PROVE FmInd
    OBVIOUS
<1> DEFINE first == [id |-> 0, dir |-> path, silent |-> FALSE, history |-> "replace", got |-> {}, crossed |-> FALSE]
<1>1. path \in Dirs /\ dirReqs = {first} /\ url = path /\ raw = <<path, 0>> /\ rendered = <<path, 0>>
    BY DEF FmInit
<1>2. first \in DirReq /\ first.id = 0 /\ first.got = {} /\ ~first.silent /\ first.history = "replace"
    BY <1>1 DEF DirReq
<1> HIDE DEF first
<1>3. IsFiniteSet({first}) /\ Cardinality({first}) = 1
    BY FS_Singleton
<1>4. DirReqs
    BY <1>1, <1>2, <1>3 DEF DirReqs
<1>5. loading \in BOOLEAN /\ dirHidden \in BOOLEAN /\ watching \in BOOLEAN /\ astray \in BOOLEAN
    BY Zenon DEF FmInit
<1>6. DirTypes
    BY <1>1, <1>5, DirAssumption DEF FmInit, DirTypes
<1>7. RenderedIsState /\ SignatureFits
    BY <1>1 DEF FmInit, RenderedIsState, SignatureFits
<1>8. StillHere /\ PoppedHere /\ SilentReplaces
    BY <1>1, <1>2 DEF StillHere, PoppedHere, SilentReplaces
<1> QED BY <1>1, <1>4, <1>6, <1>7, <1>8 DEF FmInd

\* A load that begins: the watch and "Refresh" ask for the directory shown, a step back has
\* changed the address, and a link changes nothing yet.
LEMMA BeginKeeps ==
    ASSUME FmInd, NEW d \in Dirs, NEW silent \in BOOLEAN, NEW history \in {"push", "replace", "none", "popped"},
           dirReqs' = dirReqs \cup {Load(d, silent, history)},
           UNCHANGED <<path, raw, lastSignature, rendered>>, DirTypes',
           silent => history = "replace", silent \/ history = "none" => d = path,
           history = "popped" => url' = d /\ astray', history # "popped" => url' = url /\ astray' = astray
    PROVE  FmInd'
<1> DEFINE new == Load(d, silent, history)
<1> USE DEF FmInd
<1>1. /\ DirReqs' /\ \A o \in dirReqs : o.id # new.id
      /\ new.dir = d /\ new.silent = silent /\ new.history = history /\ ~new.crossed
    BY LoadJoins
<1>2. dirReqs' = dirReqs \cup {new}
    OBVIOUS
<1> HIDE DEF new
<1>3. RenderedIsState' /\ SignatureFits'
    BY DEF RenderedIsState, SignatureFits, computeEntriesSignature
<1>4. StillHere' /\ SilentReplaces'
    BY <1>1, <1>2 DEF StillHere, SilentReplaces
<1>5. PoppedHere'
    <2>1. CASE history = "popped"
        BY <1>1, <1>2, <2>1 DEF PoppedHere
    <2>2. CASE history # "popped"
        BY <1>1, <1>2, <2>2 DEF PoppedHere
    <2> QED BY <2>1, <2>2
<1>6. ~astray' => url' = path'
    BY DEF PoppedHere
<1> QED BY <1>1, <1>3, <1>4, <1>5, <1>6

\* A load that ends without being rendered.
LEMMA EndKeeps ==
    ASSUME FmInd, NEW r \in dirReqs, dirReqs' = Others(r), DirTypes',
           UNCHANGED <<path, raw, lastSignature, rendered, url, astray>>
    PROVE  FmInd'
<1> USE DEF FmInd
<1>1. /\ DirReqs'
      /\ \A n \in dirReqs' : n.crossed /\ \E o \in dirReqs \ {r} : n.history = o.history /\ n.silent = o.silent
    BY OthersKeep
<1>2. RenderedIsState' /\ SignatureFits'
    BY DEF RenderedIsState, SignatureFits, computeEntriesSignature
<1>3. StillHere' /\ SilentReplaces' /\ PoppedHere'
    BY <1>1 DEF StillHere, SilentReplaces, PoppedHere
<1> QED BY <1>1, <1>2, <1>3

\* An answer: what is not rendered is what is there already, and the address follows.
LEMMA AnswerKeeps == ASSUME FmInd, NEW r \in dirReqs, dirAnswer(r) PROVE FmInd'
<1> USE DirAssumption DEF FmInd
<1>1. PICK list \in r.got :
          /\ raw' = list /\ path' = list[1]
          /\ lastSignature' = computeEntriesSignature(list)
          /\ IF ~r.silent \/ HasChanged(list)
             THEN rendered' = list /\ url' = IF r.history \in {"push", "replace"} THEN list[1] ELSE url
             ELSE UNCHANGED <<rendered, url>>
    BY DEF dirAnswer
<1>2. /\ dirReqs' = Others(r) /\ UNCHANGED <<dirNow, dirHidden, dirOps, dirChanges, dirFaults>>
      /\ loading' = FALSE /\ watching' = TRUE
    BY DEF dirAnswer
<1>3. /\ DirReqs'
      /\ \A n \in dirReqs' : n.crossed /\ \E o \in dirReqs \ {r} : n.history = o.history /\ n.silent = o.silent
    BY <1>2, OthersKeep
<1>4. list \in Dirs \X (0..MaxDirChanges) /\ list[1] = r.dir /\ r.dir \in Dirs /\ r \in DirReq
    BY DEF DirReqs, DirReq
<1>5. /\ r.silent \in BOOLEAN /\ r.history \in {"push", "replace", "none", "popped"} /\ r.crossed \in BOOLEAN
    BY <1>4 DEF DirReq
<1>6. astray' \in BOOLEAN /\ (astray' <=> (\/ astray /\ ~(dirReqs = {r} /\ r.history = "popped" /\ ~r.crossed)
                                           \/ r.history = "none" /\ r.crossed))
    BY Zenon DEF dirAnswer
<1>7. path' \in Dirs /\ url' \in Dirs /\ raw' \in Dirs \X (0..MaxDirChanges)
    BY <1>1, <1>4 DEF DirTypes
<1>8. DirTypes'
    <2>1. loading' \in BOOLEAN /\ watching' \in BOOLEAN
        BY <1>2, Zenon
    <2> QED BY <1>2, <1>6, <1>7, <2>1 DEF DirTypes
<1>9. RenderedIsState' /\ SignatureFits'
    <2>1. CASE ~r.silent \/ HasChanged(list)
        BY <1>1, <2>1 DEF RenderedIsState, SignatureFits, computeEntriesSignature
    <2>2. CASE ~(~r.silent \/ HasChanged(list))
        <3>1. computeEntriesSignature(list) = lastSignature /\ list[1] = path
            BY <2>2 DEF HasChanged
        <3>2. list = <<list[1], list[2]>> /\ raw = <<raw[1], raw[2]>> /\ raw[1] = path
            BY <1>4 DEF DirTypes, RenderedIsState
        <3>3. CASE list[2] = 0
            <4>1. lastSignature = <<>>
                BY <3>1, <3>3 DEF computeEntriesSignature
            <4>2. raw[2] = 0
                <5>1. \A a, b : <<>> # <<a, b>>
                    OBVIOUS
                <5>2. raw # <<>> /\ computeEntriesSignature(raw) = <<>>
                    BY <3>2, <4>1, <5>1 DEF SignatureFits
                <5> QED BY <5>2 DEF computeEntriesSignature
            <4> QED BY <1>1, <2>2, <3>1, <3>2, <3>3, <4>2 DEF RenderedIsState, SignatureFits, computeEntriesSignature
        <3>4. CASE list[2] # 0
            <4>1. lastSignature = list
                BY <3>1, <3>4 DEF computeEntriesSignature
            <4>2. lastSignature # <<>> /\ \A d \in Dirs : lastSignature # <<d, 0>>
                <5>1. \A a, b : <<a, b>> # <<>> /\ <<a, b>>[2] = b
                    OBVIOUS
                <5> QED BY <3>2, <3>4, <4>1, <5>1
            <4>3. raw = list
                BY <4>1, <4>2 DEF SignatureFits, computeEntriesSignature
            <4> QED BY <1>1, <2>2, <4>3 DEF RenderedIsState, SignatureFits, computeEntriesSignature
        <3> QED BY <3>3, <3>4
    <2> QED BY <2>1, <2>2
<1>10. StillHere' /\ SilentReplaces'
    BY <1>3 DEF StillHere, SilentReplaces
<1>11. PoppedHere'
    <2> SUFFICES ASSUME NEW n \in dirReqs', n.history = "popped" PROVE astray' /\ n.crossed
        BY DEF PoppedHere
    <2>1. PICK o \in dirReqs \ {r} : n.history = o.history
        BY <1>3
    <2>2. astray /\ dirReqs # {r}
        BY <2>1 DEF PoppedHere
    <2> QED BY <1>3, <1>6, <2>2
<1>12. ASSUME ~astray' PROVE url' = path'
    <2>1. ~(r.history = "none" /\ r.crossed)
        BY <1>6, <1>12
    <2>2. CASE astray
        <3>1. dirReqs = {r} /\ r.history = "popped" /\ ~r.crossed
            BY <1>6, <1>12, <2>2
        <3>2. url = r.dir
            BY <3>1 DEF PoppedHere
        <3>3. ~r.silent
            BY <3>1 DEF SilentReplaces
        <3> QED BY <1>1, <1>4, <3>1, <3>2, <3>3
    <2>3. CASE ~astray
        <3>1. url = path /\ r.history # "popped"
            BY <2>3 DEF PoppedHere
        <3>2. CASE r.history = "none"
            <4>1. r.dir = path
                BY <2>1, <3>2 DEF StillHere
            <4> QED BY <1>1, <1>4, <3>1, <3>2, <4>1
        <3>3. CASE r.history \in {"push", "replace"}
            <4>1. CASE ~r.silent \/ HasChanged(list)
                BY <1>1, <3>3, <4>1
            <4>2. CASE ~(~r.silent \/ HasChanged(list))
                BY <1>1, <3>1, <4>2 DEF HasChanged
            <4> QED BY <4>1, <4>2
        <3> QED BY <1>5, <3>1, <3>2, <3>3
    <2> QED BY <2>2, <2>3
<1> QED BY <1>3, <1>8, <1>9, <1>10, <1>11, <1>12

\* Nothing under way and nothing that was loaded changes.
LEMMA SameKeeps ==
    ASSUME FmInd, DirTypes', UNCHANGED <<stateFm, dirReqs, astray>> PROVE FmInd'
BY DEF FmInd, stateFm, DirReqs, RenderedIsState, SignatureFits, computeEntriesSignature, StillHere, PoppedHere, SilentReplaces

\* Every step keeps the page's types.
LEMMA FmType == FmInd /\ [FmNext]_dvars => DirTypes'
<1> SUFFICES ASSUME FmInd, [FmNext]_dvars PROVE DirTypes'
    OBVIOUS
<1> USE DirAssumption DEF FmInd, DirTypes, stateFm
<1>1. ASSUME NEW d \in Dirs, handleDirLink(d) PROVE DirTypes'
    BY <1>1, Zenon DEF handleDirLink, loadDirectory
<1>2. ASSUME NEW d \in Dirs, popstate(d) PROVE DirTypes'
    BY <1>2, Zenon DEF popstate, loadDirectory
<1>3. ASSUME NEW d \in Dirs, DirChanged(d) PROVE DirTypes'
    BY <1>3 DEF DirChanged
<1>4. CASE refreshBtn
    BY <1>4, Zenon DEF refreshBtn, loadDirectory
<1>5. CASE runDirectoryWatch
    BY <1>5, Zenon DEF runDirectoryWatch, loadDirectory
<1>6. CASE dirVisibility
    BY <1>6, Zenon DEF dirVisibility
<1>7. ASSUME NEW r \in dirReqs, DirServed(r) PROVE DirTypes'
    BY <1>7 DEF DirServed
<1>8. ASSUME NEW r \in dirReqs, dirAnswer(r) PROVE DirTypes'
    BY <1>8, AnswerKeeps
<1>9. ASSUME NEW r \in dirReqs, dirFails(r) PROVE DirTypes'
    BY <1>9, Zenon DEF dirFails
<1>10. CASE UNCHANGED dvars
    BY <1>10 DEF dvars
<1> QED BY <1>1, <1>2, <1>3, <1>4, <1>5, <1>6, <1>7, <1>8, <1>9, <1>10 DEF FmNext

\* The camera has listed a directory: the load keeps all but its answer.
LEMMA ServedKeeps == ASSUME FmInd, DirTypes', NEW r \in dirReqs, DirServed(r) PROVE FmInd'
<1> DEFINE new == [r EXCEPT !.got = {Listing(r.dir)}]
<1> USE DEF FmInd
<1>0. r \in DirReq /\ r.id < Cardinality(dirReqs) /\ Cardinality(dirReqs) \in Nat /\ IsFiniteSet(dirReqs)
    BY FS_CardinalityType DEF DirReqs
<1>1. r.dir \in Dirs /\ Listing(r.dir) \in Dirs \X (0..MaxDirChanges) /\ Listing(r.dir)[1] = r.dir
    BY <1>0 DEF Listing, DirTypes, DirReq
<1>2. /\ new \in DirReq /\ new.got = {Listing(r.dir)}
      /\ new.id = r.id /\ new.dir = r.dir /\ new.silent = r.silent
      /\ new.history = r.history /\ new.crossed = r.crossed
    BY <1>0, <1>1 DEF DirReq
<1>3. dirReqs' = (dirReqs \ {r}) \cup {new} /\ UNCHANGED stateFm /\ UNCHANGED astray
    BY DEF DirServed
<1> HIDE DEF new
<1>4. new \notin dirReqs \ {r}
    BY <1>2 DEF DirReqs
<1>5. IsFiniteSet(dirReqs') /\ Cardinality(dirReqs') = Cardinality(dirReqs)
    <2>1. IsFiniteSet(dirReqs \ {r}) /\ Cardinality(dirReqs \ {r}) = Cardinality(dirReqs) - 1
        BY <1>0, FS_RemoveElement
    <2>2. IsFiniteSet((dirReqs \ {r}) \cup {new}) /\ Cardinality((dirReqs \ {r}) \cup {new}) = Cardinality(dirReqs) - 1 + 1
        BY <1>4, <2>1, FS_AddElement
    <2> QED BY <1>0, <1>3, <2>2
<1>6. DirReqs'
    <2>1. dirReqs' \subseteq DirReq /\ \A n \in dirReqs' : n.id < Cardinality(dirReqs')
        BY <1>0, <1>2, <1>3, <1>5 DEF DirReqs
    <2>2. \A n \in dirReqs' : \A list \in n.got : list[1] = n.dir
        BY <1>1, <1>2, <1>3 DEF DirReqs
    <2>3. \A n, o \in dirReqs' : n.id = o.id => n = o
        BY <1>2, <1>3 DEF DirReqs
    <2> QED BY <1>5, <2>1, <2>2, <2>3 DEF DirReqs
<1>7. StillHere' /\ SilentReplaces'
    BY <1>2, <1>3 DEF StillHere, SilentReplaces, stateFm
<1>8. PoppedHere'
    <2> SUFFICES ASSUME NEW n \in dirReqs', n.history = "popped"
                 PROVE  astray' /\ (n.crossed \/ url' = n.dir \/ \E o \in dirReqs' : o.id # n.id /\ o.history = "popped")
        BY DEF PoppedHere
    <2>1. PICK m \in dirReqs : n.id = m.id /\ n.dir = m.dir /\ n.history = m.history /\ n.crossed = m.crossed
        BY <1>2, <1>3
    <2>2. astray /\ (m.crossed \/ url = m.dir \/ \E o \in dirReqs : o.id # m.id /\ o.history = "popped")
        BY <2>1 DEF PoppedHere
    <2>3. ASSUME NEW o \in dirReqs, o.id # m.id, o.history = "popped"
          PROVE  \E p \in dirReqs' : p.id # n.id /\ p.history = "popped"
        BY <1>2, <1>3, <2>1, <2>3
    <2> QED BY <1>3, <2>1, <2>2, <2>3 DEF stateFm
<1> QED BY <1>3, <1>6, <1>7, <1>8 DEF stateFm, RenderedIsState, SignatureFits, computeEntriesSignature

\* The listing's invariant is inductive.
LEMMA FmIndStep == FmInd /\ [FmNext]_dvars => FmInd'
<1> SUFFICES ASSUME FmInd, [FmNext]_dvars PROVE FmInd'
    OBVIOUS
<1>0. DirTypes' /\ path \in Dirs
    BY FmType DEF FmInd, DirTypes
<1> USE DEF stateFm
<1>1. ASSUME NEW d \in Dirs, handleDirLink(d) PROVE FmInd'
    BY <1>0, <1>1, BeginKeeps DEF handleDirLink, loadDirectory
<1>2. ASSUME NEW d \in Dirs, popstate(d) PROVE FmInd'
    <2>1. astray'
        BY <1>2, Zenon DEF popstate
    <2> QED BY <1>0, <1>2, <2>1, BeginKeeps DEF popstate, loadDirectory
<1>3. ASSUME NEW d \in Dirs, DirChanged(d) PROVE FmInd'
    BY <1>0, <1>3, SameKeeps DEF DirChanged
<1>4. CASE refreshBtn
    BY <1>0, <1>4, BeginKeeps DEF refreshBtn, loadDirectory
<1>5. CASE runDirectoryWatch
    <2>1. dirReqs' = dirReqs \cup {Load(path, TRUE, "replace")} /\ UNCHANGED <<stateFm, astray>>
        BY <1>5 DEF runDirectoryWatch, loadDirectory
    <2> QED BY <1>0, <2>1, BeginKeeps
<1>6. CASE dirVisibility
    <2>1. CASE dirHidden /\ ~loading
        <3>1. dirReqs' = dirReqs \cup {Load(path, TRUE, "replace")} /\ UNCHANGED <<stateFm, astray>>
            BY <1>6, <2>1 DEF dirVisibility
        <3> QED BY <1>0, <3>1, BeginKeeps
    <2>2. CASE ~(dirHidden /\ ~loading)
        BY <1>0, <1>6, <2>2, SameKeeps DEF dirVisibility
    <2> QED BY <2>1, <2>2
<1>7. ASSUME NEW r \in dirReqs, DirServed(r) PROVE FmInd'
    BY <1>0, <1>7, ServedKeeps
<1>8. ASSUME NEW r \in dirReqs, dirAnswer(r) PROVE FmInd'
    BY <1>8, AnswerKeeps
<1>9. ASSUME NEW r \in dirReqs, dirFails(r) PROVE FmInd'
    BY <1>0, <1>9, EndKeeps DEF dirFails
<1>10. CASE UNCHANGED dvars
    BY <1>0, <1>10, SameKeeps DEF dvars
<1> QED BY <1>1, <1>2, <1>3, <1>4, <1>5, <1>6, <1>7, <1>8, <1>9, <1>10 DEF FmNext

LEMMA FmIndInv == FmInd => ListingInv
<1> SUFFICES ASSUME FmInd PROVE ListingInv
    OBVIOUS
<1>1. Cardinality(dirReqs) \in Nat
    BY FS_CardinalityType DEF FmInd, DirReqs
<1>2. \A r \in dirReqs : r.dir \in Dirs /\ r.id \in 0..(Cardinality(dirReqs) - 1)
    BY <1>1 DEF FmInd, DirReqs, DirReq
<1> QED BY <1>2 DEF FmInd, ListingInv, FmTypeOK, DirTypes, RenderedIsState, UrlIsPath

\* A silent answer that no other answer overtook is for the directory shown.
LEMMA SilentStep == FmInd => SilentStays
<1> SUFFICES ASSUME FmInd, NEW r \in dirReqs, r.silent, dirAnswer(r), ~r.crossed PROVE path' = path
    BY DEF SilentStays
<1>1. PICK list \in r.got : path' = list[1]
    BY DEF dirAnswer
<1>2. list[1] = r.dir /\ r.dir = path
    BY DEF FmInd, DirReqs, StillHere
<1> QED BY <1>1, <1>2

-----------------------------------------------------------------------------
\* The editor's records, and whose text each place holds.
EdReqs == /\ loads \subseteq [id : Nat, file : Files, got : SUBSET Texts]
          /\ saves \subseteq [id : Nat, step : {"delay", "sent", "done"}, file : Files \cup {NoFile}, text : Texts]

Of(f) == {Blank} \cup ({f} \X (0..MaxEdits))

OwnText == /\ text \in Of(cur) /\ orig \in Of(cur)
           /\ \A l \in loads : l.got \subseteq Of(l.file)
           /\ \A s \in saves : s.text \in Of(s.file)

\* Without a race loads and saves exclude each other, what a load has read is what is stored,
\* and a save is for the text on the screen.
Unraced == ~raced =>
    /\ loads = {} \/ saves = {}
    /\ \A l \in loads : l.got \subseteq {stored[l.file]}
    /\ cur # NoFile => /\ \A s \in saves : s.file = cur /\ s.text = text /\ (s.step = "done" => stored[cur] = text)
                       /\ orig = stored[cur] \/ \E s \in saves : s.step = "done"

\* Without a clash a load meets neither a modified text nor a save, so the empty textarea it
\* may leave behind is never saved.
Unclashed == ~clash =>
    /\ loads # {} => ~modified /\ saves = {}
    /\ cur # NoFile /\ text = Blank => ~modified /\ saves = {}
    /\ cur # NoFile => orig # Blank
    /\ \A l \in loads : Blank \notin l.got
    /\ \A s \in saves : s.file # NoFile => s.text # Blank

EdInd == EdTypeOK /\ EdReqs /\ OwnText /\ NoForeignText /\ UnsavedIsFlagged /\ Unraced /\ BlankOnlyByLoad /\ Unclashed

\* Every step keeps the types.
LEMMA EdType == EdInd /\ [EdNext]_edvars => (EdTypeOK /\ EdReqs)'
<1> SUFFICES ASSUME EdInd, [EdNext]_edvars PROVE (EdTypeOK /\ EdReqs)'
    OBVIOUS
<1> USE EditorAssumption DEF EdInd, camVars, stateVars, domVars, EdTypeOK, EdReqs, Texts
<1>1. ASSUME NEW f \in Files, fileActionEdit(f) PROVE (EdTypeOK /\ EdReqs)'
    BY <1>1 DEF fileActionEdit, loadTextFile, TextWhileLoading
<1>2. CASE reloadTextBtn
    BY <1>2 DEF reloadTextBtn, loadTextFile, TextWhileLoading
<1>3. CASE input
    BY <1>3 DEF input
<1>4. ASSUME NEW l \in loads, LoadServed(l) PROVE (EdTypeOK /\ EdReqs)'
    BY <1>4 DEF LoadServed
<1>5. ASSUME NEW l \in loads, loadAnswer(l) PROVE (EdTypeOK /\ EdReqs)'
    BY <1>5 DEF loadAnswer
<1>6. ASSUME NEW l \in loads, loadFails(l) PROVE (EdTypeOK /\ EdReqs)'
    BY <1>6 DEF loadFails
<1>7. ASSUME NEW b \in BOOLEAN, saveTextFile(b) PROVE (EdTypeOK /\ EdReqs)'
    BY <1>7 DEF saveTextFile, SaveBegun
<1>8. ASSUME NEW b \in BOOLEAN, hiddenModal(b) PROVE (EdTypeOK /\ EdReqs)'
    <2>1. cur' \in Files \cup {NoFile} /\ orig' \in Texts /\ text' \in Texts /\ UNCHANGED <<stored, textOff, reloadOff, loads, edits, clash>>
        BY <1>8 DEF hiddenModal
    <2>2. edOpen' \in BOOLEAN /\ modified' \in BOOLEAN
        BY <1>8, Zenon DEF hiddenModal
    <2>3. CASE cur # NoFile /\ modified
        <3>1. SaveBegun(b) /\ saveOff' = (saveOff \/ ~b)
            BY <1>8, <2>3 DEF hiddenModal
        <3>2. raced' \in BOOLEAN /\ saveOff' \in BOOLEAN
            BY <3>1, Zenon DEF SaveBegun
        <3>3. edOps' \in 0..MaxEdOps /\ saves' \subseteq [id : Nat, step : {"delay", "sent", "done"}, file : Files \cup {NoFile}, text : Texts]
            BY <3>1 DEF SaveBegun
        <3> QED BY <2>1, <2>2, <3>2, <3>3
    <2>4. CASE ~(cur # NoFile /\ modified)
        <3>1. UNCHANGED <<saves, edOps, saveOff, raced>>
            BY <1>8, <2>4 DEF hiddenModal
        <3> QED BY <2>1, <2>2, <3>1
    <2> QED BY <2>3, <2>4
<1>9. ASSUME NEW s \in saves, saveSent(s) PROVE (EdTypeOK /\ EdReqs)'
    BY <1>9 DEF saveSent
<1>10. ASSUME NEW s \in saves, SaveServed(s) PROVE (EdTypeOK /\ EdReqs)'
    BY <1>10 DEF SaveServed
<1>11. ASSUME NEW s \in saves, saveAnswer(s) PROVE (EdTypeOK /\ EdReqs)'
    BY <1>11 DEF saveAnswer
<1>12. ASSUME NEW s \in saves, saveFails(s) PROVE (EdTypeOK /\ EdReqs)'
    BY <1>12 DEF saveFails
<1>13. CASE UNCHANGED edvars
    BY <1>13 DEF edvars
<1> QED BY <1>1, <1>2, <1>3, <1>4, <1>5, <1>6, <1>7, <1>8, <1>9, <1>10, <1>11, <1>12, <1>13 DEF EdNext

\* No step puts the text of one file beside the name of another.
LEMMA OwnStep == EdInd /\ [EdNext]_edvars => (OwnText /\ NoForeignText)'
<1> SUFFICES ASSUME EdInd, [EdNext]_edvars PROVE (OwnText /\ NoForeignText)'
    OBVIOUS
<1> USE EditorAssumption DEF EdInd, camVars, stateVars, domVars, EdTypeOK, EdReqs, OwnText, NoForeignText, Of
<1>1. ASSUME NEW f \in Files, fileActionEdit(f) PROVE (OwnText /\ NoForeignText)'
    BY <1>1 DEF fileActionEdit, loadTextFile, TextWhileLoading
<1>2. CASE reloadTextBtn
    BY <1>2 DEF reloadTextBtn, loadTextFile, TextWhileLoading
<1>3. CASE input
    BY <1>3 DEF input
<1>4. ASSUME NEW l \in loads, LoadServed(l) PROVE (OwnText /\ NoForeignText)'
    BY <1>4 DEF LoadServed
<1>5. ASSUME NEW l \in loads, loadAnswer(l) PROVE (OwnText /\ NoForeignText)'
    BY <1>5 DEF loadAnswer
<1>6. ASSUME NEW l \in loads, loadFails(l) PROVE (OwnText /\ NoForeignText)'
    BY <1>6 DEF loadFails
<1>7. ASSUME NEW b \in BOOLEAN, saveTextFile(b) PROVE (OwnText /\ NoForeignText)'
    BY <1>7 DEF saveTextFile, SaveBegun
<1>8. ASSUME NEW b \in BOOLEAN, hiddenModal(b) PROVE (OwnText /\ NoForeignText)'
    BY <1>8 DEF hiddenModal, SaveBegun
<1>9. ASSUME NEW s \in saves, saveSent(s) PROVE (OwnText /\ NoForeignText)'
    <2> DEFINE new == [s EXCEPT !.step = "sent", !.file = cur, !.text = text]
    <2>1. saves' = (saves \ {s}) \cup {new} /\ new.file = cur /\ new.text = text
        BY <1>9 DEF saveSent
    <2> HIDE DEF new
    <2>2. UNCHANGED <<stored, cur, orig, text, loads>>
        BY <1>9 DEF saveSent
    <2> QED BY <2>1, <2>2
<1>10. ASSUME NEW s \in saves, SaveServed(s) PROVE (OwnText /\ NoForeignText)'
    BY <1>10 DEF SaveServed
<1>11. ASSUME NEW s \in saves, saveAnswer(s) PROVE (OwnText /\ NoForeignText)'
    BY <1>11 DEF saveAnswer
<1>12. ASSUME NEW s \in saves, saveFails(s) PROVE (OwnText /\ NoForeignText)'
    BY <1>12 DEF saveFails
<1>13. CASE UNCHANGED edvars
    BY <1>13 DEF edvars
<1> QED BY <1>1, <1>2, <1>3, <1>4, <1>5, <1>6, <1>7, <1>8, <1>9, <1>10, <1>11, <1>12, <1>13 DEF EdNext

\* loadTextFile up to its fetch: the textarea is locked, and a save under way is a race, with a
\* modified text a clash.
LEMMA LoadBegins ==
    ASSUME EdInd, NEW f \in Files, loadTextFile(f), UNCHANGED <<camVars, stateVars, saves>>
    PROVE  (Unraced /\ UnsavedIsFlagged /\ BlankOnlyByLoad /\ Unclashed)'
<1> USE EditorAssumption DEF EdInd, camVars, stateVars, EdTypeOK, EdReqs
<1> DEFINE new == [id |-> edOps + 1, file |-> f, got |-> {}]
<1>1. loads' = loads \cup {new} /\ new.got = {} /\ new.file = f
    BY DEF loadTextFile
<1> HIDE DEF new
<1>2. textOff' /\ (~raced' => ~raced /\ saves = {}) /\ (~clash' => ~clash /\ ~modified /\ saves = {})
    BY Zenon DEF loadTextFile
<1>3. UNCHANGED <<stored, cur, orig, modified, saves>>
    OBVIOUS
<1>4. Unraced' /\ UnsavedIsFlagged'
    BY <1>1, <1>2, <1>3 DEF Unraced, UnsavedIsFlagged
<1>5. BlankOnlyByLoad' /\ Unclashed'
    BY <1>1, <1>2, <1>3 DEF BlankOnlyByLoad, Unclashed
<1> QED BY <1>4, <1>5

\* Without a race every step keeps loads, saves and what is shown true to what is stored.
LEMMA RaceStep == EdInd /\ [EdNext]_edvars => (Unraced /\ UnsavedIsFlagged)'
<1> SUFFICES ASSUME EdInd, [EdNext]_edvars PROVE (Unraced /\ UnsavedIsFlagged)'
    OBVIOUS
<1> USE EditorAssumption DEF EdInd, camVars, stateVars, domVars, EdTypeOK, EdReqs, Unraced, UnsavedIsFlagged
<1>1. ASSUME NEW f \in Files, fileActionEdit(f) PROVE (Unraced /\ UnsavedIsFlagged)'
    BY <1>1, LoadBegins DEF fileActionEdit
<1>2. CASE reloadTextBtn
    <2>1. cur \in Files
        BY <1>2 DEF reloadTextBtn
    <2> QED BY <1>2, <2>1, LoadBegins DEF reloadTextBtn
<1>3. CASE input
    BY <1>3 DEF input
<1>4. ASSUME NEW l \in loads, LoadServed(l) PROVE (Unraced /\ UnsavedIsFlagged)'
    BY <1>4 DEF LoadServed
<1>5. ASSUME NEW l \in loads, loadAnswer(l) PROVE (Unraced /\ UnsavedIsFlagged)'
    BY <1>5 DEF loadAnswer
<1>6. ASSUME NEW l \in loads, loadFails(l) PROVE (Unraced /\ UnsavedIsFlagged)'
    BY <1>6 DEF loadFails
<1>7. ASSUME NEW b \in BOOLEAN, saveTextFile(b) PROVE (Unraced /\ UnsavedIsFlagged)'
    <2> DEFINE new == [id |-> edOps + 1, step |-> IF b THEN "delay" ELSE "sent", file |-> cur, text |-> text]
    <2>1. saves' = saves \cup {new} /\ new.file = cur /\ new.text = text /\ new.step # "done"
        BY <1>7 DEF saveTextFile, SaveBegun
    <2> HIDE DEF new
    <2>2. ~raced' => ~raced /\ loads = {}
        BY <1>7, Zenon DEF saveTextFile, SaveBegun
    <2>3. UNCHANGED <<stored, cur, orig, modified, text, textOff, loads>>
        BY <1>7 DEF saveTextFile
    <2> QED BY <2>1, <2>2, <2>3
<1>8. ASSUME NEW b \in BOOLEAN, hiddenModal(b) PROVE (Unraced /\ UnsavedIsFlagged)'
    BY <1>8 DEF hiddenModal, SaveBegun
<1>9. ASSUME NEW s \in saves, saveSent(s) PROVE (Unraced /\ UnsavedIsFlagged)'
    BY <1>9 DEF saveSent
<1>10. ASSUME NEW s \in saves, SaveServed(s) PROVE (Unraced /\ UnsavedIsFlagged)'
    <2> DEFINE new == [s EXCEPT !.step = "done"]
    <2>1. new.file = s.file /\ new.text = s.text /\ new.step = "done" /\ s.file \in Files
        BY <1>10 DEF SaveServed
    <2>2. saves' = (saves \ {s}) \cup {new} /\ stored' = [stored EXCEPT ![s.file] = s.text]
        BY <1>10 DEF SaveServed
    <2> HIDE DEF new
    <2>3. UNCHANGED <<cur, orig, modified, text, textOff, loads, raced>>
        BY <1>10 DEF SaveServed
    <2>4. ~raced => loads = {}
        OBVIOUS
    <2>5. ASSUME ~raced, cur # NoFile PROVE s.file = cur /\ s.text = text /\ stored'[cur] = text
        BY <2>1, <2>2, <2>5
    <2>6. Unraced'
        BY <2>1, <2>2, <2>3, <2>4, <2>5
    <2>7. UnsavedIsFlagged'
        BY <2>3, <2>5
    <2> QED BY <2>6, <2>7
<1>11. ASSUME NEW s \in saves, saveAnswer(s) PROVE (Unraced /\ UnsavedIsFlagged)'
    BY <1>11 DEF saveAnswer
<1>12. ASSUME NEW s \in saves, saveFails(s) PROVE (Unraced /\ UnsavedIsFlagged)'
    BY <1>12 DEF saveFails
<1>13. CASE UNCHANGED edvars
    BY <1>13 DEF edvars
<1> QED BY <1>1, <1>2, <1>3, <1>4, <1>5, <1>6, <1>7, <1>8, <1>9, <1>10, <1>11, <1>12, <1>13 DEF EdNext

\* Without a clash no step sends an empty textarea.
LEMMA ClashStep == EdInd /\ [EdNext]_edvars => (BlankOnlyByLoad /\ Unclashed)'
<1> SUFFICES ASSUME EdInd, [EdNext]_edvars PROVE (BlankOnlyByLoad /\ Unclashed)'
    OBVIOUS
<1> USE EditorAssumption DEF EdInd, camVars, stateVars, domVars, EdTypeOK, EdReqs, BlankOnlyByLoad, Unclashed
<1>1. ASSUME NEW f \in Files, fileActionEdit(f) PROVE (BlankOnlyByLoad /\ Unclashed)'
    BY <1>1, LoadBegins DEF fileActionEdit
<1>2. CASE reloadTextBtn
    <2>1. cur \in Files
        BY <1>2 DEF reloadTextBtn
    <2> QED BY <1>2, <2>1, LoadBegins DEF reloadTextBtn
<1>3. CASE input
    <2>1. UNCHANGED <<stored, cur, orig, loads, saves>>
        BY <1>3 DEF input
    <2>2. ~clash' => ~clash /\ loads = {}
        BY <1>3, Zenon DEF input
    <2>3. text' # Blank \/ text' = orig
        BY <1>3 DEF input, Blank
    <2> QED BY <1>3, <2>1, <2>2, <2>3
<1>4. ASSUME NEW l \in loads, LoadServed(l) PROVE (BlankOnlyByLoad /\ Unclashed)'
    BY <1>4 DEF LoadServed
<1>5. ASSUME NEW l \in loads, loadAnswer(l) PROVE (BlankOnlyByLoad /\ Unclashed)'
    BY <1>5 DEF loadAnswer
<1>6. ASSUME NEW l \in loads, loadFails(l) PROVE (BlankOnlyByLoad /\ Unclashed)'
    BY <1>6 DEF loadFails
<1>7. ASSUME NEW b \in BOOLEAN, saveTextFile(b) PROVE (BlankOnlyByLoad /\ Unclashed)'
    BY <1>7 DEF saveTextFile, SaveBegun
<1>8. ASSUME NEW b \in BOOLEAN, hiddenModal(b) PROVE (BlankOnlyByLoad /\ Unclashed)'
    BY <1>8 DEF hiddenModal, SaveBegun
<1>9. ASSUME NEW s \in saves, saveSent(s) PROVE (BlankOnlyByLoad /\ Unclashed)'
    BY <1>9 DEF saveSent
<1>10. ASSUME NEW s \in saves, SaveServed(s) PROVE (BlankOnlyByLoad /\ Unclashed)'
    BY <1>10 DEF SaveServed
<1>11. ASSUME NEW s \in saves, saveAnswer(s) PROVE (BlankOnlyByLoad /\ Unclashed)'
    BY <1>11 DEF saveAnswer
<1>12. ASSUME NEW s \in saves, saveFails(s) PROVE (BlankOnlyByLoad /\ Unclashed)'
    BY <1>12 DEF saveFails
<1>13. CASE UNCHANGED edvars
    BY <1>13 DEF edvars
<1> QED BY <1>1, <1>2, <1>3, <1>4, <1>5, <1>6, <1>7, <1>8, <1>9, <1>10, <1>11, <1>12, <1>13 DEF EdNext

LEMMA EdIndInit == EdInit => EdInd
<1> SUFFICES ASSUME EdInit PROVE EdInd
    OBVIOUS
<1> USE EditorAssumption
<1>1. /\ edOpen \in BOOLEAN /\ modified \in BOOLEAN /\ textOff \in BOOLEAN /\ saveOff \in BOOLEAN /\ reloadOff \in BOOLEAN
      /\ clash \in BOOLEAN /\ raced \in BOOLEAN /\ ~clash /\ ~raced
    BY Zenon DEF EdInit
<1>2. \A f \in Files : stored[f] = <<f, 0>> /\ <<f, 0>> \in Texts /\ <<f, 0>> \in {f} \X (0..MaxEdits)
    BY DEF EdInit, Texts
<1>3. EdTypeOK /\ EdReqs
    BY <1>1, <1>2 DEF EdInit, EdTypeOK, EdReqs, Texts
<1>4. OwnText /\ NoForeignText
    BY <1>2 DEF EdInit, OwnText, NoForeignText, Of
<1>5. UnsavedIsFlagged /\ Unraced
    BY DEF EdInit, UnsavedIsFlagged, Unraced
<1>6. BlankOnlyByLoad /\ Unclashed
    BY <1>2 DEF EdInit, BlankOnlyByLoad, Unclashed, Blank
<1> QED BY <1>3, <1>4, <1>5, <1>6 DEF EdInd

\* The editor's invariant is inductive.
LEMMA EdIndStep == EdInd /\ [EdNext]_edvars => EdInd'
BY EdType, OwnStep, RaceStep, ClashStep DEF EdInd

-----------------------------------------------------------------------------
\* Each step of the composition is a step of one tool or leaves that tool alone.
LEMMA ToolsStep == [MCNext]_mvars => [EdNext]_edvars /\ [FmNext]_dvars /\ [SdNext]_sdvars
BY DEF MCNext, mvars, ConfirmStep, CommandStep, EditorStep, FilesStep, SdCardStep, edvars, dvars, sdvars

LEMMA ToolsInit == MCInit => EdInit /\ FmInit /\ SdInit
BY DEF MCInit

\* Each file keeps its own text, unsaved text is flagged and only a load blanks a file, however
\* late loads, delayed saves and reopened dialogs follow each other.
THEOREM EditorSafe == MCSpec => []EditorInv
<1>1. MCInit => EdInd
    BY ToolsInit, EdIndInit
<1>2. EdInd /\ [MCNext]_mvars => EdInd'
    BY ToolsStep, EdIndStep
<1>3. EdInd => EditorInv
    BY DEF EdInd, EditorInv
<1> QED BY <1>1, <1>2, <1>3, PTL DEF MCSpec

\* Page, state and address of the file manager agree, however loads overlap and fail.
THEOREM ListingSafe == MCSpec => []ListingInv
<1>1. MCInit => FmInd
    BY ToolsInit, FmIndInit
<1>2. FmInd /\ [MCNext]_mvars => FmInd'
    BY ToolsStep, FmIndStep
<1> QED BY <1>1, <1>2, FmIndInv, PTL DEF MCSpec

\* The watch never takes the user elsewhere and no format leaves its dialog's filesystem.
THEOREM ToolStepsSafe == MCSpec => ToolSteps
<1>1. MCInit => FmInd /\ SdInd
    BY ToolsInit, FmIndInit, SdIndInit
<1>2. FmInd /\ SdInd /\ [MCNext]_mvars => (FmInd /\ SdInd)'
    BY ToolsStep, FmIndStep, SdIndStep
<1>3. FmInd /\ SdInd /\ [MCNext]_mvars => [SilentStays /\ NamedFormat]_mvars
    <2> SUFFICES ASSUME FmInd, SdInd, [MCNext]_mvars PROVE SilentStays /\ NamedFormat
        OBVIOUS
    <2>1. SilentStays
        BY SilentStep
    <2>2. [NamedFormat]_sdvars
        BY ToolsStep, NamedStep
    <2>3. NamedFormat
        BY <2>2 DEF sdvars, NamedFormat
    <2> QED BY <2>1, <2>3
<1> QED BY <1>1, <1>2, <1>3, PTL DEF MCSpec, ToolSteps
=============================================================================
