--------------------------- MODULE ConfirmDialog ----------------------------
(***************************************************************************)
(* window.confirm of the web UI (main.js): one Bootstrap dialog shared by  *)
(* every question, each with handlers of its own on the same two buttons.  *)
(* Elements of class "confirm" are pressed again once their question is    *)
(* answered; handlers await the answer themselves; some callers do not     *)
(* await it. A key held down presses several times before the dialog takes *)
(* the focus.                                                              *)
(***************************************************************************)
EXTENDS Naturals, FiniteSets

CONSTANTS
    Elements, Handlers, Unawaited,      \* the three kinds of callers
    MaxPresses      \* bound: presses of a caller by the user

ASSUME ConfirmAssumption ==
    /\ MaxPresses \in Nat
    /\ Elements \cap Handlers = {} /\ Elements \cap Unawaited = {} /\ Handlers \cap Unawaited = {}

VARIABLES
    modal,      \* Bootstrap's _isShown and _isTransitioning
    fading,     \* the modal is gone, its hidden event is still to come
    asked,      \* asked[c]: questions of c that are not answered
    bypass,     \* elements with confirmBypass
    clicks,     \* clicks[e]: timeouts that will press e
    onPage,     \* elements on the page
    attached,   \* confirmProcessedElements
    scanScheduled, scans,   \* confirmScanScheduled, and the callbacks still to run
    acts,       \* acts[c]: times c did what it asked about
    yes,        \* times "Continue" answered something
    presses,
    early,      \* history: a dialog ended while it was fading in, or began while one faded out
    doubled     \* history: a caller asked while its question was open

cvars == <<modal, fading, asked, bypass, clicks, onPage, attached, scanScheduled, scans, acts, yes, presses, early, doubled>>

Callers == Elements \cup Handlers \cup Unawaited

\* The page is loaded and scanned; elements may be added later.
CInit == /\ modal = "hidden" /\ fading = FALSE
         /\ asked = [c \in Callers |-> 0] /\ bypass = {} /\ clicks = [e \in Elements |-> 0]
         /\ onPage \in SUBSET Elements /\ attached = onPage
         /\ scanScheduled = FALSE /\ scans = 0
         /\ acts = [c \in Callers |-> 0] /\ yes = 0 /\ presses = 0
         /\ early = FALSE /\ doubled = FALSE

Open == {c \in Callers : asked[c] > 0}

\* Bootstrap ignores show() while the modal is shown or moves, hide() unless it stands still.
Show == IF modal = "hidden" THEN "showing" ELSE modal
Hide == IF modal = "shown" THEN "hiding" ELSE modal

\* A new question: handlers on the buttons, then show().
showConfirmDialog(c) ==
    /\ asked' = [asked EXCEPT ![c] = @ + 1]
    /\ modal' = Show
    /\ early' = (early \/ fading \/ modal = "hiding")
    /\ doubled' = (doubled \/ asked[c] > 0)

Asks(c) == showConfirmDialog(c) /\ UNCHANGED <<bypass, acts>>
Acts(c) == /\ acts' = [acts EXCEPT ![c] = @ + 1]
           /\ UNCHANGED <<modal, asked, early, doubled>>

\* Mutant: the flag is left for the next click.
handleConfirmableClick_keeps(e) ==
    IF e \in bypass THEN Acts(e) /\ UNCHANGED bypass ELSE Asks(e)

\* Let an announced click through, ask about any other. A form's submit does the same.
handleConfirmableClick(e) ==
    IF e \in bypass THEN bypass' = bypass \ {e} /\ Acts(e) ELSE Asks(e)

\* The user presses a caller; one that does not await the answer acts at once. A button that
\* was not scanned yet has no question.
Press(c) ==
    /\ presses < MaxPresses
    /\ presses' = presses + 1
    /\ CASE c \in attached -> handleConfirmableClick(c)
         [] c \in Handlers -> Asks(c)
         [] c \in Unawaited -> /\ showConfirmDialog(c) /\ UNCHANGED bypass
                               /\ acts' = [acts EXCEPT ![c] = @ + 1]
         [] OTHER -> c \in onPage /\ UNCHANGED <<modal, asked, bypass, acts, early, doubled>>
    /\ UNCHANGED <<fading, clicks, onPage, attached, scanScheduled, scans, yes>>

\* The timeout of an answered question presses its element.
clickAgain(e) ==
    /\ clicks[e] > 0
    /\ clicks' = [clicks EXCEPT ![e] = @ - 1]
    /\ handleConfirmableClick(e)
    /\ UNCHANGED <<fading, onPage, attached, scanScheduled, scans, yes, presses>>

\* finalize(result) of every open question: they all listen on the same buttons.
finalize(result) ==
    /\ asked' = [c \in Callers |-> 0]
    /\ modal' = Hide
    /\ early' = (early \/ modal = "showing")
    /\ IF result
       THEN /\ bypass' = bypass \cup (Open \cap Elements)
            /\ clicks' = [e \in Elements |-> clicks[e] + asked[e]]
            /\ acts' = [c \in Callers |-> IF c \in Handlers THEN acts[c] + asked[c] ELSE acts[c]]
       ELSE UNCHANGED <<bypass, clicks, acts>>

\* "Continue", "Cancel" or the close button.
answer(result) ==
    /\ modal # "hidden" /\ Open # {}
    /\ finalize(result)
    /\ yes' = IF result THEN yes + 1 ELSE yes
    /\ UNCHANGED <<fading, onPage, attached, scanScheduled, scans, presses, doubled>>

ShownEnds == /\ modal = "showing" /\ ~fading
             /\ modal' = "shown"
             /\ UNCHANGED <<fading, asked, bypass, clicks, onPage, attached, scanScheduled, scans, acts, yes, presses, early, doubled>>

\* Escape, or a click beside the dialog.
Escape == /\ modal = "shown"
          /\ modal' = "hiding"
          /\ UNCHANGED <<fading, asked, bypass, clicks, onPage, attached, scanScheduled, scans, acts, yes, presses, early, doubled>>

HideEnds == /\ modal = "hiding"
            /\ modal' = "hidden" /\ fading' = TRUE
            /\ UNCHANGED <<asked, bypass, clicks, onPage, attached, scanScheduled, scans, acts, yes, presses, early, doubled>>

\* The hidden event cancels whatever is open by then.
handleHidden ==
    /\ fading
    /\ fading' = FALSE
    /\ IF Open # {} THEN finalize(FALSE) ELSE UNCHANGED <<modal, asked, bypass, clicks, acts, early>>
    /\ UNCHANGED <<onPage, attached, scanScheduled, scans, yes, presses, doubled>>

\* The observer sees new elements: one scan for any number of them.
confirmMutationObserver(e) ==
    /\ e \notin onPage
    /\ onPage' = onPage \cup {e}
    /\ scanScheduled' = TRUE
    /\ scans' = IF scanScheduled THEN scans ELSE scans + 1
    /\ UNCHANGED <<modal, fading, asked, bypass, clicks, attached, acts, yes, presses, early, doubled>>

scanConfirmTriggers ==
    /\ scans > 0
    /\ scans' = scans - 1 /\ scanScheduled' = FALSE
    /\ attached' = attached \cup onPage
    /\ UNCHANGED <<modal, fading, asked, bypass, clicks, onPage, acts, yes, presses, early, doubled>>

Animation == ShownEnds \/ HideEnds \/ handleHidden

CNext == \/ \E c \in Callers : Press(c)
         \/ \E e \in Elements : clickAgain(e) \/ confirmMutationObserver(e)
         \/ \E r \in BOOLEAN : answer(r)
         \/ Animation \/ Escape \/ scanConfirmTriggers

CSpec == CInit /\ [][CNext]_cvars
-----------------------------------------------------------------------------
\* Every variable has its type.
CTypeOK ==
    /\ modal \in {"hidden", "showing", "shown", "hiding"} /\ fading \in BOOLEAN
    /\ asked \in [Callers -> Nat] /\ bypass \subseteq Elements /\ clicks \in [Elements -> Nat]
    /\ onPage \subseteq Elements /\ attached \subseteq onPage /\ scanScheduled \in BOOLEAN /\ scans \in 0..1
    /\ acts \in [Callers -> Nat] /\ yes \in Nat /\ presses \in 0..MaxPresses

\* One "Continue", one act: however often a scanned element is pressed while its dialog comes
\* and goes, it acts at most once per answer. A handler that awaits the answer does too,
\* unless it was started again while its question was open (a key held down).
OneAnswerOneAct == \A c \in Elements \cup Handlers : (c \in Handlers => ~doubled) => acts[c] <= yes

\* No promise waits behind a dialog that is gone: while a question is open the dialog is on
\* the screen, or its hidden event is still to come and will cancel the question.
NeverUnanswerable == Open # {} => modal # "hidden" \/ fading

\* A dialog that stands on the screen with nobody behind its buttons comes only from an answer
\* during the fade-in or a question asked during the fade-out (Bootstrap drops hide and show).
OrphanOnlyFromFades == modal = "shown" /\ Open = {} => early

\* A question asked while the dialog fades out is never shown: it ends, as a "no".
LateQuestionEnds == Open # {} /\ modal = "hiding" ~> Open = {}

\* Every element that comes to the page gets its question.
ScanFollows == \A e \in Elements : e \in onPage ~> e \in attached

\* One answer, one act; no question without a dialog, no dialog without a question.
DialogInv == CTypeOK /\ OneAnswerOneAct /\ NeverUnanswerable /\ OrphanOnlyFromFades
=============================================================================
