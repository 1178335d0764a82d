------------------------------- MODULE SdCard -------------------------------
(***************************************************************************)
(* The SD card page (tool-sdcard.js): what it knows of the card, the       *)
(* format form, its confirmation dialog, and the loads and formats that    *)
(* are under way.                                                          *)
(***************************************************************************)
EXTENDS Naturals, FiniteSets

CONSTANTS
    Filesystems, FirstFs,   \* the choices, and the one that is listed first
    MaxSdOps,       \* bound: loads and formats begun
    MaxSwaps        \* bound: times the card is put in or taken out

ASSUME SdAssumption == FirstFs \in Filesystems /\ MaxSdOps \in Nat /\ MaxSwaps \in Nat

VARIABLES
    card,       \* TRUE if the camera has a card
    known,      \* lastState: "none" before the first answer, else what it said
    submitOff, refreshOff, confirmOff,      \* buttons that are disabled
    selected,   \* the radio button that is checked, a set of at most one
    dialog,     \* formatConfirmModal is open
    pending,    \* pendingFilesystem, which the dialog names
    sdLoads,    \* loads under way; got is what the camera found, once it has
    formats,    \* formats under way: sent, or finished with what the camera found
    sdOps, swaps,
    overlap     \* history: a load came to its end while a format was under way

sdvars == <<card, known, submitOff, refreshOff, confirmOff, selected, dialog, pending, sdLoads, formats,
            sdOps, swaps, overlap>>

\* The page, with its first load under way.
SdInit == /\ card \in BOOLEAN /\ known = "none"
          /\ submitOff = FALSE /\ refreshOff = TRUE /\ confirmOff = FALSE
          /\ selected = {} /\ dialog = FALSE /\ pending = FirstFs
          /\ sdLoads = {[id |-> 0, got |-> {}]} /\ formats = {} /\ sdOps = 0 /\ swaps = 0
          /\ overlap = FALSE

HasCard == known = "present"

loadStateSd ==
    /\ ~refreshOff /\ sdOps < MaxSdOps
    /\ sdOps' = sdOps + 1
    /\ refreshOff' = TRUE
    /\ sdLoads' = sdLoads \cup {[id |-> sdOps + 1, got |-> {}]}
    /\ UNCHANGED <<card, known, submitOff, confirmOff, selected, dialog, pending, formats, swaps, overlap>>

SdLoadServed(l) ==
    /\ l.got = {}
    /\ sdLoads' = (sdLoads \ {l}) \cup {[l EXCEPT !.got = {card}]}
    /\ UNCHANGED <<card, known, submitOff, refreshOff, confirmOff, selected, dialog, pending, formats, sdOps, swaps, overlap>>

\* The list is built anew: the first entry is checked, also where another one was before
\* (populateFilesystems takes the index before it comes to the earlier choice).
populateFilesystems == {FirstFs}

\* The form is enabled by the card alone (setCardEnabled, setFormBusy(false)).
applyStateSd(present) ==
    /\ known' = IF present THEN "present" ELSE "absent"
    /\ selected' = populateFilesystems
    /\ submitOff' = ~present

sdLoadAnswer(l) ==
    \E present \in l.got :
    /\ sdLoads' = sdLoads \ {l}
    /\ applyStateSd(present)
    /\ refreshOff' = FALSE
    /\ overlap' = (overlap \/ formats # {})
    /\ UNCHANGED <<card, confirmOff, dialog, pending, formats, sdOps, swaps>>

\* catch and finally: setFormBusy(false) goes by what was known before.
sdLoadFails(l) ==
    /\ sdLoads' = sdLoads \ {l}
    /\ submitOff' = ~HasCard /\ refreshOff' = FALSE
    /\ overlap' = (overlap \/ formats # {})
    /\ UNCHANGED <<card, known, confirmOff, selected, dialog, pending, formats, sdOps, swaps>>

Select(f) ==
    /\ ~submitOff /\ HasCard /\ selected # {f}
    /\ selected' = {f}
    /\ UNCHANGED <<card, known, submitOff, refreshOff, confirmOff, dialog, pending, sdLoads, formats, sdOps, swaps, overlap>>

\* The form's submit: the dialog names the filesystem and its button is enabled.
showFormatConfirmModal ==
    /\ ~submitOff /\ HasCard /\ ~dialog
    /\ \E f \in selected : pending' = f
    /\ dialog' = TRUE /\ confirmOff' = FALSE
    /\ UNCHANGED <<card, known, submitOff, refreshOff, selected, sdLoads, formats, sdOps, swaps, overlap>>

cancelFormat ==
    /\ dialog
    /\ dialog' = FALSE
    /\ UNCHANGED <<card, known, submitOff, refreshOff, confirmOff, selected, pending, sdLoads, formats, sdOps, swaps, overlap>>

\* Mutant: the choice of the form is read when the dialog is answered.
executeFormat_selected ==
    /\ dialog /\ ~confirmOff /\ sdOps < MaxSdOps
    /\ sdOps' = sdOps + 1
    /\ dialog' = FALSE /\ confirmOff' = TRUE /\ submitOff' = TRUE
    /\ \E f \in selected : formats' = formats \cup {[id |-> sdOps + 1, fs |-> f, got |-> {}]}
    /\ UNCHANGED <<card, known, refreshOff, selected, pending, sdLoads, swaps, overlap>>

\* The dialog's button: executeFormat(pendingFilesystem) up to its fetch.
executeFormat ==
    /\ dialog /\ ~confirmOff /\ sdOps < MaxSdOps
    /\ sdOps' = sdOps + 1
    /\ dialog' = FALSE /\ confirmOff' = TRUE /\ submitOff' = TRUE
    /\ formats' = formats \cup {[id |-> sdOps + 1, fs |-> pending, got |-> {}]}
    /\ UNCHANGED <<card, known, refreshOff, selected, pending, sdLoads, swaps, overlap>>

FormatServed(x) ==
    /\ x.got = {}
    /\ formats' = (formats \ {x}) \cup {[x EXCEPT !.got = {card}]}
    /\ UNCHANGED <<card, known, submitOff, refreshOff, confirmOff, selected, dialog, pending, sdLoads, sdOps, swaps, overlap>>

\* The answer's data is applied, then the form and the dialog's button are released.
formatAnswer(x) ==
    \E present \in x.got :
    /\ present
    /\ formats' = formats \ {x}
    /\ applyStateSd(present)
    /\ confirmOff' = FALSE
    /\ UNCHANGED <<card, refreshOff, dialog, pending, sdLoads, sdOps, swaps, overlap>>

\* Mutant: catch does not release the form.
formatFails_stuck(x) ==
    /\ formats' = formats \ {x}
    /\ confirmOff' = FALSE
    /\ UNCHANGED <<card, known, submitOff, refreshOff, selected, dialog, pending, sdLoads, sdOps, swaps, overlap>>

formatFails(x) ==
    /\ formats' = formats \ {x}
    /\ submitOff' = ~HasCard /\ confirmOff' = FALSE
    /\ UNCHANGED <<card, known, refreshOff, selected, dialog, pending, sdLoads, sdOps, swaps, overlap>>

CardSwapped ==
    /\ swaps < MaxSwaps
    /\ swaps' = swaps + 1 /\ card' = ~card
    /\ UNCHANGED <<known, submitOff, refreshOff, confirmOff, selected, dialog, pending, sdLoads, formats, sdOps, overlap>>

SdNext == \/ loadStateSd \/ showFormatConfirmModal \/ cancelFormat \/ executeFormat \/ CardSwapped
          \/ \E f \in Filesystems : Select(f)
          \/ \E l \in sdLoads : SdLoadServed(l) \/ sdLoadAnswer(l) \/ sdLoadFails(l)
          \/ \E x \in formats : FormatServed(x) \/ formatAnswer(x) \/ formatFails(x)

SdSpec == SdInit /\ [][SdNext]_sdvars
-----------------------------------------------------------------------------
\* Every variable has its type.
SdTypeOK ==
    /\ card \in BOOLEAN /\ known \in {"none", "present", "absent"}
    /\ submitOff \in BOOLEAN /\ refreshOff \in BOOLEAN /\ confirmOff \in BOOLEAN /\ dialog \in BOOLEAN
    /\ selected \subseteq Filesystems /\ Cardinality(selected) <= 1 /\ pending \in Filesystems
    /\ \A l \in sdLoads : l.got \subseteq BOOLEAN
    /\ \A x \in formats : x.fs \in Filesystems /\ x.got \subseteq BOOLEAN
    /\ sdOps \in 0..MaxSdOps /\ swaps \in 0..MaxSwaps /\ overlap \in BOOLEAN

\* The form is locked while a format runs: a second one can be begun only after a refresh came
\* to its end meanwhile (every loadState ends with setFormBusy(false)).
OneFormat == Cardinality(formats) <= 1 \/ overlap

\* What is formatted is what the open dialog named, although a refresh behind the dialog builds
\* the choices anew (pendingFilesystem).
NamedFormat == \A x \in formats' : (\E y \in formats : y.id = x.id) \/ (dialog /\ x.fs = pending)

\* Once the page knows the camera's answer and nothing runs, the form can be used exactly if
\* there was a card: no order of failures, refreshes and formats leaves it locked or open.
FormFollowsCard == formats = {} /\ known # "none" => submitOff = ~HasCard

\* One format at a time, and a form that is usable exactly when there is a card.
SdInv == SdTypeOK /\ OneFormat /\ FormFollowsCard
=============================================================================
