-------------------------- MODULE PreviewControls ---------------------------
(***************************************************************************)
(* The controls of the preview and streamer pages (preview.js). Stream,    *)
(* OSD and image controls are set through prudynt, whose answer is shown;  *)
(* the two font controls are always sent together; an imaging slider is    *)
(* set in the ISP first and then persisted in prudynt's configuration.     *)
(***************************************************************************)
EXTENDS Naturals, FiniteSets, Functions

CONSTANTS
    Plain, Fonts, Imaging,      \* the three kinds of controls
    Values,
    MaxSets         \* bound: loads and changes begun

\* What an input holds before anything was loaded; sent as a number it would be zero.
Unset == "unset"

ASSUME ControlsAssumption == /\ MaxSets \in Nat /\ Cardinality(Values) > 1 /\ Unset \notin Values
                             /\ Fonts \cap (Plain \cup Imaging) = {} /\ Plain \cap Imaging = {}

VARIABLES
    live,       \* what the camera does
    conf,       \* what prudynt's configuration says
    shown,      \* the controls' values
    enabled,    \* the controls that are enabled
    pcReqs,     \* requests under way: their kind, what they carry and what the camera answered
    sets,
    risky       \* history: controls that had two requests under way at once, or one that failed

pcvars == <<live, conf, shown, enabled, pcReqs, sets, risky>>

Controls == Plain \cup Fonts \cup Imaging
Prudynt == Plain \cup Fonts

\* The controls a request touches, and those of all requests.
Touched(r) == DOMAIN r.vals
Busy == UNION {Touched(r) : r \in pcReqs}

NoAnswer == {}
Req(kind, vals) == [id |-> sets + 1, kind |-> kind, vals |-> vals, got |-> NoAnswer]

\* The page, with its two loads under way.
PcInit == /\ live \in [Controls -> Values] /\ conf = live
          /\ shown = [c \in Controls |-> Unset] /\ enabled = {}
          /\ pcReqs = {[id |-> 0, kind |-> "load", vals |-> [c \in Prudynt |-> Unset], got |-> NoAnswer],
                       [id |-> 0, kind |-> "fetch", vals |-> [c \in Imaging |-> Unset], got |-> NoAnswer]}
          /\ sets = 0 /\ risky = {}

Send(r) == /\ pcReqs' = pcReqs \cup {r}
           /\ sets' = sets + 1
           /\ risky' = risky \cup (Busy \cap Touched(r))

\* The reload button: only the prudynt controls.
loadConfig ==
    /\ sets < MaxSets
    /\ Send(Req("load", [c \in Prudynt |-> Unset]))
    /\ UNCHANGED <<live, conf, shown, enabled>>

\* setFont reads both inputs; every other control is sent alone.
Payload(c, v) == IF c \in Fonts THEN [d \in Fonts |-> IF d = c THEN v ELSE shown[d]] ELSE [d \in {c} |-> v]

\* saveStreamValue, sendOsdUpdate, setFont and saveImageValue.
change(c, v) ==
    /\ c \in Prudynt \cap enabled /\ sets < MaxSets
    /\ shown' = [shown EXCEPT ![c] = v]
    /\ Send(Req("set", Payload(c, v)))
    /\ UNCHANGED <<live, conf, enabled>>

\* A slider of the imaging dialog, or a double click back to its default.
sendImagingUpdate(c, v) ==
    /\ c \in Imaging \cap enabled /\ sets < MaxSets
    /\ shown' = [shown EXCEPT ![c] = v]
    /\ Send(Req("imaging", [d \in {c} |-> v]))
    /\ UNCHANGED <<live, conf, enabled>>

\* The camera serves a request. prudynt sets what it is given and answers with the values, the
\* ISP knows only what is live, and persisting changes the configuration alone.
PcServed(r) ==
    LET new == [c \in Controls |-> IF c \in Touched(r) THEN r.vals[c] ELSE live[c]]
    IN  /\ r.got = NoAnswer
        /\ live' = IF r.kind \in {"set", "imaging"} THEN new ELSE live
        /\ conf' = IF r.kind \in {"set", "persist"}
                   THEN [c \in Controls |-> IF c \in Touched(r) THEN r.vals[c] ELSE conf[c]] ELSE conf
        /\ pcReqs' = (pcReqs \ {r}) \cup {[r EXCEPT !.got = {Restrict(live', Touched(r))}]}
        /\ UNCHANGED <<shown, enabled, sets, risky>>

\* handleMessage, handleOsdData and applyFieldMetadata: show and enable what came back.
handleMessage(vals) ==
    /\ shown' = [c \in Controls |-> IF c \in DOMAIN vals THEN vals[c] ELSE shown[c]]
    /\ enabled' = enabled \cup DOMAIN vals

\* The answer of prudynt, or the first one of the ISP.
pcAnswer(r) ==
    \E vals \in r.got :
    /\ r.kind \in {"load", "fetch", "set"}
    /\ pcReqs' = pcReqs \ {r}
    /\ handleMessage(vals)
    /\ UNCHANGED <<live, conf, sets, risky>>

\* Mutant: nothing is persisted.
imagingAnswer_no_persist(r) ==
    \E vals \in r.got :
    /\ r.kind = "imaging"
    /\ pcReqs' = pcReqs \ {r}
    /\ handleMessage(vals)
    /\ UNCHANGED <<live, conf, sets, risky>>

\* The ISP answers a slider: show it, then persist the value that was asked for.
imagingAnswer(r) ==
    \E vals \in r.got :
    /\ r.kind = "imaging"
    /\ pcReqs' = (pcReqs \ {r}) \cup {[r EXCEPT !.kind = "persist", !.got = NoAnswer]}
    /\ handleMessage(vals)
    /\ UNCHANGED <<live, conf, sets, risky>>

persistAnswer(r) ==
    /\ r.kind = "persist" /\ r.got # NoAnswer
    /\ pcReqs' = pcReqs \ {r}
    /\ UNCHANGED <<live, conf, shown, enabled, sets, risky>>

\* catch: a failure is logged; the control keeps what the user chose.
pcFails(r) ==
    /\ pcReqs' = pcReqs \ {r}
    /\ risky' = IF r.kind \in {"load", "fetch"} THEN risky ELSE risky \cup Touched(r)
    /\ UNCHANGED <<live, conf, shown, enabled, sets>>

PcNext == \/ loadConfig
          \/ \E c \in Controls, v \in Values : change(c, v) \/ sendImagingUpdate(c, v)
          \/ \E r \in pcReqs : PcServed(r) \/ pcAnswer(r) \/ imagingAnswer(r) \/ persistAnswer(r) \/ pcFails(r)
-----------------------------------------------------------------------------
\* Every variable has its type.
PcTypeOK == /\ live \in [Controls -> Values \cup {Unset}] /\ conf \in [Controls -> Values \cup {Unset}]
            /\ shown \in [Controls -> Values \cup {Unset}] /\ enabled \subseteq Controls /\ risky \subseteq Controls
            /\ \A r \in pcReqs : Touched(r) \subseteq Controls /\ r.kind \in {"load", "fetch", "set", "imaging", "persist"}

\* Page, camera and configuration agree on a control once its requests have ended, unless two of
\* them were under way at once or one failed (answers are shown in the order they arrive, and
\* each of two overlapping sliders is persisted when its own first answer comes).
SettledAgrees ==
    \A c \in enabled \ (Busy \cup risky) : shown[c] = live[c] /\ live[c] = conf[c]

\* A control that was never loaded is never sent, not even beside the one that was changed.
NothingUnsetSent == \A c \in Controls : live[c] # Unset /\ conf[c] # Unset

\* Controls at rest agree with the camera, and nothing that was not loaded is ever sent.
ControlsInv == PcTypeOK /\ SettledAgrees /\ NothingUnsetSent
=============================================================================
