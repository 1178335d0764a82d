--------------------------- MODULE WebPagesProofs ---------------------------
(***************************************************************************)
(* The pages of the web interface that MCWebPages puts together: the       *)
(* preview image for any number of absences and outages, the controls of   *)
(* the preview for any controls, values and number of changes, every kind  *)
(* of settings page for any settings and number of operations, and the     *)
(* ZeroTier page for any networks, requests and faults.                    *)
(***************************************************************************)
EXTENDS MCWebPages, FiniteSetTheorems, TLAPS

-----------------------------------------------------------------------------
\* The preview image (PreviewStream).
\* The types but for the clocks and the blur timeout. A dialog that is open has a source to return to.
Shape ==
    /\ src \in {"stream", "nostream"} /\ fullSrc \in {"stream", "nostream"} /\ saved \in {"none", "stream", "nostream"}
    /\ isWindowVisible \in BOOLEAN /\ fullscreen \in BOOLEAN /\ track \in BOOLEAN /\ pvHidden \in BOOLEAN
    /\ focused \in BOOLEAN /\ switched \in BOOLEAN /\ besideFull \in BOOLEAN
    /\ (fullSrc = "stream" => fullscreen) /\ (fullscreen => saved # "none")

\* The watchdog's clocks stay in their range.
Clocks == sinceLoad \in 0..4 /\ restartIn \in 0..12 /\ restartBackoff \in {3, 6, 12}

\* There is at most one blur timeout.
OneTimeout == focusTimer = {} \/ \E t \in 0..2 : focusTimer = {t}

\* Where isWindowVisible is false the stream is off, or a blur timeout is about to stop it.
AwayStops == ~isWindowVisible /\ focusTimer = {} => src = "nostream"

\* isWindowVisible follows the tab, and with track_focus the window, once there was an event.
FlagFollows ==
    /\ (pvHidden /\ switched => ~isWindowVisible)
    /\ (track /\ ~focused /\ (switched \/ ~pvHidden) => ~isWindowVisible)

\* PreviewInv does not say why a watchdog or a closing dialog leaves a hidden page alone:
\* they go by isWindowVisible, which FlagFollows ties to the user.
PvInd == Shape /\ Clocks /\ OneTimeout /\ AwayStops /\ FlagFollows /\ HiddenTabStops /\ OneStream

\* The page that starts its stream satisfies the invariant.
LEMMA PvIndInit == PvInit => PvInd
<1> SUFFICES ASSUME PvInit PROVE PvInd
  OBVIOUS
<1>1. Shape
  BY DEF PvInit, Shape
<1>2. Clocks
  BY DEF PvInit, Clocks, RestartBackoffInitial
<1>3. OneTimeout
  BY DEF PvInit, OneTimeout
<1>4. AwayStops /\ FlagFollows /\ HiddenTabStops /\ OneStream
  BY DEF PvInit, AwayStops, FlagFollows, HiddenTabStops, OneStream
<1> QED
  BY <1>1, <1>2, <1>3, <1>4 DEF PvInd

\* Every handler, timeout and tick keeps the invariant.
LEMMA PvIndStep == PvInd /\ [PvNext]_pvvars => PvInd'
<1> SUFFICES ASSUME PvInd, [PvNext]_pvvars PROVE PvInd'
  OBVIOUS
<1> USE DEF clockVars, envVars
<1>1. CASE handleHide
  <2>1. Shape'
    BY <1>1 DEF PvInd, Shape, handleHide, stopPreview
  <2>2. Clocks'
    BY <1>1 DEF PvInd, Clocks, handleHide, stopPreview, Timeout, RestartBackoffInitial, RestartBackoffMax
  <2>3. OneTimeout'
    BY <1>1 DEF PvInd, OneTimeout, handleHide, stopPreview, FocusTimeout
  <2>4. (AwayStops /\ FlagFollows)'
    BY <1>1 DEF PvInd, Shape, AwayStops, FlagFollows, handleHide, stopPreview
  <2>5. (HiddenTabStops /\ OneStream)'
    BY <1>1 DEF PvInd, Shape, FlagFollows, HiddenTabStops, OneStream, handleHide, stopPreview
  <2> QED
    BY <2>1, <2>2, <2>3, <2>4, <2>5 DEF PvInd
<1>2. CASE handleShow
  <2>1. Shape'
    BY <1>2 DEF PvInd, Shape, handleShow, startPreview
  <2>2. Clocks'
    BY <1>2 DEF PvInd, Clocks, handleShow, startPreview, Timeout, RestartBackoffInitial, RestartBackoffMax
  <2>3. OneTimeout'
    BY <1>2 DEF PvInd, OneTimeout, handleShow, startPreview, FocusTimeout
  <2>4. (AwayStops /\ FlagFollows)'
    BY <1>2 DEF PvInd, Shape, AwayStops, FlagFollows, handleShow, startPreview
  <2>5. (HiddenTabStops /\ OneStream)'
    BY <1>2 DEF PvInd, Shape, FlagFollows, HiddenTabStops, OneStream, handleShow, startPreview
  <2> QED
    BY <2>1, <2>2, <2>3, <2>4, <2>5 DEF PvInd
<1>3. CASE handleWindowFocus
  <2>1. Shape'
    BY <1>3 DEF PvInd, Shape, handleWindowFocus, startPreview
  <2>2. Clocks'
    BY <1>3 DEF PvInd, Clocks, handleWindowFocus, startPreview, Timeout, RestartBackoffInitial, RestartBackoffMax
  <2>3. OneTimeout'
    BY <1>3 DEF PvInd, OneTimeout, handleWindowFocus, startPreview, FocusTimeout
  <2>4. (AwayStops /\ FlagFollows)'
    BY <1>3 DEF PvInd, Shape, AwayStops, FlagFollows, handleWindowFocus, startPreview
  <2>5. (HiddenTabStops /\ OneStream)'
    BY <1>3 DEF PvInd, Shape, FlagFollows, HiddenTabStops, OneStream, handleWindowFocus, startPreview
  <2> QED
    BY <2>1, <2>2, <2>3, <2>4, <2>5 DEF PvInd
<1>4. CASE handleWindowBlur
  <2>1. Shape'
    BY <1>4 DEF PvInd, Shape, handleWindowBlur, stopPreview
  <2>2. Clocks'
    BY <1>4 DEF PvInd, Clocks, handleWindowBlur, stopPreview, Timeout, RestartBackoffInitial, RestartBackoffMax
  <2>3. OneTimeout'
    BY <1>4 DEF PvInd, OneTimeout, handleWindowBlur, stopPreview, FocusTimeout
  <2>4. (AwayStops /\ FlagFollows)'
    BY <1>4 DEF PvInd, Shape, AwayStops, FlagFollows, handleWindowBlur, stopPreview
  <2>5. (HiddenTabStops /\ OneStream)'
    BY <1>4 DEF PvInd, Shape, FlagFollows, HiddenTabStops, OneStream, handleWindowBlur, stopPreview
  <2> QED
    BY <2>1, <2>2, <2>3, <2>4, <2>5 DEF PvInd
<1>5. CASE focusTimeout
  <2>1. Shape'
    BY <1>5 DEF PvInd, Shape, focusTimeout, stopPreview
  <2>2. Clocks'
    BY <1>5 DEF PvInd, Clocks, focusTimeout, stopPreview, Timeout, RestartBackoffInitial, RestartBackoffMax
  <2>3. OneTimeout'
    BY <1>5 DEF PvInd, OneTimeout, focusTimeout, stopPreview, FocusTimeout
  <2>4. (AwayStops /\ FlagFollows)'
    BY <1>5 DEF PvInd, Shape, AwayStops, FlagFollows, focusTimeout, stopPreview
  <2>5. (HiddenTabStops /\ OneStream)'
    BY <1>5 DEF PvInd, Shape, FlagFollows, HiddenTabStops, OneStream, focusTimeout, stopPreview
  <2> QED
    BY <2>1, <2>2, <2>3, <2>4, <2>5 DEF PvInd
<1>6. CASE stopOnUnload
  <2>1. Shape'
    BY <1>6 DEF PvInd, Shape, stopOnUnload, stopPreview
  <2>2. Clocks'
    BY <1>6 DEF PvInd, Clocks, stopOnUnload, stopPreview, Timeout, RestartBackoffInitial, RestartBackoffMax
  <2>3. OneTimeout'
    BY <1>6 DEF PvInd, OneTimeout, stopOnUnload, stopPreview, FocusTimeout
  <2>4. (AwayStops /\ FlagFollows)'
    BY <1>6 DEF PvInd, Shape, AwayStops, FlagFollows, stopOnUnload, stopPreview
  <2>5. (HiddenTabStops /\ OneStream)'
    BY <1>6 DEF PvInd, Shape, FlagFollows, HiddenTabStops, OneStream, stopOnUnload, stopPreview
  <2> QED
    BY <2>1, <2>2, <2>3, <2>4, <2>5 DEF PvInd
<1>7. CASE showFullscreen
  <2>1. Shape'
    BY <1>7 DEF PvInd, Shape, showFullscreen
  <2>2. Clocks'
    BY <1>7 DEF PvInd, Clocks, showFullscreen, Timeout, RestartBackoffInitial, RestartBackoffMax
  <2>3. OneTimeout' /\ focusTimer' = focusTimer
    BY <1>7 DEF PvInd, OneTimeout, showFullscreen
  <2>4. (AwayStops /\ FlagFollows)'
    BY <1>7, <2>3 DEF PvInd, Shape, AwayStops, FlagFollows, showFullscreen
  <2>5. (HiddenTabStops /\ OneStream)'
    BY <1>7 DEF PvInd, Shape, FlagFollows, HiddenTabStops, OneStream, showFullscreen
  <2> QED
    BY <2>1, <2>2, <2>3, <2>4, <2>5 DEF PvInd
<1>8. CASE hiddenFullscreen
  <2>1. Shape'
    BY <1>8 DEF PvInd, Shape, hiddenFullscreen
  <2>2. Clocks'
    BY <1>8 DEF PvInd, Clocks, hiddenFullscreen, Timeout, RestartBackoffInitial, RestartBackoffMax
  <2>3. OneTimeout' /\ focusTimer' = focusTimer
    BY <1>8 DEF PvInd, OneTimeout, hiddenFullscreen
  <2>4. (AwayStops /\ FlagFollows)'
    BY <1>8, <2>3 DEF PvInd, Shape, AwayStops, FlagFollows, hiddenFullscreen
  <2>5. (HiddenTabStops /\ OneStream)'
    BY <1>8 DEF PvInd, Shape, FlagFollows, HiddenTabStops, OneStream, hiddenFullscreen
  <2> QED
    BY <2>1, <2>2, <2>3, <2>4, <2>5 DEF PvInd
<1>9. CASE load
  <2>1. Shape'
    BY <1>9 DEF PvInd, Shape, load
  <2>2. Clocks'
    BY <1>9 DEF PvInd, Clocks, load, Timeout, RestartBackoffInitial, RestartBackoffMax
  <2>3. OneTimeout' /\ focusTimer' = focusTimer
    BY <1>9 DEF PvInd, OneTimeout, load
  <2>4. (AwayStops /\ FlagFollows)'
    BY <1>9, <2>3 DEF PvInd, Shape, AwayStops, FlagFollows, load
  <2>5. (HiddenTabStops /\ OneStream)'
    BY <1>9 DEF PvInd, Shape, FlagFollows, HiddenTabStops, OneStream, load
  <2> QED
    BY <2>1, <2>2, <2>3, <2>4, <2>5 DEF PvInd
<1>10. CASE watchdog
  <2>1. Shape'
    BY <1>10 DEF PvInd, Shape, watchdog
  <2>2. Clocks'
    BY <1>10 DEF PvInd, Clocks, watchdog, Timeout, RestartBackoffInitial, RestartBackoffMax
  <2>3. OneTimeout' /\ focusTimer' = focusTimer
    BY <1>10 DEF PvInd, OneTimeout, watchdog
  <2>4. (AwayStops /\ FlagFollows)'
    BY <1>10, <2>3 DEF PvInd, Shape, AwayStops, FlagFollows, watchdog
  <2>5. (HiddenTabStops /\ OneStream)'
    BY <1>10 DEF PvInd, Shape, FlagFollows, HiddenTabStops, OneStream, watchdog
  <2> QED
    BY <2>1, <2>2, <2>3, <2>4, <2>5 DEF PvInd
<1>11. CASE PvTick
  <2>1. Shape'
    BY <1>11 DEF PvInd, Shape, PvTick
  <2>2. Clocks'
    BY <1>11 DEF PvInd, Clocks, PvTick, Timeout, RestartBackoffInitial, RestartBackoffMax
  <2>3. OneTimeout' /\ (focusTimer' = {} <=> focusTimer = {})
    <3>1. CASE focusTimer = {}
      BY <1>11, <3>1 DEF PvTick, OneTimeout
    <3>2. ASSUME NEW t \in 0..2, focusTimer = {t} PROVE OneTimeout' /\ focusTimer' # {}
      <4>1. t # 0 /\ focusTimer' = {t - 1}
        BY <1>11, <3>2 DEF PvTick
      <4> QED
        BY <4>1 DEF OneTimeout
    <3> QED
      BY <3>1, <3>2 DEF PvInd, OneTimeout
  <2>4. (AwayStops /\ FlagFollows)'
    BY <1>11, <2>3 DEF PvInd, Shape, AwayStops, FlagFollows, PvTick
  <2>5. (HiddenTabStops /\ OneStream)'
    BY <1>11 DEF PvInd, Shape, FlagFollows, HiddenTabStops, OneStream, PvTick
  <2> QED
    BY <2>1, <2>2, <2>3, <2>4, <2>5 DEF PvInd
<1>12. CASE StreamFails
  <2>1. Shape'
    BY <1>12 DEF PvInd, Shape, StreamFails
  <2>2. Clocks'
    BY <1>12 DEF PvInd, Clocks, StreamFails, Timeout, RestartBackoffInitial, RestartBackoffMax
  <2>3. OneTimeout' /\ focusTimer' = focusTimer
    BY <1>12 DEF PvInd, OneTimeout, StreamFails
  <2>4. (AwayStops /\ FlagFollows)'
    BY <1>12, <2>3 DEF PvInd, Shape, AwayStops, FlagFollows, StreamFails
  <2>5. (HiddenTabStops /\ OneStream)'
    BY <1>12 DEF PvInd, Shape, FlagFollows, HiddenTabStops, OneStream, StreamFails
  <2> QED
    BY <2>1, <2>2, <2>3, <2>4, <2>5 DEF PvInd
<1>13. CASE CameraBack
  <2>1. Shape'
    BY <1>13 DEF PvInd, Shape, CameraBack
  <2>2. Clocks'
    BY <1>13 DEF PvInd, Clocks, CameraBack, Timeout, RestartBackoffInitial, RestartBackoffMax
  <2>3. OneTimeout' /\ focusTimer' = focusTimer
    BY <1>13 DEF PvInd, OneTimeout, CameraBack
  <2>4. (AwayStops /\ FlagFollows)'
    BY <1>13, <2>3 DEF PvInd, Shape, AwayStops, FlagFollows, CameraBack
  <2>5. (HiddenTabStops /\ OneStream)'
    BY <1>13 DEF PvInd, Shape, FlagFollows, HiddenTabStops, OneStream, CameraBack
  <2> QED
    BY <2>1, <2>2, <2>3, <2>4, <2>5 DEF PvInd
<1>14. CASE UNCHANGED pvvars
  BY <1>14 DEF pvvars, PvInd, Shape, Clocks, OneTimeout, AwayStops, FlagFollows, HiddenTabStops, OneStream
<1> QED
  BY <1>1, <1>2, <1>3, <1>4, <1>5, <1>6, <1>7, <1>8, <1>9, <1>10, <1>11, <1>12, <1>13, <1>14 DEF PvNext

\* The invariant says what PreviewInv says.
LEMMA PvIndInv == PvInd => PreviewInv
<1> SUFFICES ASSUME PvInd PROVE PreviewInv
  OBVIOUS
<1>1. focusTimer \subseteq 0..2
  BY DEF PvInd, OneTimeout
<1>2. PvTypeOK
  BY <1>1 DEF PvInd, Shape, Clocks, PvTypeOK, FocusTimeout, Timeout, RestartBackoffMax
<1>3. BlurStops
  BY DEF PvInd, AwayStops, FlagFollows, BlurStops
<1> QED
  BY <1>2, <1>3 DEF PvInd, PreviewInv

\* The page streams only where somebody looks and one stream at a time: neither the watchdog,
\* the blur timeout nor the end of the full-screen dialog restarts a preview that was stopped.
THEOREM PreviewSafe == PvSpec => []PreviewInv
<1> QED
  BY PvIndInit, PvIndStep, PvIndInv, PTL DEF PvSpec

-----------------------------------------------------------------------------
\* The controls of the preview (PreviewControls).

PcKinds == {"load", "fetch", "set", "imaging", "persist"}
Payloads == UNION {[S -> Values \cup {Unset}] : S \in SUBSET Controls}
PcReq == [id : Nat, kind : PcKinds, vals : Payloads, got : SUBSET Payloads]

\* Camera and configuration hold values, an enabled control shows one, and the two fonts are
\* enabled together.
PcTypes == /\ live \in [Controls -> Values] /\ conf \in [Controls -> Values]
           /\ shown \in [Controls -> Values \cup {Unset}]
           /\ enabled \subseteq Controls /\ risky \subseteq Controls /\ sets \in Nat
           /\ \A c \in enabled : shown[c] \in Values
           /\ (enabled \cap Fonts # {} => Fonts \subseteq enabled)

\* What is sent to be set is a value; what comes back is one value for each control that was
\* sent, and the fonts are sent together.
Fits(r) == /\ r \in PcReq
           /\ (r.kind \notin {"load", "fetch"} => \A c \in Touched(r) : r.vals[c] \in Values)
           /\ (r.got # NoAnswer => \E a \in [Touched(r) -> Values] : r.got = {a})
           /\ (Touched(r) \cap Fonts # {} => Fonts \subseteq Touched(r))

\* Nothing is known to the page that the camera does not do and keep.
Agreed(c) == live[c] = conf[c] /\ (c \in enabled => shown[c] = live[c])

\* How far the only request for a control has got.
Underway(r, c) ==
    \/ r.kind \in {"load", "fetch"} /\ Agreed(c) /\ \A a \in r.got : a[c] = live[c]
    \/ r.kind = "set" /\ live[c] = conf[c] /\ \A a \in r.got : a[c] = live[c]
    \/ r.kind = "imaging" /\ \A a \in r.got : a[c] = live[c] /\ live[c] = r.vals[c]
    \/ /\ r.kind = "persist" /\ live[c] = r.vals[c] /\ shown[c] = live[c]
       /\ (r.got # NoAnswer => conf[c] = live[c])

\* A control that never had two requests at once, nor one that failed.
Careful(c) == /\ \A r, q \in pcReqs : c \in Touched(r) /\ c \in Touched(q) => r = q
              /\ \A r \in pcReqs : c \in Touched(r) => Underway(r, c)
              /\ ((\A r \in pcReqs : c \notin Touched(r)) => Agreed(c))

\* SettledAgrees says nothing of a control whose request is under way: Underway does.
PcInd == PcTypes /\ (\A r \in pcReqs : Fits(r)) /\ \A c \in Controls \ risky : Careful(c)

\* A function from some of the controls to what an input may hold is a payload.
LEMMA PayloadType ==
    ASSUME NEW S \in SUBSET Controls, NEW f \in [S -> Values \cup {Unset}] PROVE f \in Payloads
<1> QED
  BY DEF Payloads

\* The page that has just been opened satisfies the invariant.
LEMMA PcIndInit == PcInit => PcInd
<1> SUFFICES ASSUME PcInit PROVE PcInd
  OBVIOUS
<1>1. PcTypes
  BY DEF PcInit, PcTypes
<1>2. ASSUME NEW r \in pcReqs PROVE Fits(r) /\ r.kind \in {"load", "fetch"} /\ r.got = {}
  <2>1. PICK k \in {"load", "fetch"}, S \in SUBSET Controls :
            /\ r = [id |-> 0, kind |-> k, vals |-> [c \in S |-> Unset], got |-> NoAnswer]
            /\ S \in {Prudynt, Imaging}
    BY <1>2 DEF PcInit, Controls, Prudynt
  <2>2. [c \in S |-> Unset] \in Payloads
    BY PayloadType
  <2>3. r \in PcReq /\ Touched(r) = S
    BY <2>1, <2>2 DEF PcReq, PcKinds, NoAnswer, Touched
  <2>4. S \cap Fonts # {} => Fonts \subseteq S
    BY <2>1, ControlsAssumption DEF Prudynt
  <2> QED
    BY <2>1, <2>3, <2>4 DEF Fits, NoAnswer
<1>3. ASSUME NEW c \in Controls PROVE Careful(c)
  <2>1. Agreed(c)
    BY DEF PcInit, Agreed
  <2>2. \A r \in pcReqs : Underway(r, c)
    BY <1>2, <2>1 DEF Underway
  <2>3. ASSUME NEW r \in pcReqs, NEW q \in pcReqs, c \in Touched(r), c \in Touched(q) PROVE r = q
    BY <2>3, ControlsAssumption DEF PcInit, Touched, Prudynt
  <2> QED
    BY <2>1, <2>2, <2>3 DEF Careful
<1> QED
  BY <1>1, <1>2, <1>3 DEF PcInd

\* A request that is sent: the controls that it shares with another are given up.
LEMMA SendStep ==
    ASSUME PcInd, NEW r, Fits(r), r.got = NoAnswer, r.kind \in {"load", "set", "imaging"}, Send(r),
           PcTypes', UNCHANGED <<live, conf, enabled>>,
           \A c \in Controls : shown'[c] = shown[c] \/ (c \in Touched(r) /\ r.kind # "load")
    PROVE  PcInd'
<1>1. ASSUME NEW q \in pcReqs' PROVE Fits(q)'
  BY <1>1 DEF PcInd, Send, Fits, Touched, PcReq
<1>2. ASSUME NEW c \in Controls \ risky' PROVE Careful(c)'
  <2>1. c \notin risky /\ Careful(c)
    BY <1>2 DEF PcInd, Send
  <2>2. CASE c \in Touched(r)
    <3>1. \A q \in pcReqs : c \notin Touched(q)
      BY <1>2, <2>2 DEF Send, Busy
    <3>2. Agreed(c)
      BY <2>1, <3>1 DEF Careful
    <3>3. Underway(r, c)'
      BY <3>2 DEF Underway, Agreed, NoAnswer
    <3> QED
      BY <2>2, <3>1, <3>3 DEF Careful, Send, Touched
  <2>3. CASE c \notin Touched(r)
    <3>1. shown'[c] = shown[c]
      BY <2>3
    <3>2. (Agreed(c)' <=> Agreed(c)) /\ \A q : Underway(q, c)' <=> Underway(q, c)
      BY <3>1 DEF Agreed, Underway
    <3> QED
      BY <2>1, <2>3, <3>2 DEF Careful, Send, Touched
  <2> QED
    BY <2>2, <2>3
<1> QED
  BY <1>1, <1>2 DEF PcInd

\* The reload button.
LEMMA loadConfigStep == PcInd /\ loadConfig => PcInd'
<1> SUFFICES ASSUME PcInd, loadConfig PROVE PcInd'
  OBVIOUS
<1> DEFINE r == Req("load", [c \in Prudynt |-> Unset])
<1>1. [c \in Prudynt |-> Unset] \in Payloads
  BY PayloadType DEF Prudynt, Controls
<1>2. Touched(r) = Prudynt /\ r.kind = "load" /\ r.got = NoAnswer
  BY DEF Touched, Req
<1>3. r \in PcReq
  BY <1>1 DEF PcInd, PcTypes, PcReq, PcKinds, Req, NoAnswer
<1>4. Fits(r)
  BY <1>2, <1>3 DEF Fits, Prudynt
<1>5. Send(r) /\ UNCHANGED <<live, conf, shown, enabled>>
  BY DEF loadConfig
<1> HIDE DEF r
<1>6. PcTypes'
  BY <1>2, <1>5 DEF PcInd, PcTypes, Send, Prudynt, Controls
<1> QED
  BY <1>2, <1>4, <1>5, <1>6, SendStep

\* A control of prudynt is changed: an enabled font is sent with the other, which is enabled too.
LEMMA changeStep == ASSUME PcInd, NEW c \in Controls, NEW v \in Values, change(c, v) PROVE PcInd'
<1> DEFINE S == IF c \in Fonts THEN Fonts ELSE {c}
           p == Payload(c, v)
           r == Req("set", p)
<1>1. c \in enabled /\ shown \in [Controls -> Values \cup {Unset}] /\ \A d \in S : shown[d] \in Values
  BY DEF PcInd, PcTypes, change
<1>2. p \in [S -> Values] /\ S \subseteq Controls
  BY <1>1 DEF Payload, Controls
<1>3. p \in Payloads
  <2>1. p \in [S -> Values \cup {Unset}]
    BY <1>2
  <2> HIDE DEF p, S
  <2> QED
    BY <1>2, <2>1, PayloadType
<1>4. Touched(r) = S /\ r.kind = "set" /\ r.got = NoAnswer /\ r.vals = p
  BY <1>2 DEF Touched, Req
<1>5. r \in PcReq
  BY <1>3 DEF PcInd, PcTypes, PcReq, PcKinds, Req, NoAnswer
<1>6. S \cap Fonts # {} => Fonts \subseteq S
  OBVIOUS
<1>7. Send(r) /\ shown' = [shown EXCEPT ![c] = v] /\ UNCHANGED <<live, conf, enabled>>
  BY DEF change
<1> HIDE DEF p, r
<1>8. Fits(r)
  BY <1>2, <1>4, <1>5, <1>6 DEF Fits
<1>9. PcTypes'
  BY <1>1, <1>2, <1>4, <1>7 DEF PcInd, PcTypes, Send
<1>10. \A d \in Controls : shown'[d] = shown[d] \/ d \in Touched(r)
  BY <1>1, <1>4, <1>7
<1> QED
  BY <1>4, <1>7, <1>8, <1>9, <1>10, SendStep

\* A slider of the imaging dialog.
LEMMA sendImagingUpdateStep ==
    ASSUME PcInd, NEW c \in Controls, NEW v \in Values, sendImagingUpdate(c, v) PROVE PcInd'
<1> DEFINE p == [d \in {c} |-> v]
           r == Req("imaging", p)
<1>1. c \in enabled /\ c \notin Fonts /\ shown \in [Controls -> Values \cup {Unset}]
  BY ControlsAssumption DEF PcInd, PcTypes, sendImagingUpdate
<1>2. p \in [{c} -> Values] /\ {c} \subseteq Controls
  OBVIOUS
<1>3. p \in Payloads
  <2>1. p \in [{c} -> Values \cup {Unset}]
    BY <1>2
  <2> HIDE DEF p
  <2> QED
    BY <1>2, <2>1, PayloadType
<1>4. Touched(r) = {c} /\ r.kind = "imaging" /\ r.got = NoAnswer /\ r.vals = p
  BY DEF Touched, Req
<1>5. r \in PcReq
  BY <1>3 DEF PcInd, PcTypes, PcReq, PcKinds, Req, NoAnswer
<1>6. Send(r) /\ shown' = [shown EXCEPT ![c] = v] /\ UNCHANGED <<live, conf, enabled>>
  BY DEF sendImagingUpdate
<1> HIDE DEF p, r
<1>7. Fits(r)
  BY <1>1, <1>2, <1>4, <1>5 DEF Fits
<1>8. PcTypes'
  BY <1>1, <1>4, <1>6 DEF PcInd, PcTypes, Send
<1>9. \A d \in Controls : shown'[d] = shown[d] \/ d \in Touched(r)
  BY <1>1, <1>4, <1>6
<1> QED
  BY <1>4, <1>6, <1>7, <1>8, <1>9, SendStep

\* The camera serves a request: what it does and keeps for the request's controls changes, and
\* no other request is about them unless they are given up.
LEMMA PcServedStep == ASSUME PcInd, NEW r \in pcReqs, PcServed(r) PROVE PcInd'
<1> DEFINE a == Restrict(live', Touched(r))
<1>1. Fits(r) /\ r \in PcReq /\ r.got = {} /\ Touched(r) \subseteq Controls
  BY DEF PcInd, Fits, PcServed, NoAnswer, PcReq, Payloads, Touched
<1>2. PcTypes' /\ live \in [Controls -> Values] /\ live' \in [Controls -> Values]
  <2>1. r.kind \in {"set", "imaging", "persist"} => \A c \in Touched(r) : r.vals[c] \in Values
    BY <1>1 DEF Fits
  <2>2. live' \in [Controls -> Values] /\ conf' \in [Controls -> Values]
    BY <2>1 DEF PcInd, PcTypes, PcServed
  <2> QED
    BY <2>2 DEF PcInd, PcTypes, PcServed
<1>3. a \in [Touched(r) -> Values] /\ \A c \in Touched(r) : a[c] = live'[c]
  BY <1>1, <1>2 DEF Restrict
<1>4. a \in Payloads
  <2>1. a \in [Touched(r) -> Values \cup {Unset}]
    BY <1>3
  <2> HIDE DEF a
  <2> QED
    BY <1>1, <2>1, PayloadType
<1>5. PICK new : new = [r EXCEPT !.got = {a}] /\ pcReqs' = (pcReqs \ {r}) \cup {new}
  BY DEF PcServed
<1> HIDE DEF a
<1>6. new \in PcReq /\ new.kind = r.kind /\ new.vals = r.vals /\ new.got = {a} /\ Touched(new) = Touched(r)
  BY <1>1, <1>4, <1>5 DEF PcReq, Touched
<1>7. Fits(new)
  BY <1>1, <1>3, <1>6 DEF Fits
<1>8. ASSUME NEW q \in pcReqs' PROVE Fits(q)'
  BY <1>5, <1>7 DEF PcInd, Fits, Touched, PcReq
<1>9. ASSUME NEW c \in Controls \ risky' PROVE Careful(c)'
  <2>1. c \notin risky /\ Careful(c)
    BY <1>9 DEF PcInd, PcServed
  <2>2. CASE c \in Touched(r)
    <3>1. Underway(r, c) /\ \A q \in pcReqs : c \in Touched(q) => q = r
      BY <2>1, <2>2 DEF Careful
    <3>2. Underway(new, c)'
      <4>1. /\ live'[c] = IF r.kind \in {"set", "imaging"} THEN r.vals[c] ELSE live[c]
            /\ conf'[c] = IF r.kind \in {"set", "persist"} THEN r.vals[c] ELSE conf[c]
            /\ shown' = shown /\ enabled' = enabled
        BY <2>2 DEF PcServed, PcInd, PcTypes
      <4>2. \A b \in new.got : b[c] = live'[c]
        BY <1>3, <1>6, <2>2
      <4>3. CASE r.kind \in {"load", "fetch"}
        BY <1>6, <3>1, <4>1, <4>2, <4>3 DEF Underway, Agreed
      <4>4. CASE r.kind = "set"
        BY <1>6, <4>1, <4>2, <4>4 DEF Underway
      <4>5. CASE r.kind = "imaging"
        BY <1>6, <4>1, <4>2, <4>5 DEF Underway
      <4>6. CASE r.kind = "persist"
        BY <1>6, <3>1, <4>1, <4>6 DEF Underway
      <4> QED
        BY <3>1, <4>3, <4>4, <4>5, <4>6 DEF Underway
    <3>3. \A q \in pcReqs' : c \in Touched(q) => q = new
      BY <1>5, <3>1
    <3> QED
      BY <1>5, <1>6, <2>2, <3>2, <3>3 DEF Careful, Touched
  <2>3. CASE c \notin Touched(r)
    <3>1. live'[c] = live[c] /\ conf'[c] = conf[c] /\ shown' = shown /\ enabled' = enabled
      BY <2>3 DEF PcServed, PcInd, PcTypes
    <3>2. (Agreed(c)' <=> Agreed(c)) /\ \A q : Underway(q, c)' <=> Underway(q, c)
      BY <3>1 DEF Agreed, Underway
    <3> QED
      BY <1>5, <1>6, <2>1, <2>3, <3>2 DEF Careful, Touched
  <2> QED
    BY <2>2, <2>3
<1> QED
  BY <1>2, <1>8, <1>9 DEF PcInd

\* What an answer brings is shown and enabled; the fonts come together.
LEMMA ShowTypes ==
    ASSUME PcTypes, NEW S \in SUBSET Controls, NEW a \in [S -> Values], handleMessage(a),
           UNCHANGED <<live, conf, sets, risky>>, S \cap Fonts # {} => Fonts \subseteq S
    PROVE  /\ PcTypes'
           /\ \A c \in S : shown'[c] = a[c]
           /\ \A c \in Controls \ S : shown'[c] = shown[c] /\ (c \in enabled' <=> c \in enabled)
<1>1. DOMAIN a = S /\ enabled' = enabled \cup S
  BY DEF handleMessage
<1>2. shown' = [c \in Controls |-> IF c \in S THEN a[c] ELSE shown[c]]
  BY <1>1 DEF handleMessage
<1> QED
  BY <1>1, <1>2 DEF PcTypes

\* The answer to a load or a set, or the first one to a slider: the page shows what the camera
\* does, and a slider's value goes on to be persisted.
LEMMA PcAnswerStep == ASSUME PcInd, NEW r \in pcReqs, pcAnswer(r) \/ imagingAnswer(r) PROVE PcInd'
<1> DEFINE new == [r EXCEPT !.kind = "persist", !.got = NoAnswer]
           S == Touched(r)
<1>1. Fits(r) /\ r \in PcReq /\ S \in SUBSET Controls /\ PcTypes
  BY DEF PcInd, Fits, PcReq, Payloads, Touched
<1>2. PICK a \in r.got : handleMessage(a) /\ UNCHANGED <<live, conf, sets, risky>>
  BY DEF pcAnswer, imagingAnswer
<1>3. a \in [S -> Values] /\ r.got = {a}
  BY <1>1, <1>2 DEF Fits, NoAnswer
<1>4. /\ PcTypes'
      /\ \A c \in S : shown'[c] = a[c]
      /\ \A c \in Controls \ S : shown'[c] = shown[c] /\ (c \in enabled' <=> c \in enabled)
  <2>1. S \cap Fonts # {} => Fonts \subseteq S
    BY <1>1 DEF Fits
  <2> HIDE DEF S
  <2> QED
    BY <1>1, <1>2, <1>3, <2>1, ShowTypes
<1>5. \/ r.kind \in {"load", "fetch", "set"} /\ pcReqs' = pcReqs \ {r}
      \/ r.kind = "imaging" /\ pcReqs' = (pcReqs \ {r}) \cup {new}
  BY DEF pcAnswer, imagingAnswer
<1>6. new \in PcReq /\ new.kind = "persist" /\ new.vals = r.vals /\ new.got = {} /\ Touched(new) = S
  BY <1>1 DEF PcReq, PcKinds, NoAnswer, Touched
<1> HIDE DEF new
<1>7. r.kind = "imaging" => Fits(new)
  BY <1>1, <1>6 DEF Fits, NoAnswer
<1>8. ASSUME NEW q \in pcReqs' PROVE Fits(q)'
  BY <1>5, <1>7 DEF PcInd, Fits, Touched, PcReq
<1>9. ASSUME NEW c \in Controls \ risky' PROVE Careful(c)'
  <2>1. c \notin risky /\ Careful(c)
    BY <1>2, <1>9 DEF PcInd
  <2>2. CASE c \in S
    <3>1. Underway(r, c) /\ \A q \in pcReqs : c \in Touched(q) => q = r
      BY <2>1, <2>2 DEF Careful
    <3>2. CASE r.kind = "imaging"
      <4>1. Underway(new, c)'
        BY <1>2, <1>3, <1>4, <1>6, <2>2, <3>1, <3>2 DEF Underway, NoAnswer
      <4>2. pcReqs' = (pcReqs \ {r}) \cup {new}
        BY <1>5, <3>2
      <4> QED
        BY <1>6, <2>2, <3>1, <4>1, <4>2 DEF Careful, Touched
    <3>3. CASE r.kind # "imaging"
      <4>1. Agreed(c)' /\ pcReqs' = pcReqs \ {r}
        BY <1>2, <1>3, <1>4, <1>5, <2>2, <3>1, <3>3 DEF Underway, Agreed
      <4> QED
        BY <3>1, <4>1 DEF Careful, Touched
    <3> QED
      BY <3>2, <3>3
  <2>3. CASE c \notin S
    <3>1. /\ live'[c] = live[c] /\ conf'[c] = conf[c] /\ shown'[c] = shown[c]
          /\ (c \in enabled' <=> c \in enabled)
      BY <1>2, <1>4, <2>3
    <3>2. (Agreed(c)' <=> Agreed(c)) /\ \A q : Underway(q, c)' <=> Underway(q, c)
      BY <3>1 DEF Agreed, Underway
    <3> QED
      BY <1>5, <1>6, <2>1, <2>3, <3>2 DEF Careful, Touched
  <2> QED
    BY <2>2, <2>3
<1> QED
  BY <1>4, <1>8, <1>9 DEF PcInd

\* A request that ends without another: the last one of a slider, or one that failed.
LEMMA PcEndStep == ASSUME PcInd, NEW r \in pcReqs, persistAnswer(r) \/ pcFails(r) PROVE PcInd'
<1>1. Fits(r) /\ Touched(r) \subseteq Controls
  BY DEF PcInd, Fits, PcReq, Payloads, Touched
<1>2. /\ pcReqs' = pcReqs \ {r} /\ UNCHANGED <<live, conf, shown, enabled, sets>>
      /\ risky' \in {risky, risky \cup Touched(r)}
      /\ \/ r.kind \in {"load", "fetch"} \/ (r.kind = "persist" /\ r.got # NoAnswer) \/ Touched(r) \subseteq risky'
  BY DEF persistAnswer, pcFails
<1>3. PcTypes'
  BY <1>1, <1>2 DEF PcInd, PcTypes
<1>4. ASSUME NEW q \in pcReqs' PROVE Fits(q)'
  BY <1>2 DEF PcInd, Fits, Touched, PcReq
<1>5. ASSUME NEW c \in Controls \ risky' PROVE Careful(c)'
  <2>1. c \notin risky /\ Careful(c)
    BY <1>2, <1>5 DEF PcInd
  <2>2. (Agreed(c)' <=> Agreed(c)) /\ \A q : Underway(q, c)' <=> Underway(q, c)
    BY <1>2 DEF Agreed, Underway
  <2>3. c \in Touched(r) => Agreed(c)
    BY <1>2, <1>5, <2>1 DEF Careful, Underway, Agreed
  <2> QED
    BY <1>2, <2>1, <2>2, <2>3 DEF Careful, Touched
<1> QED
  BY <1>3, <1>4, <1>5 DEF PcInd

\* Every step of the controls keeps the invariant.
LEMMA PcIndStep == PcInd /\ [PcNext]_pcvars => PcInd'
<1> SUFFICES ASSUME PcInd, [PcNext]_pcvars PROVE PcInd'
  OBVIOUS
<1>1. CASE loadConfig
  BY <1>1, loadConfigStep
<1>2. ASSUME NEW c \in Controls, NEW v \in Values, change(c, v) \/ sendImagingUpdate(c, v) PROVE PcInd'
  BY <1>2, changeStep, sendImagingUpdateStep
<1>3. ASSUME NEW r \in pcReqs, PcServed(r) \/ pcAnswer(r) \/ imagingAnswer(r) \/ persistAnswer(r) \/ pcFails(r)
      PROVE  PcInd'
  BY <1>3, PcServedStep, PcAnswerStep, PcEndStep
<1>4. CASE UNCHANGED pcvars
  BY <1>4 DEF pcvars, PcInd, PcTypes, Fits, PcReq, Touched, Careful, Agreed, Underway
<1> QED
  BY <1>1, <1>2, <1>3, <1>4 DEF PcNext

\* The invariant says what ControlsInv says.
LEMMA PcIndInv == PcInd => ControlsInv
<1> SUFFICES ASSUME PcInd PROVE ControlsInv
  OBVIOUS
<1>1. \A r \in pcReqs : Touched(r) \subseteq Controls /\ r.kind \in PcKinds
  BY DEF PcInd, Fits, PcReq, Payloads, Touched
<1>2. PcTypeOK
  BY <1>1 DEF PcInd, PcTypes, PcTypeOK, PcKinds
<1>3. ASSUME NEW c \in enabled \ (Busy \cup risky) PROVE shown[c] = live[c] /\ live[c] = conf[c]
  <2>1. c \in Controls \ risky /\ \A r \in pcReqs : c \notin Touched(r)
    BY DEF PcInd, PcTypes, Busy
  <2> QED
    BY <2>1 DEF PcInd, Careful, Agreed
<1>4. NothingUnsetSent
  BY ControlsAssumption DEF PcInd, PcTypes, NothingUnsetSent
<1> QED
  BY <1>2, <1>3, <1>4 DEF ControlsInv, SettledAgrees

\* Once its requests have ended, a control that had one at a time shows what the camera does and
\* keeps, and no input that was never loaded is sent, for any controls, values and changes.
THEOREM ControlsSafe == MCSpec => []ControlsInv
<1>1. MCInit => PcInd
  BY PcIndInit DEF MCInit
<1>2. PcInd /\ [MCNext]_mvars => PcInd'
  <2> SUFFICES ASSUME PcInd, [MCNext]_mvars PROVE PcInd'
    OBVIOUS
  <2>1. [PcNext]_pcvars
    BY DEF MCNext, mvars, PreviewStep, ControlsStep, SettingsStep, ZeroTierStep
  <2> QED
    BY <2>1, PcIndStep
<1> QED
  BY <1>1, <1>2, PcIndInv, PTL DEF MCSpec

-----------------------------------------------------------------------------
\* The settings pages (ConfigPage).

PgOp == [n : Nat, kind : OpKinds, st : {"sent", "ok", "failed"}, data : [Parts -> Shows]]

\* The types. Nothing was typed after the last operation began that is not counted as later.
PgShape == /\ page \in PageKinds /\ form \in [Parts -> Shows]
           /\ cam \in [Parts -> Settings \cup {"unset", "default"}]
           /\ locked \in BOOLEAN /\ reloadOff \in BOOLEAN /\ otherOff \in BOOLEAN /\ bar \in BOOLEAN
           /\ filled \in BOOLEAN /\ loadFailed \in BOOLEAN /\ lostAnswer \in BOOLEAN
           /\ pgOps \in 1..MaxPageOps /\ typed \in 0..MaxTyped /\ touched \in [Parts -> 0..pgOps]
           /\ beside \subseteq OpKinds

\* Operations have numbers of their own, and a page has only its own other requests.
OpShape(o) == o \in PgOp /\ o.n \in 1..pgOps /\ (o.kind = "position" => "position" \in page.others)
OpsShape == (\A o \in ops : OpShape(o)) /\ \A o, q \in ops : o.n = q.n => o = q

\* Whoever disables something is under way, and gives it back when it ends.
LocksForm(o) == o.kind \in {"save", "reread", "generate", "provision"} \/ (o.kind = "load" /\ page.loadLocks)
Holders == /\ (locked => \E o \in ops : LocksForm(o))
           /\ (reloadOff => \E o \in ops : o.kind = "load" /\ o.n # 1)
           /\ (otherOff => \E o \in ops : o.kind \in {"sync", "restart", "reread_sync"})
           /\ (bar => \E o \in ops : o.kind # "position")

\* Until its first load has ended the form is disabled and nothing else can be under way,
\* unless a button was pressed beside it.
FirstLoad == page.loadLocks /\ ~filled /\ ~loadFailed /\ beside \ {"save"} = {} =>
                 locked /\ ops # {} /\ \A o \in ops : o.kind = "load"

\* Where nothing was begun beside something else there is one operation at most, and the form
\* has been disabled since before it began.
OneAtATime == beside = {} => \A o, q \in ops : o = q
HeldSince(o) == locked /\ \A p \in page.locks \cap Parts : touched[p] < o.n
Guarded == beside = {} /\ page.loadLocks =>
               \A o \in ops : o.kind \notin {"sync", "reread_sync", "restart", "position"} => HeldSince(o)

\* What was not typed since is as the camera has it.
Match == \A p \in page.parts : touched[p] = 0 => form[p] = Shown(cam[p])
NoWriter(o) == o.kind \in {"sync", "restart", "position", "generate"}
Brings(o) == o.kind \in {"load", "reread", "reread_sync"} \/ (o.kind = "save" /\ page.after = "apply")

\* How far the only operation has got: what it brings is what the camera has, and a save that
\* nothing follows has stored what the form shows.
Settling(o) ==
    /\ (o.st = "ok" /\ Brings(o) => \A p \in page.parts : o.data[p] = Shown(cam[p]))
    /\ (o.kind = "save" /\ page.after = "none" =>
            /\ (o.st = "sent" => \A p \in page.parts : touched[p] = 0 => o.data[p] = form[p])
            /\ (o.st = "ok" => Match))
Settled == beside = {} /\ ~loadFailed /\ ~lostAnswer =>
               /\ ((\A o \in ops : NoWriter(o)) /\ filled => Match)
               /\ \A o \in ops : Settling(o)

\* The properties speak of pages at rest, of answers and of submits; between them the invariant
\* says who holds the form and what the answers on their way carry.
PgInd == PgShape /\ OpsShape /\ Holders /\ FirstLoad /\ FilledBeforeSaved /\ OneAtATime /\ Guarded /\ Settled

\* What the pages have in common: the ones that disable something during loads disable the
\* submit button, and only the page that nothing follows a save on shows unset values as blank.
LEMMA PageFacts ==
    ASSUME page \in PageKinds
    PROVE  /\ page.parts \subseteq Parts /\ page.loadLocks \in BOOLEAN /\ page.fallback \in {"blank", "default"}
           /\ page.after \in {"load", "apply", "none"} /\ (page.after = "none" => page.fallback = "blank")
           /\ (page.loadLocks => "submit" \in page.locks /\ "position" \notin page.others)
<1> USE DEF Parts, Inputs, InputsAndRows
<1>1. CASE page = configAdmin
  BY <1>1 DEF configAdmin
<1>2. CASE page = configSyslog
  BY <1>2 DEF configSyslog
<1>3. CASE page = configRtsp
  BY <1>3 DEF configRtsp
<1>4. CASE page = configWebui
  BY <1>4 DEF configWebui
<1>5. CASE page = configTime
  BY <1>5 DEF configTime
<1>6. CASE page = configGpio
  BY <1>6 DEF configGpio
<1>7. CASE page = configTelegrambot
  BY <1>7 DEF configTelegrambot
<1>8. CASE page = toolMqttSub
  BY <1>8 DEF toolMqttSub
<1>9. CASE page = configWireguard
  BY <1>9 DEF configWireguard
<1>10. CASE page = configNetwork
  BY <1>10 DEF configNetwork
<1>11. CASE page = configMotors
  BY <1>11 DEF configMotors
<1>12. CASE page = toolRecord
  BY <1>12 DEF toolRecord
<1>13. CASE page = toolTimelapse
  BY <1>13 DEF toolTimelapse
<1>14. CASE page = send2
  BY <1>14 DEF send2
<1> QED
  BY <1>1, <1>2, <1>3, <1>4, <1>5, <1>6, <1>7, <1>8, <1>9, <1>10, <1>11, <1>12, <1>13, <1>14 DEF PageKinds

\* A page that has just been opened satisfies the invariant.
LEMMA PgIndInit == PgInit => PgInd
<1> SUFFICES ASSUME PgInit PROVE PgInd
  OBVIOUS
<1> DEFINE o == Op(1, "load", form)
<1>1. page \in PageKinds /\ ops = {o} /\ page.loadLocks \in BOOLEAN
  BY PageFacts DEF PgInit
<1>2. PgShape
  <2>1. form \in [Parts -> Shows] /\ touched \in [Parts -> 0..pgOps]
    BY DEF PgInit, Shows
  <2>2. cam \in [Parts -> Settings \cup {"unset", "default"}]
    BY DEF PgInit
  <2>3. pgOps \in 1..MaxPageOps /\ typed \in 0..MaxTyped /\ beside \subseteq OpKinds
    BY PageAssumption DEF PgInit
  <2>4. /\ locked \in BOOLEAN /\ reloadOff \in BOOLEAN /\ otherOff \in BOOLEAN /\ bar \in BOOLEAN
        /\ filled \in BOOLEAN /\ loadFailed \in BOOLEAN /\ lostAnswer \in BOOLEAN
    BY <1>1, Zenon DEF PgInit
  <2> QED
    BY <1>1, <2>1, <2>2, <2>3, <2>4 DEF PgShape
<1>3. o.n = 1 /\ o.kind = "load" /\ o.st = "sent" /\ o \in PgOp
  BY <1>2 DEF Op, PgOp, OpKinds, PgShape
<1> HIDE DEF o
<1>4. OpsShape
  BY <1>1, <1>2, <1>3 DEF OpsShape, OpShape, PgShape
<1>5. Holders
  BY <1>1, <1>3 DEF Holders, LocksForm, PgInit
<1>6. FirstLoad /\ FilledBeforeSaved
  BY <1>1, <1>3 DEF FirstLoad, FilledBeforeSaved, PgInit
<1>7. OneAtATime
  BY <1>1 DEF OneAtATime
<1>8. Guarded
  BY <1>1, <1>3 DEF Guarded, HeldSince, PgInit
<1>9. Settled
  BY <1>1, <1>3 DEF Settled, NoWriter, Settling, PgInit
<1> QED
  BY <1>2, <1>4, <1>5, <1>6, <1>7, <1>8, <1>9 DEF PgInd

\* The forms a step can take, with what the proofs need of it. The user edits a part that is
\* not disabled.
Edited(p, v) ==
    /\ form' = [form EXCEPT ![p] = v] /\ touched' = [touched EXCEPT ![p] = pgOps]
    /\ typed' \in 0..MaxTyped /\ (locked => p \notin page.locks)
    /\ UNCHANGED <<page, cam, locked, reloadOff, otherOff, bar, ops, pgOps, filled, loadFailed, lostAnswer, beside>>

\* An operation is begun, and disables what it is to give back.
NewKinds == {"load", "save", "sync", "restart", "position", "generate", "provision"}
Begun(k, data) ==
    /\ pgOps < MaxPageOps /\ pgOps' = pgOps + 1
    /\ ops' = ops \cup {Op(pgOps + 1, k, data)}
    /\ beside' = IF ops = {} THEN beside ELSE beside \cup {k}
    /\ (k = "position" => "position" \in page.others)
    /\ (k = "save" => Enabled("submit") /\ data = form)
    /\ (locked' => locked \/ k \in {"save", "generate", "provision"} \/ (k = "load" /\ page.loadLocks))
    /\ (page.loadLocks /\ k \notin {"sync", "restart", "position"} => locked')
    /\ (reloadOff' => reloadOff \/ k = "load")
    /\ (otherOff' => otherOff \/ k \in {"sync", "restart"})
    /\ (bar' => bar \/ k # "position")
    /\ locked' \in BOOLEAN /\ reloadOff' \in BOOLEAN /\ otherOff' \in BOOLEAN /\ bar' \in BOOLEAN
    /\ UNCHANGED <<page, cam, form, typed, touched, filled, loadFailed, lostAnswer>>

\* A request goes on under its number: the camera serves it or it breaks off (new.kind is
\* o.kind), or its handler sends another one.
Moved(o, new) ==
    /\ ops' = (ops \ {o}) \cup {new} /\ new.n = o.n
    /\ UNCHANGED <<page, form, locked, reloadOff, otherOff, bar, pgOps, typed, touched, filled, loadFailed,
                   lostAnswer, beside>>

\* An operation ends, and gives back what it has disabled. The form is left alone only by those
\* that brought nothing.
Ended(o) ==
    /\ ops' = ops \ {o}
    /\ (locked' => locked /\ ~LocksForm(o)) /\ (reloadOff' => reloadOff /\ (o.kind # "load" \/ o.n = 1))
    /\ (otherOff' => otherOff /\ o.kind \notin {"sync", "restart", "reread_sync"})
    /\ (bar' => bar /\ o.kind = "position")
    /\ (filled => filled') /\ (loadFailed => loadFailed') /\ (lostAnswer => lostAnswer')
    /\ (o.kind = "load" => filled' \/ loadFailed')
    /\ (filled' => filled \/ Brings(o))
    /\ \/ Fill(o.data) /\ o.st = "ok" /\ Brings(o)
       \/ /\ form' = [form EXCEPT !["inputs"] = o.data["inputs"]]
          /\ touched' = [touched EXCEPT !["inputs"] = pgOps] /\ NoWriter(o)
       \/ /\ UNCHANGED <<form, touched>>
          /\ NoWriter(o) \/ loadFailed' \/ lostAnswer' \/ (o.kind = "save" /\ page.after = "none" /\ o.st = "ok")
    /\ locked' \in BOOLEAN /\ reloadOff' \in BOOLEAN /\ otherOff' \in BOOLEAN /\ bar' \in BOOLEAN
    /\ filled' \in BOOLEAN /\ loadFailed' \in BOOLEAN /\ lostAnswer' \in BOOLEAN
    /\ UNCHANGED <<page, cam, pgOps, typed, beside>>

\* At most the bar goes.
Rests == /\ bar' \in BOOLEAN /\ (bar' => bar)
         /\ UNCHANGED <<page, cam, form, locked, reloadOff, otherOff, ops, pgOps, typed, touched,
                        filled, loadFailed, lostAnswer, beside>>

\* Typing and importing a file.
LEMMA EditForms ==
    ASSUME PgShape,
           NEW p \in Parts, NEW v \in Settings \cup {"blank"}, Type(p, v) \/ (p = "inputs" /\ importFile(v))
    PROVE  Edited(p, v)
<1>1. typed' \in 0..MaxTyped
  BY PageAssumption DEF PgShape, Type, importFile
<1>2. locked => p \notin page.locks
  BY DEF Type, importFile, Enabled
<1> QED
  BY <1>1, <1>2 DEF Edited, Type, importFile

\* The buttons.
LEMMA BeginForms ==
    ASSUME PgShape,
           submitForm \/ reloadForm
           \/ \E k \in {"sync", "restart", "position", "generate", "provision"} : otherRequest(k)
    PROVE  \E k \in NewKinds, data \in [Parts -> Shows] : Begun(k, data)
<1>1. page.loadLocks \in BOOLEAN /\ (page.loadLocks => page.locks # {})
  BY PageFacts DEF PgShape
<1>2. form \in [Parts -> Shows]
  BY DEF PgShape
<1>3. CASE submitForm
  <2>1. Begun("save", form)
    BY <1>1, <1>3, Zenon DEF submitForm, Begin, Begun, PgShape
  <2> QED
    BY <1>2, <2>1 DEF NewKinds
<1>4. CASE reloadForm
  <2>1. Begun("load", form)
    BY <1>1, <1>4, Zenon DEF reloadForm, Begin, Begun, PgShape
  <2> QED
    BY <1>2, <2>1 DEF NewKinds
<1>5. ASSUME NEW k \in {"sync", "restart", "position", "generate", "provision"}, otherRequest(k)
      PROVE  \E j \in NewKinds, data \in [Parts -> Shows] : Begun(j, data)
  <2>1. PICK v \in Settings : ops' = ops \cup {Op(pgOps + 1, k, [form EXCEPT !["inputs"] = v])}
    BY <1>5 DEF otherRequest
  <2>2. [form EXCEPT !["inputs"] = v] \in [Parts -> Shows]
    BY <1>2 DEF Shows
  <2>3. k \in page.others /\ k \in NewKinds /\ k \notin {"save", "load"}
    BY <1>5 DEF otherRequest, NewKinds
  <2>4. Begun(k, [form EXCEPT !["inputs"] = v])
    <3>1. /\ (locked' => locked \/ k \in {"generate", "provision"}) /\ locked' \in BOOLEAN
          /\ (k \in {"generate", "provision"} => locked')
          /\ (otherOff' => otherOff \/ k \in {"sync", "restart"}) /\ otherOff' \in BOOLEAN
          /\ (bar' => bar \/ k # "position") /\ bar' \in BOOLEAN
      BY <1>5, Zenon DEF otherRequest
    <3>2. (reloadOff' => reloadOff) /\ reloadOff' \in BOOLEAN
      BY <1>5, Zenon DEF otherRequest, PgShape
    <3>3. k \notin {"sync", "restart", "position"} => k \in {"generate", "provision"}
      BY <1>5
    <3> QED
      BY <1>5, <2>1, <2>3, <3>1, <3>2, <3>3, Zenon DEF otherRequest, Begun
  <2> QED
    BY <2>2, <2>3, <2>4
<1> QED
  BY <1>3, <1>4, <1>5

\* Follows(o, k): a handler sends the next request of its operation, a read of the settings.
Follows(o, k) == /\ Moved(o, Op(o.n, k, form)) /\ UNCHANGED cam
                 /\ (k = "reread" /\ o.kind \in {"save", "provision"}) \/ (k = "reread_sync" /\ o.kind = "sync")

\* The handlers of answers and failures.
LEMMA HandleForms ==
    ASSUME PgShape, NEW o \in ops, OpShape(o), Handle(o)
    PROVE  Ended(o) \/ \E k \in {"reread", "reread_sync"} : Follows(o, k)
<1>1. o.st \in {"sent", "ok", "failed"} /\ page.loadLocks \in BOOLEAN /\ page.after \in {"load", "apply", "none"}
  BY PageFacts DEF OpShape, PgOp, PgShape
<1>2. CASE loadAnswer(o)
  <2>1. o.kind = "load" /\ o.st \in {"ok", "failed"} /\ Brings(o) /\ (LocksForm(o) <=> page.loadLocks)
    BY <1>1, <1>2 DEF loadAnswer, Brings, LocksForm
  <2>2. (Fill(o.data) /\ o.st = "ok") \/ (UNCHANGED <<form, touched>> /\ loadFailed')
    BY <1>2, <2>1 DEF loadAnswer
  <2>3. /\ (locked' => locked /\ ~page.loadLocks) /\ locked' \in BOOLEAN
        /\ (reloadOff' => reloadOff /\ o.n = 1) /\ reloadOff' \in BOOLEAN
        /\ bar' = FALSE /\ otherOff' = otherOff
        /\ (filled => filled') /\ filled' \in BOOLEAN /\ (loadFailed => loadFailed') /\ loadFailed' \in BOOLEAN
        /\ lostAnswer' = lostAnswer
    BY <1>2, Zenon DEF loadAnswer
  <2>4. filled' \/ loadFailed'
    BY <1>2, <2>1 DEF loadAnswer
  <2>5. otherOff' \in BOOLEAN /\ bar' \in BOOLEAN /\ lostAnswer' \in BOOLEAN
    BY <2>3, Zenon DEF PgShape
  <2>6. ops' = ops \ {o} /\ UNCHANGED <<page, cam, pgOps, typed, beside>>
    BY <1>2 DEF loadAnswer
  <2>7. o.kind \notin {"sync", "restart", "reread_sync"} /\ o.kind # "position"
    BY <2>1
  <2> QED
    BY <2>1, <2>2, <2>3, <2>4, <2>5, <2>6, <2>7, Zenon DEF Ended
<1>3. CASE saveAnswer(o)
  <2>1. o.kind = "save" /\ o.st \in {"ok", "failed"} /\ LocksForm(o)
    BY <1>1, <1>3 DEF saveAnswer, LocksForm
  <2>2. CASE o.st = "ok" /\ page.after = "load"
    <3>1. Follows(o, "reread")
      BY <1>3, <2>1, <2>2 DEF saveAnswer, Follows, Moved, Op
    <3> QED
      BY <3>1
  <2>3. CASE ~(o.st = "ok" /\ page.after = "load")
    <3>1. /\ ops' = ops \ {o} /\ locked' = FALSE /\ bar' = FALSE
          /\ UNCHANGED <<page, cam, reloadOff, otherOff, pgOps, typed, filled, loadFailed, beside>>
      BY <1>3, <2>3 DEF saveAnswer
    <3>2. lostAnswer' = (lostAnswer \/ o.st = "failed")
      BY <1>3, <2>3 DEF saveAnswer
    <3>3. \/ Fill(o.data) /\ o.st = "ok" /\ Brings(o)
          \/ UNCHANGED <<form, touched>> /\ (o.st = "failed" \/ (page.after = "none" /\ o.st = "ok"))
      BY <1>1, <1>3, <2>1, <2>3 DEF saveAnswer, Brings
    <3>4. o.kind \notin {"sync", "restart", "reread_sync"} /\ o.kind # "position" /\ o.kind # "load"
      BY <2>1
    <3>5. Ended(o)
      BY <2>1, <3>1, <3>2, <3>3, <3>4, Zenon DEF Ended, PgShape
    <3> QED
      BY <3>5
  <2> QED
    BY <2>2, <2>3
<1>4. CASE rereadAnswer(o)
  <2>1. /\ o.kind \in {"reread", "reread_sync"} /\ o.st \in {"ok", "failed"} /\ Brings(o)
        /\ (LocksForm(o) <=> o.kind # "reread_sync") /\ (o.kind = "reread" <=> o.kind # "reread_sync")
    BY <1>1, <1>4 DEF rereadAnswer, Brings, LocksForm
  <2>2. (Fill(o.data) /\ o.st = "ok") \/ (UNCHANGED <<form, touched>> /\ loadFailed')
    BY <1>4, <2>1 DEF rereadAnswer
  <2>3. /\ (locked' => locked /\ o.kind = "reread_sync") /\ locked' \in BOOLEAN
        /\ (otherOff' => otherOff /\ o.kind = "reread") /\ otherOff' \in BOOLEAN
        /\ bar' = FALSE /\ reloadOff' = reloadOff
        /\ (filled => filled') /\ filled' \in BOOLEAN /\ (loadFailed => loadFailed') /\ loadFailed' \in BOOLEAN
        /\ lostAnswer' = lostAnswer
    BY <1>4, Zenon DEF rereadAnswer
  <2>4. reloadOff' \in BOOLEAN /\ bar' \in BOOLEAN /\ lostAnswer' \in BOOLEAN
    BY <2>3, Zenon DEF PgShape
  <2>5. ops' = ops \ {o} /\ UNCHANGED <<page, cam, pgOps, typed, beside>>
    BY <1>4 DEF rereadAnswer
  <2>6. o.kind \notin {"sync", "restart"} /\ o.kind # "position" /\ o.kind # "load"
    BY <2>1
  <2>7. otherOff' => otherOff /\ o.kind \notin {"sync", "restart", "reread_sync"}
    BY <2>1, <2>3, <2>6, Zenon
  <2> QED
    BY <2>1, <2>2, <2>3, <2>4, <2>5, <2>6, <2>7, Zenon DEF Ended
<1>5. CASE syncAnswer(o)
  <2>1. o.kind = "sync" /\ o.st \in {"ok", "failed"} /\ NoWriter(o) /\ ~LocksForm(o)
    BY <1>1, <1>5 DEF syncAnswer, NoWriter, LocksForm
  <2>2. CASE o.st = "ok"
    <3>1. Follows(o, "reread_sync")
      BY <1>5, <2>1, <2>2 DEF syncAnswer, Follows, Moved, Op
    <3> QED
      BY <3>1
  <2>3. CASE o.st # "ok"
    <3>1. /\ ops' = ops \ {o} /\ otherOff' = FALSE /\ bar' = FALSE
          /\ UNCHANGED <<page, cam, form, locked, reloadOff, pgOps, typed, touched, filled, loadFailed, lostAnswer, beside>>
      BY <1>5, <2>3 DEF syncAnswer
    <3>2. o.kind # "position" /\ o.kind # "load"
      BY <2>1
    <3>3. Ended(o)
      BY <2>1, <3>1, <3>2, Zenon DEF Ended, PgShape
    <3> QED
      BY <3>3
  <2> QED
    BY <2>2, <2>3
<1>6. CASE restartAnswer(o)
  <2>1. o.kind # "position" /\ o.kind # "load" /\ NoWriter(o) /\ ~LocksForm(o)
    BY <1>6 DEF restartAnswer, NoWriter, LocksForm
  <2> QED
    BY <1>6, <2>1, Zenon DEF restartAnswer, Ended, PgShape
<1>7. CASE positionAnswer(o)
  <2>1. /\ o.kind = "position" /\ o.st \in {"ok", "failed"} /\ o.kind # "load" /\ NoWriter(o) /\ ~LocksForm(o)
        /\ o.kind \notin {"sync", "restart", "reread_sync"}
    BY <1>1, <1>7 DEF positionAnswer, NoWriter, LocksForm
  <2>2. \/ /\ form' = [form EXCEPT !["inputs"] = o.data["inputs"]]
           /\ touched' = [touched EXCEPT !["inputs"] = pgOps]
        \/ UNCHANGED <<form, touched>>
    BY <1>7 DEF positionAnswer
  <2>3. /\ ops' = ops \ {o}
        /\ UNCHANGED <<page, cam, locked, reloadOff, otherOff, bar, pgOps, typed, filled, loadFailed, lostAnswer, beside>>
    BY <1>7 DEF positionAnswer
  <2> QED
    BY <2>1, <2>2, <2>3, Zenon DEF Ended, PgShape
<1>8. CASE generateAnswer(o)
  <2>1. /\ o.kind = "generate" /\ o.st \in {"ok", "failed"} /\ o.kind # "load" /\ NoWriter(o) /\ LocksForm(o)
        /\ o.kind \notin {"sync", "restart", "reread_sync"}
    BY <1>1, <1>8 DEF generateAnswer, NoWriter, LocksForm
  <2>2. \/ /\ form' = [form EXCEPT !["inputs"] = o.data["inputs"]]
           /\ touched' = [touched EXCEPT !["inputs"] = pgOps]
        \/ UNCHANGED <<form, touched>>
    BY <1>8 DEF generateAnswer
  <2>3. /\ ops' = ops \ {o} /\ locked' = FALSE /\ bar' = FALSE
        /\ UNCHANGED <<page, cam, reloadOff, otherOff, pgOps, typed, filled, loadFailed, lostAnswer, beside>>
    BY <1>8 DEF generateAnswer
  <2> QED
    BY <2>1, <2>2, <2>3, Zenon DEF Ended, PgShape
<1>9. CASE provisionAnswer(o)
  <2>1. /\ o.kind = "provision" /\ o.st \in {"ok", "failed"} /\ o.kind # "load" /\ LocksForm(o)
        /\ o.kind \notin {"sync", "restart", "reread_sync"}
    BY <1>1, <1>9 DEF provisionAnswer, LocksForm
  <2>2. CASE o.st = "ok"
    <3>1. Follows(o, "reread")
      BY <1>9, <2>1, <2>2 DEF provisionAnswer, Follows, Moved, Op
    <3> QED
      BY <3>1
  <2>3. CASE o.st # "ok"
    <3>1. /\ ops' = ops \ {o} /\ locked' = FALSE /\ bar' = FALSE /\ lostAnswer' = TRUE
          /\ UNCHANGED <<page, cam, form, reloadOff, otherOff, pgOps, typed, touched, filled, loadFailed, beside>>
      BY <1>9, <2>3 DEF provisionAnswer
    <3>2. Ended(o)
      BY <2>1, <3>1, Zenon DEF Ended, PgShape
    <3> QED
      BY <3>2
  <2> QED
    BY <2>2, <2>3
<1> QED
  BY <1>2, <1>3, <1>4, <1>5, <1>6, <1>7, <1>8, <1>9 DEF Handle

\* Handled(o, new): the camera has served the request, or it has broken off.
Handled(o, new) ==
    /\ Moved(o, new) /\ new.kind = o.kind /\ new.st \in {"ok", "failed"}
    /\ cam' \in [Parts -> Settings \cup {"unset", "default"}] /\ (o.kind \notin {"save", "provision"} => cam' = cam)
    /\ (new.st = "ok" =>
            /\ o.st = "sent" /\ (Brings(o) => \A p \in Parts : new.data[p] = Shown(cam'[p]))
            /\ (o.kind = "save" => \A p \in page.parts : cam'[p] = Stored(o.data[p])))

\* The camera and the network.
LEMMA CameraForms ==
    ASSUME PgShape, NEW o \in ops, OpShape(o), Serve(o) \/ Break(o) PROVE \E new \in PgOp : Handled(o, new)
<1>1. o \in PgOp /\ page.fallback \in {"blank", "default"} /\ page.parts \subseteq Parts
  BY PageFacts DEF OpShape, PgShape
<1>2. CASE Serve(o)
  <2>1. \A p \in Parts : Stored(o.data[p]) \in Settings \cup {"unset", "default"}
    BY <1>1 DEF PgOp, Stored, Shows
  <2>2. cam' \in [Parts -> Settings \cup {"unset", "default"}]
    BY <1>2, <2>1 DEF Serve, PgShape
  <2>3. \A p \in Parts : Shown(cam'[p]) \in Shows
    BY <1>1, <2>2 DEF Shown, Shows
  <2>4. PICK d : d = [p \in Parts |-> Shown(cam'[p])]
    OBVIOUS
  <2>5. d \in [Parts -> Shows]
    BY <2>3, <2>4
  <2>6. PICK e : e = IF Brings(o) THEN d ELSE o.data
    OBVIOUS
  <2>7. e \in [Parts -> Shows]
    BY <1>1, <2>5, <2>6 DEF PgOp
  <2>8. PICK new : new = [o EXCEPT !.st = "ok", !.data = e]
    OBVIOUS
  <2>9. new \in PgOp /\ new.n = o.n /\ new.kind = o.kind /\ new.st = "ok" /\ new.data = e
    BY <1>1, <2>7, <2>8 DEF PgOp
  <2>10. ops' = (ops \ {o}) \cup {new}
    <3>1. CASE Brings(o)
      BY <1>2, <2>4, <2>6, <2>8, <3>1 DEF Serve, Brings
    <3>2. CASE ~Brings(o)
      BY <1>2, <2>6, <2>8, <3>2 DEF Serve, Brings
    <3> QED
      BY <3>1, <3>2
  <2>11. Moved(o, new)
    BY <1>2, <2>9, <2>10 DEF Serve, Moved
  <2>12. o.kind \notin {"save", "provision"} => cam' = cam
    BY <1>2 DEF Serve
  <2>13. o.kind = "save" => \A p \in page.parts : cam'[p] = Stored(o.data[p])
    BY <1>1, <1>2 DEF Serve
  <2>14. o.st = "sent" /\ (Brings(o) => \A p \in Parts : new.data[p] = Shown(cam'[p]))
    BY <1>2, <2>4, <2>6, <2>9 DEF Serve
  <2>15. Handled(o, new)
    BY <2>2, <2>9, <2>11, <2>12, <2>13, <2>14 DEF Handled
  <2> QED
    BY <2>9, <2>15
<1>3. CASE Break(o)
  <2>1. PICK new : new = [o EXCEPT !.st = "failed"]
    OBVIOUS
  <2>2. new \in PgOp /\ new.n = o.n /\ new.kind = o.kind /\ new.st = "failed"
    BY <1>1, <2>1 DEF PgOp
  <2>3. Moved(o, new) /\ cam' = cam
    BY <1>3, <2>1, <2>2 DEF Break, Moved
  <2>4. Handled(o, new)
    BY <2>2, <2>3 DEF Handled, PgShape
  <2> QED
    BY <2>2, <2>4
<1> QED
  BY <1>2, <1>3

PgStep == \/ \E p \in Parts, v \in Shows : Edited(p, v)
          \/ \E k \in NewKinds, data \in [Parts -> Shows] : Begun(k, data)
          \/ \E o \in ops, new \in PgOp : Handled(o, new)
          \/ \E o \in ops : Ended(o)
          \/ \E o \in ops, k \in {"reread", "reread_sync"} : Follows(o, k)
          \/ Rests

\* Every step has one of the forms.
LEMMA PgForms == ASSUME PgShape, OpsShape, [PgNext]_pgvars PROVE PgStep
<1>1. ASSUME NEW p \in Parts, NEW v \in Settings \cup {"blank"}, Type(p, v) \/ (p = "inputs" /\ importFile(v))
      PROVE  PgStep
  BY <1>1, EditForms DEF PgStep, Shows
<1>2. ASSUME submitForm \/ reloadForm
             \/ \E k \in {"sync", "restart", "position", "generate", "provision"} : otherRequest(k)
      PROVE  PgStep
  BY <1>2, BeginForms DEF PgStep
<1>3. ASSUME NEW o \in ops, Serve(o) \/ Break(o) PROVE PgStep
  BY <1>3, CameraForms DEF PgStep, OpsShape
<1>4. ASSUME NEW o \in ops, Handle(o) PROVE PgStep
  BY <1>4, HandleForms DEF PgStep, OpsShape
<1>5. CASE busyBarTimeout
  <2>1. Rests
    BY <1>5, Zenon DEF busyBarTimeout, Rests
  <2> QED
    BY <2>1 DEF PgStep
<1>6. CASE UNCHANGED pgvars
  <2>1. Rests
    BY <1>6, Zenon DEF pgvars, Rests, PgShape
  <2> QED
    BY <2>1 DEF PgStep
<1>7. "inputs" \in Parts
  BY DEF Parts, InputsAndRows
<1> QED
  BY <1>1, <1>2, <1>3, <1>4, <1>5, <1>6, <1>7 DEF PgNext, PgProgress

\* The types are kept.
LEMMA PgShapeStep == ASSUME PgShape, OpsShape, PgStep PROVE PgShape' /\ OpsShape'
<1>1. ASSUME NEW p \in Parts, NEW v \in Shows, Edited(p, v) PROVE PgShape' /\ OpsShape'
  <2>1. form' \in [Parts -> Shows] /\ touched' \in [Parts -> 0..pgOps]
    BY <1>1 DEF Edited, PgShape
  <2>2. PgShape'
    BY <1>1, <2>1 DEF Edited, PgShape
  <2>3. OpsShape'
    BY <1>1 DEF Edited, OpsShape, OpShape
  <2> QED
    BY <2>2, <2>3
<1>2. ASSUME NEW k \in NewKinds, NEW data \in [Parts -> Shows], Begun(k, data) PROVE PgShape' /\ OpsShape'
  <2>0. PICK new : new = Op(pgOps + 1, k, data)
    OBVIOUS
  <2>1. pgOps \in 1..MaxPageOps /\ pgOps' = pgOps + 1 /\ pgOps' \in 1..MaxPageOps /\ MaxPageOps \in Nat
    BY <1>2, PageAssumption DEF Begun, PgShape
  <2>2. touched' \in [Parts -> 0..pgOps']
    BY <1>2, <2>1 DEF Begun, PgShape
  <2>3. beside' \subseteq OpKinds /\ k \in OpKinds
    BY <1>2 DEF Begun, PgShape, NewKinds, OpKinds
  <2>4. PgShape'
    BY <1>2, <2>1, <2>2, <2>3 DEF Begun, PgShape
  <2>5. new \in PgOp /\ new.n = pgOps + 1 /\ new.kind = k
    BY <2>0, <2>1, <2>3 DEF Op, PgOp
  <2>6. ops' = ops \cup {new} /\ page' = page /\ (k = "position" => "position" \in page.others)
    BY <1>2, <2>0 DEF Begun
  <2>7. \A o \in ops : OpShape(o)' /\ o.n # new.n
    BY <2>1, <2>5, <2>6 DEF OpsShape, OpShape, PgOp
  <2>8. OpShape(new)'
    BY <2>1, <2>5, <2>6 DEF OpShape
  <2>9. \A o \in ops' : OpShape(o)'
    BY <2>6, <2>7, <2>8
  <2>10. \A o, q \in ops' : o.n = q.n => o = q
    BY <2>6, <2>7 DEF OpsShape
  <2> QED
    BY <2>4, <2>9, <2>10 DEF OpsShape
<1>3. ASSUME NEW o \in ops, NEW new \in PgOp, Moved(o, new), new.kind # "position" \/ new.kind = o.kind,
             cam' \in [Parts -> Settings \cup {"unset", "default"}]
      PROVE  PgShape' /\ OpsShape'
  <2>1. PgShape'
    BY <1>3 DEF Moved, PgShape
  <2>2. \A q \in ops' : OpShape(q)'
    BY <1>3 DEF Moved, OpsShape, OpShape
  <2>3. \A p, q \in ops' : p.n = q.n => p = q
    BY <1>3 DEF Moved, OpsShape
  <2> QED
    BY <2>1, <2>2, <2>3 DEF OpsShape
<1>4. ASSUME NEW o \in ops, NEW new \in PgOp, Handled(o, new) PROVE PgShape' /\ OpsShape'
  BY <1>3, <1>4 DEF Handled
<1>5. ASSUME NEW o \in ops, NEW k \in {"reread", "reread_sync"}, Follows(o, k) PROVE PgShape' /\ OpsShape'
  <2>1. PICK new : new = Op(o.n, k, form)
    OBVIOUS
  <2>2. new \in PgOp /\ new.kind = k
    BY <2>1 DEF Op, PgOp, OpKinds, PgShape, OpsShape, OpShape
  <2>3. Moved(o, new) /\ cam' \in [Parts -> Settings \cup {"unset", "default"}]
    BY <1>5, <2>1 DEF Follows, PgShape
  <2> QED
    BY <1>3, <2>2, <2>3
<1>6. ASSUME NEW o \in ops, Ended(o) PROVE PgShape' /\ OpsShape'
  <2>1. o.data \in [Parts -> Shows] /\ "inputs" \in Parts /\ form \in [Parts -> Shows]
        /\ pgOps \in Nat /\ touched \in [Parts -> 0..pgOps]
    BY DEF OpsShape, OpShape, PgOp, PgShape, Parts, InputsAndRows
  <2>2. form' \in [Parts -> Shows] /\ touched' \in [Parts -> 0..pgOps]
    <3>1. CASE Fill(o.data)
      BY <2>1, <3>1 DEF Fill
    <3>2. CASE form' = [form EXCEPT !["inputs"] = o.data["inputs"]] /\ touched' = [touched EXCEPT !["inputs"] = pgOps]
      BY <2>1, <3>2
    <3> QED
      BY <1>6, <2>1, <3>1, <3>2 DEF Ended
  <2>3. PgShape'
    BY <1>6, <2>2 DEF Ended, PgShape
  <2>4. OpsShape'
    BY <1>6 DEF Ended, OpsShape, OpShape
  <2> QED
    BY <2>3, <2>4
<1>7. ASSUME Rests PROVE PgShape' /\ OpsShape'
  BY <1>7 DEF Rests, PgShape, OpsShape, OpShape
<1> QED
  BY <1>1, <1>2, <1>4, <1>5, <1>6, <1>7 DEF PgStep

\* Whoever disables something gives it back.
LEMMA HoldersStep == ASSUME PgShape, OpsShape, Holders, PgStep PROVE Holders'
<1>1. ASSUME NEW p \in Parts, NEW v \in Shows, Edited(p, v) PROVE Holders'
  BY <1>1 DEF Edited, Holders, LocksForm
<1>2. ASSUME NEW k \in NewKinds, NEW data \in [Parts -> Shows], Begun(k, data) PROVE Holders'
  <2>1. PICK new : new = Op(pgOps + 1, k, data)
    OBVIOUS
  <2>2. new.kind = k /\ new.n # 1 /\ ops' = ops \cup {new} /\ page' = page
    BY <1>2, <2>1 DEF Begun, Op, PgShape
  <2>3. locked' => \E o \in ops' : LocksForm(o)'
    BY <1>2, <2>2 DEF Begun, Holders, LocksForm
  <2>4. reloadOff' => \E o \in ops' : o.kind = "load" /\ o.n # 1
    BY <1>2, <2>2 DEF Begun, Holders
  <2>5. otherOff' => \E o \in ops' : o.kind \in {"sync", "restart", "reread_sync"}
    BY <1>2, <2>2 DEF Begun, Holders
  <2>6. bar' => \E o \in ops' : o.kind # "position"
    BY <1>2, <2>2 DEF Begun, Holders
  <2> QED
    BY <2>3, <2>4, <2>5, <2>6 DEF Holders
<1>3. ASSUME NEW o \in ops, NEW new, Moved(o, new), LocksForm(o) => LocksForm(new), o.kind = "load" => new.kind = "load",
             o.kind \in {"sync", "restart", "reread_sync"} => new.kind \in {"sync", "restart", "reread_sync"},
             o.kind # "position" => new.kind # "position"
      PROVE  Holders'
  <2>1. ops' = (ops \ {o}) \cup {new} /\ new.n = o.n /\ page' = page
    BY <1>3 DEF Moved
  <2>2. locked' => \E q \in ops' : LocksForm(q)'
    BY <1>3, <2>1 DEF Moved, Holders, LocksForm
  <2>3. reloadOff' => \E q \in ops' : q.kind = "load" /\ q.n # 1
    BY <1>3, <2>1 DEF Moved, Holders
  <2>4. otherOff' => \E q \in ops' : q.kind \in {"sync", "restart", "reread_sync"}
    BY <1>3, <2>1 DEF Moved, Holders
  <2>5. bar' => \E q \in ops' : q.kind # "position"
    BY <1>3, <2>1 DEF Moved, Holders
  <2> QED
    BY <2>2, <2>3, <2>4, <2>5 DEF Holders
<1>4. ASSUME NEW o \in ops, NEW new \in PgOp, Handled(o, new) PROVE Holders'
  BY <1>3, <1>4 DEF Handled, LocksForm
<1>5. ASSUME NEW o \in ops, NEW k \in {"reread", "reread_sync"}, Follows(o, k) PROVE Holders'
  <2>1. PICK new : new = Op(o.n, k, form)
    OBVIOUS
  <2>2. new.kind = k /\ Moved(o, new)
    BY <1>5, <2>1 DEF Op, Follows
  <2> QED
    BY <1>3, <1>5, <2>2 DEF Follows, LocksForm
<1>6. ASSUME NEW o \in ops, Ended(o) PROVE Holders'
  <2>1. ops' = ops \ {o} /\ page' = page
    BY <1>6 DEF Ended
  <2>2. locked' => \E q \in ops' : LocksForm(q)'
    BY <1>6, <2>1 DEF Ended, Holders, LocksForm
  <2>3. reloadOff' => \E q \in ops' : q.kind = "load" /\ q.n # 1
    BY <1>6, <2>1 DEF Ended, Holders
  <2>4. otherOff' => \E q \in ops' : q.kind \in {"sync", "restart", "reread_sync"}
    BY <1>6, <2>1 DEF Ended, Holders
  <2>5. bar' => \E q \in ops' : q.kind # "position"
    BY <1>6, <2>1 DEF Ended, Holders
  <2> QED
    BY <2>2, <2>3, <2>4, <2>5 DEF Holders
<1>7. ASSUME Rests PROVE Holders'
  BY <1>7 DEF Rests, Holders, LocksForm
<1> QED
  BY <1>1, <1>2, <1>4, <1>5, <1>6, <1>7 DEF PgStep

\* No form is posted before a load has filled it or failed.
LEMMA FirstLoadStep ==
    ASSUME PgShape, OpsShape, FirstLoad, FilledBeforeSaved, PgStep PROVE FirstLoad' /\ FilledBeforeSaved'
<1>0. page.loadLocks => "submit" \in page.locks
  BY PageFacts DEF PgShape
<1>1. ASSUME NEW p \in Parts, NEW v \in Shows, Edited(p, v) PROVE FirstLoad' /\ FilledBeforeSaved'
  BY <1>1 DEF Edited, FirstLoad, FilledBeforeSaved
<1>2. ASSUME NEW k \in NewKinds, NEW data \in [Parts -> Shows], Begun(k, data) PROVE FirstLoad' /\ FilledBeforeSaved'
  <2>1. PICK new : new = Op(pgOps + 1, k, data)
    OBVIOUS
  <2>2. /\ new.kind = k /\ ops' = ops \cup {new} /\ UNCHANGED <<page, filled, loadFailed>>
        /\ beside' = IF ops = {} THEN beside ELSE beside \cup {k}
    BY <1>2, <2>1 DEF Begun, Op
  <2>3. k = "save" /\ page.loadLocks => ~locked
    BY <1>0, <1>2 DEF Begun, Enabled
  <2>4. page.loadLocks => filled \/ loadFailed \/ beside \ {"save"} # {} \/ k # "save"
    BY <2>3 DEF FirstLoad
  <2>5. beside \ {"save"} # {} => beside' \ {"save"} # {}
    BY <2>2
  <2>6. FilledBeforeSaved'
    BY <2>2, <2>4, <2>5 DEF FilledBeforeSaved
  <2>7. page.loadLocks => filled \/ loadFailed \/ beside' \ {"save"} # {}
    <3>1. CASE page.loadLocks /\ ~filled /\ ~loadFailed /\ beside \ {"save"} = {}
      <4>1. ops # {} /\ k # "save"
        BY <2>4, <3>1 DEF FirstLoad
      <4> QED
        BY <2>2, <4>1
    <3> QED
      BY <2>5, <3>1
  <2>8. FirstLoad'
    BY <2>2, <2>7 DEF FirstLoad
  <2> QED
    BY <2>6, <2>8
<1>3. ASSUME NEW o \in ops, NEW new, Moved(o, new), new.kind = o.kind \/ (new.kind # "save" /\ o.kind # "load")
      PROVE  FirstLoad' /\ FilledBeforeSaved'
  <2>1. ops' = (ops \ {o}) \cup {new} /\ UNCHANGED <<page, locked, filled, loadFailed, beside>>
    BY <1>3 DEF Moved
  <2>2. FirstLoad'
    BY <1>3, <2>1 DEF FirstLoad
  <2>3. FilledBeforeSaved'
    BY <1>3, <2>1 DEF FilledBeforeSaved
  <2> QED
    BY <2>2, <2>3
<1>4. ASSUME NEW o \in ops, NEW new \in PgOp, Handled(o, new) PROVE FirstLoad' /\ FilledBeforeSaved'
  BY <1>3, <1>4 DEF Handled
<1>5. ASSUME NEW o \in ops, NEW k \in {"reread", "reread_sync"}, Follows(o, k) PROVE FirstLoad' /\ FilledBeforeSaved'
  <2>1. PICK new : new = Op(o.n, k, form)
    OBVIOUS
  <2>2. new.kind = k /\ Moved(o, new)
    BY <1>5, <2>1 DEF Op, Follows
  <2> QED
    BY <1>3, <1>5, <2>2 DEF Follows
<1>6. ASSUME NEW o \in ops, Ended(o) PROVE FirstLoad' /\ FilledBeforeSaved'
  <2>1. ops' = ops \ {o} /\ page' = page /\ beside' = beside
    BY <1>6 DEF Ended
  <2>2. (filled => filled') /\ (loadFailed => loadFailed') /\ (o.kind = "load" => filled' \/ loadFailed')
    BY <1>6 DEF Ended
  <2>3. FilledBeforeSaved'
    BY <2>1, <2>2 DEF FilledBeforeSaved
  <2>4. FirstLoad'
    BY <2>1, <2>2 DEF FirstLoad
  <2> QED
    BY <2>3, <2>4
<1>7. ASSUME Rests PROVE FirstLoad' /\ FilledBeforeSaved'
  BY <1>7 DEF Rests, FirstLoad, FilledBeforeSaved
<1> QED
  BY <1>1, <1>2, <1>4, <1>5, <1>6, <1>7 DEF PgStep

\* Where nothing was begun beside something else, an operation is alone with a form that has
\* been disabled since.
LEMMA GuardedStep ==
    ASSUME PgShape, OpsShape, OneAtATime, Guarded, PgStep PROVE OneAtATime' /\ Guarded'
<1>1. ASSUME NEW p \in Parts, NEW v \in Shows, Edited(p, v) PROVE OneAtATime' /\ Guarded'
  <2>1. \A o \in ops : HeldSince(o) => HeldSince(o)'
    BY <1>1 DEF Edited, HeldSince, PgShape
  <2> QED
    BY <1>1, <2>1 DEF Edited, OneAtATime, Guarded
<1>2. ASSUME NEW k \in NewKinds, NEW data \in [Parts -> Shows], Begun(k, data) PROVE OneAtATime' /\ Guarded'
  <2>1. PICK new : new = Op(pgOps + 1, k, data)
    OBVIOUS
  <2>2. new.kind = k /\ new.n = pgOps + 1 /\ ops' = ops \cup {new} /\ UNCHANGED <<page, touched>>
    BY <1>2, <2>1 DEF Begun, Op
  <2>3. beside' = {} => ops' = {new}
    BY <1>2, <2>2 DEF Begun
  <2>4. \A p \in Parts : touched[p] < new.n
    BY <2>2 DEF PgShape
  <2>5. page.loadLocks /\ k \notin {"sync", "restart", "position"} => locked'
    BY <1>2 DEF Begun
  <2>6. OneAtATime'
    BY <2>3 DEF OneAtATime
  <2>7. Guarded'
    BY <2>2, <2>3, <2>4, <2>5 DEF Guarded, HeldSince
  <2> QED
    BY <2>6, <2>7
<1>3. ASSUME NEW o \in ops, NEW new, Moved(o, new), HeldSince(o) => HeldSince(new),
             new.kind \in {"sync", "reread_sync", "restart", "position"}
             \/ o.kind \notin {"sync", "reread_sync", "restart", "position"}
      PROVE  OneAtATime' /\ Guarded'
  <2>1. ops' = (ops \ {o}) \cup {new} /\ UNCHANGED <<page, locked, touched, beside>>
    BY <1>3 DEF Moved
  <2>2. OneAtATime'
    BY <2>1 DEF OneAtATime
  <2>3. \A q : HeldSince(q)' <=> HeldSince(q)
    BY <2>1 DEF HeldSince
  <2>4. Guarded'
    BY <1>3, <2>1, <2>3 DEF Guarded
  <2> QED
    BY <2>2, <2>4
<1>4. ASSUME NEW o \in ops, NEW new \in PgOp, Handled(o, new) PROVE OneAtATime' /\ Guarded'
  BY <1>3, <1>4 DEF Handled, Moved, HeldSince
<1>5. ASSUME NEW o \in ops, NEW k \in {"reread", "reread_sync"}, Follows(o, k) PROVE OneAtATime' /\ Guarded'
  <2>1. PICK new : new = Op(o.n, k, form)
    OBVIOUS
  <2>2. new.kind = k /\ new.n = o.n /\ Moved(o, new)
    BY <1>5, <2>1 DEF Op, Follows
  <2> QED
    BY <1>3, <1>5, <2>2 DEF Follows, HeldSince
<1>6. ASSUME NEW o \in ops, Ended(o) PROVE OneAtATime' /\ Guarded'
  <2>1. ops' = ops \ {o} /\ page' = page /\ beside' = beside
    BY <1>6 DEF Ended
  <2>2. beside = {} => ops' = {}
    BY <2>1 DEF OneAtATime
  <2> QED
    BY <2>1, <2>2 DEF OneAtATime, Guarded
<1>7. ASSUME Rests PROVE OneAtATime' /\ Guarded'
  BY <1>7 DEF Rests, OneAtATime, Guarded, HeldSince
<1> QED
  BY <1>1, <1>2, <1>4, <1>5, <1>6, <1>7 DEF PgStep

\* What a page that shows unset values as blank stores is shown as it was.
LEMMA StoredShown ==
    ASSUME page.fallback = "blank", NEW v \in Shows PROVE Shown(Stored(v)) = v
<1> QED
  BY PageAssumption DEF Shown, Stored, Shows

\* Requests that succeed one after the other leave the form as the camera has it.
LEMMA SettledStep == ASSUME PgShape, OpsShape, OneAtATime, Settled, PgStep PROVE Settled'
<1>0. /\ page.parts \subseteq Parts /\ (page.after = "none" => page.fallback = "blank")
      /\ pgOps \in Nat \ {0} /\ form \in [Parts -> Shows] /\ touched \in [Parts -> 0..pgOps]
  BY PageFacts DEF PgShape
<1>1. ASSUME NEW p \in Parts, NEW v \in Shows, Edited(p, v) PROVE Settled'
  <2>1. \A q \in page.parts : touched'[q] = 0 => touched[q] = 0 /\ form'[q] = form[q]
    BY <1>0, <1>1 DEF Edited
  <2>2. UNCHANGED <<page, cam, ops, filled, loadFailed, lostAnswer, beside>>
    BY <1>1 DEF Edited
  <2>3. Match => Match'
    BY <2>1, <2>2 DEF Match, Shown
  <2>4. ASSUME NEW o \in ops, Settling(o) PROVE Settling(o)'
    BY <2>1, <2>2, <2>3, <2>4 DEF Settling, Brings, Shown
  <2> QED
    BY <2>2, <2>3, <2>4 DEF Settled, NoWriter
<1>2. ASSUME NEW k \in NewKinds, NEW data \in [Parts -> Shows], Begun(k, data) PROVE Settled'
  <2> SUFFICES ASSUME beside' = {}, ~loadFailed', ~lostAnswer'
               PROVE  ((\A o \in ops' : NoWriter(o)) /\ filled' => Match') /\ \A o \in ops' : Settling(o)'
    BY DEF Settled, NoWriter
  <2>1. PICK new : new = Op(pgOps + 1, k, data)
    OBVIOUS
  <2>2. /\ new.kind = k /\ new.st = "sent" /\ new.data = data /\ ops' = ops \cup {new}
        /\ UNCHANGED <<page, cam, form, touched, filled, loadFailed, lostAnswer>>
        /\ (k = "save" => data = form)
    BY <1>2, <2>1 DEF Begun, Op
  <2>3. ops = {} /\ beside = {}
    BY <1>2 DEF Begun
  <2>4. filled => Match
    BY <2>2, <2>3 DEF Settled
  <2>5. Settling(new)'
    BY <2>2 DEF Settling
  <2>6. Match' <=> Match
    BY <2>2 DEF Match, Shown
  <2> QED
    BY <2>2, <2>3, <2>4, <2>5, <2>6
<1>3. ASSUME NEW o \in ops, NEW new \in PgOp, Handled(o, new) PROVE Settled'
  <2> SUFFICES ASSUME beside' = {}, ~loadFailed', ~lostAnswer'
               PROVE  ((\A q \in ops' : NoWriter(q)) /\ filled' => Match') /\ \A q \in ops' : Settling(q)'
    BY DEF Settled, NoWriter
  <2>1. /\ UNCHANGED <<page, form, touched, filled, loadFailed, lostAnswer, beside>> /\ ops' = (ops \ {o}) \cup {new}
        /\ new.kind = o.kind /\ new.st \in {"ok", "failed"} /\ (o.kind \notin {"save", "provision"} => cam' = cam)
    BY <1>3 DEF Handled, Moved
  <2>2. ops = {o} /\ ops' = {new}
    BY <2>1 DEF OneAtATime
  <2>3. Settling(o) /\ (NoWriter(o) /\ filled => Match)
    BY <2>1, <2>2 DEF Settled
  <2>4. NoWriter(new) /\ filled => Match'
    BY <2>1, <2>3 DEF NoWriter, Match, Shown
  <2>5. new.st = "ok" /\ Brings(new)' => \A p \in page.parts : new.data[p] = Shown(cam[p])'
    BY <1>0, <1>3, <2>1 DEF Handled, Brings, Shown
  <2>6. ASSUME new.kind = "save", page.after = "none", new.st = "ok" PROVE Match'
    <3>1. o.st = "sent" /\ \A p \in page.parts : cam'[p] = Stored(o.data[p])
      BY <1>3, <2>1, <2>6 DEF Handled
    <3>2. \A p \in page.parts : touched[p] = 0 => o.data[p] = form[p]
      BY <2>1, <2>3, <2>6, <3>1 DEF Settling
    <3>3. \A p \in page.parts : Shown(Stored(form[p])) = form[p]
      BY <1>0, <2>6, StoredShown
    <3>4. \A p \in page.parts : touched[p] = 0 => form[p] = Shown(cam'[p])
      BY <3>1, <3>2, <3>3
    <3> QED
      BY <2>1, <3>4 DEF Match, Shown
  <2>7. Settling(new)'
    BY <2>1, <2>5, <2>6 DEF Settling
  <2> QED
    BY <2>1, <2>2, <2>4, <2>7
<1>4. ASSUME NEW o \in ops, NEW k \in {"reread", "reread_sync"}, Follows(o, k) PROVE Settled'
  <2>1. PICK new : new = Op(o.n, k, form)
    OBVIOUS
  <2>2. new.kind = k /\ new.st = "sent" /\ ops' = (ops \ {o}) \cup {new} /\ beside' = beside
    BY <1>4, <2>1 DEF Op, Follows, Moved
  <2>3. beside = {} => ops' = {new}
    BY <2>2 DEF OneAtATime
  <2>4. ~NoWriter(new) /\ Settling(new)'
    BY <2>2 DEF NoWriter, Settling
  <2> QED
    BY <2>2, <2>3, <2>4 DEF Settled, NoWriter
<1>5. ASSUME NEW o \in ops, Ended(o) PROVE Settled'
  <2> SUFFICES ASSUME beside' = {}, ~loadFailed', ~lostAnswer' PROVE ops' = {} /\ (filled' => Match')
    BY DEF Settled
  <2>1. ops' = ops \ {o} /\ UNCHANGED <<page, cam, beside>> /\ ~loadFailed /\ ~lostAnswer
    BY <1>5 DEF Ended
  <2>2. ops = {o} /\ ops' = {}
    BY <2>1 DEF OneAtATime
  <2>3. Settling(o) /\ (NoWriter(o) /\ filled => Match)
    BY <2>1, <2>2 DEF Settled
  <2>4. NoWriter(o) /\ filled' => filled
    BY <1>5 DEF Ended, NoWriter, Brings
  <2>5. CASE Fill(o.data) /\ o.st = "ok" /\ Brings(o)
    <3>1. \A p \in page.parts : form'[p] = o.data[p]
      BY <1>0, <2>5 DEF Fill
    <3>2. \A p \in page.parts : o.data[p] = Shown(cam[p])
      BY <2>3, <2>5 DEF Settling
    <3>3. Match'
      BY <2>1, <3>1, <3>2 DEF Match, Shown
    <3> QED
      BY <2>2, <3>3
  <2>6. CASE /\ form' = [form EXCEPT !["inputs"] = o.data["inputs"]]
             /\ touched' = [touched EXCEPT !["inputs"] = pgOps] /\ NoWriter(o)
    <3>1. \A p \in page.parts : touched'[p] = 0 => touched[p] = 0 /\ form'[p] = form[p]
      BY <1>0, <2>6
    <3>2. filled' => Match'
      BY <2>1, <2>3, <2>4, <2>6, <3>1 DEF Match, Shown
    <3> QED
      BY <2>2, <3>2
  <2>7. CASE /\ UNCHANGED <<form, touched>>
             /\ NoWriter(o) \/ loadFailed' \/ lostAnswer' \/ (o.kind = "save" /\ page.after = "none" /\ o.st = "ok")
    <3>1. filled' => Match
      BY <2>3, <2>4, <2>7 DEF Settling
    <3>2. filled' => Match'
      BY <2>1, <2>7, <3>1 DEF Match, Shown
    <3> QED
      BY <2>2, <3>2
  <2> QED
    BY <1>5, <2>5, <2>6, <2>7 DEF Ended
<1>6. ASSUME Rests PROVE Settled'
  BY <1>6 DEF Rests, Settled, NoWriter, Match, Settling, Brings, Shown
<1> QED
  BY <1>1, <1>2, <1>3, <1>4, <1>5, <1>6 DEF PgStep

\* Every step of a settings page keeps the invariant.
LEMMA PgIndStep == PgInd /\ [PgNext]_pgvars => PgInd'
<1> SUFFICES ASSUME PgInd, [PgNext]_pgvars PROVE PgInd'
  OBVIOUS
<1>1. PgStep
  BY PgForms DEF PgInd
<1> QED
  BY <1>1, PgShapeStep, HoldersStep, FirstLoadStep, GuardedStep, SettledStep DEF PgInd

\* The invariant says what SettingsInv says of the settings pages.
LEMMA PgIndInv == PgInd => PgTypeOK /\ IdleIsReleased /\ FilledBeforeSaved /\ ShownIsStored
<1> SUFFICES ASSUME PgInd PROVE PgTypeOK /\ IdleIsReleased /\ FilledBeforeSaved /\ ShownIsStored
  OBVIOUS
<1>1. \A o \in ops : /\ o.n \in 1..pgOps /\ o.kind \in OpKinds /\ o.st \in {"sent", "ok", "failed"}
                     /\ o.data \in [Parts -> Shows] /\ \A q \in ops : o.n = q.n => o = q
  BY DEF PgInd, OpsShape, OpShape, PgOp
<1>2. pgOps \in 0..MaxPageOps /\ touched \in [Parts -> 0..MaxPageOps] /\ typed \in 0..MaxTyped
  BY PageAssumption DEF PgInd, PgShape
<1>3. {locked, reloadOff, otherOff, bar, filled, loadFailed, lostAnswer} \subseteq BOOLEAN
  BY Zenon DEF PgInd, PgShape
<1>4. PgTypeOK
  BY <1>1, <1>2, <1>3 DEF PgInd, PgShape, PgTypeOK
<1>5. IdleIsReleased
  BY DEF PgInd, Holders, IdleIsReleased
<1>6. ShownIsStored
  BY DEF PgInd, Settled, Match, ShownIsStored
<1> QED
  BY <1>4, <1>5, <1>6 DEF PgInd

\* A save begins only where the submit button is enabled, and typing only where its part is.
LEMMA FormStepsHold == ASSUME PgInd, [PgNext]_pgvars PROVE TypedIsKept /\ SavesAlone
<1>1. TypedIsKept
  BY DEF PgInd, Guarded, HeldSince, TypedIsKept
<1>2. ASSUME NEW o \in ops, NEW q \in ops' \ ops, q.kind = "save", q.st = "sent",
             page.loadLocks, "submit" \in page.locks, beside = {}
      PROVE  o.kind \in {"sync", "reread_sync", "restart"}
  <2>1. \E k \in NewKinds, data \in [Parts -> Shows] : Begun(k, data)
    <3>1. PgStep
      BY PgForms DEF PgInd
    <3>2. ~\E p \in Parts, v \in Shows : Edited(p, v)
      BY <1>2 DEF Edited
    <3>3. ASSUME NEW x \in ops, NEW new \in PgOp, Handled(x, new) PROVE FALSE
      BY <1>2, <3>3 DEF Handled, Moved
    <3>4. ~(\E x \in ops : Ended(x)) /\ ~Rests
      BY <1>2 DEF Ended, Rests
    <3>5. ASSUME NEW x \in ops, NEW k \in {"reread", "reread_sync"}, Follows(x, k) PROVE FALSE
      BY <1>2, <3>5 DEF Follows, Moved, Op
    <3> QED
      BY <3>1, <3>2, <3>3, <3>4, <3>5 DEF PgStep
  <2>2. PICK k \in NewKinds, data \in [Parts -> Shows] : Begun(k, data)
    BY <2>1
  <2>3. k = "save"
    BY <1>2, <2>2 DEF Begun, Op
  <2>4. ~locked
    BY <1>2, <2>2, <2>3 DEF Begun, Enabled
  <2>5. o.kind \in {"sync", "reread_sync", "restart", "position"}
    BY <1>2, <2>4 DEF PgInd, Guarded, HeldSince
  <2>6. o.kind # "position"
    BY <1>2, PageFacts DEF PgInd, PgShape, OpsShape, OpShape
  <2> QED
    BY <2>5, <2>6
<1> QED
  BY <1>1, <1>2 DEF SavesAlone

\* No answer overwrites what was typed while it was under way in a part that is disabled then,
\* and no save is sent beside another operation, for any settings and number of operations.
THEOREM FormsSafe == MCSpec => FormSteps
<1>1. MCInit => PgInd
  BY PgIndInit DEF MCInit
<1>2. [MCNext]_mvars => [PgNext]_pgvars
  BY DEF MCNext, mvars, PreviewStep, ControlsStep, SettingsStep, ZeroTierStep
<1>3. PgInd /\ [MCNext]_mvars => PgInd'
  BY <1>2, PgIndStep
<1>4. PgInd /\ [MCNext]_mvars => [TypedIsKept /\ SavesAlone]_pgvars
  BY <1>2, FormStepsHold
<1> QED
  BY <1>1, <1>3, <1>4, PTL DEF MCSpec, FormSteps

-----------------------------------------------------------------------------
\* The ZeroTier page (ZeroTier).

ZtState == [net : Nets \cup {NoNet}, boot : BOOLEAN, run : Runs]
ZtPage == [net : Nets \cup {NoNet}, boot : BOOLEAN, run : Runs, connecting : BOOLEAN, disconnecting : BOOLEAN,
           since : 0..(Limit + 1) \cup {Never}, poll : BOOLEAN, shown : Nets \cup {NoNet}, checked : BOOLEAN,
           text : {"none", "busy", "Connect", "Disconnect"}, off : BOOLEAN, remove : BOOLEAN, retry : BOOLEAN]
ZtRequest == [id : Nat, kind : {"load", "start", "stop", "leave", "update", "add"}, net : Nets \cup {NoNet},
              on : BOOLEAN, next : {"none", "poll", "retry", "stopped", "stopped_retry"}, got : SUBSET ZtState]

\* The requests under way are numbered from one.
Numbered(R) == /\ IsFiniteSet(R)
               /\ \A r \in R : r.id \in 1..Cardinality(R) /\ \A q \in R : q.id = r.id => q = r

ZtShape == /\ zt \in ZtState /\ ui \in ZtPage /\ ztFaults \in Nat /\ crossed \in BOOLEAN
           /\ \A r \in ztReqs : r \in ZtRequest /\ (r.got = {} \/ \E z \in ZtState : r.got = {z})
           /\ Numbered(ztReqs)

\* Without requests that crossed there is one at most.
OneRequest == ~crossed => \A r, q \in ztReqs : r = q

\* A page that knows a network shows its autostart. It does where nothing is under way or the
\* service is being started, and a read that is under way brings it.
Tells == ui.net # NoNet => ui.checked = zt.boot /\ ui.net = zt.net
AutostartKnown == ~crossed /\ ztFaults = 0 =>
                      /\ ((\A r \in ztReqs : r.kind = "start") => Tells)
                      /\ \A r \in ztReqs : r.kind = "load" => \A z \in r.got : z.net = zt.net /\ z.boot = zt.boot

\* AutostartShown is about a page at rest: on the way there the answers carry what it will show.
ZtInd == ZtShape /\ OneRequest /\ AutostartKnown

\* A rendered page shows the autostart of its network.
LEMMA Rendered ==
    ASSUME NEW u \in ZtPage
    PROVE  /\ renderNetworks(u) \in ZtPage /\ renderNetworks(u).net = u.net
           /\ (u.net # NoNet => renderNetworks(u).checked = u.boot)
<1>1. CASE u.net = NoNet
  BY <1>1 DEF renderNetworks
<1>2. CASE u.net # NoNet
  <2> DEFINE conn == StillConnecting(u)
             disc == u.disconnecting /\ u.run # "off"
             since == IF u.run \in {"ok", "off"} THEN Never ELSE u.since
             text == IF disc \/ conn THEN "busy" ELSE IF Connected(u.run) THEN "Disconnect" ELSE "Connect"
             off == disc \/ conn
             remove == ~Connected(u.run) /\ ~conn
             retry == u.run = "off" /\ TimedOut(u)
  <2>1. /\ conn \in BOOLEAN /\ disc \in BOOLEAN /\ off \in BOOLEAN /\ remove \in BOOLEAN /\ retry \in BOOLEAN
    BY Zenon DEF StillConnecting
  <2>2. text \in {"none", "busy", "Connect", "Disconnect"}
    OBVIOUS
  <2>3. since \in 0..(Limit + 1) \cup {Never}
    BY DEF ZtPage
  <2>4. renderNetworks(u) =
            [u EXCEPT !.connecting = conn, !.disconnecting = disc, !.since = since, !.shown = u.net, !.checked = u.boot,
                      !.text = text, !.off = off, !.remove = remove, !.retry = retry]
    BY <1>2 DEF renderNetworks
  <2> HIDE DEF conn, disc, since, text, off, remove, retry
  <2>5. u.net \in Nets \cup {NoNet} /\ u.boot \in BOOLEAN
    BY DEF ZtPage
  <2>6. renderNetworks(u) \in ZtPage
    BY <2>1, <2>2, <2>3, <2>4, <2>5 DEF ZtPage
  <2>7. renderNetworks(u).net = u.net /\ renderNetworks(u).checked = u.boot
    BY <2>4 DEF ZtPage
  <2> QED
    BY <2>6, <2>7
<1> QED
  BY <1>1, <1>2

\* After a read the page knows the camera's network, and shows its autostart.
LEMMA Loaded ==
    ASSUME NEW u \in ZtPage, NEW z \in ZtState
    PROVE  /\ loadData(u, {z}) \in ZtPage /\ loadData(u, {z}).net = z.net
           /\ (z.net # NoNet => loadData(u, {z}).checked = z.boot)
           /\ loadData(u, {}) = u
<1> DEFINE w == [u EXCEPT !.net = z.net, !.boot = z.boot, !.run = z.run]
<1>1. w \in ZtPage /\ w.net = z.net /\ w.boot = z.boot
  BY DEF ZtPage, ZtState
<1>2. (CHOOSE a \in {z} : TRUE) = z
  OBVIOUS
<1>3. {z} # {} /\ loadData(u, {z}) = renderNetworks(w)
  BY <1>2 DEF loadData
<1>4. loadData(u, {}) = u
  BY DEF loadData
<1> HIDE DEF w
<1> QED
  BY <1>1, <1>3, <1>4, Rendered

\* The forms a step of the page can take: nothing that is told changes; a request is sent; the
\* camera serves one; one ends, with an error or with what the page tells.
Same(u) == u.net = ui.net /\ u.checked = ui.checked
ZtQuiet == /\ UNCHANGED <<ztReqs, crossed>> /\ zt' \in ZtState /\ zt'.net = zt.net /\ zt'.boot = zt.boot
           /\ ui' \in ZtPage /\ Same(ui') /\ ztFaults' \in {ztFaults, ztFaults + 1}
ZtSends == \E kind \in {"load", "start", "stop", "leave", "update", "add"}, net \in Nets \cup {NoNet}, on \in BOOLEAN,
              next \in {"none", "poll", "retry", "stopped", "stopped_retry"} :
               /\ Issue(ztReqs, kind, net, on, next) /\ UNCHANGED <<zt, ztFaults>>
               /\ ui' \in ZtPage /\ (kind = "start" => Same(ui'))
ZtServes(r) == /\ ztReqs' = (ztReqs \ {r}) \cup {[r EXCEPT !.got = {zt'}]} /\ UNCHANGED <<ui, ztFaults, crossed>>
               /\ zt' \in ZtState /\ (r.kind \in {"load", "start"} => zt'.net = zt.net /\ zt'.boot = zt.boot)
Brought(r) == \/ r.kind = "start" /\ Same(ui')
              \/ r.kind = "load" /\ \E z \in r.got : ui'.net = z.net /\ (z.net # NoNet => ui'.checked = z.boot)
ZtReturns(r) == /\ UNCHANGED zt /\ ui' \in ZtPage /\ ztFaults' \in {ztFaults, ztFaults + 1}
                /\ \/ NoFollower(r) /\ (Brought(r) \/ ztFaults' = ztFaults + 1)
                   \/ \E next \in {"none", "stopped", "stopped_retry"} : Reads(r, next)

\* The user's buttons and the page's timers.
LEMMA UserForms ==
    ASSUME ZtShape,
           reload \/ autoRefresh \/ poll \/ networkToggleBtn \/ retryConnection \/ reconnect
           \/ removeNetwork \/ toggleAutostart \/ \E n \in Nets : addNetwork(n)
    PROVE  ZtSends
<1>0. connectNetwork(ui) \in ZtPage /\ Same(connectNetwork(ui))
  <2>1. ui \in ZtPage /\ 0 \in 0..(Limit + 1) \cup {Never}
    BY DEF ZtShape, Limit
  <2> QED
    BY <2>1 DEF connectNetwork, ZtPage, Same
<1>1. ui \in ZtPage /\ Same(ui)
  BY DEF ZtShape, Same
<1>2. ASSUME NEW kind \in {"load", "start", "stop", "leave", "update", "add"}, NEW net \in Nets \cup {NoNet},
             NEW on \in BOOLEAN, NEW next \in {"none", "poll", "retry", "stopped", "stopped_retry"},
             Issue(ztReqs, kind, net, on, next), UNCHANGED <<zt, ztFaults>>,
             ui' \in ZtPage, kind = "start" => Same(ui')
      PROVE  ZtSends
  BY <1>2 DEF ZtSends
<1>3. CASE reload \/ autoRefresh
  BY <1>1, <1>2, <1>3 DEF reload, autoRefresh
<1>4. CASE poll
  BY <1>1, <1>2, <1>4 DEF poll
<1>5. CASE networkToggleBtn
  <2>1. CASE ui.text = "Disconnect"
    <3>1. ui' = [disconnectNetwork(ui) EXCEPT !.off = TRUE] /\ Issue(ztReqs, "stop", NoNet, FALSE, "none")
      BY <1>5, <2>1 DEF networkToggleBtn
    <3>2. ui' \in ZtPage
      BY <1>1, <3>1 DEF disconnectNetwork, ZtPage
    <3> QED
      BY <1>2, <1>5, <3>1, <3>2 DEF networkToggleBtn
  <2>2. CASE ui.text # "Disconnect"
    <3>1. ui' = [connectNetwork(ui) EXCEPT !.off = TRUE] /\ Issue(ztReqs, "start", NoNet, FALSE, "none")
      BY <1>5, <2>2 DEF networkToggleBtn
    <3>2. ui' \in ZtPage /\ Same(ui')
      BY <1>0, <3>1 DEF ZtPage, Same
    <3> QED
      BY <1>2, <1>5, <3>1, <3>2 DEF networkToggleBtn
  <2> QED
    BY <2>1, <2>2
<1>6. CASE retryConnection
  <2>1. ui' \in ZtPage
    BY <1>1, <1>6 DEF retryConnection, disconnectNetwork, ZtPage
  <2> QED
    BY <1>2, <1>6, <2>1 DEF retryConnection
<1>7. CASE reconnect
  <2>1. ui' \in ZtPage /\ Same(ui')
    BY <1>0, <1>7 DEF reconnect
  <2> QED
    BY <1>2, <1>7, <2>1 DEF reconnect
<1>8. CASE removeNetwork
  BY <1>1, <1>2, <1>8 DEF removeNetwork
<1>9. CASE toggleAutostart
  <2>1. ui' \in ZtPage /\ ui.shown \in Nets \cup {NoNet} /\ (~ui.checked) \in BOOLEAN
    BY <1>1, <1>9 DEF toggleAutostart, ZtPage
  <2> QED
    BY <1>2, <1>9, <2>1 DEF toggleAutostart
<1>10. ASSUME NEW n \in Nets, addNetwork(n) PROVE ZtSends
  BY <1>1, <1>2, <1>10 DEF addNetwork
<1> QED
  BY <1>3, <1>4, <1>5, <1>6, <1>7, <1>8, <1>9, <1>10

\* The clock and the service.
LEMMA QuietForms == ASSUME ZtShape, ZtTick \/ ServiceMoves \/ ServiceDies \/ UNCHANGED zvars PROVE ZtQuiet
<1>1. zt \in ZtState /\ ui \in ZtPage /\ Same(ui)
  BY DEF ZtShape, Same
<1>2. CASE ZtTick
  <2>1. ui' \in ZtPage /\ Same(ui')
    BY <1>1, <1>2 DEF ZtTick, ZtPage, Same, Limit, Never
  <2> QED
    BY <1>1, <1>2, <2>1 DEF ZtTick, ZtQuiet
<1>3. CASE ServiceMoves
  <2>1. PICK run \in Runs : zt' = [zt EXCEPT !.run = run]
    BY <1>3 DEF ServiceMoves, Runs
  <2>2. zt' \in ZtState /\ zt'.net = zt.net /\ zt'.boot = zt.boot
    BY <1>1, <2>1 DEF ZtState
  <2> QED
    BY <1>1, <1>3, <2>2 DEF ServiceMoves, ZtQuiet
<1>4. CASE ServiceDies
  <2>1. zt' \in ZtState /\ zt'.net = zt.net /\ zt'.boot = zt.boot
    BY <1>1, <1>4 DEF ServiceDies, ZtState, Runs
  <2> QED
    BY <1>1, <1>4, <2>1 DEF ServiceDies, ZtQuiet
<1>5. CASE UNCHANGED zvars
  BY <1>1, <1>5 DEF zvars, ZtQuiet
<1> QED
  BY <1>2, <1>3, <1>4, <1>5

\* The camera.
LEMMA ServeForms == ASSUME ZtShape, NEW r \in ztReqs, ZtServed(r) PROVE ZtServes(r)
<1>1. zt \in ZtState /\ r \in ZtRequest
  BY DEF ZtShape
<1>2. CASE r.kind = "start"
  <2>1. PICK run \in Runs : zt' = [zt EXCEPT !.run = run]
    BY <1>1, <1>2 DEF ZtServed, ZtState, Runs
  <2>2. zt' \in ZtState /\ zt'.net = zt.net /\ zt'.boot = zt.boot
    BY <1>1, <2>1 DEF ZtState
  <2> QED
    BY <2>2 DEF ZtServed, ZtServes
<1>3. CASE r.kind = "stop"
  <2>1. zt' \in ZtState
    BY <1>1, <1>3 DEF ZtServed, ZtState, Runs
  <2> QED
    BY <1>3, <2>1 DEF ZtServed, ZtServes
<1>4. CASE r.kind = "leave"
  <2>1. zt' = [net |-> NoNet, boot |-> FALSE, run |-> "off"]
    BY <1>4 DEF ZtServed
  <2>2. zt' \in ZtState
    BY <2>1 DEF ZtState, Runs
  <2> QED
    BY <1>4, <2>2 DEF ZtServed, ZtServes
<1>5. CASE r.kind \in {"update", "add"}
  <2>1. zt' = [zt EXCEPT !.net = r.net, !.boot = r.on]
    BY <1>5 DEF ZtServed
  <2>2. zt' \in ZtState
    BY <1>1, <2>1 DEF ZtState, ZtRequest
  <2> QED
    BY <1>5, <2>2 DEF ZtServed, ZtServes
<1>6. CASE r.kind = "load"
  <2>1. zt' = zt
    BY <1>6 DEF ZtServed
  <2> QED
    BY <1>1, <2>1 DEF ZtServed, ZtServes
<1> QED
  BY <1>1, <1>2, <1>3, <1>4, <1>5, <1>6 DEF ZtRequest

\* The handlers: only a start and a read leave nothing behind when they succeed.
LEMMA EndForms ==
    ASSUME ZtShape, NEW r \in ztReqs, NEW ok \in BOOLEAN, ZtEnds(r, ok) PROVE ZtReturns(r)
<1> DEFINE L == loadData(ui, Answer(r, ok))
<1>1. ui \in ZtPage /\ Same(ui) /\ r \in ZtRequest /\ (r.got = {} \/ \E z \in ZtState : r.got = {z})
  BY DEF ZtShape, Same
<1>2. Ends(r, ok) => /\ ztFaults' \in {ztFaults, ztFaults + 1} /\ (ok \/ ztFaults' = ztFaults + 1)
                     /\ (ok => \E z \in ZtState : r.got = {z})
  BY <1>1 DEF Ends
<1>3. Ends(r, ok) =>
          /\ L \in ZtPage
          /\ ztFaults' = ztFaults + 1 \/ \E z \in r.got : L.net = z.net /\ (z.net # NoNet => L.checked = z.boot)
  <2> SUFFICES ASSUME Ends(r, ok)
               PROVE  /\ L \in ZtPage
                      /\ ztFaults' = ztFaults + 1
                         \/ \E z \in r.got : L.net = z.net /\ (z.net # NoNet => L.checked = z.boot)
    OBVIOUS
  <2>1. CASE ok
    <3>1. PICK z \in ZtState : r.got = {z}
      BY <1>2, <2>1
    <3>2. L = loadData(ui, {z})
      BY <2>1, <3>1 DEF Answer
    <3> HIDE DEF L
    <3> QED
      BY <1>1, <3>1, <3>2, Loaded
  <2>2. CASE ~ok
    <3>1. L = ui
      BY <2>2 DEF Answer, loadData
    <3> QED
      BY <1>1, <1>2, <2>2, <3>1
  <2> QED
    BY <2>1, <2>2
<1> HIDE DEF L
<1>4. CASE loadEnds(r, ok)
  <2>1. r.kind = "load" /\ ui' = L /\ Ends(r, ok) /\ NoFollower(r) /\ zt' = zt
    BY <1>4 DEF loadEnds, L
  <2> QED
    BY <1>2, <1>3, <2>1 DEF ZtReturns, Brought
<1>5. CASE pollConnectionStatus(r, ok)
  <2>1. /\ r.kind = "load" /\ Ends(r, ok) /\ zt' = zt
        /\ \/ ui' \in {L, PollEnded(L)} /\ NoFollower(r)
           \/ ui' = PollEnded(L) /\ Reads(r, "none")
    BY <1>5 DEF pollConnectionStatus, L
  <2>2. PollEnded(L) \in ZtPage /\ PollEnded(L).net = L.net /\ PollEnded(L).checked = L.checked
    BY <1>3, <2>1 DEF PollEnded, ZtPage
  <2>3. ui' \in ZtPage /\ ui'.net = L.net /\ ui'.checked = L.checked
    BY <1>3, <2>1, <2>2
  <2>4. Brought(r) \/ ztFaults' = ztFaults + 1
    BY <1>3, <2>1, <2>3 DEF Brought
  <2> QED
    BY <1>2, <2>1, <2>3, <2>4 DEF ZtReturns
<1>6. CASE startEnds(r, ok)
  <2>1. r.kind = "start" /\ Ends(r, ok) /\ zt' = zt
    BY <1>6 DEF startEnds
  <2>2. CASE ok
    <3>1. ui' = [ui EXCEPT !.poll = TRUE] /\ NoFollower(r)
      BY <1>6, <2>2 DEF startEnds
    <3>2. ui' \in ZtPage /\ Same(ui')
      BY <1>1, <3>1 DEF ZtPage, Same
    <3> QED
      BY <1>2, <2>1, <3>1, <3>2 DEF ZtReturns, Brought
  <2>3. CASE ~ok
    <3>1. ui' = [ui EXCEPT !.connecting = FALSE, !.since = Never] /\ Reads(r, "none")
      BY <1>6, <2>3 DEF startEnds
    <3>2. ui' \in ZtPage
      BY <1>1, <3>1 DEF ZtPage
    <3> QED
      BY <1>2, <2>1, <3>1, <3>2 DEF ZtReturns
  <2> QED
    BY <2>2, <2>3
<1>7. CASE stopEnds(r, ok)
  <2>1. Ends(r, ok) /\ zt' = zt /\ \E next \in {"none", "stopped", "stopped_retry"} : Reads(r, next)
    BY <1>7 DEF stopEnds
  <2>2. ui' = ui \/ ui' = [ui EXCEPT !.disconnecting = FALSE]
    BY <1>7 DEF stopEnds
  <2>3. ui' \in ZtPage
    BY <1>1, <2>2 DEF ZtPage
  <2> QED
    BY <1>2, <2>1, <2>3 DEF ZtReturns
<1>8. CASE stoppedLoadEnds(r, ok)
  <2>1. r.kind = "load" /\ ui' = [L EXCEPT !.disconnecting = FALSE] /\ Ends(r, ok) /\ NoFollower(r) /\ zt' = zt
    BY <1>8 DEF stoppedLoadEnds, L
  <2>2. ui' \in ZtPage /\ ui'.net = L.net /\ ui'.checked = L.checked
    BY <1>3, <2>1 DEF ZtPage
  <2>3. Brought(r) \/ ztFaults' = ztFaults + 1
    BY <1>3, <2>1, <2>2 DEF Brought
  <2> QED
    BY <1>2, <2>1, <2>2, <2>3 DEF ZtReturns
<1>9. CASE leaveEnds(r, ok)
  <2>1. Ends(r, ok) /\ zt' = zt
    BY <1>9 DEF leaveEnds
  <2>2. CASE ok
    <3>1. ui' = renderNetworks([ui EXCEPT !.net = NoNet, !.boot = FALSE]) /\ Reads(r, "none")
      BY <1>9, <2>2 DEF leaveEnds
    <3>2. [ui EXCEPT !.net = NoNet, !.boot = FALSE] \in ZtPage
      BY <1>1 DEF ZtPage
    <3>3. ui' \in ZtPage
      BY <3>1, <3>2, Rendered
    <3> QED
      BY <1>2, <2>1, <3>1, <3>3 DEF ZtReturns
  <2>3. CASE ~ok
    BY <1>1, <1>2, <1>9, <2>1, <2>3 DEF leaveEnds, ZtReturns
  <2> QED
    BY <2>2, <2>3
<1>10. CASE updateEnds(r, ok)
  <2>1. Ends(r, ok) /\ zt' = zt /\ Reads(r, "none") /\ (ui' = ui \/ ui' = [ui EXCEPT !.boot = r.on])
    BY <1>10 DEF updateEnds
  <2>2. ui' \in ZtPage
    BY <1>1, <2>1 DEF ZtPage, ZtRequest
  <2> QED
    BY <1>2, <2>1, <2>2 DEF ZtReturns
<1>11. CASE addEnds(r, ok)
  <2>1. Ends(r, ok) /\ zt' = zt /\ ui' = ui /\ ((ok /\ Reads(r, "none")) \/ (~ok /\ NoFollower(r)))
    BY <1>11 DEF addEnds
  <2> QED
    BY <1>1, <1>2, <2>1 DEF ZtReturns
<1> QED
  BY <1>4, <1>5, <1>6, <1>7, <1>8, <1>9, <1>10, <1>11 DEF ZtEnds

\* One more request gets the next number.
LEMMA NumberedMore ==
    ASSUME NEW R, Numbered(R), NEW new, new.id = Cardinality(R) + 1 PROVE Numbered(R \cup {new})
<1>1. IsFiniteSet(R) /\ Cardinality(R) \in Nat
  BY FS_CardinalityType DEF Numbered
<1>2. \A r \in R : r.id # new.id
  BY <1>1 DEF Numbered
<1>3. IsFiniteSet(R \cup {new}) /\ Cardinality(R \cup {new}) = Cardinality(R) + 1
  BY <1>1, <1>2, FS_AddElement
<1>4. \A r \in R \cup {new} : r.id \in 1..(Cardinality(R) + 1)
  BY <1>1 DEF Numbered
<1> QED
  BY <1>2, <1>3, <1>4 DEF Numbered

\* A request that is served keeps its number.
LEMMA NumberedServed ==
    ASSUME NEW R, Numbered(R), NEW r \in R, NEW new, new.id = r.id PROVE Numbered((R \ {r}) \cup {new})
<1>1. IsFiniteSet(R) /\ Cardinality(R) \in Nat
  BY FS_CardinalityType DEF Numbered
<1>2. IsFiniteSet(R \ {r}) /\ Cardinality(R \ {r}) = Cardinality(R) - 1
  BY <1>1, FS_RemoveElement
<1>3. \A q \in R \ {r} : q.id # new.id
  BY DEF Numbered
<1>4. IsFiniteSet((R \ {r}) \cup {new}) /\ Cardinality((R \ {r}) \cup {new}) = Cardinality(R)
  <2> DEFINE S == R \ {r}
  <2>1. new \notin S
    BY <1>3
  <2> HIDE DEF S
  <2>2. IsFiniteSet(S \cup {new}) /\ Cardinality(S \cup {new}) = Cardinality(S) + 1
    BY <1>2, <2>1, FS_AddElement DEF S
  <2>3. Cardinality(S) + 1 = Cardinality(R)
    BY <1>1, <1>2 DEF S
  <2> QED
    BY <2>2, <2>3 DEF S
<1> QED
  BY <1>3, <1>4 DEF Numbered

\* The requests that are left are numbered anew.
LEMMA NumberedRest ==
    ASSUME ZtShape, NEW r \in ztReqs
    PROVE  /\ Numbered(Rest(r))
           /\ \A n \in Rest(r) : /\ n \in ZtRequest /\ (n.got = {} \/ \E z \in ZtState : n.got = {z})
                                 /\ \E q \in ztReqs \ {r} : n.kind = q.kind /\ n.got = q.got
<1> DEFINE S == ztReqs \ {r}
           f == [q \in S |-> [q EXCEPT !.id = IF q.id > r.id THEN q.id - 1 ELSE q.id]]
           k == r.id
           N == Cardinality(ztReqs)
<1>1. IsFiniteSet(S) /\ N \in Nat /\ Cardinality(S) = N - 1
  BY FS_RemoveElement, FS_CardinalityType DEF ZtShape, Numbered
<1>2. k \in 1..N /\ \A q \in S : q \in ZtRequest /\ q.id \in 1..N /\ q.id # k
  BY DEF ZtShape, Numbered
<1>3. \A q \in S : /\ f[q].id = (IF q.id > k THEN q.id - 1 ELSE q.id) /\ f[q].kind = q.kind /\ f[q].got = q.got
                   /\ f[q] \in ZtRequest
  <2> SUFFICES ASSUME NEW q \in S
               PROVE  /\ f[q].id = (IF q.id > k THEN q.id - 1 ELSE q.id) /\ f[q].kind = q.kind /\ f[q].got = q.got
                      /\ f[q] \in ZtRequest
    OBVIOUS
  <2> DEFINE i == IF q.id > k THEN q.id - 1 ELSE q.id
  <2>1. f[q] = [q EXCEPT !.id = i]
    OBVIOUS
  <2>2. q \in ZtRequest /\ i \in Nat
    BY <1>1, <1>2
  <2> HIDE DEF f, S, k
  <2>3. f[q].id = i /\ f[q].kind = q.kind /\ f[q].got = q.got
    BY <2>1, <2>2 DEF ZtRequest
  <2> HIDE DEF i
  <2>4. f[q] \in ZtRequest
    BY <2>1, <2>2 DEF ZtRequest
  <2> QED
    BY <2>3, <2>4 DEF i
<1>4. Rest(r) = {f[q] : q \in S} /\ f \in [S -> Rest(r)]
  BY DEF Rest
<1> HIDE DEF f
<1>5. \A i, j \in 1..N : /\ i # k => (IF i > k THEN i - 1 ELSE i) \in 1..(N - 1)
                         /\ i # k /\ j # k /\ (IF i > k THEN i - 1 ELSE i) = (IF j > k THEN j - 1 ELSE j) => i = j
  BY <1>1, <1>2
<1>6. \A p, q \in S : p.id = q.id => p = q
  BY DEF ZtShape, Numbered
<1>7. \A p, q \in S : f[p].id = f[q].id => p = q
  BY <1>2, <1>3, <1>5, <1>6
<1> HIDE DEF S
<1>8. f \in Bijection(S, Rest(r))
  BY <1>4, <1>7 DEF Bijection, Injection, Surjection, IsInjective
<1>9. IsFiniteSet(Rest(r)) /\ Cardinality(Rest(r)) = N - 1
  BY <1>1, <1>8, FS_Bijection DEF ExistsBijection
<1>10. \A n \in Rest(r) : \E q \in S : n = f[q]
  BY <1>4
<1>11. \A n \in Rest(r) : n.id \in 1..(N - 1)
  BY <1>2, <1>3, <1>5, <1>10
<1>12. \A m, n \in Rest(r) : m.id = n.id => m = n
  BY <1>7, <1>10
<1>13. Numbered(Rest(r))
  BY <1>9, <1>11, <1>12 DEF Numbered
<1>14. \A q \in S : q \in ztReqs \ {r} /\ (q.got = {} \/ \E z \in ZtState : q.got = {z})
  BY DEF S, ZtShape
<1> QED
  BY <1>3, <1>10, <1>13, <1>14

\* The page that has just been opened satisfies the invariant.
LEMMA ZtIndInit == ZtInit => ZtInd
<1> SUFFICES ASSUME ZtInit PROVE ZtInd
  OBVIOUS
<1>1. PICK r : r = ZtReq(1, "load", NoNet, FALSE, "none") /\ ztReqs = {r}
  BY DEF ZtInit
<1>2. r \in ZtRequest /\ r.id = 1 /\ r.kind = "load" /\ r.got = {}
  BY <1>1 DEF ZtReq, ZtRequest
<1>3. Numbered(ztReqs)
  <2>1. IsFiniteSet({r}) /\ Cardinality({r}) = 1 /\ ztReqs = {r}
    BY <1>1, FS_Singleton
  <2>2. r.id \in 1..1
    BY <1>2
  <2> QED
    BY <2>1, <2>2 DEF Numbered
<1>4. zt \in ZtState
  BY DEF ZtInit, ZtState, Runs
<1>5. ui \in ZtPage
  BY DEF ZtInit, NewPage, ZtPage, Runs
<1>6. ZtShape
  BY <1>1, <1>2, <1>3, <1>4, <1>5 DEF ZtInit, ZtShape
<1> QED
  BY <1>1, <1>2, <1>6 DEF ZtInd, OneRequest, AutostartKnown

\* Every step of the ZeroTier page keeps the invariant.
LEMMA ZtIndStep == ZtInd /\ [ZtNext]_zvars => ZtInd'
<1> SUFFICES ASSUME ZtInd, [ZtNext]_zvars PROVE ZtInd'
  OBVIOUS
<1>0. ZtShape /\ ztFaults \in Nat
  BY DEF ZtInd, ZtShape
<1>1. CASE ZtQuiet
  <2>1. ZtShape'
    BY <1>0, <1>1 DEF ZtQuiet, ZtShape
  <2>2. Tells' <=> Tells
    BY <1>1 DEF ZtQuiet, Tells, Same
  <2>3. ztFaults' = 0 => ztFaults = 0
    BY <1>0, <1>1 DEF ZtQuiet
  <2>4. OneRequest' /\ AutostartKnown'
    BY <1>1, <2>2, <2>3 DEF ZtQuiet, ZtInd, OneRequest, AutostartKnown
  <2> QED
    BY <2>1, <2>4 DEF ZtInd
<1>2. CASE ZtSends
  <2>1. PICK kind \in {"load", "start", "stop", "leave", "update", "add"}, net \in Nets \cup {NoNet}, on \in BOOLEAN,
              next \in {"none", "poll", "retry", "stopped", "stopped_retry"} :
               /\ Issue(ztReqs, kind, net, on, next) /\ UNCHANGED <<zt, ztFaults>>
               /\ ui' \in ZtPage /\ (kind = "start" => Same(ui'))
    BY <1>2 DEF ZtSends
  <2>2. PICK new : new = ZtReq(Cardinality(ztReqs) + 1, kind, net, on, next)
    OBVIOUS
  <2>3. Cardinality(ztReqs) \in Nat
    BY <1>0, FS_CardinalityType DEF ZtShape, Numbered
  <2>4. new \in ZtRequest /\ new.id = Cardinality(ztReqs) + 1 /\ new.kind = kind /\ new.got = {}
    BY <2>2, <2>3 DEF ZtReq, ZtRequest
  <2>5. ztReqs' = ztReqs \cup {new}
    BY <2>1, <2>2 DEF Issue
  <2>6. crossed' \in BOOLEAN /\ (~crossed' => ~crossed /\ ztReqs = {})
    BY <2>1, Zenon DEF Issue
  <2>7. Numbered(ztReqs')
    BY <1>0, <2>4, <2>5, NumberedMore DEF ZtShape
  <2>8. ZtShape'
    BY <1>0, <2>1, <2>4, <2>5, <2>6, <2>7 DEF ZtShape
  <2>9. OneRequest'
    BY <2>5, <2>6 DEF OneRequest
  <2>10. ASSUME ~crossed', ztFaults' = 0 PROVE kind = "start" => Tells'
    BY <2>1, <2>6, <2>10 DEF ZtInd, AutostartKnown, Tells, Same
  <2>11. AutostartKnown'
    BY <2>4, <2>5, <2>6, <2>10 DEF AutostartKnown
  <2> QED
    BY <2>8, <2>9, <2>11 DEF ZtInd
<1>3. ASSUME NEW r \in ztReqs, ZtServes(r) PROVE ZtInd'
  <2>1. PICK new : new = [r EXCEPT !.got = {zt'}]
    OBVIOUS
  <2>2. r \in ZtRequest /\ zt' \in ZtState
    BY <1>0, <1>3 DEF ZtShape, ZtServes
  <2>3. new \in ZtRequest /\ new.id = r.id /\ new.kind = r.kind /\ new.got = {zt'}
    BY <2>1, <2>2 DEF ZtRequest
  <2>4. ztReqs' = (ztReqs \ {r}) \cup {new} /\ UNCHANGED <<ui, ztFaults, crossed>>
    BY <1>3, <2>1 DEF ZtServes
  <2>5. Numbered(ztReqs')
    BY <1>0, <2>3, <2>4, NumberedServed DEF ZtShape
  <2>6. ZtShape'
    BY <1>0, <2>2, <2>3, <2>4, <2>5 DEF ZtShape
  <2>7. ~crossed => ztReqs = {r} /\ ztReqs' = {new}
    BY <2>4 DEF ZtInd, OneRequest
  <2>8. ASSUME ~crossed, ztFaults = 0, r.kind = "start" PROVE Tells'
    <3>1. Tells /\ zt'.net = zt.net /\ zt'.boot = zt.boot /\ ui' = ui
      BY <1>3, <2>4, <2>7, <2>8 DEF ZtInd, AutostartKnown, ZtServes
    <3> QED
      BY <3>1 DEF Tells
  <2>9. OneRequest' /\ AutostartKnown'
    BY <2>3, <2>4, <2>7, <2>8 DEF OneRequest, AutostartKnown
  <2> QED
    BY <2>6, <2>9 DEF ZtInd
<1>4. ASSUME NEW r \in ztReqs, ZtReturns(r) PROVE ZtInd'
  <2>1. zt' = zt /\ ui' \in ZtPage /\ ztFaults' \in {ztFaults, ztFaults + 1}
    BY <1>4 DEF ZtReturns
  <2>2. /\ Numbered(Rest(r))
        /\ \A n \in Rest(r) : n \in ZtRequest /\ (n.got = {} \/ \E z \in ZtState : n.got = {z})
    BY <1>0, NumberedRest
  <2>3. ~crossed => ztReqs = {r} /\ Rest(r) = {}
    <3>1. ~crossed => ztReqs = {r}
      BY DEF ZtInd, OneRequest
    <3> QED
      BY <3>1 DEF Rest
  <2>4. CASE NoFollower(r) /\ (Brought(r) \/ ztFaults' = ztFaults + 1)
    <3>1. ztReqs' = Rest(r) /\ crossed' = crossed
      BY <2>4 DEF NoFollower
    <3>2. ZtShape'
      BY <1>0, <2>1, <2>2, <3>1 DEF ZtShape
    <3>3. ASSUME ~crossed', ztFaults' = 0 PROVE Tells'
      <4>1. ~crossed /\ ztFaults = 0 /\ Brought(r)
        BY <1>0, <2>1, <2>4, <3>1, <3>3
      <4>2. CASE r.kind = "start" /\ Same(ui')
        <5>1. Tells
          BY <2>3, <4>1, <4>2 DEF ZtInd, AutostartKnown
        <5> QED
          BY <2>1, <4>2, <5>1 DEF Tells, Same
      <4>3. CASE r.kind = "load" /\ \E z \in r.got : ui'.net = z.net /\ (z.net # NoNet => ui'.checked = z.boot)
        <5>1. \A z \in r.got : z.net = zt.net /\ z.boot = zt.boot
          BY <4>1, <4>3 DEF ZtInd, AutostartKnown
        <5> QED
          BY <2>1, <4>3, <5>1 DEF Tells
      <4> QED
        BY <4>1, <4>2, <4>3 DEF Brought
    <3>4. OneRequest' /\ AutostartKnown'
      BY <2>3, <3>1, <3>3 DEF OneRequest, AutostartKnown
    <3> QED
      BY <3>2, <3>4 DEF ZtInd
  <2>5. ASSUME NEW next \in {"none", "stopped", "stopped_retry"}, Reads(r, next) PROVE ZtInd'
    <3>1. PICK new : new = ZtReq(Cardinality(Rest(r)) + 1, "load", NoNet, FALSE, next)
      OBVIOUS
    <3>2. Cardinality(Rest(r)) \in Nat
      BY <2>2, FS_CardinalityType DEF Numbered
    <3>3. new \in ZtRequest /\ new.id = Cardinality(Rest(r)) + 1 /\ new.kind = "load" /\ new.got = {}
      BY <3>1, <3>2 DEF ZtReq, ZtRequest
    <3>4. ztReqs' = Rest(r) \cup {new}
      BY <2>5, <3>1 DEF Reads, Issue
    <3>5. crossed' \in BOOLEAN /\ (~crossed' => ~crossed)
      BY <2>5, Zenon DEF Reads, Issue
    <3>6. Numbered(ztReqs')
      BY <2>2, <3>3, <3>4, NumberedMore
    <3>7. ZtShape'
      BY <1>0, <2>1, <2>2, <3>3, <3>4, <3>5, <3>6 DEF ZtShape
    <3>8. ~crossed' => ztReqs' = {new}
      BY <2>3, <3>4, <3>5
    <3>9. OneRequest' /\ AutostartKnown'
      BY <3>3, <3>8 DEF OneRequest, AutostartKnown
    <3> QED
      BY <3>7, <3>9 DEF ZtInd
  <2> QED
    BY <1>4, <2>4, <2>5 DEF ZtReturns
<1> QED
  BY <1>0, <1>1, <1>2, <1>3, <1>4, UserForms, QuietForms, ServeForms, EndForms DEF ZtNext

\* The invariant says what SettingsInv says of the ZeroTier page.
LEMMA ZtIndInv == ZtInd => ZtTypeOK /\ AutostartShown
<1> SUFFICES ASSUME ZtInd PROVE ZtTypeOK /\ AutostartShown
  OBVIOUS
<1>1. ZtTypeOK
  BY DEF ZtInd, ZtShape, ZtTypeOK, ZtState, ZtPage, Numbered
<1>2. AutostartShown
  BY DEF ZtInd, AutostartKnown, Tells, AutostartShown
<1> QED
  BY <1>1, <1>2

\* A settings page at rest has given everything back and shows what the camera holds, no page
\* posts a form that was never filled, and the ZeroTier page tells the autostart of its network,
\* for any settings, networks and number of operations, requests and faults.
THEOREM SettingsSafe == MCSpec => []SettingsInv
<1>1. MCInit => PgInd /\ ZtInd
  BY PgIndInit, ZtIndInit DEF MCInit
<1>2. PgInd /\ ZtInd /\ [MCNext]_mvars => PgInd' /\ ZtInd'
  <2> SUFFICES ASSUME PgInd, ZtInd, [MCNext]_mvars PROVE PgInd' /\ ZtInd'
    OBVIOUS
  <2>1. [PgNext]_pgvars /\ [ZtNext]_zvars
    BY DEF MCNext, mvars, PreviewStep, ControlsStep, SettingsStep, ZeroTierStep
  <2> QED
    BY <2>1, PgIndStep, ZtIndStep
<1>3. PgInd /\ ZtInd => SettingsInv
  BY PgIndInv, ZtIndInv DEF SettingsInv
<1> QED
  BY <1>1, <1>2, <1>3, PTL DEF MCSpec
=============================================================================
