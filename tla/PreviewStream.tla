--------------------------- MODULE PreviewStream ----------------------------
(***************************************************************************)
(* The preview image (preview.js): its MJPEG stream, the watchdog that     *)
(* restarts it with a growing delay, the visibility, focus and unload      *)
(* handlers that stop it, and the full-screen dialog that takes over.      *)
(* One tick of the clock stands for five seconds.                          *)
(***************************************************************************)
EXTENDS Naturals

CONSTANTS
    MaxViews,       \* bound: times the tab or the window is left, or an unload is begun
    MaxOutages      \* bound: outages of the stream

ASSUME PreviewAssumption == MaxViews \in Nat /\ MaxOutages \in Nat

Timeout == 3
RestartBackoffInitial == 3
RestartBackoffMax == 12
FocusTimeout == 2   \* webuiConfig.focus_timeout, when it is not zero

VARIABLES
    track, delayed,     \* webuiConfig: track_focus, and whether focus_timeout is positive
    pvHidden, focused,  \* the browser's view of tab and window
    isWindowVisible,
    focusTimer,         \* ticks until the blur timeout, a set of at most one
    src, fullSrc,       \* "stream" or "nostream"
    saved,              \* savedPreviewSrc
    fullscreen,         \* the dialog is open
    sinceLoad,          \* ticks since lastLoadTime, capped
    restartIn,          \* ticks until nextRestartAt
    restartBackoff,
    up,                 \* the camera sends frames
    broken,             \* the image's connection is lost; only a new source opens another
    views, outages,
    switched,           \* history: the tab was left or came back at least once
    besideFull,             \* history: the preview was started while the dialog was open
    strayed             \* history: an unload was begun and the page stayed, or the dialog brought back the placeholder

pvvars == <<track, delayed, pvHidden, focused, isWindowVisible, focusTimer, src, fullSrc, saved, fullscreen,
            sinceLoad, restartIn, restartBackoff, up, broken, views, outages, switched, besideFull, strayed>>
clockVars == <<sinceLoad, restartIn, restartBackoff, broken>>
envVars == <<track, delayed, up, outages>>

\* The settings are loaded and the stream is started, also in a tab that nobody sees yet.
PvInit == /\ track \in BOOLEAN /\ delayed \in BOOLEAN /\ (delayed => track)
          /\ pvHidden \in BOOLEAN /\ focused = ~pvHidden /\ isWindowVisible = TRUE
          /\ focusTimer = {} /\ src = "stream" /\ fullSrc = "nostream" /\ saved = "none" /\ fullscreen = FALSE
          /\ sinceLoad = 0 /\ restartIn = 0 /\ restartBackoff = RestartBackoffInitial
          /\ up = TRUE /\ broken = FALSE /\ views = 0 /\ outages = 0
          /\ switched = FALSE /\ besideFull = FALSE /\ strayed = FALSE

\* Called with isWindowVisible set.
startPreview == /\ focusTimer' = {} /\ src' = "stream" /\ broken' = ~up
                /\ sinceLoad' = 0 /\ restartIn' = 0 /\ UNCHANGED restartBackoff
                /\ strayed' = FALSE /\ besideFull' = (besideFull \/ fullscreen)

stopPreview == /\ focusTimer' = {} /\ src' = "nostream"
               /\ restartIn' = 0 /\ UNCHANGED <<sinceLoad, restartBackoff, broken, besideFull>>

\* handleVisibilityChange, hidden. The focus is gone with the tab.
handleHide ==
    /\ ~pvHidden /\ views < MaxViews
    /\ views' = views + 1
    /\ pvHidden' = TRUE /\ focused' = FALSE /\ switched' = TRUE
    /\ isWindowVisible' = FALSE
    /\ stopPreview
    /\ UNCHANGED <<envVars, fullSrc, saved, fullscreen, strayed>>

\* Mutant: the stream is left to the watchdog.
handleShow_no_start ==
    /\ pvHidden
    /\ pvHidden' = FALSE /\ focused' = TRUE /\ switched' = TRUE
    /\ isWindowVisible' = TRUE
    /\ UNCHANGED <<envVars, clockVars, focusTimer, src, fullSrc, saved, fullscreen, views, besideFull, strayed>>

\* handleVisibilityChange, visible.
handleShow ==
    /\ pvHidden
    /\ pvHidden' = FALSE /\ focused' = TRUE /\ switched' = TRUE
    /\ isWindowVisible' = TRUE
    /\ startPreview
    /\ UNCHANGED <<envVars, fullSrc, saved, fullscreen, views>>

\* Only where track_focus is set is there a listener.
handleWindowFocus ==
    /\ ~pvHidden /\ ~focused
    /\ focused' = TRUE
    /\ IF track THEN isWindowVisible' = TRUE /\ startPreview
                ELSE UNCHANGED <<isWindowVisible, clockVars, focusTimer, src, besideFull, strayed>>
    /\ UNCHANGED <<envVars, pvHidden, fullSrc, saved, fullscreen, views, switched>>

\* With a focus timeout the stream goes on for so long.
handleWindowBlur ==
    /\ ~pvHidden /\ focused /\ views < MaxViews
    /\ views' = views + 1
    /\ focused' = FALSE
    /\ IF ~track THEN UNCHANGED <<isWindowVisible, clockVars, focusTimer, src, besideFull>>
       ELSE /\ isWindowVisible' = FALSE
            /\ IF delayed THEN focusTimer' = {FocusTimeout} /\ UNCHANGED <<clockVars, src, besideFull>>
                          ELSE stopPreview
    /\ UNCHANGED <<envVars, pvHidden, fullSrc, saved, fullscreen, switched, strayed>>

\* The blur timeout.
focusTimeout ==
    /\ focusTimer = {0}
    /\ IF ~isWindowVisible THEN stopPreview
                           ELSE focusTimer' = {} /\ UNCHANGED <<clockVars, src, besideFull>>
    /\ UNCHANGED <<envVars, pvHidden, focused, isWindowVisible, fullSrc, saved, fullscreen, views, switched, strayed>>

\* beforeunload or pagehide of a navigation that does not leave the page (a download).
stopOnUnload ==
    /\ ~pvHidden /\ views < MaxViews
    /\ views' = views + 1
    /\ stopPreview
    /\ strayed' = TRUE
    /\ UNCHANGED <<envVars, pvHidden, focused, isWindowVisible, fullSrc, saved, fullscreen, switched>>

\* The full-screen dialog: the small stream is remembered and stopped.
showFullscreen ==
    /\ ~fullscreen /\ ~pvHidden /\ focused
    /\ fullscreen' = TRUE
    /\ saved' = src /\ src' = "nostream" /\ fullSrc' = "stream"
    /\ UNCHANGED <<envVars, clockVars, pvHidden, focused, isWindowVisible, focusTimer, views, switched, besideFull, strayed>>

\* Mutant: the dialog restores the stream wherever the user is.
hiddenFullscreen_always ==
    /\ fullscreen
    /\ fullscreen' = FALSE /\ fullSrc' = "nostream"
    /\ src' = saved /\ sinceLoad' = 0 /\ broken' = ~up
    /\ UNCHANGED <<envVars, restartIn, restartBackoff, saved, pvHidden, focused, isWindowVisible, focusTimer, views, switched, besideFull, strayed>>

\* The dialog is gone: the remembered source comes back if the user is still there.
hiddenFullscreen ==
    /\ fullscreen
    /\ fullscreen' = FALSE /\ fullSrc' = "nostream"
    /\ IF isWindowVisible THEN src' = saved /\ sinceLoad' = 0 /\ broken' = ~up /\ strayed' = (saved = "nostream")
                          ELSE UNCHANGED <<src, sinceLoad, broken, strayed>>
    /\ UNCHANGED <<envVars, restartIn, restartBackoff, saved, pvHidden, focused, isWindowVisible, focusTimer, views, switched, besideFull>>

\* A frame, or the placeholder: the watchdog starts over.
load ==
    /\ ~broken \/ src = "nostream"
    /\ sinceLoad' = 0 /\ restartIn' = 0 /\ restartBackoff' = RestartBackoffInitial
    /\ UNCHANGED <<envVars, broken, pvHidden, focused, isWindowVisible, focusTimer, src, fullSrc, saved, fullscreen, views, switched, besideFull, strayed>>

\* The interval of one second, when it restarts the stream: it loads the same source again,
\* be it the stream or the placeholder.
watchdog ==
    /\ isWindowVisible /\ sinceLoad > Timeout /\ restartIn = 0
    /\ sinceLoad' = 0 /\ restartIn' = restartBackoff /\ broken' = ~up
    /\ restartBackoff' = IF restartBackoff * 2 > RestartBackoffMax THEN RestartBackoffMax ELSE restartBackoff * 2
    /\ UNCHANGED <<envVars, pvHidden, focused, isWindowVisible, focusTimer, src, fullSrc, saved, fullscreen, views, switched, besideFull, strayed>>

PvTick ==
    /\ focusTimer # {0}
    /\ sinceLoad' = IF sinceLoad > Timeout THEN sinceLoad ELSE sinceLoad + 1
    /\ restartIn' = IF restartIn = 0 THEN 0 ELSE restartIn - 1
    /\ focusTimer' = {t - 1 : t \in focusTimer}
    /\ UNCHANGED <<envVars, restartBackoff, broken, pvHidden, focused, isWindowVisible, src, fullSrc, saved, fullscreen, views, switched, besideFull, strayed>>

StreamFails ==
    /\ up /\ outages < MaxOutages
    /\ up' = FALSE /\ broken' = TRUE /\ outages' = outages + 1
    /\ UNCHANGED <<track, delayed, sinceLoad, restartIn, restartBackoff, pvHidden, focused, isWindowVisible, focusTimer, src, fullSrc, saved, fullscreen, views, switched, besideFull, strayed>>

CameraBack ==
    /\ ~up
    /\ up' = TRUE
    /\ UNCHANGED <<track, delayed, outages, clockVars, pvHidden, focused, isWindowVisible, focusTimer, src, fullSrc, saved, fullscreen, views, switched, besideFull, strayed>>

PvNext == \/ handleHide \/ handleShow \/ handleWindowFocus \/ handleWindowBlur \/ focusTimeout \/ stopOnUnload
          \/ showFullscreen \/ hiddenFullscreen \/ load \/ watchdog \/ PvTick \/ StreamFails \/ CameraBack

PvSpec == PvInit /\ [][PvNext]_pvvars
-----------------------------------------------------------------------------
\* Every variable has its type.
PvTypeOK ==
    /\ src \in {"stream", "nostream"} /\ fullSrc \in {"stream", "nostream"} /\ saved \in {"none", "stream", "nostream"}
    /\ focusTimer \subseteq 0..FocusTimeout /\ sinceLoad \in 0..(Timeout + 1)
    /\ restartIn \in 0..RestartBackoffMax /\ restartBackoff \in {3, 6, 12}
    /\ isWindowVisible \in BOOLEAN /\ fullscreen \in BOOLEAN

\* A tab that was left does not stream: neither the watchdog nor the end of the full-screen
\* dialog, the blur timeout or the focus handlers bring the preview back behind the user.
HiddenTabStops == pvHidden /\ switched => src = "nostream"

\* A window that lost the focus stops streaming once its timeout is over.
BlurStops == track /\ ~focused /\ (switched \/ ~pvHidden) /\ focusTimer = {} => src = "nostream"

\* One stream per page: the small one is off while the dialog shows the large one, unless the
\* user left and came back meanwhile ("Stop the small preview", preview.js:849).
OneStream == src = "stream" /\ fullSrc = "stream" => besideFull

\* The preview comes back: whatever was hidden, blurred, opened or broken before, a page whose
\* user is there ends up on the stream, unless an unload was begun that did not leave the page.
PreviewReturns == <>[](fullscreen \/ ~isWindowVisible \/ strayed \/ src = "stream")

\* A lost connection is opened again by the watchdog once the camera is back, however long the
\* outage was and however far the delay had grown.
Restarted == broken /\ up /\ src = "stream" ~> ~broken \/ ~up \/ ~isWindowVisible \/ src # "stream"

\* A stream only where somebody looks, and one at a time.
PreviewInv == PvTypeOK /\ HiddenTabStops /\ BlurStops /\ OneStream

\* The picture returns to a user who is there, after absences and after outages.
PreviewComesBack == PreviewReturns /\ Restarted
=============================================================================
