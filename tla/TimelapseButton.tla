--------------------------- MODULE TimelapseButton --------------------------
(***************************************************************************)
(* The timelapse button (main.js): the whole timelapse configuration is    *)
(* loaded once, and a click posts it back whole with "enabled" inverted.   *)
(* The state is read before one await and used after it, clicks may        *)
(* overlap, and other tabs save the same configuration.                    *)
(***************************************************************************)
EXTENDS Naturals

CONSTANTS
    Settings,       \* values of mount, path, interval, presets ... as one
    Defaults,       \* the settings timelapseState starts with
    MaxTlClicks,    \* bound: clicks
    MaxTlSaves      \* bound: saves by other tabs

ASSUME TlAssumption == Defaults \in Settings /\ MaxTlClicks \in Nat /\ MaxTlSaves \in Nat

VARIABLES
    conf,       \* /etc/timelapse.json on the camera
    timelapseState, timelapseStateLoaded,
    tlShown, tlPending,     \* the button's classes
    loads,      \* GETs under way: who waits for it and the answer, once taken
    saves,      \* POSTs under way: the configuration sent and how far it is
    tlClicks, tlSaves

tlvars == <<conf, timelapseState, timelapseStateLoaded, tlShown, tlPending, loads, saves,
            tlClicks, tlSaves>>

Conf == [enabled : BOOLEAN, settings : Settings]
Initial == [enabled |-> FALSE, settings |-> Defaults]

\* After load the page fetches the state for the button (caller 0).
TlInit == /\ conf \in [enabled : BOOLEAN, settings : Settings \ {Defaults}]
          /\ timelapseState = Initial /\ timelapseStateLoaded = FALSE
          /\ tlShown = FALSE /\ tlPending = FALSE
          /\ loads = {[by |-> 0, st |-> "sent", got |-> Initial]} /\ saves = {}
          /\ tlClicks = 0 /\ tlSaves = 0

\* buildTimelapseToggleParams(!enabled): everything but "enabled" as this tab knows it.
buildTimelapseToggleParams(s) == [s EXCEPT !.enabled = ~@]

Posted(by, s) == saves \cup {[by |-> by, st |-> "sent", new |-> buildTimelapseToggleParams(s)]}

\* applyTimelapseState and updateTimelapseButtonState.
applyTimelapseState(c) ==
    /\ timelapseState' = c /\ timelapseStateLoaded' = TRUE
    /\ tlShown' = c.enabled /\ tlPending' = FALSE

\* Mutant: the click does not wait for the state.
toggleTimelapse_no_load ==
    /\ tlClicks < MaxTlClicks
    /\ tlClicks' = tlClicks + 1
    /\ tlPending' = TRUE
    /\ saves' = Posted(tlClicks + 1, timelapseState)
    /\ UNCHANGED <<conf, timelapseState, timelapseStateLoaded, tlShown, loads, tlSaves>>

\* A click: load first unless loaded, else post at once.
toggleTimelapse ==
    /\ tlClicks < MaxTlClicks
    /\ tlClicks' = tlClicks + 1
    /\ tlPending' = TRUE
    /\ IF timelapseStateLoaded
       THEN saves' = Posted(tlClicks + 1, timelapseState) /\ UNCHANGED loads
       ELSE /\ loads' = loads \cup {[by |-> tlClicks + 1, st |-> "sent", got |-> Initial]}
            /\ UNCHANGED saves
    /\ UNCHANGED <<conf, timelapseState, timelapseStateLoaded, tlShown, tlSaves>>

LoadServed(l) ==
    /\ l.st = "sent"
    /\ \E st \in {"served", "failed"} :
           loads' = (loads \ {l}) \cup {[l EXCEPT !.st = st, !.got = conf]}
    /\ UNCHANGED <<conf, timelapseState, timelapseStateLoaded, tlShown, tlPending, saves, tlClicks, tlSaves>>

\* The load ends: the state is applied and, if a click waits for it, posted inverted; a
\* failure releases the button.
loadTimelapseState(l) ==
    /\ l.st # "sent"
    /\ loads' = loads \ {l}
    /\ IF l.st = "served"
       THEN /\ applyTimelapseState(l.got)
            /\ saves' = IF l.by = 0 THEN saves ELSE Posted(l.by, l.got)
       ELSE tlShown' = timelapseState.enabled /\ tlPending' = FALSE
            /\ UNCHANGED <<timelapseState, timelapseStateLoaded, saves>>
    /\ UNCHANGED <<conf, tlClicks, tlSaves>>

\* process_timelapse_form writes every field it is sent, or fails before it does.
SaveServed(s) ==
    /\ s.st = "sent"
    /\ \/ /\ conf' = s.new
          /\ saves' = (saves \ {s}) \cup {[s EXCEPT !.st = "served"]}
       \/ /\ saves' = (saves \ {s}) \cup {[s EXCEPT !.st = "failed"]}
          /\ UNCHANGED conf
    /\ UNCHANGED <<timelapseState, timelapseStateLoaded, tlShown, tlPending, loads, tlClicks, tlSaves>>

\* The answer carries the configuration as saved.
saveAnswer(s) ==
    /\ s.st # "sent"
    /\ saves' = saves \ {s}
    /\ IF s.st = "served" THEN applyTimelapseState(s.new)
       ELSE tlShown' = timelapseState.enabled /\ tlPending' = FALSE
            /\ UNCHANGED <<timelapseState, timelapseStateLoaded>>
    /\ UNCHANGED <<conf, loads, tlClicks, tlSaves>>

\* The timelapse page of another tab.
OtherTabSaves(v) ==
    /\ tlSaves < MaxTlSaves
    /\ tlSaves' = tlSaves + 1
    /\ conf' = [conf EXCEPT !.settings = v]
    /\ UNCHANGED <<timelapseState, timelapseStateLoaded, tlShown, tlPending, loads, saves, tlClicks>>

TlProgress == \/ \E l \in loads : LoadServed(l) \/ loadTimelapseState(l)
              \/ \E s \in saves : SaveServed(s) \/ saveAnswer(s)

TlNext == \/ toggleTimelapse \/ TlProgress
          \/ \E v \in Settings \ {Defaults} : OtherTabSaves(v)
-----------------------------------------------------------------------------
\* Every variable has its type.
TlTypeOK == /\ conf \in Conf /\ timelapseState \in Conf /\ timelapseStateLoaded \in BOOLEAN
            /\ tlShown \in BOOLEAN /\ tlPending \in BOOLEAN
            /\ loads \subseteq [by : 0..MaxTlClicks, st : {"sent", "served", "failed"}, got : Conf]
            /\ saves \subseteq [by : 1..MaxTlClicks, st : {"sent", "served", "failed"}, new : Conf]
            /\ tlClicks \in 0..MaxTlClicks /\ tlSaves \in 0..MaxTlSaves

\* However clicks overlap with the page's own load, a click never writes the placeholder
\* settings the tab started with over the camera's, and while no other tab saves it writes
\* none but the ones that are there (toggleTimelapse awaits loadTimelapseState).
SettingsKept == /\ conf.settings # Defaults
                /\ \A s \in saves : s.st = "sent" /\ tlSaves = 0 => s.new.settings = conf.settings

\* The button spins only while a load or a save is under way, so it is always released.
TlPendingHasCause == tlPending => loads # {} \/ saves # {}

\* A click keeps the camera's settings, and the button spins only for a reason.
TimelapseInv == TlTypeOK /\ SettingsKept /\ TlPendingHasCause
=============================================================================
