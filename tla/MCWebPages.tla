----------------------------- MODULE MCWebPages -----------------------------
(***************************************************************************)
(* Pages of the web interface for TLC: the preview image, the controls of  *)
(* the preview, the settings pages and the ZeroTier page. They have no     *)
(* state in common: each behaviour follows one of them (part) and leaves   *)
(* the others alone.                                                       *)
(***************************************************************************)
EXTENDS PreviewStream, PreviewControls, ConfigPage, ZeroTier

CONSTANT v1     \* a member of Values and of Settings

VARIABLE part

mvars == <<part, pvvars, pcvars, pgvars, zvars>>

\* Whoever does not take part has one initial state. A camera's settings are all set or all unset.
MCInit == /\ part \in {"preview", "controls", "settings", "zerotier"}
          /\ PvInit /\ (part # "preview" => ~track /\ ~pvHidden)
          /\ PcInit /\ live = [c \in Controls |-> v1]
          /\ PgInit /\ cam \in {[p \in Parts |-> s] : s \in {v1, "unset"}}
          /\ (part # "settings" => page = configMotors /\ cam = [p \in Parts |-> v1])
          /\ ZtInit /\ ~zt.boot /\ (part # "zerotier" => zt.net = NoNet)

PreviewStep(A) == part = "preview" /\ A /\ UNCHANGED <<part, pcvars, pgvars, zvars>>
ControlsStep(A) == part = "controls" /\ A /\ UNCHANGED <<part, pvvars, pgvars, zvars>>
SettingsStep(A) == part = "settings" /\ A /\ UNCHANGED <<part, pvvars, pcvars, zvars>>
ZeroTierStep(A) == part = "zerotier" /\ A /\ UNCHANGED <<part, pvvars, pcvars, pgvars>>

MCNext == PreviewStep(PvNext) \/ ControlsStep(PcNext) \/ SettingsStep(PgNext) \/ ZeroTierStep(ZtNext)

\* Clocks go on, timers and intervals fire, requests end.
MCSpec == /\ MCInit /\ [][MCNext]_mvars
          /\ WF_mvars(PreviewStep(PvTick)) /\ WF_mvars(PreviewStep(watchdog)) /\ WF_mvars(PreviewStep(focusTimeout))
          /\ WF_mvars(SettingsStep(PgProgress))
          /\ WF_mvars(ZeroTierStep(ZtProgress)) /\ WF_mvars(ZeroTierStep(ZtTick)) /\ WF_mvars(ZeroTierStep(poll))
          /\ WF_mvars(ZeroTierStep(autoRefresh)) /\ WF_mvars(ZeroTierStep(reconnect))

\* A settings page at rest is released and shows what the camera holds, the ZeroTier page's
\* autostart switch too, and no page posts a form that was never filled.
SettingsInv == /\ PgTypeOK /\ IdleIsReleased /\ FilledBeforeSaved /\ ShownIsStored
               /\ ZtTypeOK /\ AutostartShown

\* Disabled forms, "Connecting..." and the connect button all come back.
PagesReturn == FormReturns /\ ConnectEnds /\ ToggleReturns
=============================================================================
