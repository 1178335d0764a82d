---------------------------- MODULE MCWebButtons ----------------------------
(***************************************************************************)
(* The status channels and the control bar for TLC. The three parts of the *)
(* bar share nothing, and of the channels they see only snapshots, so each *)
(* behaviour follows one part and leaves the others alone.                 *)
(***************************************************************************)
EXTENDS WebStatus, WebButtons, PhysPrivButton, TimelapseButton

CONSTANTS motion, rec0, beat, fast

VARIABLE part

\* The SSE heartbeat reports motion and the recorders, the fast poller neither of them.
MCCarries == [s \in Sources |-> IF s = beat THEN {motion, rec0} ELSE {}]

mvars == <<part, vars, bvars, pvars, tlvars>>

MCInit == /\ part \in {"status", "bar", "privacy", "timelapse"}
          /\ Init /\ (part # "status" => ~hidden)
          /\ BInit /\ dev = [b \in Buttons |-> b = rec0 /\ part = "bar"]
          /\ PpInit /\ (part # "privacy" => ~file)
          /\ TlInit /\ ~conf.enabled
          /\ (part # "bar" => \A b \in Toggles : kind[b] = "prudynt")

StatusStep(A) == part = "status" /\ A /\ UNCHANGED <<part, bvars, pvars, tlvars>>
BarStep(A) == part = "bar" /\ A /\ UNCHANGED <<part, vars, pvars, tlvars>>
PrivacyStep(A) == part = "privacy" /\ A /\ UNCHANGED <<part, vars, bvars, tlvars>>
TimelapseStep(A) == part = "timelapse" /\ A /\ UNCHANGED <<part, vars, bvars, pvars>>

MCNext == StatusStep(Next) \/ BarStep(BNext) \/ PrivacyStep(PpNext) \/ TimelapseStep(TlNext)

\* Requests end, SSE and pollers go on, timeouts fire and the lens moves. The fast poll of
\* the privacy button is not assumed to arrive.
MCSpec == /\ MCInit /\ [][MCNext]_mvars
          /\ WF_mvars(StatusStep(passwordTimer)) /\ WF_mvars(StatusStep(sseOpens)) /\ WF_mvars(StatusStep(sseError))
          /\ WF_mvars(StatusStep(reconnectTimer))
          /\ \A c \in Channels : WF_mvars(StatusStep(pollTimer(c))) /\ WF_mvars(StatusStep(fetchDone(c)))
          /\ WF_mvars(BarStep(Answer))
          /\ \A s \in Sources : WF_mvars(BarStep(SnapTaken(s))) /\ WF_mvars(BarStep(SnapApplied(s)))
          /\ WF_mvars(PrivacyStep(Tick)) /\ WF_mvars(PrivacyStep(\E t \in nets : netFires(t)))
          /\ WF_mvars(PrivacyStep(LensMoves))
          /\ WF_mvars(PrivacyStep(\E c \in calls : callServed(c) \/ callFails(c)))
          /\ WF_mvars(TimelapseStep(TlProgress))

\* A button spins only while something is under way that will release it: a toggle for its
\* own command, the privacy button for its latch.
BarInv == BTypeOK /\ PendingHasPost /\ PpTypeOK /\ PendingIsLatched

\* While fast polls keep arriving, a failed move surfaces: the privacy button ends up showing
\* the state file, whatever the latch held back before (updateHeartbeatUi).
PrivacyButtonSettles == []<><<PrivacyStep(ppReducer)>>_mvars => ButtonSettles

\* The privacy button neither sticks nor lies for good.
PrivacyButtonReturns == NeverSticks /\ PrivacyButtonSettles
=============================================================================
