------------------------------ MODULE ZeroTier ------------------------------
(***************************************************************************)
(* The ZeroTier page (config-zerotier.js): the network list, rendered from *)
(* the last answer of the camera; connecting with its poll and its timeout *)
(* of 30 s; disconnecting, removing, adding and the autostart switch; and  *)
(* the refresh every 5 s. One tick of the clock stands for 30 seconds.     *)
(* ZeroTier is installed, and only this page changes its configuration.    *)
(***************************************************************************)
EXTENDS Naturals, FiniteSets

CONSTANTS
    Nets,           \* network IDs
    MaxZtOps,       \* bound: operations of the user
    MaxZtLoads,     \* bound: reads of the status under way when a timer begins another
    MaxZtFaults     \* bound: requests that fail, and services that die

ASSUME ZtAssumption == {MaxZtOps, MaxZtLoads, MaxZtFaults} \subseteq Nat

NoNet == "no network"
Limit == 1          \* 30000 ms
Never == 9          \* connectionStartTime = null

VARIABLES
    zt,         \* the camera: configured network, autostart and how far the service got
    ui,         \* the page's variables, and the entry it shows
    ztReqs,     \* requests under way; got is what the camera answered, once it has
    reconnects, \* retries waiting for their second
    ztOps, ztFaults,
    crossed     \* history: two requests were under way at once

zvars == <<zt, ui, ztReqs, reconnects, ztOps, ztFaults, crossed>>

\* The service: stopped, not online, online without a network status, refused, connected.
Runs == {"off", "init", "joining", "denied", "ok"}
Connected(run) == run \in {"denied", "ok"}

\* The page before anything was loaded: no entry is shown.
NewPage == [net |-> NoNet, boot |-> FALSE, run |-> "off",       \* networks, ztStatus
            connecting |-> FALSE, disconnecting |-> FALSE,      \* isConnecting, isDisconnecting
            since |-> Never,                                    \* ticks since connectionStartTime
            poll |-> FALSE,                                     \* pollInterval is set
            shown |-> NoNet, checked |-> FALSE, text |-> "none", off |-> TRUE, remove |-> FALSE, retry |-> FALSE]

ZtReq(n, kind, net, on, next) == [id |-> n, kind |-> kind, net |-> net, on |-> on, next |-> next, got |-> {}]

ZtInit == /\ zt \in [net : Nets \cup {NoNet}, boot : BOOLEAN, run : {"off", "ok"}]
          /\ (zt.net = NoNet => ~zt.boot /\ zt.run = "off")
          /\ ui = NewPage /\ ztReqs = {ZtReq(1, "load", NoNet, FALSE, "none")}
          /\ reconnects = 0 /\ ztOps = 0 /\ ztFaults = 0 /\ crossed = FALSE

-----------------------------------------------------------------------------
\* What the page's functions make of its variables u.

\* Mutant: milliseconds are compared with seconds.
TimedOut_seconds(u) == u.since # Never /\ u.since > 1000 * Limit

TimedOut(u) == u.since # Never /\ u.since > Limit

\* The flag is cleared by success, by a network that waits for its authorisation, or too late.
StillConnecting(u) == u.connecting /\ ~Connected(u.run) /\ ~TimedOut(u)

\* An empty list is not rendered: the entry that was there stays.
renderNetworks(u) ==
    LET conn == StillConnecting(u)
        disc == u.disconnecting /\ u.run # "off"
    IN  IF u.net = NoNet THEN u
        ELSE [u EXCEPT !.connecting = conn, !.disconnecting = disc,
                       !.since = IF u.run \in {"ok", "off"} THEN Never ELSE @,
                       !.shown = u.net, !.checked = u.boot,
                       !.text = IF disc \/ conn THEN "busy" ELSE IF Connected(u.run) THEN "Disconnect" ELSE "Connect",
                       !.off = disc \/ conn, !.remove = ~Connected(u.run) /\ ~conn,
                       !.retry = u.run = "off" /\ TimedOut(u)]

\* loadData once its request has ended: on an error (ans = {}) everything stays.
loadData(u, ans) ==
    IF ans = {} THEN u
    ELSE LET cam == CHOOSE a \in ans : TRUE
         IN  renderNetworks([u EXCEPT !.net = cam.net, !.boot = cam.boot, !.run = cam.run])

\* connectNetwork and disconnectNetwork up to their requests.
connectNetwork(u) == [u EXCEPT !.connecting = TRUE, !.since = 0]
disconnectNetwork(u) == [u EXCEPT !.disconnecting = TRUE, !.since = Never]

\* The poll, and with it the connecting, is over.
PollEnded(u) == [u EXCEPT !.poll = FALSE, !.since = Never, !.connecting = FALSE]

-----------------------------------------------------------------------------
\* The user and the page's timers.

\* A request is sent while the ones in reqs are under way.
Issue(reqs, kind, net, on, next) ==
    /\ ztReqs' = reqs \cup {ZtReq(Cardinality(reqs) + 1, kind, net, on, next)}
    /\ crossed' = (crossed \/ reqs # {})

Free == Cardinality({r \in ztReqs : r.kind = "load"}) < MaxZtLoads
UserActs == ztOps < MaxZtOps /\ ztOps' = ztOps + 1

\* The reload button; the refresh every 5 s while the service runs; the poll's interval of 2 s.
reload == /\ UserActs /\ Free /\ Issue(ztReqs, "load", NoNet, FALSE, "none")
          /\ UNCHANGED <<zt, ui, reconnects, ztFaults>>

autoRefresh == /\ Free /\ ui.run # "off" /\ ~ui.poll /\ Issue(ztReqs, "load", NoNet, FALSE, "none")
               /\ UNCHANGED <<zt, ui, reconnects, ztOps, ztFaults>>

poll == /\ Free /\ ui.poll /\ Issue(ztReqs, "load", NoNet, FALSE, "poll")
        /\ UNCHANGED <<zt, ui, reconnects, ztOps, ztFaults>>

\* The button does what its text says, and is disabled until the next render.
networkToggleBtn ==
    /\ UserActs /\ ~ui.off
    /\ IF ui.text = "Disconnect"
       THEN ui' = [disconnectNetwork(ui) EXCEPT !.off = TRUE] /\ Issue(ztReqs, "stop", NoNet, FALSE, "none")
       ELSE ui' = [connectNetwork(ui) EXCEPT !.off = TRUE] /\ Issue(ztReqs, "start", NoNet, FALSE, "none")
    /\ UNCHANGED <<zt, reconnects, ztFaults>>

\* "Retry": disconnect, then connect a second later.
retryConnection ==
    /\ UserActs /\ ui.retry
    /\ ui' = disconnectNetwork(ui) /\ Issue(ztReqs, "stop", NoNet, FALSE, "retry")
    /\ UNCHANGED <<zt, reconnects, ztFaults>>

reconnect ==
    /\ reconnects > 0 /\ reconnects' = reconnects - 1
    /\ ui' = connectNetwork(ui) /\ Issue(ztReqs, "start", NoNet, FALSE, "none")
    /\ UNCHANGED <<zt, ztOps, ztFaults>>

removeNetwork ==
    /\ UserActs /\ ui.remove
    /\ Issue(ztReqs, "leave", NoNet, FALSE, "none")
    /\ UNCHANGED <<zt, ui, reconnects, ztFaults>>

\* The switch of the entry that is shown, whether the page still knows its network or not.
toggleAutostart ==
    /\ UserActs /\ ui.shown # NoNet
    /\ ui' = [ui EXCEPT !.checked = ~@]
    /\ Issue(ztReqs, "update", ui.shown, ~ui.checked, "none")
    /\ UNCHANGED <<zt, reconnects, ztFaults>>

\* Offered where the page knows no network. It posts on_boot, a name the camera does not know:
\* a network is always added without autostart.
addNetwork(n) ==
    /\ UserActs /\ ui.net = NoNet
    /\ Issue(ztReqs, "add", n, FALSE, "none")
    /\ UNCHANGED <<zt, ui, reconnects, ztFaults>>

ZtTick == /\ ui.since <= Limit
          /\ ui' = [ui EXCEPT !.since = @ + 1]
          /\ UNCHANGED <<zt, ztReqs, reconnects, ztOps, ztFaults, crossed>>

-----------------------------------------------------------------------------
\* The camera.

\* It serves a request; a service that is started may die at once, unnoticed.
ZtServed(r) ==
    /\ r.got = {}
    /\ zt' \in CASE r.kind = "start" -> {[zt EXCEPT !.run = x] : x \in IF zt.run = "off" THEN {"off", "init"} ELSE {zt.run}}
                 [] r.kind = "stop" -> {[zt EXCEPT !.run = "off"]}
                 [] r.kind = "leave" -> {[net |-> NoNet, boot |-> FALSE, run |-> "off"]}
                 [] r.kind \in {"update", "add"} -> {[zt EXCEPT !.net = r.net, !.boot = r.on]}
                 [] OTHER -> {zt}
    /\ ztReqs' = (ztReqs \ {r}) \cup {[r EXCEPT !.got = {zt'}]}
    /\ UNCHANGED <<ui, reconnects, ztOps, ztFaults, crossed>>

\* The service gets on, as far as its network lets it.
ServiceMoves ==
    /\ \E step \in {<<"init", "joining">>, <<"joining", "denied">>, <<"joining", "ok">>, <<"denied", "ok">>} :
          /\ zt.run = step[1] /\ (step[1] # "init" => zt.net # NoNet)
          /\ zt' = [zt EXCEPT !.run = step[2]]
    /\ UNCHANGED <<ui, ztReqs, reconnects, ztOps, ztFaults, crossed>>

ServiceDies ==
    /\ zt.run = "init" /\ ztFaults < MaxZtFaults
    /\ zt' = [zt EXCEPT !.run = "off"] /\ ztFaults' = ztFaults + 1
    /\ UNCHANGED <<ui, ztReqs, reconnects, ztOps, crossed>>

-----------------------------------------------------------------------------
\* Answers. A request ends well, or with an error, before or after the camera acted on it.

Ends(r, ok) == IF ok THEN r.got # {} /\ UNCHANGED ztFaults
                     ELSE ztFaults < MaxZtFaults /\ ztFaults' = ztFaults + 1

Answer(r, ok) == IF ok THEN r.got ELSE {}

\* The requests left when r ends, numbered anew.
Rest(r) == {[q EXCEPT !.id = IF q.id > r.id THEN @ - 1 ELSE @] : q \in ztReqs \ {r}}
NoFollower(r) == ztReqs' = Rest(r) /\ UNCHANGED crossed
Reads(r, next) == Issue(Rest(r), "load", NoNet, FALSE, next)

loadEnds(r, ok) ==
    /\ r.kind = "load" /\ r.next = "none" /\ Ends(r, ok)
    /\ ui' = loadData(ui, Answer(r, ok))
    /\ NoFollower(r)
    /\ UNCHANGED <<zt, reconnects, ztOps>>

\* The poll's callback after its load: what the page knows then decides, also after an error.
pollConnectionStatus(r, ok) ==
    /\ r.kind = "load" /\ r.next = "poll" /\ Ends(r, ok)
    /\ LET u == loadData(ui, Answer(r, ok))
       IN  IF u.run = "ok" THEN ui' = PollEnded(u) /\ NoFollower(r)
           ELSE IF TimedOut(u) THEN ui' = PollEnded(u) /\ Reads(r, "none")
           ELSE ui' = u /\ NoFollower(r)
    /\ UNCHANGED <<zt, reconnects, ztOps>>

\* connectNetwork after its request: poll, or read what became of it.
startEnds(r, ok) ==
    /\ r.kind = "start" /\ Ends(r, ok)
    /\ IF ok THEN ui' = [ui EXCEPT !.poll = TRUE] /\ NoFollower(r)
             ELSE ui' = [ui EXCEPT !.connecting = FALSE, !.since = Never] /\ Reads(r, "none")
    /\ UNCHANGED <<zt, reconnects, ztOps>>

\* disconnectNetwork after its request; a retry goes on in either case.
stopEnds(r, ok) ==
    /\ r.kind = "stop" /\ Ends(r, ok)
    /\ IF ok THEN Reads(r, IF r.next = "retry" THEN "stopped_retry" ELSE "stopped") /\ UNCHANGED <<ui, reconnects>>
       ELSE /\ ui' = [ui EXCEPT !.disconnecting = FALSE] /\ Reads(r, "none")
            /\ reconnects' = IF r.next = "retry" THEN reconnects + 1 ELSE reconnects
    /\ UNCHANGED <<zt, ztOps>>

\* The load after a disconnect, and the rest of disconnectNetwork.
stoppedLoadEnds(r, ok) ==
    /\ r.kind = "load" /\ r.next \in {"stopped", "stopped_retry"} /\ Ends(r, ok)
    /\ ui' = [loadData(ui, Answer(r, ok)) EXCEPT !.disconnecting = FALSE]
    /\ reconnects' = IF r.next = "stopped" THEN reconnects ELSE reconnects + 1
    /\ NoFollower(r)
    /\ UNCHANGED <<zt, ztOps>>

\* removeNetwork after its request. updateUI offers to add a network, and renders nothing.
leaveEnds(r, ok) ==
    /\ r.kind = "leave" /\ Ends(r, ok)
    /\ IF ok THEN ui' = renderNetworks([ui EXCEPT !.net = NoNet, !.boot = FALSE]) /\ Reads(r, "none")
             ELSE UNCHANGED ui /\ NoFollower(r)
    /\ UNCHANGED <<zt, reconnects, ztOps>>

\* toggleAutostart reads in any case; addNetwork leaves its dialog open after an error.
updateEnds(r, ok) ==
    /\ r.kind = "update" /\ Ends(r, ok)
    /\ ui' = IF ok /\ ui.net = r.net THEN [ui EXCEPT !.boot = r.on] ELSE ui
    /\ Reads(r, "none")
    /\ UNCHANGED <<zt, reconnects, ztOps>>

addEnds(r, ok) ==
    /\ r.kind = "add" /\ Ends(r, ok)
    /\ IF ok THEN Reads(r, "none") ELSE NoFollower(r)
    /\ UNCHANGED <<zt, ui, reconnects, ztOps>>

ZtEnds(r, ok) == \/ loadEnds(r, ok) \/ pollConnectionStatus(r, ok) \/ startEnds(r, ok) \/ stopEnds(r, ok)
                 \/ stoppedLoadEnds(r, ok) \/ leaveEnds(r, ok) \/ updateEnds(r, ok) \/ addEnds(r, ok)

\* The oldest request is served and answered: every request ends.
ZtProgress == \E r \in ztReqs : r.id = 1 /\ (ZtServed(r) \/ \E ok \in BOOLEAN : ZtEnds(r, ok))

ZtNext == \/ reload \/ autoRefresh \/ poll \/ networkToggleBtn \/ retryConnection \/ reconnect
          \/ removeNetwork \/ toggleAutostart \/ \E n \in Nets : addNetwork(n)
          \/ ZtTick \/ ServiceMoves \/ ServiceDies
          \/ \E r \in ztReqs : ZtServed(r) \/ \E ok \in BOOLEAN : ZtEnds(r, ok)

ZtSpec == /\ ZtInit /\ [][ZtNext]_zvars
          /\ WF_zvars(ZtProgress) /\ WF_zvars(ZtTick) /\ WF_zvars(poll) /\ WF_zvars(autoRefresh) /\ WF_zvars(reconnect)
-----------------------------------------------------------------------------
\* Every variable has its type.
ZtTypeOK ==
    /\ zt \in [net : Nets \cup {NoNet}, boot : BOOLEAN, run : Runs]
    /\ ui \in [net : Nets \cup {NoNet}, boot : BOOLEAN, run : Runs, connecting : BOOLEAN, disconnecting : BOOLEAN,
               since : 0..(Limit + 1) \cup {Never}, poll : BOOLEAN, shown : Nets \cup {NoNet}, checked : BOOLEAN,
               text : {"none", "busy", "Connect", "Disconnect"}, off : BOOLEAN, remove : BOOLEAN, retry : BOOLEAN]
    /\ \A r \in ztReqs : r.id \in 1..Cardinality(ztReqs) /\ \A q \in ztReqs : q.id = r.id => q = r

\* The start time was forgotten, and with it the timeout: renderNetworks saw a stopped service,
\* be it that it died or that the answer is older than the start.
TimeoutForgotten == ui.connecting /\ ui.since = Never

\* "Connecting..." ends: with success, with a network that waits for its authorisation, with an
\* error or after 30 s, unless the page has forgotten when it began.
ConnectEnds == ui.connecting ~> ~ui.connecting \/ TimeoutForgotten

\* The button is usable again after every connect and disconnect that meets no error: no order
\* of the poll, the refresh and the answers leaves it disabled, unless the timeout was forgotten
\* or the network was removed, whose entry is not rendered again.
ToggleReturns == ui.off /\ ui.net # NoNet ~> ~ui.off \/ ui.net = NoNet \/ ztFaults > 0 \/ TimeoutForgotten

\* The page says about the autostart what the camera has, once nothing is under way, unless
\* requests overlapped or failed or the network was removed (toggleAutostart reads again).
AutostartShown ==
    ztReqs = {} /\ ~crossed /\ ztFaults = 0 /\ ui.net # NoNet => ui.checked = zt.boot /\ ui.net = zt.net
=============================================================================
