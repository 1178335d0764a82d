--------------------------- MODULE CommandStream ----------------------------
(***************************************************************************)
(* Commands whose output is streamed into the page (main.js) and the pages *)
(* that start them: the upgrade page, where an OTA request and an upload   *)
(* may both bring a command, the ping page and the reset page. The page    *)
(* keeps the command in attributes of its output element, and finalizes    *)
(* every stream the same way, however it ended.                            *)
(***************************************************************************)
EXTENDS Naturals, FiniteSets

CONSTANTS
    Commands,
    MaxCmds         \* bound: commands requested

ASSUME CommandAssumption == MaxCmds \in Nat

VARIABLES
    kPage,      \* upgrade, ping or reset
    commandInFlight,
    encoded,    \* outputEl.dataset.encoded, a set of at most one command
    reboot,     \* outputEl.dataset.reboot = "true"
    kReqs,      \* requests for a command under way: the button and what it will bring
    busyBtn,    \* the buttons that are disabled while their request is under way
    kRunning,   \* running of the ping page
    cam,        \* commands the camera runs: what runs, what was asked, whether the page still reads it
    left,       \* the page has gone to reboot.cgi
    cut,        \* history: a stream broke before its command ended
    kCmds

pageVars == <<commandInFlight, encoded, reboot>>
kvars == <<kPage, pageVars, kReqs, busyBtn, kRunning, cam, left, cut, kCmds>>

Buttons(p) == IF p = "upgrade" THEN {"ota", "upload"} ELSE {p}

KInit == /\ kPage \in {"upgrade", "ping", "reset"}
         /\ commandInFlight = FALSE /\ encoded = {} /\ reboot = FALSE
         /\ kReqs = {} /\ busyBtn = {} /\ kRunning = FALSE /\ cam = {}
         /\ left = FALSE /\ cut = FALSE /\ kCmds = 0

\* A click on "Update" (and "Continue"), on "Upload" or on "Run", or opening the reset page.
Request(b, c) ==
    /\ ~left /\ kCmds < MaxCmds
    /\ kCmds' = kCmds + 1
    /\ kReqs' = kReqs \cup {[from |-> b, cmd |-> c]}

\* requestOtaCommand and uploadFirmware up to their fetch.
requestOtaCommand(b, c) ==
    /\ kPage = "upgrade" /\ b \notin busyBtn
    /\ Request(b, c)
    /\ busyBtn' = busyBtn \cup {b}
    /\ UNCHANGED <<kPage, pageVars, kRunning, cam, left, cut>>

\* The reset page asks once, when it is opened.
requestResetCommand(c) ==
    /\ kPage = "reset" /\ kCmds = 0
    /\ Request("reset", c)
    /\ UNCHANGED <<kPage, pageVars, busyBtn, kRunning, cam, left, cut>>

\* clearOutput also forgets the last command.
submitForm(c) ==
    /\ kPage = "ping" /\ ~kRunning
    /\ Request("ping", c)
    /\ kRunning' = TRUE /\ encoded' = {}
    /\ UNCHANGED <<kPage, commandInFlight, reboot, busyBtn, cam, left, cut>>

\* "Clear", at any time.
clearOutput ==
    /\ kPage = "ping" /\ encoded # {}
    /\ encoded' = {}
    /\ UNCHANGED <<kPage, commandInFlight, reboot, kReqs, busyBtn, kRunning, cam, left, cut, kCmds>>

\* What the attributes make of a request for c; the ping page has just set them.
Kept(c) == IF encoded = {} \/ kPage = "ping" THEN {c} ELSE encoded

\* Mutant: a second command is started beside the first.
startStreaming_beside(c) ==
    /\ commandInFlight' = TRUE
    /\ \E run \in Kept(c) :
         /\ encoded' = {run}
         /\ cam' = cam \cup {[id |-> kCmds, cmd |-> run, asked |-> c, read |-> TRUE, step |-> "fetch"]}

\* Nothing while a command is streamed. A command kept in the attributes goes before the one
\* that is asked for, and what is started is kept there.
startStreaming(c) ==
    IF commandInFlight THEN UNCHANGED <<commandInFlight, encoded, cam>>
    ELSE /\ commandInFlight' = TRUE
         /\ \E run \in Kept(c) :
              /\ encoded' = {run}
              /\ cam' = cam \cup {[id |-> kCmds, cmd |-> run, asked |-> c, read |-> TRUE, step |-> "fetch"]}

\* The answer brings the command. Reboot is set before anything is looked at; the reset page
\* takes it from the answer, the ping page never asks for it and brings the encoded command.
startCommand(r) ==
    /\ ~left
    /\ kReqs' = kReqs \ {r}
    /\ busyBtn' = busyBtn \ {r.from}
    /\ reboot' \in IF kPage = "ping" THEN {reboot} ELSE IF kPage = "reset" THEN BOOLEAN ELSE {TRUE}
    /\ startStreaming(r.cmd)
    /\ UNCHANGED <<kPage, kRunning, left, cut, kCmds>>

\* catch and finally of the three pages.
requestFails(r) ==
    /\ ~left
    /\ kReqs' = kReqs \ {r}
    /\ busyBtn' = busyBtn \ {r.from} /\ kRunning' = FALSE
    /\ UNCHANGED <<kPage, pageVars, cam, left, cut, kCmds>>

\* run.cgi begins.
CommandBegins(k) ==
    /\ k.step = "fetch"
    /\ cam' = (cam \ {k}) \cup {[k EXCEPT !.step = "runs"]}
    /\ UNCHANGED <<kPage, pageVars, kReqs, busyBtn, kRunning, left, cut, kCmds>>

\* finalizeStream: the page reboots the camera or waits for the next command.
finalizeStream ==
    /\ commandInFlight' = FALSE
    /\ left' = reboot
    /\ kRunning' = FALSE
    /\ UNCHANGED <<kPage, encoded, reboot, kReqs, busyBtn, kCmds>>

\* The command ends and its stream with it, or run.cgi answers with an error.
streamEnds(k) ==
    /\ ~left /\ k.read
    /\ cam' = cam \ {k}
    /\ finalizeStream
    /\ UNCHANGED cut

\* The stream breaks: the page finalizes, and the command may go on.
streamBreaks(k) ==
    /\ ~left /\ k.read
    /\ cam' = (cam \ {k}) \cup {[k EXCEPT !.read = FALSE]}
    /\ cut' = TRUE
    /\ finalizeStream

CommandEndsUnread(k) ==
    /\ ~k.read
    /\ cam' = cam \ {k}
    /\ UNCHANGED <<kPage, pageVars, kReqs, busyBtn, kRunning, left, cut, kCmds>>

CmdProgress == \/ \E r \in kReqs : startCommand(r) \/ requestFails(r)
               \/ \E k \in cam : CommandBegins(k) \/ streamEnds(k) \/ streamBreaks(k)

KNext == \/ \E c \in Commands : \/ \E b \in {"ota", "upload"} : requestOtaCommand(b, c)
                                \/ requestResetCommand(c) \/ submitForm(c)
         \/ clearOutput
         \/ \E r \in kReqs : startCommand(r) \/ requestFails(r)
         \/ \E k \in cam : CommandBegins(k) \/ streamEnds(k) \/ streamBreaks(k) \/ CommandEndsUnread(k)

KSpec == KInit /\ [][KNext]_kvars
-----------------------------------------------------------------------------
\* Every variable has its type.
KTypeOK ==
    /\ commandInFlight \in BOOLEAN /\ reboot \in BOOLEAN /\ kRunning \in BOOLEAN /\ left \in BOOLEAN
    /\ encoded \subseteq Commands /\ Cardinality(encoded) <= 1 /\ kCmds \in 0..MaxCmds
    /\ kReqs \subseteq [from : {"ota", "upload", "ping", "reset"}, cmd : Commands]
    /\ busyBtn \subseteq {"ota", "upload"}
    /\ \A k \in cam : k.cmd \in Commands /\ k.asked \in Commands /\ k.step \in {"fetch", "runs"}

\* The camera runs the command the page asked for last, although startStreaming prefers the
\* one left in the output element's attributes: every page clears them, or leaves, in time.
RunsWhatWasAsked == \A k \in cam : k.cmd = k.asked

\* Two requests that are answered together, or a second one during a command, never put two
\* commands on the camera, unless a stream broke and its command went on.
OneCommandAtATime == Cardinality(cam) <= 1 \/ cut

\* The camera is rebooted under a command that still runs only if its stream broke: neither
\* another request nor its failure leads to reboot.cgi before the command is done.
RebootAfterCommand == left => cam = {} \/ cut

\* The ping page's "Run" and the upgrade page's buttons come back, whatever fails.
ButtonsReturn == /\ kRunning ~> ~kRunning \/ left
                 /\ \A b \in {"ota", "upload"} : b \in busyBtn ~> b \notin busyBtn \/ left

\* One command, the one that was asked for, and no reboot under it.
CommandInv == KTypeOK /\ RunsWhatWasAsked /\ OneCommandAtATime /\ RebootAfterCommand
=============================================================================
