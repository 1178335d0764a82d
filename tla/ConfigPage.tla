----------------------------- MODULE ConfigPage -----------------------------
(***************************************************************************)
(* The settings pages of the web interface. Each is the same machine: load *)
(* the settings into a form, save the form, show what was saved, reload on *)
(* request, with the form disabled while something is under way. The pages *)
(* differ in what they disable, when, and what follows a save: one record  *)
(* each. A form has two parts, its inputs and its table rows.              *)
(***************************************************************************)
EXTENDS Naturals, FiniteSets

CONSTANTS
    Settings,       \* values a user may type and a camera may hold
    MaxPageOps,     \* bound: operations begun
    MaxTyped        \* bound: edits

ASSUME PageAssumption == /\ MaxPageOps \in Nat \ {0} /\ MaxTyped \in Nat
                         /\ Settings \cap {"blank", "default", "unset"} = {}

Inputs == {"inputs"}
InputsAndRows == {"inputs", "rows"}
Shows == Settings \cup {"blank", "default"}

(***************************************************************************)
(* A page: the parts its form has; the controls toggleBusy disables; the   *)
(* parts that a submit insists on; what an unset value is shown as; what   *)
(* follows a save: another load, the values that come with the answer, or  *)
(* nothing; whether loads disable too; and the page's other requests.      *)
(***************************************************************************)
configAdmin == [parts |-> Inputs, locks |-> {"inputs", "submit"}, loadLocks |-> TRUE, needs |-> {},
                fallback |-> "blank", after |-> "load", others |-> {}]

configSyslog == [parts |-> Inputs, locks |-> {"inputs", "submit"}, loadLocks |-> TRUE, needs |-> {},
                 fallback |-> "default", after |-> "load", others |-> {}]

\* The password is the only input and must not be empty.
configRtsp == [parts |-> Inputs, locks |-> {"inputs", "submit"}, loadLocks |-> TRUE, needs |-> Inputs,
               fallback |-> "default", after |-> "load", others |-> {}]

configWebui == [parts |-> Inputs, locks |-> {"inputs", "submit"}, loadLocks |-> TRUE, needs |-> {},
                fallback |-> "default", after |-> "load", others |-> {}]

\* "Synchronize time" reads the settings again, and the form is usable meanwhile.
configTime == [parts |-> Inputs, locks |-> {"inputs", "submit"}, loadLocks |-> TRUE, needs |-> {},
               fallback |-> "blank", after |-> "load", others |-> {"sync"}]

\* The inputs come with the load: without one there is nothing to post.
configGpio == [parts |-> Inputs, locks |-> {"inputs", "submit"}, loadLocks |-> TRUE, needs |-> Inputs,
               fallback |-> "default", after |-> "load", others |-> {}]

\* toggleBusy leaves the command rows alone.
configTelegrambot == [parts |-> InputsAndRows, locks |-> {"inputs", "submit"}, loadLocks |-> TRUE, needs |-> {},
                      fallback |-> "blank", after |-> "load", others |-> {"restart"}]

\* setFormBusy takes the rows and the reload button, and leaves the broker's inputs alone.
toolMqttSub == [parts |-> InputsAndRows, locks |-> {"rows", "submit", "reload"}, loadLocks |-> TRUE, needs |-> {},
                fallback |-> "blank", after |-> "load", others |-> {"restart"}]

configWireguard == [parts |-> Inputs, locks |-> {"inputs", "submit"}, loadLocks |-> TRUE, needs |-> {},
                    fallback |-> "blank", after |-> "load", others |-> {"generate", "provision", "restart"}]

\* Only the submit button is disabled.
configNetwork == [parts |-> Inputs, locks |-> {"submit"}, loadLocks |-> TRUE, needs |-> Inputs,
                  fallback |-> "blank", after |-> "load", others |-> {}]

\* Nothing is disabled; pins and steps must be filled in.
configMotors == [parts |-> Inputs, locks |-> {}, loadLocks |-> FALSE, needs |-> Inputs,
                 fallback |-> "blank", after |-> "apply", others |-> {"position"}]

\* toggleButton disables the submit button during saves. Nothing listens to the reload button.
toolRecord == [parts |-> Inputs, locks |-> {"submit"}, loadLocks |-> FALSE, needs |-> {},
               fallback |-> "default", after |-> "apply", others |-> {"noreload"}]

toolTimelapse == [parts |-> Inputs, locks |-> {"submit"}, loadLocks |-> FALSE, needs |-> {},
                  fallback |-> "default", after |-> "apply", others |-> {}]

\* send2Load, send2Save: nothing is disabled, required inputs are checked.
send2 == [parts |-> Inputs, locks |-> {}, loadLocks |-> FALSE, needs |-> Inputs,
          fallback |-> "blank", after |-> "none", others |-> {}]

PageKinds == {configAdmin, configSyslog, configRtsp, configWebui, configTime, configGpio, configTelegrambot,
              toolMqttSub, configWireguard, configNetwork, configMotors, toolRecord, toolTimelapse, send2}

Parts == InputsAndRows

VARIABLES
    page,       \* the page that is open
    cam,        \* the settings the camera holds
    form,       \* what the form shows
    locked,     \* toggleBusy(true) is in force
    reloadOff,  \* the reload button, disabled by its own handler
    otherOff,   \* the button of the page's other request
    bar,        \* the busy bar is shown (showBusy, hideBusy)
    ops,        \* operations under way, by number
    pgOps,      \* operations begun
    typed,      \* edits made
    touched,    \* history: for each part the operations begun when it was last typed in; 0: as loaded
    filled,     \* history: a load has filled the form
    loadFailed, \* history: a load failed
    lostAnswer, \* history: a save failed, perhaps after the camera took it
    beside      \* history: what was begun while something else was under way

pgvars == <<page, cam, form, locked, reloadOff, otherOff, bar, ops, pgOps, typed, touched,
            filled, loadFailed, lostAnswer, beside>>

Op(n, kind, data) == [n |-> n, kind |-> kind, st |-> "sent", data |-> data]

\* A page that is just opened: its first load is under way.
PgInit == /\ page \in PageKinds
          /\ cam \in [Parts -> Settings \cup {"unset"}] /\ form = [p \in Parts |-> "blank"]
          /\ locked = page.loadLocks /\ reloadOff = FALSE /\ otherOff = FALSE /\ bar = TRUE
          /\ ops = {Op(1, "load", form)} /\ pgOps = 1 /\ typed = 0
          /\ touched = [p \in Parts |-> 0]
          /\ filled = FALSE /\ loadFailed = FALSE /\ lostAnswer = FALSE /\ beside = {}

\* Mutant: only the button is disabled.
Enabled_inputs(c) == ~(locked /\ c = "submit" /\ c \in page.locks)

Enabled(c) == ~(locked /\ c \in page.locks)

\* What the form shows for a setting of the camera, and what is stored for what it shows.
Shown(v) == IF v = "unset" THEN page.fallback ELSE v
Stored(v) == IF v = "blank" THEN IF page.fallback = "default" THEN "default" ELSE "unset" ELSE v

\* The operation that is begun next.
Begin(kind, data) ==
    /\ pgOps < MaxPageOps
    /\ pgOps' = pgOps + 1
    /\ ops' = ops \cup {Op(pgOps + 1, kind, data)}
    /\ beside' = IF ops = {} THEN beside ELSE beside \cup {kind}
    /\ bar' = TRUE

Type(p, v) ==
    /\ p \in page.parts /\ Enabled(p) /\ typed < MaxTyped /\ form[p] # v
    /\ form' = [form EXCEPT ![p] = v]
    /\ typed' = typed + 1
    /\ touched' = [touched EXCEPT ![p] = pgOps]
    /\ UNCHANGED <<page, cam, locked, reloadOff, otherOff, bar, ops, pgOps, filled, loadFailed, lostAnswer, beside>>

\* The submit handler and saveConfig up to its fetch.
submitForm ==
    /\ Enabled("submit") /\ \A p \in page.needs : form[p] # "blank"
    /\ Begin("save", form)
    /\ locked' = (page.locks # {})
    /\ UNCHANGED <<page, cam, form, reloadOff, otherOff, typed, touched, filled, loadFailed, lostAnswer>>

\* The reload button: loadConfig() up to its fetch.
reloadForm ==
    /\ ~reloadOff /\ Enabled("reload") /\ "noreload" \notin page.others
    /\ Begin("load", form)
    /\ reloadOff' = (page # toolTimelapse)
    /\ locked' = (locked \/ page.loadLocks)
    /\ UNCHANGED <<page, cam, form, otherOff, typed, touched, filled, loadFailed, lostAnswer>>

\* The page's other requests: syncTime, a restart of the service or the switch of the tunnel,
\* readMotorsPosition, generateWireGuardKeys for an empty key, importProvisionedProfile.
otherRequest(k) ==
    /\ k \in page.others \ {"noreload"}
    /\ k \in {"sync", "restart", "position"} => ~otherOff
    /\ k \in {"generate", "provision"} => ~locked
    /\ k = "generate" => form["inputs"] = "blank"
    /\ pgOps < MaxPageOps /\ pgOps' = pgOps + 1
    /\ \E v \in Settings : ops' = ops \cup {Op(pgOps + 1, k, [form EXCEPT !["inputs"] = v])}
    /\ beside' = IF ops = {} THEN beside ELSE beside \cup {k}
    /\ bar' = (bar \/ k # "position")
    /\ otherOff' = (otherOff \/ k \in {"sync", "restart"})
    /\ locked' = (locked \/ k \in {"generate", "provision"})
    /\ UNCHANGED <<page, cam, form, reloadOff, typed, touched, filled, loadFailed, lostAnswer>>

\* The camera handles a request: a read, or a write of the parts the page has.
Serve(o) ==
    /\ o.st = "sent"
    /\ cam' = IF o.kind \in {"save", "provision"}
              THEN [p \in Parts |-> IF p \in page.parts THEN Stored(o.data[p]) ELSE cam[p]] ELSE cam
    /\ LET read == o.kind \in {"load", "reread", "reread_sync"}
                   \/ (o.kind = "save" /\ page.after = "apply")
       IN  ops' = (ops \ {o}) \cup {[o EXCEPT !.st = "ok", !.data = IF read THEN [p \in Parts |-> Shown(cam'[p])] ELSE @]}
    /\ UNCHANGED <<page, form, locked, reloadOff, otherOff, bar, pgOps, typed, touched, filled, loadFailed, lostAnswer, beside>>

\* No answer, or one that is an error; the camera may have acted on the request.
Break(o) ==
    /\ o.st \in {"sent", "ok"}
    /\ ops' = (ops \ {o}) \cup {[o EXCEPT !.st = "failed"]}
    /\ UNCHANGED <<page, cam, form, locked, reloadOff, otherOff, bar, pgOps, typed, touched, filled, loadFailed, lostAnswer, beside>>

\* The form shows what a request brought.
Fill(data) == /\ form' = [p \in Parts |-> IF p \in page.parts THEN data[p] ELSE form[p]]
              /\ touched' = [p \in Parts |-> 0]

\* loadConfig after its fetch, and the rest of the reload handler.
loadAnswer(o) ==
    /\ o.kind = "load" /\ o.st # "sent"
    /\ ops' = ops \ {o}
    /\ IF o.st = "ok" THEN Fill(o.data) ELSE UNCHANGED <<form, touched>>
    /\ filled' = (filled \/ o.st = "ok") /\ loadFailed' = (loadFailed \/ o.st = "failed")
    /\ locked' = (locked /\ ~page.loadLocks)
    /\ reloadOff' = (reloadOff /\ o.n = 1) /\ bar' = FALSE
    /\ UNCHANGED <<page, cam, otherOff, pgOps, typed, lostAnswer, beside>>

\* Mutant: the settings the camera made of the form are not read.
saveAnswer_no_reread(o) ==
    /\ o.kind = "save" /\ o.st # "sent"
    /\ ops' = ops \ {o}
    /\ UNCHANGED form /\ touched' = [p \in Parts |-> 0]
    /\ locked' = FALSE /\ bar' = FALSE
    /\ lostAnswer' = (lostAnswer \/ o.st = "failed")
    /\ UNCHANGED <<page, cam, reloadOff, otherOff, pgOps, typed, filled, loadFailed, beside>>

\* saveConfig after its fetch: on to loadConfig({preserveBusy}), or to the end.
saveAnswer(o) ==
    /\ o.kind = "save" /\ o.st # "sent"
    /\ IF o.st = "ok" /\ page.after = "load"
       THEN /\ ops' = (ops \ {o}) \cup {Op(o.n, "reread", form)}
            /\ UNCHANGED <<form, touched, locked, bar, lostAnswer>>
       ELSE /\ ops' = ops \ {o}
            /\ IF o.st = "ok" /\ page.after = "apply" THEN Fill(o.data) ELSE UNCHANGED <<form, touched>>
            /\ locked' = FALSE /\ bar' = FALSE
            /\ lostAnswer' = (lostAnswer \/ o.st = "failed")
    /\ UNCHANGED <<page, cam, reloadOff, otherOff, pgOps, typed, filled, loadFailed, beside>>

\* The load that ends a save, an import or a synchronisation: its failure is reported and
\* forgotten, and the caller's finally block follows.
rereadAnswer(o) ==
    /\ o.kind \in {"reread", "reread_sync"} /\ o.st # "sent"
    /\ ops' = ops \ {o}
    /\ IF o.st = "ok" THEN Fill(o.data) ELSE UNCHANGED <<form, touched>>
    /\ filled' = (filled \/ o.st = "ok") /\ loadFailed' = (loadFailed \/ o.st = "failed")
    /\ locked' = (locked /\ o.kind = "reread_sync")
    /\ otherOff' = (otherOff /\ o.kind = "reread") /\ bar' = FALSE
    /\ UNCHANGED <<page, cam, reloadOff, pgOps, typed, lostAnswer, beside>>

\* syncTime after its fetch: the settings are read again, whatever the result says.
syncAnswer(o) ==
    /\ o.kind = "sync" /\ o.st # "sent"
    /\ IF o.st = "ok" THEN /\ ops' = (ops \ {o}) \cup {Op(o.n, "reread_sync", form)}
                           /\ UNCHANGED <<otherOff, bar>>
       ELSE ops' = ops \ {o} /\ otherOff' = FALSE /\ bar' = FALSE
    /\ UNCHANGED <<page, cam, form, locked, reloadOff, pgOps, typed, touched, filled, loadFailed, lostAnswer, beside>>

restartAnswer(o) ==
    /\ o.kind = "restart" /\ o.st # "sent"
    /\ ops' = ops \ {o} /\ otherOff' = FALSE /\ bar' = FALSE
    /\ UNCHANGED <<page, cam, form, locked, reloadOff, pgOps, typed, touched, filled, loadFailed, lostAnswer, beside>>

\* readMotorsPosition: the position is written into the form, which nothing has disabled.
positionAnswer(o) ==
    /\ o.kind = "position" /\ o.st # "sent"
    /\ ops' = ops \ {o}
    /\ IF o.st = "ok" THEN /\ form' = [form EXCEPT !["inputs"] = o.data["inputs"]]
                           /\ touched' = [touched EXCEPT !["inputs"] = pgOps]
       ELSE UNCHANGED <<form, touched>>
    /\ UNCHANGED <<page, cam, locked, reloadOff, otherOff, bar, pgOps, typed, filled, loadFailed, lostAnswer, beside>>

\* generateWireGuardKeys: the keys are written into the form and the form is given back.
generateAnswer(o) ==
    /\ o.kind = "generate" /\ o.st # "sent"
    /\ ops' = ops \ {o} /\ locked' = FALSE /\ bar' = FALSE
    /\ IF o.st = "ok" THEN /\ form' = [form EXCEPT !["inputs"] = o.data["inputs"]]
                           /\ touched' = [touched EXCEPT !["inputs"] = pgOps]
       ELSE UNCHANGED <<form, touched>>
    /\ UNCHANGED <<page, cam, reloadOff, otherOff, pgOps, typed, filled, loadFailed, lostAnswer, beside>>

\* importProvisionedProfile: the camera has taken the profile, which is read as after a save.
provisionAnswer(o) ==
    /\ o.kind = "provision" /\ o.st # "sent"
    /\ IF o.st = "ok" THEN /\ ops' = (ops \ {o}) \cup {Op(o.n, "reread", form)}
                           /\ UNCHANGED <<locked, bar, lostAnswer>>
       ELSE ops' = ops \ {o} /\ locked' = FALSE /\ bar' = FALSE /\ lostAnswer' = TRUE
    /\ UNCHANGED <<page, cam, form, reloadOff, otherOff, pgOps, typed, touched, filled, loadFailed, beside>>

\* A .conf file: its values go into the form (importFileInput change, parseWgConf).
importFile(v) ==
    /\ page = configWireguard /\ ~locked /\ typed < MaxTyped /\ form["inputs"] # v
    /\ form' = [form EXCEPT !["inputs"] = v]
    /\ typed' = typed + 1 /\ touched' = [touched EXCEPT !["inputs"] = pgOps]
    /\ UNCHANGED <<page, cam, locked, reloadOff, otherOff, bar, ops, pgOps, filled, loadFailed, lostAnswer, beside>>

\* BUSY_BAR_TTL: the bar goes and an alert says that the operation timed out. It goes on.
busyBarTimeout ==
    /\ bar
    /\ bar' = FALSE
    /\ UNCHANGED <<page, cam, form, locked, reloadOff, otherOff, ops, pgOps, typed, touched, filled, loadFailed, lostAnswer, beside>>

Handle(o) == loadAnswer(o) \/ saveAnswer(o) \/ rereadAnswer(o) \/ syncAnswer(o) \/ restartAnswer(o)
             \/ positionAnswer(o) \/ generateAnswer(o) \/ provisionAnswer(o)

\* Requests end, one way or the other.
PgProgress == \E o \in ops : Serve(o) \/ Handle(o)

PgNext == \/ \E p \in Parts, v \in Settings \cup {"blank"} : Type(p, v)
          \/ submitForm \/ reloadForm
          \/ \E k \in {"sync", "restart", "position", "generate", "provision"} : otherRequest(k)
          \/ PgProgress \/ \E o \in ops : Break(o)
          \/ \E v \in Settings : importFile(v)
          \/ busyBarTimeout

PgSpec == PgInit /\ [][PgNext]_pgvars /\ WF_pgvars(PgProgress)

-----------------------------------------------------------------------------
OpKinds == {"load", "save", "reread", "reread_sync", "sync", "restart", "position", "generate", "provision"}

\* Every variable has its type, and operations have numbers of their own.
PgTypeOK ==
    /\ page \in PageKinds /\ form \in [Parts -> Shows]
    /\ cam \in [Parts -> Settings \cup {"unset", "default"}]
    /\ {locked, reloadOff, otherOff, bar, filled, loadFailed, lostAnswer} \subseteq BOOLEAN
    /\ pgOps \in 0..MaxPageOps /\ typed \in 0..MaxTyped /\ touched \in [Parts -> 0..MaxPageOps]
    /\ beside \subseteq OpKinds
    /\ \A o \in ops : /\ o.n \in 1..pgOps /\ o.kind \in OpKinds /\ o.st \in {"sent", "ok", "failed"}
                      /\ o.data \in [Parts -> Shows]
                      /\ \A q \in ops : o.n = q.n => o = q

\* When nothing is under way everything has been given back: the form, the reload button, the
\* button of the other request and the bar, whichever request failed and however they
\* overlapped (the finally blocks).
IdleIsReleased == ops = {} => ~locked /\ ~reloadOff /\ ~otherOff /\ ~bar

\* What was typed while an operation was under way is not overwritten by its answer where the
\* page disables that part, unless the user pressed Reload (or another button) beside it,
\* which gives the form back early, or synchronised the time (toggleBusy).
TypedIsKept ==
    \A o \in ops, p \in Parts :
        /\ Handle(o) /\ o.kind \in {"load", "save", "reread"} /\ form'[p] # form[p]
        /\ p \in page.locks /\ page.loadLocks /\ beside = {}
        => touched[p] < o.n

\* A page that disables its submit button during loads and saves sends no save beside another
\* operation, unless Reload or another button was pressed beside one before.
SavesAlone ==
    \A o \in ops : \A q \in ops' \ ops :
        q.kind = "save" /\ q.st = "sent" /\ o.st = "sent" /\ q.n > o.n
        /\ page.loadLocks /\ "submit" \in page.locks
        => beside # {} \/ o.kind \in {"sync", "reread_sync", "restart"}

\* What no step of a settings page may do to the user: overwrite typing, or save twice at once.
FormSteps == [][TypedIsKept /\ SavesAlone]_pgvars

\* A form that no load has filled is posted only if its load failed, by a page that does not
\* disable it meanwhile, or after another button was pressed beside the load.
FilledBeforeSaved ==
    \A o \in ops : o.kind = "save" /\ page.loadLocks => filled \/ loadFailed \/ beside \ {"save"} # {}

\* When nothing is under way and nothing was typed since, the form shows what the camera
\* holds, if requests succeeded one after the other.
ShownIsStored ==
    ops = {} /\ beside = {} /\ filled /\ ~loadFailed /\ ~lostAnswer =>
        \A p \in page.parts : touched[p] = 0 => form[p] = Shown(cam[p])

\* A form that is disabled becomes usable again, and so does the reload button.
FormReturns == (locked ~> ~locked) /\ (reloadOff ~> ~reloadOff)
=============================================================================
