---------------------------- MODULE FileManager -----------------------------
(***************************************************************************)
(* The directory listing of the file manager (tool-file-manager.js):       *)
(* clicks, the browser's history, the 15 s watch and the tab's visibility  *)
(* all load directories, and every answer is rendered when it arrives.     *)
(***************************************************************************)
EXTENDS Naturals, FiniteSets

CONSTANTS
    Dirs,
    MaxDirOps,      \* bound: loads the user begins
    MaxDirChanges,  \* bound: changes of a directory on the camera
    MaxDirFaults    \* bound: loads that fail, and times the tab is hidden

ASSUME DirAssumption == MaxDirOps \in Nat /\ MaxDirChanges \in Nat /\ MaxDirFaults \in Nat

VARIABLES
    dirNow,     \* the camera's directories, as version numbers; version 0 is empty
    path, raw, lastSignature, loading,      \* state.currentPath, rawEntries, ...
    rendered,   \* the directory and the entries on the page
    url,        \* the directory the address bar names
    dirReqs,    \* loads under way; got is what the camera listed, once it has
    dirHidden, watching,
    astray,     \* history: a load that leaves the address alone failed after going back, or was overtaken
    dirOps, dirChanges, dirFaults

stateFm == <<path, raw, lastSignature, rendered, url>>
dvars == <<dirNow, stateFm, loading, dirReqs, dirHidden, watching, astray, dirOps, dirChanges, dirFaults>>

Listing(d) == <<d, dirNow[d]>>

\* Every empty directory has the same signature, every other one its own.
computeEntriesSignature(list) == IF list[2] = 0 THEN <<>> ELSE list

\* A load; crossed tells that another load was answered while this one was under way.
Load(d, silent, history) ==
    [id |-> Cardinality(dirReqs), dir |-> d, silent |-> silent, history |-> history, got |-> {}, crossed |-> FALSE]

\* The script's end: load the directory the address names, then watch.
FmInit == /\ dirNow = [d \in Dirs |-> 0]
          /\ path \in Dirs /\ url = path /\ raw = <<path, 0>> /\ rendered = <<path, 0>>
          /\ lastSignature = <<path, 0>>
          /\ loading = TRUE
          /\ dirReqs = {[id |-> 0, dir |-> path, silent |-> FALSE, history |-> "replace", got |-> {}, crossed |-> FALSE]}
          /\ dirHidden = FALSE /\ watching = FALSE /\ astray = FALSE
          /\ dirOps = 0 /\ dirChanges = 0 /\ dirFaults = 0

\* loadDirectory up to its fetch; a silent one gives way to any other.
loadDirectory(d, silent, history) ==
    IF silent /\ (loading \/ dirHidden) THEN UNCHANGED <<loading, dirReqs>>
    ELSE loading' = TRUE /\ dirReqs' = dirReqs \cup {Load(d, silent, history)}

\* A directory link or "Parent".
handleDirLink(d) ==
    /\ dirOps < MaxDirOps /\ ~dirHidden
    /\ dirOps' = dirOps + 1
    /\ loadDirectory(d, FALSE, "push")
    /\ UNCHANGED <<dirNow, stateFm, dirHidden, watching, astray, dirChanges, dirFaults>>

\* "Refresh".
refreshBtn ==
    /\ dirOps < MaxDirOps /\ ~dirHidden
    /\ dirOps' = dirOps + 1
    /\ loadDirectory(path, FALSE, "none")
    /\ UNCHANGED <<dirNow, stateFm, dirHidden, watching, astray, dirChanges, dirFaults>>

\* Back or forward: the browser has changed the address already.
popstate(d) ==
    /\ dirOps < MaxDirOps /\ ~dirHidden
    /\ dirOps' = dirOps + 1
    /\ url' = d /\ astray' = TRUE
    /\ loadDirectory(d, FALSE, "popped")
    /\ UNCHANGED <<dirNow, path, raw, lastSignature, rendered, dirHidden, watching, dirChanges, dirFaults>>

\* The interval of 15 s, when it does something.
runDirectoryWatch ==
    /\ watching /\ ~dirHidden /\ ~loading
    /\ loadDirectory(path, TRUE, "replace")
    /\ UNCHANGED <<dirNow, stateFm, dirHidden, watching, astray, dirOps, dirChanges, dirFaults>>

dirVisibility ==
    /\ dirHidden \/ dirFaults < MaxDirFaults
    /\ dirHidden' = ~dirHidden
    /\ dirFaults' = IF dirHidden THEN dirFaults ELSE dirFaults + 1
    /\ IF dirHidden /\ ~loading THEN loading' = TRUE /\ dirReqs' = dirReqs \cup {Load(path, TRUE, "replace")}
                                ELSE UNCHANGED <<loading, dirReqs>>
    /\ UNCHANGED <<dirNow, stateFm, watching, astray, dirOps, dirChanges>>

DirServed(r) ==
    /\ r.got = {}
    /\ dirReqs' = (dirReqs \ {r}) \cup {[r EXCEPT !.got = {Listing(r.dir)}]}
    /\ UNCHANGED <<dirNow, stateFm, loading, dirHidden, watching, astray, dirOps, dirChanges, dirFaults>>

\* The loads left when r ends, numbered anew.
Others(r) == {[o EXCEPT !.id = IF o.id > r.id THEN o.id - 1 ELSE o.id, !.crossed = TRUE] : o \in dirReqs \ {r}}

\* Mutant: only the entries decide whether a silent answer is rendered.
HasChanged_entries(list) == computeEntriesSignature(list) # lastSignature

HasChanged(list) == computeEntriesSignature(list) # lastSignature \/ list[1] # path

\* The answer: rendered unless it is a silent one that brings nothing new.
dirAnswer(r) ==
    \E list \in r.got :
    /\ raw' = list /\ path' = list[1]
    /\ lastSignature' = computeEntriesSignature(list)
    /\ IF ~r.silent \/ HasChanged(list)
       THEN rendered' = list /\ url' = IF r.history \in {"push", "replace"} THEN list[1] ELSE url
       ELSE UNCHANGED <<rendered, url>>
    /\ watching' = TRUE
    /\ loading' = FALSE /\ dirReqs' = Others(r)
    /\ astray' = \/ astray /\ ~(dirReqs = {r} /\ r.history = "popped" /\ ~r.crossed)
                 \/ r.history = "none" /\ r.crossed
    /\ UNCHANGED <<dirNow, dirHidden, dirOps, dirChanges, dirFaults>>

\* Mutant: the flag is reset where the answer is rendered.
dirFails_keeps_loading(r) ==
    /\ dirFaults < MaxDirFaults
    /\ dirFaults' = dirFaults + 1
    /\ dirReqs' = Others(r) /\ watching' = TRUE
    /\ UNCHANGED <<dirNow, stateFm, loading, dirHidden, astray, dirOps, dirChanges>>

\* catch and finally; the page's first load is followed by the watch in any case.
dirFails(r) ==
    /\ dirFaults < MaxDirFaults
    /\ dirFaults' = dirFaults + 1
    /\ loading' = FALSE /\ dirReqs' = Others(r) /\ watching' = TRUE
    /\ UNCHANGED <<dirNow, stateFm, dirHidden, astray, dirOps, dirChanges>>

DirChanged(d) ==
    /\ dirChanges < MaxDirChanges
    /\ dirChanges' = dirChanges + 1
    /\ dirNow' = [dirNow EXCEPT ![d] = IF @ = 0 THEN dirChanges + 1 ELSE 0]
    /\ UNCHANGED <<stateFm, loading, dirReqs, dirHidden, watching, astray, dirOps, dirFaults>>

DirEnds == \E r \in dirReqs : DirServed(r) \/ dirAnswer(r)

FmNext == \/ \E d \in Dirs : handleDirLink(d) \/ popstate(d) \/ DirChanged(d)
          \/ refreshBtn \/ runDirectoryWatch \/ dirVisibility
          \/ \E r \in dirReqs : DirServed(r) \/ dirAnswer(r) \/ dirFails(r)
-----------------------------------------------------------------------------
\* Every variable has its type.
FmTypeOK ==
    /\ dirNow \in [Dirs -> 0..MaxDirChanges] /\ path \in Dirs /\ url \in Dirs
    /\ raw \in Dirs \X (0..MaxDirChanges) /\ rendered \in Dirs \X (0..MaxDirChanges)
    /\ \A r \in dirReqs : r.dir \in Dirs /\ r.id \in 0..(Cardinality(dirReqs) - 1)
    /\ loading \in BOOLEAN /\ dirHidden \in BOOLEAN /\ watching \in BOOLEAN /\ astray \in BOOLEAN

\* What is on the page is what its links, its sort and its refresh work on, although a silent
\* answer that looks unchanged is not rendered and two empty directories look alike.
RenderedIsState == rendered = raw /\ rendered[1] = path

\* Once nothing is under way, a reload of the page would show the same directory: only a
\* refresh or a step back that another load overtakes, or that fails, parts address and page.
UrlIsPath == dirReqs = {} /\ ~astray => url = path

\* The watch never takes the user to another directory: a silent answer changes the directory
\* only if another load was answered while it was under way.
SilentStays == \A r \in dirReqs : r.silent /\ dirAnswer(r) /\ path' # path => r.crossed

\* The listing catches up with the camera, whatever failed or overlapped before, as long as
\* the tab is visible.
ListingFresh == <>[](dirHidden \/ rendered[2] = dirNow[path])

\* Page, state and address agree.
ListingInv == FmTypeOK /\ RenderedIsState /\ UrlIsPath
=============================================================================
