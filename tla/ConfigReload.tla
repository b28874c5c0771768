---------------------------- MODULE ConfigReload ----------------------------
(***************************************************************************)
(* The directory of service configurations of an exporter, an importer or  *)
(* a directory store: read at the start and again when the watcher reports *)
(* a change (internal/pkg/utils/watchdir.go, internal/pkg/store/           *)
(* store_file.go and the commandRun and loadExporterConfigs functions).    *)
(*                                                                         *)
(* A file configures the service of its own name.  A load is assumed to    *)
(* end within the 500 ms of the debounce timer, so that loads, which share *)
(* config.Services, do not overlap.                                        *)
(***************************************************************************)
EXTENDS FiniteSetsExt, Naturals

CONSTANTS
    Commands, \* subset of {"exporter", "importer", "store"}
    NFiles,
    Versions, \* the configurations a file may hold
    Failures  \* TRUE iff the directory may be unreadable and the watcher may fail

ASSUME ReloadAssumption ==
    /\ Commands \subseteq {"exporter", "importer", "store"}
    /\ NFiles \in Nat
    /\ {"absent", "bad"} \cap Versions = {}
    /\ Failures \in BOOLEAN

VARIABLES
    command,
    files,    \* the directory: a version, "bad" (cannot be parsed), or "absent"
    phase,    \* of commandRun: "load", "watch", "run", "exit"
    watching, \* the watcher: "no", "yes", or "ended" after an error
    event,    \* it has events that nobody has read yet
    timer,    \* the debounce timer runs
    loadPc,   \* loadExporterConfigs: "list", "read", and how the last call ended
    todo,     \* the files it has listed and not read
    config,   \* config.Services
    services  \* the services that run

watchVars == <<watching, event, timer>>
loadVars == <<loadPc, todo, config>>
vars == <<command, files, phase, watchVars, loadVars, services>>

Files == 1..NFiles
Nothing == [f \in Files |-> "absent"]

TypeOK ==
    /\ command \in Commands
    /\ files \in [Files -> Versions \cup {"absent", "bad"}]
    /\ phase \in {"load", "watch", "run", "exit"}
    /\ watching \in {"no", "yes", "ended"}
    /\ event \in BOOLEAN /\ timer \in BOOLEAN
    /\ event \/ timer => watching # "no"
    /\ loadPc \in {"list", "read", "applied", "failed"}
    /\ todo \subseteq Files
    /\ {config, services} \subseteq [Files -> Versions \cup {"absent"}]

Init ==
    /\ command \in Commands
    /\ files \in [Files -> Versions \cup {"absent", "bad"}]
    /\ phase = "load"
    /\ watching = "no" /\ event = FALSE /\ timer = FALSE
    /\ loadPc = "list" /\ todo = {} /\ config = Nothing /\ services = Nothing

\* A file is written, removed or renamed.
Edit(f, c) ==
    /\ files[f] # c
    /\ files' = [files EXCEPT ![f] = c]
    /\ event' = (event \/ watching = "yes")
    /\ UNCHANGED <<command, phase, watching, timer, loadVars, services>>

-----------------------------------------------------------------------------
(* Loading.                                                                *)

\* NewDirStore does not keep its argument: the directory of the store is "".
NewDirStore == command = "store"

\* ReadDir fails: at the start the command exits, later the load is skipped.
ListFails ==
    /\ loadPc = "list"
    /\ Failures \/ NewDirStore
    /\ loadPc' = "failed"
    /\ phase' = IF phase = "load" THEN "exit" ELSE phase
    /\ UNCHANGED <<command, files, watchVars, todo, config, services>>

List ==
    /\ loadPc = "list" /\ ~NewDirStore
    /\ loadPc' = "read"
    /\ todo' = {f \in Files : files[f] # "absent"}
    /\ config' = Nothing
    /\ UNCHANGED <<command, files, phase, watchVars, services>>

\* Faulty: a file that cannot be parsed ends the load.
ReturnOnBad(f) == IF files[f] = "bad" THEN {} ELSE todo \ {f}

Continue(f) == todo \ {f}

\* Faulty: the error of a file that cannot be read or parsed is ignored.
ReadUnchecked(f) == [config EXCEPT ![f] = files[f]]

ReadConfigFile(f) == IF files[f] \in Versions THEN [config EXCEPT ![f] = files[f]] ELSE config

\* In the order of the names; a file that is gone or cannot be parsed is skipped.
ReadFile ==
    /\ loadPc = "read" /\ todo # {}
    /\ LET f == Min(todo) IN
       /\ todo' = Continue(f)
       /\ config' = ReadConfigFile(f)
    /\ UNCHANGED <<command, files, phase, watchVars, loadPc, services>>

\* SetServices.
Apply ==
    /\ loadPc = "read" /\ todo = {}
    /\ loadPc' = "applied"
    /\ services' = config
    /\ phase' = IF phase = "load" THEN "watch" ELSE phase
    /\ UNCHANGED <<command, files, watchVars, todo, config>>

LoadExports == command = "exporter" /\ (ListFails \/ List \/ ReadFile \/ Apply)
LoadImports == command = "importer" /\ (ListFails \/ List \/ ReadFile \/ Apply)
LoadStore == command = "store" /\ ListFails

-----------------------------------------------------------------------------
(* WatchDir.                                                               *)

Watch ==
    /\ phase = "watch"
    /\ \/ watching' = "yes" /\ phase' = "run"
       \/ Failures /\ phase' = "exit" /\ UNCHANGED watching
    /\ UNCHANGED <<command, files, event, timer, loadVars, services>>

\* Faulty: events are dropped while the timer runs or a load is under way.
DropEvents == timer' = (timer \/ loadPc \notin {"list", "read"})

\* Every event starts the timer again.
Debounce == timer' = TRUE

ForwardEvent ==
    /\ watching = "yes" /\ event
    /\ event' = FALSE
    /\ Debounce
    /\ UNCHANGED <<command, files, phase, watching, loadVars, services>>

\* An error of the watcher ends the goroutine, and nobody is told.
WatcherFails ==
    /\ Failures
    /\ watching = "yes"
    /\ watching' = "ended"
    /\ UNCHANGED <<command, files, phase, event, timer, loadVars, services>>

\* checkForNewVersion.
TimerFires ==
    /\ timer /\ loadPc \notin {"list", "read"}
    /\ timer' = FALSE
    /\ loadPc' = "list"
    /\ UNCHANGED <<command, files, phase, watching, event, todo, config, services>>

-----------------------------------------------------------------------------
Run == LoadExports \/ LoadImports \/ LoadStore \/ Watch \/ TimerFires

Next ==
    \/ \E f \in Files, c \in Versions \cup {"absent", "bad"} : Edit(f, c)
    \/ Run \/ ForwardEvent \/ WatcherFails

Spec == Init /\ [][Next]_vars

(* The command, its timer and its watcher run.                             *)
FairSpec == Spec /\ WF_vars(Run) /\ WF_vars(ForwardEvent)

-----------------------------------------------------------------------------
Parsed == [f \in Files |-> IF files[f] \in Versions THEN files[f] ELSE "absent"]

FilesRest == <>[][UNCHANGED files]_vars

\* What runs is what the files say, or a change is still to be loaded, or the load that
\* is under way has what it needs of the files it has read, or the last load failed.
Noticed ==
    \/ event \/ timer \/ loadPc \in {"list", "failed"}
    \/ loadPc = "read" /\ config = [f \in Files |-> IF f \in todo THEN "absent" ELSE Parsed[f]]
    \/ loadPc = "applied" /\ services = Parsed

\* From the first event on no change is missed while the watcher lives, although events
\* are merged and files change while they are listed and read (watchdir.go:16-33).
NoChangeMissed == [](event => [](watching # "ended" => Noticed))

\* Files change while they are listed and read, and events are merged: once the directory
\* rests, and neither the watcher nor the last load has failed, what runs is what the files
\* say, whatever mixture was loaded on the way, provided that any change was seen at all
\* (watchdir.go:16-33).
WatchedIsFresh ==
    FilesRest /\ <>event /\ [](watching # "ended") /\ <>[](loadPc # "failed")
        => <>[](services = Parsed)
=============================================================================
