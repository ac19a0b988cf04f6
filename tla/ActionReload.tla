---------------------------- MODULE ActionReload ----------------------------
(***************************************************************************)
(* Auto-reloading: how the actions that requests are served with follow    *)
(* the files of the action package while a developer edits them            *)
(* (ActionExecutor.reload and what it calls, rasa_sdk/executor.py; each    *)
(* request calls it first, endpoint.py:160 and 192, grpc_server.py:160,    *)
(* 197 and 279).                                                           *)
(*                                                                         *)
(* A pass of reload() never yields to another request, but the developer's *)
(* editor is another program: every look at a file is a step of its own.   *)
(* Each file defines one action.  A save gives the file a modification     *)
(* time of its own, which also stands for what was saved, so that versions *)
(* on disk, in memory and in the registry can be compared.                 *)
(***************************************************************************)
EXTENDS Naturals

CONSTANTS
  File,      \* the package's files, numbered as pkgutil.iter_modules lists them
  Spawned,   \* whether the executor was pickled into a Sanic worker
  MaxClock   \* bound: how often the developer saves or deletes a file

ASSUME FileAssumption    == File \subseteq Nat
ASSUME SpawnedAssumption == Spawned \in BOOLEAN
ASSUME ClockAssumption   == MaxClock \in Nat \ {0}

VARIABLES
  disk,       \* per file, when it was last saved; 0: there is no such file
  text,       \* per file, whether it can be loaded
  clock,      \* the time of the last change to any file
  loaded,     \* per file, the version in sys.modules; 0: not imported
  stamp,      \* per file, the timestamp in _modules; 0: not there
  actions,    \* per file, the version of its action that is registered
  pc,         \* where the pass is
  toReload,   \* the pass's to_reload: the files with the timestamps found
  listing,    \* the files the scan of the package has still to visit
  reloaded,   \* any_module_reloaded
  discovered, \* whether the scan has put a new file into _modules
  missed,     \* history: per file, why passes may miss its last save, if at all
  cutShort    \* history: whether a pass has ended early since the last Register

passVars == <<pc, toReload, listing, reloaded, discovered>>
history  == <<missed, cutShort>>
vars == <<disk, text, clock, loaded, stamp, actions, passVars, history>>

\* "ok" loads; "syntax" raises SyntaxError; "import" raises ImportError unless
\* what the file imports happens to be there; "error" raises something else.
Texts == {"ok", "syntax", "import", "error"}

OnDisk(f)   == disk[f] # 0
Imported(f) == loaded[f] # 0

\* Every variable keeps its type; nothing in memory is newer than the clock, and
\* _modules lists no file that has not been imported (executor.py:532-540).
TypeOK ==
  /\ clock \in 1 .. MaxClock
  /\ disk \in [File -> 0 .. clock]
  /\ text \in [File -> Texts]
  /\ loaded \in [File -> 0 .. clock]
  /\ stamp \in [File -> 0 .. clock]
  /\ actions \in [File -> 0 .. clock]
  /\ pc \in {"idle", "reload", "scan", "stamp"}
  /\ toReload \in [DOMAIN toReload -> 1 .. clock]
  /\ DOMAIN toReload \subseteq File
  /\ listing \subseteq File
  /\ reloaded \in BOOLEAN
  /\ discovered \in BOOLEAN
  /\ missed \in [File -> {"no", "pass", "worker", "fault"}]
  /\ cutShort \in BOOLEAN
  /\ \A f \in File : stamp[f] # 0 => Imported(f)

\* The package has been registered.  An executor that was pickled has imported
\* the modules of its actions again, but its _modules is empty.
Init ==
  /\ clock = 1
  /\ \E present \in SUBSET File : disk = [f \in File |-> IF f \in present THEN 1 ELSE 0]
  /\ text = [f \in File |-> "ok"]
  /\ loaded = disk
  /\ stamp = IF Spawned THEN [f \in File |-> 0] ELSE disk
  /\ actions = disk
  /\ pc = "idle"
  /\ toReload = [f \in {} |-> 0]
  /\ listing = {}
  /\ reloaded = FALSE
  /\ discovered = FALSE
  /\ missed = [f \in File |-> "no"]
  /\ cutShort = FALSE

-----------------------------------------------------------------------------
(* The developer.                                                          *)

\* A save may be missed while a pass is under way, and in a worker while
\* _modules does not list a file that has been imported.
Save(f) ==
  /\ clock < MaxClock
  /\ clock' = clock + 1
  /\ disk' = [disk EXCEPT ![f] = clock']
  /\ \E t \in Texts : text' = [text EXCEPT ![f] = t]
  /\ missed' = [missed EXCEPT ![f] = IF pc # "idle" THEN "pass"
                                      ELSE IF Imported(f) /\ stamp[f] = 0 THEN "worker"
                                      ELSE "no"]
  /\ UNCHANGED <<loaded, stamp, actions, passVars, cutShort>>

Delete(f) ==
  /\ OnDisk(f)
  /\ clock < MaxClock
  /\ clock' = clock + 1
  /\ disk' = [disk EXCEPT ![f] = 0]
  /\ UNCHANGED <<text, loaded, stamp, actions, passVars, history>>

-----------------------------------------------------------------------------
(* reload(): the modified modules.                                         *)

\* Mutant: timestamps are compared with a granularity of two ticks.
ModifiedCoarsely(f) ==
  stamp[f] # 0 /\ OnDisk(f) /\ disk[f] \div 2 > stamp[f] \div 2

Modified(f) == stamp[f] # 0 /\ OnDisk(f) /\ disk[f] > stamp[f]

\* A request arrives: _find_modules_to_reload looks at every known file.
BeginPass ==
  /\ pc = "idle"
  /\ toReload' = [f \in {g \in File : Modified(g)} |-> disk[f]]
  /\ reloaded' = FALSE
  /\ pc' = "reload"
  /\ UNCHANGED <<disk, text, clock, loaded, stamp, actions, listing, discovered,
                 history>>

Done(f) == toReload' = [g \in DOMAIN toReload \ {f} |-> toReload[g]]

\* Mutant: a reloaded module is not flagged, so nothing is registered.
ReloadUnflagged(f) ==
  /\ pc = "reload" /\ f \in DOMAIN toReload
  /\ OnDisk(f) /\ text[f] \in {"ok", "import"}
  /\ loaded' = [loaded EXCEPT ![f] = disk[f]]
  /\ stamp' = [stamp EXCEPT ![f] = toReload[f]]
  /\ Done(f)
  /\ UNCHANGED <<disk, text, clock, actions, pc, listing, reloaded, discovered,
                 history>>

\* importlib.reload reads the file as it is now; the timestamp that is noted is
\* the one found before.  (The files are taken in any order here; the code takes
\* them in the order in which they were first imported.)
Reload(f) ==
  /\ pc = "reload" /\ f \in DOMAIN toReload
  /\ OnDisk(f) /\ text[f] \in {"ok", "import"}
  /\ loaded' = [loaded EXCEPT ![f] = disk[f]]
  /\ stamp' = [stamp EXCEPT ![f] = toReload[f]]
  /\ reloaded' = TRUE
  /\ Done(f)
  /\ UNCHANGED <<disk, text, clock, actions, pc, listing, discovered, history>>

\* SyntaxError or ImportError (the file may be gone): logged, nothing is noted.
ReloadFails(f) ==
  /\ pc = "reload" /\ f \in DOMAIN toReload
  /\ ~OnDisk(f) \/ text[f] \in {"syntax", "import"}
  /\ missed' = [missed EXCEPT ![f] = "fault"]
  /\ Done(f)
  /\ UNCHANGED <<disk, text, clock, loaded, stamp, actions, pc, listing, reloaded,
                 discovered, cutShort>>

-----------------------------------------------------------------------------
(* reload(): the scan of the package for new files.                        *)

\* The file the scan comes to now.
Current(f) == f \in listing /\ \A g \in listing : f <= g

ListPackage ==
  /\ pc = "reload" /\ DOMAIN toReload = {}
  /\ listing' = {f \in File : OnDisk(f)}
  /\ discovered' = FALSE
  /\ pc' = "scan"
  /\ UNCHANGED <<disk, text, clock, loaded, stamp, actions, toReload, reloaded,
                 history>>

\* Mutant: a new module that raises ImportError is noted all the same.
ImportAnyway(f) ==
  /\ pc = "scan" /\ Current(f)
  /\ pc' = "stamp"
  /\ UNCHANGED <<disk, text, clock, loaded, stamp, actions, toReload, listing,
                 reloaded, discovered, history>>

\* An imported module is not read again; a new one is.
ImportModule(f) ==
  /\ pc = "scan" /\ Current(f)
  /\ \/ Imported(f) /\ UNCHANGED loaded
     \/ /\ ~Imported(f) /\ OnDisk(f) /\ text[f] \in {"ok", "import"}
        /\ loaded' = [loaded EXCEPT ![f] = disk[f]]
  /\ pc' = "stamp"
  /\ UNCHANGED <<disk, text, clock, stamp, actions, toReload, listing, reloaded,
                 discovered, history>>

\* The timestamp that is noted is the file's current one, new module or not.
StampModule(f) ==
  /\ pc = "stamp" /\ Current(f)
  /\ OnDisk(f)
  /\ stamp' = [stamp EXCEPT ![f] = disk[f]]
  /\ discovered' = (discovered \/ stamp[f] = 0)
  /\ listing' = listing \ {f}
  /\ pc' = "scan"
  /\ UNCHANGED <<disk, text, clock, loaded, actions, toReload, reloaded, history>>

\* Mutant: new modules do not count as reloaded.
OnlyReloaded == reloaded

AnyModuleReloaded == reloaded \/ discovered

\* Every subclass of Action in memory is registered, the latest last.
Register ==
  actions' = [f \in File |-> IF Imported(f) THEN loaded[f] ELSE actions[f]]

EndPass ==
  /\ pc' = "idle"
  /\ toReload' = [f \in {} |-> 0]
  /\ listing' = {}
  /\ reloaded' = FALSE
  /\ discovered' = FALSE
  /\ UNCHANGED <<disk, text, clock, loaded, stamp, missed>>

\* The scan is complete.
FinishPass ==
  /\ pc = "scan" /\ listing = {}
  /\ IF AnyModuleReloaded THEN Register /\ cutShort' = FALSE
                          ELSE UNCHANGED <<actions, cutShort>>
  /\ EndPass

\* A new file raises ImportError: the scan ends there, and what it has found so
\* far is not looked at.
ScanFails ==
  /\ pc = "scan"
  /\ \E f \in File : Current(f) /\ ~Imported(f) /\ (~OnDisk(f) \/ text[f] = "import")
  /\ IF reloaded THEN Register /\ cutShort' = FALSE
                 ELSE UNCHANGED actions /\ cutShort' = TRUE
  /\ EndPass

\* What a module raises is no ImportError (nor, when it is reloaded, a
\* SyntaxError), or a file that was listed is gone when its timestamp is read:
\* the exception leaves reload() and the request fails.
PassRaises ==
  /\ \/ /\ pc = "reload"
        /\ \E f \in DOMAIN toReload : OnDisk(f) /\ text[f] = "error"
     \/ /\ pc = "scan"
        /\ \E f \in File : /\ Current(f) /\ ~Imported(f) /\ OnDisk(f)
                           /\ text[f] \in {"syntax", "error"}
     \/ /\ pc = "stamp"
        /\ \E f \in File : Current(f) /\ ~OnDisk(f)
  /\ cutShort' = TRUE
  /\ UNCHANGED actions
  /\ EndPass

-----------------------------------------------------------------------------
Pass ==
  \/ \E f \in File : Reload(f) \/ ReloadFails(f) \/ ImportModule(f) \/ StampModule(f)
  \/ ListPackage \/ FinishPass \/ ScanFails \/ PassRaises

Next ==
  \/ \E f \in File : Save(f) \/ Delete(f)
  \/ BeginPass \/ Pass

Spec == Init /\ [][Next]_vars

\* Requests keep arriving and a pass runs to its end.
FairSpec == Spec /\ WF_vars(BeginPass) /\ WF_vars(Pass)

-----------------------------------------------------------------------------
Stale(f) == OnDisk(f) /\ Imported(f) /\ loaded[f] # disk[f]

\* A file that changed since it was imported is going to be reloaded, unless it
\* was saved during a pass, before a worker's first pass, or could not be loaded
\* when a pass tried to (executor.py:581-602, 619-634, 537-540).  The three cases
\* are exceptions to CHANGELOG.mdx:605-606, "modules containing `Action` subclasses
\* will be automatically reloaded if they have been modified since the last HTTP
\* request"; the second is that of an executor pickled without its timestamps.
EditsAreNoticed ==
  pc = "idle" => \A f \in File : (Stale(f) /\ missed[f] = "no") => Modified(f)

\* Between passes the actions are those of the modules in memory, unless a pass
\* was cut short since actions were last registered (executor.py:620-657).
RegisteredUnlessCutShort ==
  (pc = "idle" /\ ~cutShort) => \A f \in File : Imported(f) => actions[f] = loaded[f]

\* The next pass has something new to make of `f`.
ToBeServed(f) == Modified(f) \/ (OnDisk(f) /\ ~Imported(f))

\* A save at rest is served: when the developer then leaves the package alone,
\* with every file in order, requests are answered with what was saved, whatever
\* earlier passes went through (executor.py:604-657).
SavedFilesAreServed ==
  \A f \in File : \A now \in 1 .. MaxClock :
    (/\ pc = "idle" /\ clock = now /\ ToBeServed(f)
     /\ \A g \in File : OnDisk(g) => text[g] = "ok")
      ~> (actions[f] = disk[f] \/ clock # now)

=============================================================================
