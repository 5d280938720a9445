------------------------------ MODULE Services ------------------------------
(***************************************************************************)
(* What the store and the server keep, over the same settings: the modules *)
(* and memories, the usage, the log, the events and the pages they go to,  *)
(* the watched files, the limits of endpoints, and the terminal.  A        *)
(* behaviour uses some of these services; a step is one of one of them,    *)
(* and a restart is seen by all.                                           *)
(***************************************************************************)
EXTENDS Modules, Memory, Usage, LogBuffer, Events, FileWatcher, Providers, Terminal

vars == <<settingsVars, modVars, memVars, usageVars, logVars, eventVars, watcherVars,
          providerVars, terminalVars>>

StoreInit ==
    Init /\ InitModules /\ InitMemory /\ InitUsage /\ NewLogBuffer /\ InitEvents /\ InitWatcher
    /\ InitProviders /\ InitTerminal

\* What the process only has in memory is followed until it stops.
Survives == lives' # lives => uses \cap {"log", "events", "files", "limits", "terminal"} = {}

StoreNext ==
    \/ /\ UNCHANGED <<providerVars, terminalVars>>
       /\ \/ SettingsStep /\ Survives /\ MemoryRestarts /\ UsageRestarts /\ UNCHANGED <<logVars, eventVars, watcherVars>>
          \/ ModulesStep /\ UNCHANGED <<memVars, usageVars, logVars, eventVars, watcherVars>>
          \/ MemoryStep /\ UNCHANGED <<modVars, usageVars, logVars, eventVars, watcherVars>>
          \/ UsageStep /\ UNCHANGED <<modVars, memVars, logVars, eventVars, watcherVars>>
          \/ "log" \in uses /\ LogNext /\ UNCHANGED <<settingsVars, modVars, memVars, usageVars, eventVars, watcherVars>>
          \/ EventsStep /\ UNCHANGED <<modVars, memVars, usageVars, logVars, watcherVars>>
          \/ WatcherStep /\ UNCHANGED <<modVars, memVars, usageVars, logVars, eventVars>>
    \/ /\ UNCHANGED <<settingsVars, modVars, memVars, usageVars, logVars, eventVars, watcherVars>>
       /\ \/ "limits" \in uses /\ ProvidersNext /\ UNCHANGED terminalVars
          \/ "terminal" \in uses /\ TerminalNext /\ UNCHANGED providerVars

StoreSpec == StoreInit /\ [][StoreNext]_vars /\ MemoryFairness
=============================================================================
