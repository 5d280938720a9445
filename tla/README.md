# Altclaw in TLA+

Altclaw is a single Go binary that lets AI models work on a directory: an agent
sends a user's message to a provider, runs the JavaScript the provider writes in
an embedded VM, feeds the results back, and repeats until there is an answer.
Around that loop stand a web server with many tabs per chat, a terminal, a
scheduler that survives restarts, background tasks, connections kept open, pools,
a tunnel, containers, browsers, a history in git and a site of scripts: goroutines
of one process that share state under a handful of mutexes, and a store that
outlives it.

This directory holds TLA+ models of that code, the TLC configurations that check
them on small instances, and proofs of their invariants for instances of any
size. Paths below are relative to the repository's `src/`. `PROJECT.json` maps
every definition to the lines it models, and lists the hazards the properties are
for, a mutant of the code that breaks each property, and the theorems.

    tlc -config <Run>.cfg <Module>.tla      # see "Runs"
    tlapm ChatSessionProofs.tla             # see "Proofs"

Contents: Inventory; Modules; Runs (bounds, fairness, where the code does not do
what it says); Proofs; Not modelled, and why; Plan.


## Inventory

For each component: its state, its operations, what is hard, what makes it correct.

| Component | State | Operations | What is hard | Correct when |
|---|---|---|---|---|
| **Chat sessions** `web/api_chat.go`, `web/server.go`, `web/api.go` | `Server.chats` (under `server.mu`), each `chatSession`: `running`, `ctx`, `cancel`, `pendingEvents`, `pendingUserMsgs`, `askChan` | Chat, Stop, Inject, Answer, Clear, DELETE, `rebuildAgent`, `AskUser`, `bufferAndBroadcast`, the goroutine of a Chat | every handler unlocks in the middle; some fields are read without the lock; a goroutine outlives the request, a sub-agent outlives the goroutine | one execution per session, each injected message in one place, what is replayed belongs to the execution that runs |
| **Agent loop** `internal/agent/agent.go` | `Messages`, the working `msgs`, the ledger, counters, `PendingMsgs`; rows for messages, history, usage | Send, handleStop, compactMessages, persistMessage, LoadMessages | five exits, retries under a shared timeout, three layers of forgetting, writes with a context that may be cancelled | nothing the turn did is forgotten, a turn ends, once |
| **Engine** `internal/engine/engine.go`, `internal/bridge/agent.go` | `e.mu`, the VM and its interrupt flag, `execCtx`, `stopCtx`, the pausable deadline, the handles of `agent.run` | Run, RunModule, PauseDeadline, ResumeDeadline, SetStopCtx, agent.run/result/kill | the VM, a select, a timer's callback and a stop race; contexts of three lifetimes | one goroutine in the VM, no deadline too early, every Run ends |
| **Tasks and pools** `internal/bridge/task.go`, `internal/engine/task.go`, `internal/bridge/pool.go`, `blob_pool.go`, `db.go`, `blob.go` | task handles, named queues (semaphores), child engines; open connections with last use | task.run, join, all, done, cancel; Get, Close, CloseAll, the reaper; `Engine.Cleanup` | child engines are cleaned up from two sides; a queue's limit changes; what is handed out may be closed | a queue keeps its limit, an outcome is told once, a cancelled task ends |
| **Cron manager** `internal/cron/cron.go`, `internal/bridge/cron.go`, `cmd/altclaw/main.go`, `cmd/altclaw/headless.go` | rows, `Manager.entries`, timers, registrations with the cron library | Add, Remove, fireAndRemove, UpdateJobChatID, ClearChatID, New | memory and store change in separate steps; crashes; missed jobs | what is listed has its row; a one-shot runs once in a life, and stays until it ran |
| **Connection manager** `internal/connmgr/connmgr.go`, `internal/bridge/conn.go`, `web/api_conn.go` | rows, entries, their goroutines and cancel functions, warm VMs | Add, Remove, Send, runConn, the handler, the reaper, Stop | reconnection against removal; a VM re-entered under its lock | what is listed is served; what is cancelled ends |
| **Config store** `internal/config/*.go`, `web/api_config.go`, `internal/bridge/confirm.go` | SQLite rows; settings in memory and their derived values; token counts and their cache | patch, save, reset, profiles; IncrementTokenUsage | one object shared by page, scripts and profiles; read-modify-write and caches beside transactions | the row says what memory says; counts are exact |
| **Memory** `internal/bridge/mem.go`, `web/api_memory.go` | entries of three kinds with expiry | add, core, rm, promote, expire | expiry races who has read an entry | what is due is forgotten |
| **Modules** `web/api_modules.go`, `web/confirm_ctx.go`, `internal/bridge/module.go` | a folder of files per scope, the hub's zips | upload, install, remove, publish, require | file by file, no lock; an approval between question and act | what is reported is so; nothing is installed unasked |
| **Providers** `internal/provider/*.go` | a semaphore and a rate per endpoint | Chat, SetConcurrency, SetRateLimit | semaphores replaced while held | no semaphore is overrun |
| **Executors** `internal/executor/*.go`, `internal/bridge/sys.go` | containers per session and by default, network, relay, heartbeat; interactive processes | Run, Popen, Cleanup, cleanupStale, AllowPort | two first commands; a crash between `docker run` and its return | output is read to the end; no container outlives its process |
| **Git** `internal/bridge/git.go`, `git_repo.go`, `web/api_git.go` | a history repository, the workspace's repository with index, branches, stash | snapshots, commit, restore, compact, add, stash, pop | goroutines without a lock over files that change; four-step commands that fail | turns are in the history, which only grows; stashed work is kept |
| **Browser bridge** `internal/bridge/browser.go` | Chrome processes, profiles, pages, listeners | open, close, cleanup of a block and of an engine | eight steps of open that fail; a late cleanup; calls that cannot be interrupted | no Chrome is forgotten; a stopped block ends |
| **Server-side scripts** `internal/serverjs/serverjs.go`, `web/server.go` | route cache; an engine per request | lookup, eviction, handle, time out | backtracking and a shared cache; a timeout against the answer | the best script answers; one goroutine per engine |
| **Tunnel** `internal/tunnel/client.go`, `web/api_tunnel.go`, `internal/config/profile.go` | `tunnelState`, the client's goroutine, reporters, the workspace's row | connect, disconnect, pair, unpair, reconnect | callbacks after a disconnect; two starts | one tunnel; it comes back |
| **Events and push** `web/events.go`, `web/push.go` | pages with bounded queues; push subscriptions | Subscribe, Broadcast, SendPush | full queues; endpoints that are gone | a page gets each sender's events in order, once |
| **File watcher** `web/server.go` | watches, the system's events | first walk, event loop | directories come and go under the walk | the tree is followed |
| **Log ring** `internal/bridge/log.go` | ring of records | Write, Recent | wrap-around | the last N |
| **Terminal** `tui/app.go`, `tui/confirm_ctx.go` | the model, queued texts, the prompt, agents | keys, messages, commands | one key has three meanings; agents are rebuilt under a turn | a text is saved in its chat |
| Other bridges, path checks, network guard, MCP server, login sessions, browser client | none of their own, or none that is shared | | pure I/O or pure functions | see "Not modelled" |

How they interact. A browser's request is a goroutine of the web server; Chat
starts one goroutine that calls `agent.Send`. Send calls the provider (under the
endpoint's semaphore and the token caps), then `engine.Run` for each code block; the
VM calls bridges, of which `ui.ask` goes back to the session (`AskUser`), `agent.run`
starts another `Send`, `task.run` a child engine, `cron.add` and `conn.open` reach
managers that later call the agent or a script in an engine of its own, and an
approved action changes settings, modules or the tunnel. When Send returns, git
takes a snapshot. A saved setting makes `rebuildAgent` forget the sessions. What
happens is told to the pages through the event hub. The store is shared by all.


## Modules

| Module | What it models, and how state and actions correspond |
|---|---|
| `ChatSession` | the chat component. `chats` is `Server.chats`; `sess` the session objects; `req` the handlers' goroutines, one `pc` per unlock; `run` the goroutine of each Chat; `asker` who is inside `AskUser`; `msg` and `db` the injected messages and the persisted ones. One action per critical section: `ChatLookup`, `CreateSession`, `ClaimSession`, `SpawnRun` are Chat's, `StopCheck` and `Stop` are Stop's, and so on. Send appears only as far as the session sees it, with the sub-agent it may leave behind (`SpawnSubAgent`, `SubAgentLog`, `SubAgentReturns`). |
| `AgentLoop` | `Send` in full, over several turns of a chat. `pc` names the points where Send waits or may be cancelled; `messages` is `a.Messages`, `msgs` what the provider is sent; `rows`, `history`, `usage` are the store. `CallFails`, `BackoffOver`, `ApiTimeout` are the retry loop, `BlockBegin`, `Feedback` the code blocks, `Restart` a new process that loads the chat. `Compact` keeps the messages at the positions `Kept`, the n-th of them being the n-th smallest. |
| `AgentTurn` | the abstract specification: what one call of Send promises. |
| `AgentLoopTurns`, `ChatTurns` | the refinements: every turn of `AgentLoop`, and every execution of `ChatSession`, implements `AgentTurn`. |
| `EngineRun` | one engine: Run, RunModule, the deadline, interrupts, agent.run. `mu` is `e.mu`; `vm` what the VM's goroutine does (JavaScript, which sees the flag, `agent.result`, `page.pause`, or another native call that may take any time and sees none), `ch` runInVM's channel; `dlTimer`, `dlBudget`, `dlStarted` the fields of the same names; `firing` timer callbacks in flight; `interrupt` goja's flag with, as history, the block it was meant for; `sub` the goroutines behind the handles. |
| `EngineTasks` | what an engine owns besides its VM: `script` (the list of ids that join or all was given, and how far it has come), `handles`, `queues`, `task` (a goroutine each), `children`, the pools' `conn` and `closed`, and `cleaner`, the owner's `Cleanup`, which may come at any time. |
| `CronManager` | the scheduler with its store, clients, runner and process. `rows`, `entries`, `timer` are a job's three existences; `fire`, `task`, `client`, `del` the goroutines at work on them; `Down` and `Start` the process. |
| `ConnManager` | the table of connections and its rows, `runner` (the goroutine of each, from dial to backoff), `entry` (the fields of connEntry), clients, the reaper, `StopEntries`, crash and restart. |
| `Tunnel` | `ts` is tunnelState, `tunnel` each client's goroutine, `call` the requests and confirmed actions by their steps, `ws`, `row` and `profile` the workspace in memory, in the store and under the hub's profile. |
| `Executor` | `d` the fields of Docker, `con` the containers, `relay` and `netUp` what they need, `th` the threads that run commands, `proc` interactive processes; the local executor is the other value of `kind`. |
| `Git` | a branch is its trees, newest first. `job` the snapshots under way (`WalkFile` file by file), `cmd` the block's multi-step command, `web` the browser's restore; `owed`, `spoilt`, `due`, `raced` are history variables for the properties. |
| `Browser` | `eng` each engine and its block, `op` the native call the block is in (one `pc` per step of open), `chrome` the processes with owner, profile and directory. |
| `ServerJS` | `tree` the scripts, with those it was before in `past`, `entries` and `order` the cache, `req` each request from lookup to cleanup. `MCServerJS` gives it a site whose scripts compete. |
| `Settings`, `Usage`, `Modules`, `Memory`, `Events`, `FileWatcher`, `Providers`, `Terminal`, `LogBuffer` | one service each (see the inventory), with a `Step` or `Next` and an `Init` of its own. `Settings` has what the others share: the clients, the lives of the process, the switches; its `promised` remembers in which scopes a save of the gate was reported. `FileWatcher` has the workspace's own directories and one level below; the system may refuse a watch, lose an event, and move a directory with what it has. |
| `LogLast` | the abstract log that `LogBuffer` implements. |
| `Services` | the composition of those nine over one `Settings`: a step is one service's, and a restart is seen by all that persist. `uses` names the services of a behaviour, which is what keeps TLC's instance small; the proofs hold for any `Uses`. |
| `MCChatSession`, `MCServerJS`, `MCStore` | instances: constants, symmetry, views. |
| `ChatSessionProofs`, `EngineProofs` (EngineRun, ConnManager and Git), `CronManagerProofs`, `AgentLoopProofs`, `EngineTasksProofs`, `ProcessProofs` (Browser and Executor), `PublicProofs` (ServerJS and Tunnel), `ServicesProofs` | inductive invariants and proofs, see "Proofs". |

`AgentTurn` is the joint between the two views of Send. `ChatSession` needs only
a turn's outline (it starts, goes round, may be cancelled, ends once, leaves at
most one answer), and `AgentLoop` has the whole of it but no sessions. Each is
shown to implement the same outline under its own mapping, so what
`ChatSession` assumes of Send is what `AgentLoop` says Send does. Both are
theorems (`TheLoopImplementsTurns`, `ChatRunsAreTurns`).

### Abstractions

* A message is known by kind, turn and iteration; a request, session, chat, job
  or handle is a model value; texts are left out. Retry attempts and error
  counters keep their values, since control depends on them.
* Each critical section is one action. Where the code reads a field outside its
  lock, the read is an action of its own (`StopCheck` then `Stop`).
* Time: `EngineRun`, `Usage`, `Memory` and `ServerJS` count ticks, because what is
  left of a deadline, a window or an expiry is arithmetic; elsewhere a timeout may
  come at any time. A recurring job may fire at any time. That its executions do
  not overlap is a bound of the model, not of the code.
* The store's calls are atomic. Where a write uses the turn's context, it may fail
  once that is cancelled; elsewhere `MaxFaults` writes or commands may fail.
* The code the provider writes is nondeterminism: any number of blocks, any
  result, any use of the modelled bridges.
* Docker, Chrome, go-git, fsnotify, the hub and the push service are external:
  modelled by what the code relies on. Of fsnotify that is: an event for each change
  in a watched directory, or none when its queue was full; a watch, or an error; and
  no watch of a directory that was moved. A rename within the workspace is a
  directory that leaves and one that comes, in that order.
* Go's runtime is assumed sound; a data race is modelled as the interleaving of
  its reads and writes. One whose outcome is the end of the process (a map
  written from two goroutines in `cron.New`, a closed channel closed again in
  `EngineTasks`) is a crash.
* A file is in the workspace or in one of its directories (`FileWatcher`); a
  directory is not named `"file"`, which stands for a file.


## Runs

All runs pass. Times are those of two workers.

| Run (module) | Properties | Bounds, and why they are enough | States |
|---|---|---|---|
| `ChatSession` (`MCChatSession`) | `RunningMeansOneRun` `QueuedOnce` `ReplayIsOfThisRun` `TurnsImplemented` | one tab at a time over two session objects and two executions, `rebuildAgent` at any point, one injected message: the orphan of a rebuild and its successor are the two that can harm each other. Executions ask, and leave sub-agents behind | 1.2M, 90 s |
| `AgentLoop` (`AgentLoopTurns`) | `NothingForgotten` `TurnsImplemented` `TurnEnds` | two turns (the second sees what the first left), four iterations (compaction sets in at the third), a window of two messages (less than a turn leaves), one injected message, large results | 279k, 48 s |
| `EngineRun` | `RunsAreSerial` `NotEarly` `RunEnds` | a chat's turn and a cron task, which contend for `e.mu`; a timeout of two ticks: pausing can happen before, at and after half of it. Native calls may take for ever | 790k, 79 s |
| `EngineTasks` | `QueueHolds` `ToldOnce` `CancelledEnds` | two tasks of one queue asked for with limits 1 and 2, one that opens a connection, join and all of up to two ids, the same twice among them, tasks that fail, and a cleanup of their owner at any time | 605k, 80 s |
| `CronManager` | `EntryHasRow` `OncePerLife` `KeptUntilRun` `DueIsRun` | a one-shot, a recurring job for the agent, one that does not parse; two lives of the process (one restart finds any row a crash can leave) | 1.0M, 20 s |
| `ConnManager` | `ListedIsServed` `CancelledEnds` | a lasting websocket and an SSE connection that is not, two scripts that open and close them, two lives; a handler's VM may not come back | 169k, 30 s |
| `Tunnel` | `OneTunnel` `KeepsTrying` | two clients of the tunnel, two callers, one failure of the hub, two lives; the hub may accept and stay silent | 64k, 12 s |
| `Executor` | `ExitedMeansAllRead` `NoneOutlives` | a turn, a sub-agent with an image of its own, the server's port, one interactive process of three lines through a channel of two; crash and restart | 796k, 125 s |
| `Git` | `TurnIsSnapshotted` `WorkIsKept` `HistoryGrows` | two files (so that a walk may be torn), two turns, four commands, a restore from the browser, a fault (of the four steps, of a file that pop writes or removes); `Keep` is 2 so that a compaction drops something (the code takes no less than 5) | 2.1M, 28 s |
| `Browser` | `NoneIsForgotten` `StoppedEnds` | two engines that may share a profile, two processes, two blocks, a fault, one event of a listener; an engine may be cleaned up while its block runs | 939k, 133 s |
| `ServerJS` (`MCServerJS`) | `RouteIsBest` `VmIsSerial` | scripts that compete for two paths, two clients, a script that is edited, a cache of one place, whose entries expire after one of two ticks | 1.5M, 28 s |
| `Store` (`MCStore`) | `WorkspaceIsSaved` `UsageIsExact` `SaidIsSo` `NothingUnapproved` `Fed` `TreeIsFollowed` `SlotsHold` `SavedInItsChat` `RecentIsLast` `DueIsForgotten` | two clients; two calls, of a behaviour with scripts three (save the gate, lose it, install: `MCMaxCalls`); a fault, a restart; three changes of the watched tree (a directory comes, its child, it leaves); each behaviour uses one group of services (`MCUses`), so the states of the groups add up instead of multiplying. What only lives in memory is followed until the process stops | 805k, 108 s |

What keeps the instances small is in the MC modules and configurations:
`ChatSession` is reduced by `Symmetry` (sessions and requests are only compared),
by `View` (no action reads the chat's rows; of them the properties see how often an
execution was answered), and by the constraint `FewWithSubAgents`: once the first
execution has a sub-agent, the chat is only sent to, stopped and answered, and only
sub-agents ask. Without sub-agents there is no such limit. Liveness is checked in
no run with symmetry, view or constraint.

What the properties say, briefly:

* `RunningMeansOneRun`: a session is marked running exactly while one live
  execution has it, and its `cancel` and `ctx` are that execution's.
  `QueuedOnce`: an injected message is in exactly the queue of the
  execution it was accepted for. `ReplayIsOfThisRun`: what a reconnecting tab
  is sent belongs to the execution that runs.
* `NothingForgotten`: whatever compaction removes from view is in the log that
  the view carries. `TurnsImplemented`: the refinement of `AgentTurn`.
* `RunsAreSerial`: VM code runs only for the holder of `e.mu`, also when that
  holder has given up waiting. `NotEarly`: the timer fires only when the block has
  used, outside `agent.result`, the time it was given.
  `RunEnds` and `TurnEnds`: a Run and a turn come to an end, on their own, stopped or
  timed out, or from some point on sit in one native call for ever: an interrupt is
  a flag that a native call does not look at, and `runInVM` waits for it
  (`engine.go:650`).
* `QueueHolds`: a queue runs no more tasks than its limit, when every script that
  names it asks for the same. `ToldOnce`: no two calls of join, all and done tell the
  same outcome, and an outcome nobody was told is either still to be had, or was
  passed by an all that threw another's error. `CancelledEnds`: who waits for a task
  that was cancelled goes on, if the task's script ever comes back.
* `EntryHasRow`: what is listed would survive a crash. `OncePerLife`,
  `KeptUntilRun`: a one-shot runs at most once between restarts, and is never
  lost before it ran. `DueIsRun`: nor left waiting.
* `ListedIsServed`: a listed connection has its row and a goroutine that has not
  ended; `CancelledEnds`: one that was told to end does, unless its VM never comes
  back. `OneTunnel`: unless two starts overlapped, the tunnel that runs is the one
  that can be disconnected. `KeepsTrying`: it comes to serve again after each
  failure, unless a hub that has accepted it leaves its registration unanswered.
* `ExitedMeansAllRead`: a script is told that a process exited only when it was
  given every line. `NoneOutlives`: a container with a heartbeat ends after a crash.
* `TurnIsSnapshotted`: what an undisturbed turn left is the newest of the history;
  `HistoryGrows`: which only grows at its end, but for a compaction. `WorkIsKept`:
  what stash took is on a branch, in the index or under refs/stash until a pop
  gave it back, whichever command fails; but for a pop that could not write a file,
  which drops the reference like any other (`PopsGiveBack`).
* `NoneIsForgotten`: a Chrome that runs for a living engine is on its list or in the
  hands of its open. `NothingLeft` (proved): a cleanup of an engine that comes between its
  blocks leaves no process and no profile; one in a block may (`CleanupReleases`).
  `StoppedEnds`: a block stopped while it waits for a page ends.
* `RouteIsBest`: whichever way a request comes by its script, by a walk or by the
  cache, no script of the site fitted the path better at some time since the walk
  that found it began, which put it into the cache no longer ago than the cache
  keeps it; and the parameters are that script's, none of a branch that was given up. `VmIsSerial`: an engine is used by one goroutine at a time.
* `WorkspaceIsSaved`: while no save is under way and none failed, the workspace's row is
  what memory says. `UsageIsExact`: a row has the calls that reached the provider.
  `SaidIsSo`: what a call alone in a module's folder reported is so.
  `NothingUnapproved`: once a save of the gate was reported, the workspace's or the
  user's, no script changes modules unasked until one turns it off, whatever is saved
  or restarted in between; but for what `AlwaysApproved` and `ConfigIsSaved`, below, admit.
  `Fed`: a page is sent each sender's events in order and once, without those its
  full queue did not take. `TreeIsFollowed`: once all events are handled, each of the
  workspace's own directories has its watch, unless the system refused it or lost the
  event of its coming, and the pages know of each path whether it exists whose last
  change was an event that came. `SlotsHold`: requests in flight
  are within their semaphore's size. `SavedInItsChat`: of the terminal's texts.
  `RecentIsLast`: the ring implements the log. `DueIsForgotten`: of memories.

Deadlock is checked in `ChatSession`, `AgentLoop`, `EngineRun` and `CronManager`,
whose specifications have an explicit action for the states in which the system
may rest. In the others the bounds are what stops the system: once all calls,
faults and lives are used up it may rest anywhere a caller would have come, and the
liveness properties say what must have ended by then.

### Fairness

* `AgentLoop`: `WF(~InBlock /\ SendStep)`: Send is one goroutine; a provider call ends
  by a result or by the timeout of its context, and a backoff by its timer. A code block
  is not forced to end: its timeout does not end a native call. No stop, injection or
  restart is forced.
* `EngineRun`: the clock ticks, a VM that runs JavaScript sees its flag and obeys it,
  selects and locks are served (with two turns the lock has a queue; Go's mutexes starve
  nobody). That code ends by itself, that a native call returns (`ui.ask`, `sys.*` under
  `context.Background()`, `task.join`), that a sub-agent ends or that the user presses
  Stop is not assumed.
* `EngineTasks`: a task that can take a slot, give up, make or clean its child, does;
  who waits goes on to the next when the one awaited has ended; cleanup goes on. No
  task's script is assumed to come back, told to end or not.
* `CronManager`: timers and the goroutines they start go on while the process
  is up. Clients do not call, and the process neither starts nor stops, by force.
* `ConnManager`: goroutines go on; a dial has a timeout. Nobody is forced to open,
  close or fail, and no VM to come back from a handler or from loading its module.
* `Tunnel`: goroutines go on; a dial and a request to the hub have timeouts. The
  registration has none (`client.go:91-98`), and is not assumed to be answered.
* `Executor`: docker carries out what it was asked, and a container's own watchdog
  (a shell loop in it) runs.
* `Browser`: Chrome answers or is gone (its calls have no other end), cleanups
  that were started go on.
* `ServerJS`: timers fire and the goroutine of a request goes on. That a handler or the
  loading of a module ends is not assumed.
* `Store`: the expiry of memories goes on and comes again with the day or a start.

### Where the code does not do what it says

While modelling, the following promises of docs, comments and tests turned out not
to hold always. Each is stated as a property at the end of its module, with the
text it restates; TLC breaks every one of them when it takes the place of the
properties of the run named here (with `Spec` where it is a safety property, and
without symmetry, view and constraint).

| Run | Property | In short |
|---|---|---|
| `ChatSession` | `OneRunPerChat` | two first requests of a chat each build a session and both run (`api_chat.go:41`, against "Check if already running", `:86`); needs two requests |
| `ChatSession` | `StopFindsCancel` | Stop tests `sess.cancel` without the lock (`api_chat.go:173`) and may call it when it has just become nil |
| `ChatSession` | `StopCancels` | after a rebuild, Stop says "stopped" and stops nothing |
| `ChatSession` | `AskBlocks` | after a rebuild `ui.ask` returns at once, unanswered; it holds when no setting changes |
| `ChatSession` | `InjectPickedUp` | a message injected during the last iteration is accepted, then dropped (`api_chat.go:157`) |
| `ChatSession` | `InjectedBeforeAnswer` | an injected message may be stored after its answer (`api_chat.go:375`) |
| `ChatSession` | `NoStrayLogs` | an old sub-agent's log appears in a new execution |
| `ChatSession` | `WaiterWasShown` | a sub-agent that outlived its execution waits for the answer to a question nobody saw (`server.go:66-69`) |
| `AgentLoop` | `RetryIsAlive` | `apiCtx` is made once per iteration (`agent.go:563`): a retry after its timeout has no time left |
| `AgentLoop` | `FinalHintSeen` | the hint for the last iteration goes into a feedback no call sends (`agent.go:878`) |
| `AgentLoop` | `OnlyLastInFull` | two results are in full view, not only the last (`agent.go:935`) |
| `AgentLoop` | `TokensShownOnce` | tokens of a stopped turn are shown on its history and again on its message (`agent.go:978`) |
| `AgentLoop` | `StoppedTurnKept` | a Stop between the answer and its write loses the answer (`agent.go:739`) |
| `AgentLoop` | `ShownCodeRan` | code that was cut short is shown to later turns as code that worked (`agent.go:757`, `:483`) |
| `EngineRun` | `OwnInterrupt` | a block may be stopped by the interrupt of the one before (`engine.go:645`, `agent.go:773`) |
| `EngineRun` | `PauseIsFree` | waiting for a sub-agent does count: only the timer is paused, the context keeps its deadline (`engine.go:644`) |
| `EngineRun` | `SubAgentsFollowTurn` | a cron task's context is Background, which the engine takes for none (`engine.go:163-169`): sub-agents die with the block |
| `EngineRun` | `StopReachesSubs` | Stop does not reach sub-agents of an earlier turn (`bridge/agent.go:66`) |
| `EngineRun` | `WaitEndsWithBlock` | with `Scripts`: RunModule sets no `execCtx` (`engine.go:657-661`), so a script's `agent.result` does not see the script's timeout |
| `EngineRun` | `CancelEndsRun` | "blocks until either the goroutine completes or ctx is cancelled" (`engine.go:621`): a native call keeps runInVM, and whoever waits for `e.mu`, beyond its context (`FairSpec`) |
| `CronManager` | `ActiveIsListed` | a job removed while being added keeps running, unlisted (`cron.go:142`, `:174`) |
| `CronManager` | `RemovedIsQuiet` | a one-shot removed at the last moment runs (`cron.go:271`) |
| `CronManager` | `RemovedIsGone` | a removed job is saved again (`store.go:427`, `cron.go:312`) |
| `CronManager` | `RunsOnce` | a one-shot may run again after a crash (`cron.go:271-283`) |
| `CronManager` | `NoDeadChat` | a job may refer to a deleted chat (`cron.go:292`) |
| `CronManager` | `MissedIsServed` | a missed task for the agent is dropped at startup (`main.go:537`) |
| `ConnManager` | `RemovedEnds` | before its goroutine has begun there is nothing to cancel: a removed connection runs on, in no table (`connmgr.go:204`, `:759`) |
| `ConnManager` | `OnePerUrl` | two callers that add the same connection open two (`connmgr.go:143`) |
| `ConnManager` | `ClosedStaysClosed` | a connection its script closed is dialled again (`connmgr.go:404`, `:478`) |
| `ConnManager` | `ReapsIdleOnes` | the reaper tears down a VM that was used since it looked (`connmgr.go:602`) |
| `ConnManager` | `NoVMLeft` | a connection that is gone leaves a VM behind |
| `ConnManager` | `HandlersEnd` | the timeout of a message's handler does not end a native call of it (`engine.go:650`; `ConnFairSpec`) |
| `EngineTasks` | `CleanedOnce` | a child engine is cleaned up by its task and by its parent, and the second close of a channel panics (`bridge/pool.go:142`, `engine/task.go:25,32`) |
| `EngineTasks` | `QueueHoldsAlways` | naming another limit replaces a queue's semaphore while tasks hold the old one (`bridge/task.go:54`; three tasks) |
| `EngineTasks` | `CancelInterrupts` | a cancelled task in a native call is not interrupted (`bridge/task.go:286`; `FairSpec`) |
| `EngineTasks` | `OutcomesAreKept` | an all that throws the first error, or is cancelled, has dropped the handles it passed, and what those tasks did nobody can learn (`bridge/task.go:262-277`) |
| `EngineTasks` | `ReapsIdleOnes` | the reaper closes a connection that was used since it looked (`pool.go:43`) |
| `EngineTasks` | `NothingLeft` | a script that still runs opens others while Cleanup closes all |
| `Tunnel` | `ProfileWhileTunneled` | onConnect may apply the profile after Disconnect, and the confirmed disconnect does not clear it (`api_tunnel.go:296`) |
| `Tunnel` | `NothingWritten` | the profile's values are in the workspace that every later save writes (`profile.go:97`) |
| `Tunnel` | `EveryTunnelIsHeld` | two starts that overlap leave a tunnel no request can end |
| `Tunnel` | `ModeIsTrue` | a disconnect between the start and the saving of the mode is forgotten, and a restart brings the tunnel back |
| `Tunnel` | `ConnectedHasTunnel` | onConnect of a cancelled tunnel leaves "connected" for ever, and TunnelConnect refuses while it shows |
| `Tunnel` | `RetriesAlways` | a hub that accepts and stays silent holds the client for ever, and no Disconnect ends it (`client.go:91-98`, `:200`; `TunnelFairSpec`) |
| `Executor` | `SessionsAreFreed` | a session's container may run when the sub-agent is over (`executor.go:76`) |
| `Executor` | `OneDefault` | there may be two default containers (`docker.go:50`) |
| `Executor` | `PortIsAllowed` | AllowPort beside a set-up of the relay may leave the port closed (`docker.go:250`) |
| `Executor` | `AllProxied` | a container may be started before the relay's address is known (`docker.go:207`) |
| `Executor` | `NothingOutlives` | without a heartbeat directory a container outlives its process (`docker.go:131`) |
| `Git` | `EveryTurnIsSnapshotted` | a turn is lost when the next turn's snapshot overtakes it or a script compacts meanwhile (`stdlib/docs/git.md:3`) |
| `Git` | `CrashKeepsHistory` | the first snapshot is lost if a crash comes between the two references (`git.go:186`, `:192`) |
| `Git` | `RestoreRestores` | files the snapshot does not have stay (`api_git.go:206`) |
| `Git` | `ResetUnstages` | `repo.reset` does not unstage (`stdlib/docs/git.md:34`) |
| `Git` | `StatusTellsChanges` | a binary file is reported as added for ever (`git.go:320`) |
| `Git` | `StagedIsShown` | `repo.diffStaged` reads the file as it is now (`stdlib/docs/git.md:42`) |
| `Git` | `PopsGiveBack` | a pop that could not write a file drops refs/stash all the same, and says "popped" (`stdlib/docs/git.md:67`, `git_repo.go:928-938`, `:959`) |
| `Browser` | `OpensAfterStop` | the cleanup of a stop closes the proxy for good: a later block of the engine opens no page (`browser.go:190`) |
| `Browser` | `ClosingFreesPlaces` | closing pages frees no place (`browser.go:242`) |
| `Browser` | `ListedHavePages` | a browser that open failed to show is open, and nobody can close it (`browser.go:242`) |
| `Browser` | `OneChromePerProfile` | with a dataPath, agents do collide on a profile (`browser.go:187`) |
| `Browser` | `NoOrphans` | a process that dies cleans nothing up (`browser.go:327`) |
| `Browser` | `CleansOwnBlock` | a late timer closes the browsers of the next block (`engine.go:774`) |
| `Browser` | `ListedOnce` | a request that was redirected is listed as often as it was (`browser.go:1138`) |
| `Browser` | `DirsFollow` | the temporary profile of a Chrome that crashed stays until a cleanup (`browser.go:896`) |
| `Browser` | `CleanupReleases` | a cleanup while the engine's block is in open leaves the Chrome that open registers afterwards (`engine.go:817`, `:825`, `main.go:946`) |
| `ServerJS` | `IndexIsServed` | where the directory exists, its path is served as a file, not by its index script (`stdlib/docs/server.md:11`, `web/server.go:321`) |
| `ServerJS` | `OrderIsBounded` | keys of expired entries stay in the order, and later evict entries used after others (`serverjs.go:67`, `:82`) |
| `ServerJS` | `RequestsEnd` | loading a script has no time-out, only its handler has (`serverjs.go:603`, `:622`) |
| `ServerJS` | `HandlersEnd` | nor does the time-out of the handler end a call into Go (`serverjs.go:622`, `:655`) |
| `ServerJS` | `EditsAreSeen` | an edit may stay unseen for longer than the minute, which begins when the route is put, not when it is walked for (`serverjs.go:140`) |
| `ServerJS` | `BodyIsKept` | the body of a multipart form is not kept for a second reading (`serverjs.go:736`) |
| `ServerJS` | `FinishedIsAnswered` | the time-out may hit the reading of a finished answer (`serverjs.go:629`) |
| `Store` | `GateIsUp` | while SetProfile(nil) has no settings, the switch that asks before installs is off (`store.go:196`) |
| `Store` | `ConfigIsSaved` | an approved change mutates and encodes the user's settings without their lock, and its write may undo a save that was reported, the gate's too (`confirm.go:345`, `store.go:167`) |
| `Store` | `HostsInForce` | not applied when the user's settings are saved (`api_config.go:32`, `confirm.go:343`), and two saves may cross (`store_settings.go:26`) |
| `Store` | `LocalWins` | an unlocked profile overrides what is set locally (`profile.go:115`) |
| `Store` | `ProfileIsTheHubs` | a profile's provider, "never persisted", can be changed by an update (`models.go:148`, `confirm.go:224`) |
| `Store` | `DeletedStaysDeleted` | a deleted provider comes back with an update that had read it (`confirm.go:262`) |
| `Store` | `CapHolds` | the daily cap is checked when a turn begins, not before its calls (`models.go:83`) |
| `Store` | `CapStopsTurns` | a turn begins with its caps used up: the cache lags behind the row (`store.go:742`) |
| `Store` | `CountsAgree` | the workspace's row is counted, the provider's is not, when that fails (`store.go:698`) |
| `Store` | `UsageNeverFalls` | a row that cannot be read is counted from zero (`store.go:721`; three calls) |
| `Store` | `CacheFollows` | the cache does not end at the row's latest (`store.go:722`) |
| `Store` | `AlwaysApproved` | while SetProfile(nil) has no settings nobody is asked (`stdlib/docs/mod.md:86`, `store.go:196`; settings, scripts and profile in one behaviour) |
| `Store` | `LayoutIsKept` | of a zip without a top-level directory, as PublishModule makes them, the module's own folder is stripped, and two files become one (`api_modules.go:549`) |
| `Store` | `NoLeftovers` | an upgrade leaves the files the new version no longer has (`api_modules.go:151`) |
| `Store` | `OneVersion` | two installs mix their versions |
| `Store` | `DeletedIsGone` | a deletion by the id the docs show reports "deleted", and the folder stays (`api_modules.go:246`) |
| `Store` | `ListedIsWhole` | a listed module may be any part of one |
| `Store` | `PublishedIsOneVersion` | what is published as a version has files of another, installed meanwhile (three calls) |
| `Store` | `RequiresOneFolder` | a file that is not there is taken from the other scope's folder (`stdlib/docs/modules.md:52`, `engine.go:266`; four calls) |
| `Store` | `CoreIsKept` | an entry promoted after the expiry listed it is deleted by it (`models.go:325`, `store.go:590`) |
| `Store` | `UserScopeExpires` | only the workspace's memories expire (`main.go:207`) |
| `Store` | `RemovedStaysRemoved` | a removed entry comes back with a promotion or an edit that had read it (`mem.go:99`) |
| `Store` | `PromptFits` | core entries come into the prompt without regard to its room (`store.go:627`; `Ids = {1, 2}`, three calls) |
| `Store` | `OlderAreOlder` | recent entries that had no room are counted as older (`store.go:684`; `Ids = {1, 2}`) |
| `Store` | `UserIsTold` | not when the page that was connected had a full queue, or went before it got the event (`server.go:77`) |
| `Store` | `OnePerEndpoint` | two tabs that subscribe at once leave two subscriptions (`api_config.go:219`) |
| `Store` | `GoneIsRemoved` | a subscription saved after the browser gave it up stays until something is pushed (`push.go:22`) |
| `Store` | `AllAreWatched` | a directory made in a new one before that got its watch, or that was moved here with its parent, never gets one (`server.go:456`, `:491`) |
| `Store` | `AllIsAnnounced` | nor is what was made in it announced, nor that what a renamed directory has came or went (`server.go:430`, `:491`), nor any event that was lost (`:498`) |
| `Store` | `InFlightIsBounded` | requests that got in before a rebuild are not counted (`provider.go:22`, `main.go:237`) |
| `Store` | `RateIsSet` | a provider without a URL of its own has no rate (`main.go:256`) |
| `Store` | `QuestionsAreShown` | a second question takes the place of the first (`app.go:187`) |
| `Store` | `DrainedInItsChat` | what is queued after the last iteration began waits for a later turn, be it of another chat (`app.go:170`; three texts) |
| `Store` | `QueueIsDrained` | no agent but the first drains the queue (`main.go:964`) |
| `Store` | `CommandsAreDone` | a command entered in a turn is queued for the provider (`app.go:508`) |
| `Store` | `AgentHasChat` | the agent that an approved change builds has no chat, though the screen does, and what is said to it is not saved (`app.go:460`) |

Seen while reading, outside what the properties say:

* `EngineTasks`: `close` of a pool key that names a secret is a no-op (`db.go:29-34`);
  a task that joins itself through its parent waits for ever (`task.go:180`).
* `Executor`: the default image may be stale (`docker.go:742`), a dead default
  container is never replaced (`docker.go:181`), `sys.*` runs under
  `context.Background()` (`engine.go:443`), the reader of a popen stays blocked after
  Terminate, and `GetOutput` races with it.
* `Git`: a snapshot may be torn by a block that writes while it walks; the goroutine
  of AutoCommit is lost at exit; pop writes its whole tree over newer commits.
* `ConnManager`: close codes of 4000 and up never match `isRetryableError`.
* `Settings`: an approved `settings.update` ignores the profile's lock. `Modules`: a
  failed download dereferences a nil response (`confirm_ctx.go:219-223`).
* `Terminal`: `/clear` says it clears the display, and makes the agent forget the
  chat; an Enter meant for a message is the answer when a prompt came first; queued
  texts are not persisted; an approved change cleans up the engine of the block that
  asked for it.


## Proofs

TLC checks the instances above; TLAPS proves the following for all values of the
constants: any number of chats, sessions, requests, executions, turns, blocks,
tasks, queues, browsers, jobs, clients, records, lives, and any timeout. The
assumptions are the `ASSUME`s of the modules, which TLC evaluates in the runs. They
say that null values are not members of the sets they stand beside, that bounds are
natural numbers, that subsets are subsets, that paths and scripts are sequences of
segments and that files have contents. Three say a little more: the callers
of providers are finitely many (`IsFiniteSet(Requests)`: a semaphore's length is
the number of its holders), directories are not named `"file"` (the encoding of
paths), and `1 \in Versions`. Of tasks no such assumption is needed: that those
holding a slot are finitely many is part of the invariant.

| Module | Theorems, with the property of the runs they state |
|---|---|
| `ChatSessionProofs` | `TypeCorrect`, `GoroutinesBound` (`Bindings`), `OneRunPerSession` (`RunningMeansOneRun`), `ReplayIsCurrent` (`ReplayIsOfThisRun`), `MessageQueuedOnce` (`QueuedOnce`), `ChatRunsAreTurns` (`TurnsImplemented`), all from `SpecIInv` |
| `AgentLoopProofs` | `LoopTypeCorrect` (`TypeOK`), `NothingIsForgotten` (`NothingForgotten`), `TheLoopImplementsTurns` (`TurnsImplemented`), `TurnsAnswerOnce` (`OneAnswerPerTurn`), `ViewIsCompacted` (`AtMostTwoInFull`), `EarlierTurnsAreClean` (`PriorIsClean`), `QuestionIsInView` (`QuestionInView`) |
| `EngineProofs` | of EngineRun `SpecIInv`, `TypeCorrect`, `VmIsSerial` (`RunsAreSerial`), `DeadlinesAreCleared`, `DeadlineIsNotEarly` (`NotEarly`), `WaitsAreWoken`, `SubAgentsBelong`; of ConnManager `EveryListedIsServed` (`ListedIsServed`), `NoRowIsLost` (`RowsAreKept`), `HandlersKeepTheirVM` (`HandlerKeepsVM`); of Git `EveryQuietTurnIsSnapshotted` (`TurnIsSnapshotted`), `StashedWorkIsKept` (`WorkIsKept`), `HistoryOnlyGrows` (`HistoryGrows`, an action property), `SnapshotsChangeSomething` (`NoEmptySnapshots`), `PopsRestore` (`PopRestores`) |
| `EngineTasksProofs` | `QueuesHold` (`QueueHolds`), `OutcomesAreToldOnce` (`ToldOnce`), `PoolsStayTidy` (`PoolsAreTidy`) |
| `CronManagerProofs` | `SpecIInv`, `TypeCorrect`, `EntriesAreStored` (`EntryHasRow`), `OneShotsRunOnce` (`OncePerLife`), `OneShotsAreKept` (`KeptUntilRun`, an action property), `NoneIsLeftBehind` (`ListedIsLive`) |
| `ProcessProofs` | of Browser `NoChromeIsForgotten` (`NoneIsForgotten`), `IdleEnginesLeaveNothing` (`NothingLeft`, an action property), `ListenersStop` (`StopsWithinOneEvent`); of Executor `ExitIsSaidLast` (`ExitedMeansAllRead`), `CommandsStayAtHome` (`InOwnContainer`), `SweptContainersAreGone` (`SweepsTakeAll`), `SetupsEnd` (`SetupsAreBounded`) |
| `PublicProofs` | of ServerJS `RoutesAreBest` (`RouteIsBest`, an action property), `CacheKeepsItsBound` (`CacheIsBounded`), `EngineIsSerial` (`VmIsSerial`); of Tunnel `TheTunnelIsHeld` (`OneTunnel`), `TheReporterIsHeld` (`OneReporter`) |
| `ServicesProofs` | `TheWorkspaceIsSaved` (`WorkspaceIsSaved`), `TheUsageIsExact` (`UsageIsExact`), `WhatIsReportedIsSo` (`SaidIsSo`), `NothingIsUnapproved` (`NothingUnapproved`), `SlotsAreHeld` (`SlotsHold`), `RingKeepsTheLast` (`RecentIsLast`, a refinement), `TextsAreSavedInTheirChat` (`SavedInItsChat`), `TheTreeIsFollowed` (`TreeIsFollowed`), `PagesAreFed` (`Fed`) |

**`ChatSessionProofs`.** `IInv == TypeOK /\ Bindings /\ RunningMeansOneRun`.
`RunningMeansOneRun` alone is not inductive. When `EndRun` clears a session, the
proof must know that no other execution is live on it, which is the property
itself; but when `ClaimSession` sets the flag, it must know that the request which
will start the execution is the only one that carries it (`SpawnsApart`); when
`AskUser` returns, that the execution it resumes is the one that was suspended
(`AskersBound`); and every handler, that the session it looked up before its
last unlock has been allocated (`RequestsBound`). Those are the parts of
`Bindings`. Note what is not proved because it is not so: that a *chat* has one
execution (`OneRunPerChat`).
`ReplayIsOfThisRun` is inductive beside it: whoever broadcasts a beginning or an end
is a live execution of the session (`LiveRunOwnsSession`). `QueuedOnce` needs
`MessagesInv`: a handler between its lookup and its critical section carries a
message that waits nowhere and that no other handler carries (`CarriersSound`), which
is why the message is in one queue when it is in one. For the refinement the only
other thing to know is that an execution's answers are finitely many
(`AnswersFinite`), so that one more row is one more answer (`AnswersOfRow`).

**`AgentLoopProofs`.** Types first: `Positions` says at which points of Send the
round, the attempt and the blocks left are below their bounds. The only hard type is
that of `Compact`: a sequence made of the messages at a set of positions, of which
the n-th is the n-th smallest. That there is one for every n up to their number is
induction over data, which the library's theorems do not give (they take an operator
as a parameter). `NthIsThere` does it by the least counterexample instead:
`LeastNumber`, from the well-foundedness of `<`, is the only use of that library.
For `NothingIsForgotten`, `ShownInv` says that from the first block on the
latest results in view are of this turn and either carry the log of all its
blocks or are the only ones and in full: the first feedback has no log, every
later one does. It needs that injected messages come after the results and leave them
the last (`InjectedStep`), and that `CompactOlder` leaves the last one alone
(`FeedbackStep`). The refinement maps a turn's state to a phase; `TurnInv` (earlier
turns are over, later ones have not begun) makes every step that is not the current
turn's a stutter (`OtherTurns`), and of the current turn's the proof is by what
the step does to the phase and the number of answers (`PhaseNow`, `AnswersOfRow`).
From the same facts follows `TurnsAnswerOnce`: the answer is left in the step that
ends the turn (`AnswersFit`). What the provider sees is `ViewInv`: from
the point where the prompt is built the question is in view once, with all that
was injected; the first compaction of a turn takes all older results, so that with
the new one at most two are in full; and of earlier turns at most `Window` messages
are taken, none of them noise (`PriorIsShort`, `CompactIsClean`). It needs that a turn
which begins has no message yet (`ChatInv`).

**`EngineProofs`.** EngineRun: `WaitsAreWoken` holds when there are no scripts, and
`SubAgentsBelong` when there are no scripts and no cron tasks (with them both
are false, see the table above). The inductive invariant adds to the
properties that the execution context is that of the holder of `e.mu`
(`CtxBound`), and to `NotEarly` its arithmetic (`Timing`): a live timer fires at
`dlStarted + dlBudget`; whenever something is left, it is at least what the
block has not used; and while the VM waits for a sub-agent or in `page.pause` the timer is not
live, so that the time spent there is charged to nobody. `SubAgentsBelong` has an
invariant of its own, `Alone`: a chat's turns do not overlap, so the engine's one
stop context is that of the turn that runs.

ConnManager: the invariant is one of each connection (`Sound`) and one of each client
(`Owns`). `ListedIsServed` rests on three things: a goroutine that has not begun
cannot have been cancelled (`NotBegun`); a client that has saved a row and not yet
inserted the entry is the connection's only owner, so that no other removes the
row (`Owns`); and a goroutine that cleans up takes the entry first (`Served`). That
a connection ends only for a reason is followed from the point where the
decision is first made, through the handlers that may overrule it, to the row
(`EndsForAReason`). Steps of a goroutine concern its own connection only, which
`ConnFrame` says once.

Git: `Writers` says which steps write which variables, so that each part of the
invariant looks only at those that touch what it is about. `CommandFlow`: between
the steps of a compaction, a stash or a pop nobody writes what it has read, as blocks
run one at a time and the browser's restore writes only files. `Quiet`: as long
as nothing raced there is one snapshot, its parent is what HEAD names and what it has
walked so far is what the turn left; from it follow `TurnIsSnapshotted` and
`HistoryGrows`. `NoneIsEmpty` needs no such condition: whatever overlaps, each writer
puts its commit in front of a chain whose head it compared with. A stash is followed
from the index to its reference to the pop (`WorkIsKept`); a pop that lost a write
remembers it (`failed`), which is what `PopRestores` and the exception of `WorkIsKept`
(`spoilt`) are about.

**`EngineTasksProofs`.** A queue's semaphore is replaced when a script names another
limit, and tasks go on holding the old one, so the number of running tasks is
not bounded by the current one in general. `OneSemaphore`: a queue that was asked
for one limit has had one semaphore, with that capacity, and every task of it
is queued for that one; one never asked for has no task. With
`SlotsAreCounted` (finitely many slots, so that taking one adds one) that is
inductive. `ToldInv` follows a call of join or all from id to id (`WaitInv`): each it
was given is among the handles or was passed by it; and of each task it says
(`OutcomeInv`) that its handle is known, or that it has ended and its outcome was told,
is about to be, or was lost, of which only one is so. That an id named twice is told
once is what `Passed` is for: the call tells a set. `PoolInv` says of the pools that two open connections of
one engine go to different ends, and that until the root's Cleanup only
engines are closed whose task has come to its own: such a task asks for no
connection any more.

**`CronManagerProofs`.** `NoneIsLeftBehind` is of the jobs whose expression parses
(one that does not may be left behind by a crash). `EntryHasRow` is not
inductive: Add inserts an entry some time after it saved the row, so nobody may
delete that row in between (`ClientsBound`: the job is not listed yet, nothing
fires it, no other client adds it), which in turn rests on ids being fresh
(`Fresh`). `FiresBound` says that a one-shot is armed, or being fired, or neither, and
what has been called by then: from it follow `OncePerLife` and `KeptUntilRun`.

**`ProcessProofs`.** A Chrome is up from `Launch` and listed at `Register`. In
between it is in the hands of its open: `UpIsListed` says that the open is then
at connecting or registering, so that a step that fails there kills what it
started, and one that fails later leaves it listed; `CallsAreOwn` that a call is
about a browser of its own engine, made while a block of it runs, so that no
end of a block comes between. Of an interactive process `Piping` says that what
is read was sent and what was sent was written, that the goroutine which copies the
lines ends without an error only after the last one, and that nobody is told of the
exit before the channel is empty.

The second half of a browser's life is `RemainsAreHeld`: a process or a temporary
profile of an engine that was not lost is listed or in the hands of its open. A
cleanup that comes between two blocks finds no open, and so finds all there is; one
that comes in a block finds what is listed, and what is in the hands of the open is
listed later (`CleanupReleases`, which is false). Each step only takes something
away, or leaves it in the hands of an open (`Follows`).

Of containers, `Owned` says for whom each was made that a field or a thread
names: the default for nobody, a session's for it or for nobody. The difficulty
is who holds a container that the fields no longer name: a thread that waits for
its `docker run` while Cleanup clears the default, or that has read the default
just before. The parts are therefore of the threads as well (`HeldAreOwned`,
`SessionsAreUsed`: who waits for the default has no container of its own), and steps
are sorted by whether they forget (`ContainersGo`), spawn (`ContainerSpawns`) or
use one (`CommandIsSent`). For the bound on set-ups, `FailuresCount` pays for each failure
with a retry that was counted before it, but for the last; that nobody else
fails in between needs `OneSetsUp`, that there is one thread under `infraMu` and no
error recorded while it is there, whatever AllowPort does without that lock.

**`PublicProofs`.** That the walk over a site's tree is best at all is a statement
about a recursive function over data. The library's induction theorems cannot be
used, so both inductions are done by the least counterexample (`LeastNumber`): that
there is such a function at all (`WalkToExists`: one for the directories with at most
*k* segments to go, for every *k*), and that what it finds below a directory is the
best of the scripts below it (`Leads`, `WalkLeads`). Between them stands the order:
a script that fits has a rank at each place (`Rank`), a directory's candidates come in
the order of their ranks (`Places`, `SubBelow`, `FileBelow`), and so the first that
leads somewhere leads to the best (`FirstLeads`), with its parameters only, as the
slot of a parameter is filled when what is below it led to a script (`TakingLeads`).
`RouteInv` carries that to the answer: of each entry of the cache, and of each request
that is about to make one, there is a tree the site had between the beginning of the
walk and the entry's making for which the route is the best (`WasBest`); the site's
later trees take none away (`StaysBest`).
`CacheInv`: each entry has its key in the order, which
`touch` moves and eviction takes from the front (`TouchedIs`, `EvictedIs`); with that
there is always a key to evict. Of a request only `Serial` is needed for
`EngineIsSerial`. Tunnel: `TunnelInv` says that `ts` shows "disconnected" only when it
holds no tunnel, so that a start which passed that test, and which nobody overlapped,
finds none alive when it comes to replace what `ts` holds; a client that goes on,
whatever it does to the status, never shows "disconnected" and never comes to
life again (`ClientStep`). `OneReporter` is inductive, since each change of
`stopCh` is made together with the reporter's start or end.

**`ServicesProofs`.** `StoreInv == SettingsInv /\ UsageInv /\ ModulesInv` over the
composition of all nine services. Settings: who is between the change in memory
and the row holds the lock, and carries what memory says (`SaversHoldTheLock`);
`SwitchIsKept` is what the approval of modules needs of the settings, that a
switch saved as on is on in memory and row and nobody is about to write
otherwise. Those are the parts of `WorkspaceInv`; with `UserSwitchIsKept`, which says
the same of the user's row, they are `SettingsInv`. There not every writer holds the
lock, and so an approved change that has read the object before (`Overtakes`) is
what a promise has to look for. Usage: who writes a count holds the row's mutex and writes one more than
the row (`PutsHoldTheRow`). Modules: of two calls on a folder neither was alone
(`AloneIsAlone`); what a call that was alone has put so far is there
(`InstalledSoFar`), which with an empty rest is what it reports.

Providers: a semaphore's length is the number of requests in
flight on it, of those that were replaced too. Log: the refinement of `LogLast`, by
the arithmetic of the ring. Terminal: while a turn runs nothing can be entered
that changes the chat, so that the turn's agent, though it may have been
replaced, is of the text's chat or of none (`TurnInItsChat`). Watcher: for each path
the last event in the queue tells what is so, or there is none and the pages know
(`WillBeAnnounced`); each of the workspace's directories has its watch, or the walk, a
listing or an event that will give it one, or was missed (`WillBeWatched`). Events: `FedInv` says
of each page and sender which numbers are in the page's line, those of the loop that
is under way included, which takes pages in no order (`Reached`).

Only model-checked: liveness (`TurnEnds`, `RunEnds`, `DueIsRun`, `CancelledEnds`,
`KeepsTrying`, `NoneOutlives`, `StoppedEnds`, `DueIsForgotten`), which needs fairness
and `ENABLED`. Every other property of the runs is stated by a theorem.

Properties that hold, and that no run has a place for, are stated in their modules
all the same. Proved are `NoDeadlineLeft`, `RowsAreKept`, `HandlerKeepsVM`,
`NoEmptySnapshots`, `PopRestores`, `QuestionInView`, `PriorIsClean`,
`OneAnswerPerTurn`, `AtMostTwoInFull`, `PoolsAreTidy`, `OneReporter`, `SweepsTakeAll`,
`SetupsAreBounded`, `InOwnContainer`, `NothingLeft` of `Browser`, `StopsWithinOneEvent`,
`CacheIsBounded` and `ListedIsLive`. Not proved are `AskBlocks` of
`ChatSession` (it holds only without rebuilds), `AnswersShowTheirTokens`, `RateHolds`
(whose action filters with `SelectSeq`, a recursive definition that the provers do not
open), and, being
liveness, `CancelledEnds` of `ChatSession` and `Tunnel`.


## Not modelled, and why

* *Bridges without state of their own* (files, HTTP, mail, crypto, zip,
  documents, images, DNS, SSH): one call to a library or the system each. What
  would go wrong there is in the data.
* *Path checks, network guard, patching, search*: pure functions of strings,
  without control that a state machine could tell apart.
* *MCP server*: one engine per call, an adapter without state of its own. *Login
  sessions and passkeys, file handlers*: pass a call on.
* *Vendors' wire formats, screens, flags, the browser's code*: formats and I/O. The
  server side of each call the browser makes is modelled.
* Of the agent loop the prompts of sub-agents; of git remotes, tags and detached
  heads; of executors the building of images; of the store secrets and passkeys.
* `agent.status` and the read-only endpoints change nothing.


## Plan

Everything the inventory lists as stateful is modelled, and every safety property a
run checks is proved. What would come next:

1. `AskBlocks` of `ChatSession`, for the executions that no rebuild replaces.
2. `RateHolds` of `Usage`: the timestamps of the limiter are the last ones of `begun`,
   in order, once filtering them is written without `SelectSeq`.
3. The hazards without a property (see `PROJECT.json`), each with a model of the
   memory or the timer it is about.
