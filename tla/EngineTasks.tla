---------------------------- MODULE EngineTasks ----------------------------
(***************************************************************************)
(* What an engine owns besides its VM: the tasks its script spawns, each   *)
(* in a child engine of its own (internal/bridge/task.go, internal/engine/ *)
(* task.go), the pools of database and bucket connections of every engine  *)
(* (bridge/pool.go, blob_pool.go, db.go, blob.go) with their reapers, and  *)
(* Engine.Cleanup, which the owner of the engine calls when it is done     *)
(* with it or, in the connection manager, at any time.                     *)
(*                                                                         *)
(* The script is one goroutine, every task another; the handles, the       *)
(* queues, the list of children and each pool have a mutex, and a step is  *)
(* what happens under one of them or between two waits.                    *)
(***************************************************************************)
EXTENDS Naturals, FiniteSets

CONSTANTS
    Root,       \* the engine of the script that spawns
    Tasks,      \* tasks that may be spawned, each once; also their child engines
    NoTask,
    Queues,     \* names of queues
    NoQueue,    \* a task that is run at once
    Limits,     \* limits that scripts ask for
    Keys,       \* driver and connection string, as the script writes them
    Secretive,  \* those with a secret in them, which connect expands
    Buckets,    \* those of blob.open, which does not ping
    Conns,      \* bound: connections that are open at once
    Openers,    \* bound: the engines whose scripts open connections
    MaxIds,     \* bound: how many ids a call of all names
    NoKey

Engines == {Root} \cup Tasks
ASSUME EngineTasksAssumption ==
    /\ Root \notin Tasks /\ NoTask \notin Engines /\ NoQueue \notin Queues /\ MaxIds \in Nat
    /\ Openers \subseteq Engines /\ Limits \subseteq Nat \ {0}
    /\ Secretive \subseteq Keys \ Buckets /\ Buckets \subseteq Keys /\ NoKey \notin Keys

VARIABLES
    script,    \* the root script: what it is doing, the ids join or all was given, the
               \* one it waits for, and the first task that failed
    handles,   \* the keys of handles
    queues,    \* each queue's semaphore: how many were made for it, and its capacity
    task,      \* each task's goroutine
    children,  \* Engine.taskChildren
    closed,    \* engines whose pools are closed
    cleaner,   \* the root's Cleanup: what it does next, and its copy of the children
    conn,      \* each connection to a database or a bucket
    panicked,  \* a goroutine closed a closed channel: the process is gone
    limits,    \* history: the limits each queue was asked for
    told,      \* history: tasks whose outcome a call has told the script
    toldAgain, \* history: those whose outcome a later call told again
    lost       \* history: those an all that threw passed, and no call told

toldVars == <<told, toldAgain, lost>>
taskVars == <<handles, queues, task, children, limits, toldVars>>
poolVars == <<closed, conn>>
vars == <<script, taskVars, poolVars, cleaner, panicked>>

\* err: the task failed, or never ran.
NotSpawned == [pc |-> "none", queue |-> NoQueue, gen |-> 0, cap |-> 0, cancelled |-> FALSE,
               err |-> FALSE]
NoWait == [pc |-> "idle", ids |-> <<>>, at |-> 0, err |-> NoTask]
Lists == UNION {[1..n -> Tasks] : n \in 1..MaxIds}
NotOpened == [state |-> "none", eng |-> NoTask, key |-> NoKey, idle |-> FALSE, used |-> FALSE]
Shut == NotOpened

TypeOK ==
    /\ script \in [pc : {"idle", "wait", "ended"}, ids : Lists \cup {<<>>}, at : 0..MaxIds,
                   err : Tasks \cup {NoTask}]
    /\ handles \subseteq Tasks /\ children \subseteq Tasks
    /\ queues \in [Queues -> [gen : Nat, cap : Limits \cup {0}]]
    /\ task \in [Tasks -> [pc : {"none", "queue", "make", "run", "clean", "untrack", "end"},
                           queue : Queues \cup {NoQueue}, gen : Nat,
                           cap : Limits \cup {0}, cancelled : BOOLEAN, err : BOOLEAN]]
    /\ closed \subseteq Engines
    /\ cleaner \in [pc : {"idle", "children", "self", "done"}, left : SUBSET Tasks]
    /\ conn \in [Conns -> [state : {"none", "pooled"}, eng : Engines \cup {NoTask},
                           key : Keys \cup {NoKey}, idle : BOOLEAN, used : BOOLEAN]]
    /\ panicked \in BOOLEAN
    /\ limits \in [Queues -> SUBSET Limits]
    /\ told \subseteq Tasks /\ toldAgain \subseteq Tasks /\ lost \subseteq Tasks

Init ==
    /\ script = NoWait /\ handles = {} /\ children = {}
    /\ queues = [q \in Queues |-> [gen |-> 0, cap |-> 0]]
    /\ task = [t \in Tasks |-> NotSpawned]
    /\ closed = {} /\ cleaner = [pc |-> "idle", left |-> {}]
    /\ conn = [d \in Conns |-> NotOpened]
    /\ panicked = FALSE
    /\ limits = [q \in Queues |-> {}] /\ told = {} /\ toldAgain = {} /\ lost = {}

\* engineCancel of the root has been called.
RootCancelled == Root \in closed
TaskAt(t, pc) == ~panicked /\ task[t].pc = pc
Ended(t) == task[t].pc = "end"
\* The context a task runs under: task.cancel, or the root's Cleanup.
Told(t) == task[t].cancelled \/ RootCancelled
ScriptIdle == ~panicked /\ script.pc = "idle"
Running(t) == task[t].pc \in {"make", "run", "clean", "untrack"}

-----------------------------------------------------------------------------
(* The script: task.run, join, done, all and cancel.                       *)

\* getQueue: a queue whose limit changes gets a new semaphore.  The variant makes
\* one for every task.
QueueAlways(q, l) == [gen |-> queues[q].gen + 1, cap |-> l]
GetQueue(q, l) ==
    IF queues[q].cap = l THEN queues[q] ELSE [gen |-> queues[q].gen + 1, cap |-> l]

Spawn(t, new) ==
    /\ ScriptIdle /\ task[t].pc = "none"
    /\ task' = [task EXCEPT ![t] = new]
    /\ handles' = handles \cup {t}
    /\ UNCHANGED <<script, children, toldVars, poolVars, cleaner, panicked>>
Run(t) ==
    /\ Spawn(t, [NotSpawned EXCEPT !.pc = "make"])
    /\ UNCHANGED <<queues, limits>>
RunQueued(t, q, l) ==
    LET sem == GetQueue(q, l) IN
    /\ Spawn(t, [pc |-> "queue", queue |-> q, gen |-> sem.gen, cap |-> sem.cap,
                 cancelled |-> FALSE, err |-> FALSE])
    /\ queues' = [queues EXCEPT ![q] = sem]
    /\ limits' = [limits EXCEPT ![q] = @ \cup {l}]

\* join, an all of one, and all look the handles up, then wait for each in turn.  An
\* unknown one throws, which changes nothing.  An id may be named twice.
Wait(ids) ==
    /\ ScriptIdle /\ \A i \in DOMAIN ids : ids[i] \in handles
    /\ script' = [pc |-> "wait", ids |-> ids, at |-> 1, err |-> NoTask]
    /\ UNCHANGED <<taskVars, poolVars, cleaner, panicked>>

Waiting == ~panicked /\ script.pc = "wait"
Awaited == script.ids[script.at]
Named == {script.ids[i] : i \in DOMAIN script.ids}
\* Those whose handle the call has deleted and whose outcome it has yet to tell.
Passed == {script.ids[i] : i \in 1..(script.at - 1)}
Last == script.at + 1 \notin DOMAIN script.ids
FirstErr == IF script.err = NoTask /\ task[Awaited].err THEN Awaited ELSE script.err

Tell(ts) == told' = told \cup ts /\ toldAgain' = toldAgain \cup (ts \cap told)

\* The handle of a task that has ended is deleted, and the next is waited for.
Delete(t) ==
    /\ Ended(t) /\ handles' = handles \ {t}
    /\ UNCHANGED <<queues, task, children, limits, poolVars, cleaner, panicked>>
WaitNext ==
    /\ Waiting /\ ~Last /\ Delete(Awaited)
    /\ script' = [script EXCEPT !.at = @ + 1, !.err = FirstErr]
    /\ UNCHANGED toldVars
\* The call returns the values of all.
WaitReturns ==
    /\ Waiting /\ Last /\ FirstErr = NoTask /\ Delete(Awaited)
    /\ script' = NoWait
    /\ Tell(Named) /\ UNCHANGED lost
\* Or it throws the first error, and what the others did nobody learns.
WaitThrows ==
    /\ Waiting /\ Last /\ FirstErr # NoTask /\ Delete(Awaited)
    /\ script' = NoWait
    /\ Tell({FirstErr}) /\ lost' = lost \cup (Named \ {FirstErr})

\* "execution cancelled": the engine's context, not the one the script runs under.
WaitCancelled ==
    /\ Waiting /\ RootCancelled
    /\ script' = NoWait
    /\ lost' = lost \cup Passed
    /\ UNCHANGED <<handles, queues, task, children, limits, told, toldAgain, poolVars,
                   cleaner, panicked>>

\* task.done: null, which changes nothing, while the task runs.  The variant keeps
\* the handle.
PollKeeps(t) ==
    /\ ScriptIdle /\ t \in handles /\ Ended(t)
    /\ Tell({t})
    /\ UNCHANGED <<script, handles, queues, task, children, limits, lost, poolVars, cleaner,
                   panicked>>
Poll(t) ==
    /\ ScriptIdle /\ t \in handles /\ Delete(t)
    /\ Tell({t})
    /\ UNCHANGED <<script, lost>>

\* The cancel of a task that has ended changes nothing.
Cancel(t) ==
    /\ ScriptIdle /\ t \in handles /\ ~task[t].cancelled /\ ~Ended(t)
    /\ task' = [task EXCEPT ![t].cancelled = TRUE]
    /\ UNCHANGED <<script, handles, queues, children, limits, toldVars, poolVars,
                   cleaner, panicked>>

ScriptEnds ==
    /\ ScriptIdle /\ script' = [script EXCEPT !.pc = "ended"]
    /\ UNCHANGED <<taskVars, poolVars, cleaner, panicked>>

Script ==
    \/ \E t \in Tasks : \/ Run(t) \/ \E q \in Queues, l \in Limits : RunQueued(t, q, l)
                        \/ Poll(t) \/ Cancel(t)
    \/ \E ids \in Lists : Wait(ids)
    \/ WaitNext \/ WaitReturns \/ WaitThrows \/ WaitCancelled \/ ScriptEnds

-----------------------------------------------------------------------------
(* A task: the goroutine of spawnHandle, and RunTask.                      *)

TaskStep(t, pc, err) ==
    /\ task' = [task EXCEPT ![t] = IF pc = "end" THEN [NotSpawned EXCEPT !.pc = pc, !.err = err]
                                    ELSE [@ EXCEPT !.pc = pc, !.err = err]]
    /\ UNCHANGED <<script, handles, queues, limits, toldVars, cleaner>>

\* Those that hold a slot of the same semaphore.
Holders(t) == {s \in Tasks : /\ task[s].queue = task[t].queue /\ task[s].gen = task[t].gen
                             /\ Running(s)}
Acquire(t) ==
    /\ TaskAt(t, "queue") /\ Cardinality(Holders(t)) < task[t].cap
    /\ TaskStep(t, "make", FALSE)
    /\ UNCHANGED <<children, poolVars, panicked>>
\* The variant waits for the slot whatever task.cancel says.
GiveUpAtCleanup(t) ==
    /\ TaskAt(t, "queue") /\ RootCancelled
    /\ TaskStep(t, "end", TRUE)
    /\ UNCHANGED <<children, poolVars, panicked>>
GiveUp(t) ==
    /\ TaskAt(t, "queue") /\ Told(t)
    /\ TaskStep(t, "end", TRUE)
    /\ UNCHANGED <<children, poolVars, panicked>>

\* RunTask makes the child and lets the parent's Cleanup know of it.
MakeChild(t) ==
    /\ TaskAt(t, "make")
    /\ TaskStep(t, "run", FALSE)
    /\ children' = children \cup {t}
    /\ UNCHANGED <<poolVars, panicked>>

\* The child's script returns, throws, or is interrupted between two native calls.
TaskReturns(t, err) ==
    /\ TaskAt(t, "run")
    /\ TaskStep(t, "clean", err)
    /\ UNCHANGED <<children, poolVars, panicked>>

\* The end of Cleanup: the pools close their stop channel, which a second call
\* finds closed, and then their connections.
ClosePools(e) ==
    IF e \in closed
    THEN panicked' = TRUE /\ UNCHANGED poolVars
    ELSE /\ closed' = closed \cup {e}
         /\ conn' = [d \in Conns |-> IF conn[d].eng = e /\ conn[d].state = "pooled"
                                     THEN Shut ELSE conn[d]]
         /\ UNCHANGED panicked

\* The deferred part of RunTask.
CleanChild(t) ==
    /\ TaskAt(t, "clean")
    /\ ClosePools(t)
    /\ TaskStep(t, "untrack", task[t].err)
    /\ UNCHANGED children
Untrack(t) ==
    /\ TaskAt(t, "untrack")
    /\ children' = children \ {t}
    /\ TaskStep(t, "end", task[t].err)
    /\ UNCHANGED <<poolVars, panicked>>

Task(t) ==
    \/ Acquire(t) \/ GiveUp(t) \/ MakeChild(t) \/ \E err \in BOOLEAN : TaskReturns(t, err)
    \/ CleanChild(t) \/ Untrack(t)

-----------------------------------------------------------------------------
(* Engine.Cleanup of the root.                                             *)

CleanupBegin ==
    /\ ~panicked /\ cleaner.pc = "idle"
    /\ cleaner' = [pc |-> "children", left |-> children]
    /\ UNCHANGED <<script, taskVars, poolVars, panicked>>
CleanupChild(t) ==
    /\ ~panicked /\ cleaner.pc = "children" /\ t \in cleaner.left
    /\ ClosePools(t)
    /\ cleaner' = [cleaner EXCEPT !.left = @ \ {t}]
    /\ UNCHANGED <<script, taskVars>>
CleanupSelf ==
    /\ ~panicked /\ cleaner.pc = "children" /\ cleaner.left = {}
    /\ ClosePools(Root)
    /\ cleaner' = [cleaner EXCEPT !.pc = "done"]
    /\ UNCHANGED <<script, taskVars>>

-----------------------------------------------------------------------------
(* The pools.                                                              *)

Works(e) == e \in Openers /\ ~panicked /\ IF e = Root THEN script.pc = "idle" ELSE task[e].pc = "run"
PoolStep == UNCHANGED <<script, taskVars, closed, cleaner, panicked>>
Pooled(e, k) == {d \in Conns : conn[d].state = "pooled" /\ conn[d].eng = e /\ conn[d].key = k}

Opened(e, k) == [state |-> "pooled", eng |-> e, key |-> k, idle |-> FALSE, used |-> TRUE]
\* One that is open is found.
GetKnown(e, k, d) ==
    /\ Works(e) /\ d \in Pooled(e, k)
    /\ conn' = [conn EXCEPT ![d].idle = FALSE, ![d].used = TRUE]
    /\ PoolStep
\* A new one is opened when there is none; opening it may fail.
GetNew(e, k, d) ==
    /\ Works(e) /\ Pooled(e, k) = {} /\ conn[d].state = "none"
    /\ conn' = [conn EXCEPT ![d] = Opened(e, k)]
    /\ PoolStep
\* The ping finds it dead: it is closed, and Get goes on as GetNew, or fails.
GetDead(e, k, d) ==
    /\ Works(e) /\ k \notin Buckets /\ d \in Pooled(e, k)
    /\ conn' = [conn EXCEPT ![d] = Shut]
    /\ PoolStep

\* A query, or a read of a bucket, through a handle the script holds.
Use(d) ==
    /\ conn[d].state = "pooled" /\ Works(conn[d].eng) /\ ~conn[d].used
    /\ conn' = [conn EXCEPT ![d].used = TRUE]
    /\ PoolStep

\* handle.close looks for the string the script wrote, the pool has the other.
CloseHandle(d) ==
    /\ conn[d].state = "pooled" /\ Works(conn[d].eng)
    /\ conn[d].key \notin Secretive
    /\ conn' = [conn EXCEPT ![d] = Shut]
    /\ PoolStep

FiveMinutes(d) ==
    /\ ~panicked /\ conn[d].state = "pooled" /\ (conn[d].used \/ ~conn[d].idle)
    /\ conn' = [conn EXCEPT ![d].idle = TRUE, ![d].used = FALSE]
    /\ PoolStep

\* The reaper goes by the time of the last Get.
Idle(e) == {d \in Conns : conn[d].state = "pooled" /\ conn[d].eng = e /\ conn[d].idle}
Reap(e) ==
    /\ ~panicked /\ e \notin closed /\ Idle(e) # {}
    /\ conn' = [d \in Conns |-> IF d \in Idle(e) THEN Shut ELSE conn[d]]
    /\ PoolStep

Pool ==
    \/ \E e \in Engines, k \in Keys, d \in Conns :
          GetKnown(e, k, d) \/ GetNew(e, k, d) \/ GetDead(e, k, d)
    \/ \E d \in Conns : Use(d) \/ CloseHandle(d) \/ FiveMinutes(d)
    \/ \E e \in Engines : Reap(e)

-----------------------------------------------------------------------------
Next ==
    \/ Script \/ Pool
    \/ \E t \in Tasks : Task(t) \/ CleanupChild(t)
    \/ CleanupBegin \/ CleanupSelf

Spec == Init /\ [][Next]_vars

\* Goroutines run; the script of a child may run for ever, and when it is cancelled
\* it may be in a native call, which nothing interrupts.
Fairness ==
    /\ \A t \in Tasks :
          /\ WF_vars(Acquire(t) \/ GiveUp(t))
          /\ WF_vars(MakeChild(t) \/ CleanChild(t) \/ Untrack(t))
          /\ WF_vars(CleanupChild(t))
    /\ WF_vars(WaitNext \/ WaitReturns \/ WaitThrows) /\ WF_vars(WaitCancelled)
    /\ WF_vars(CleanupSelf)
FairSpec == Spec /\ Fairness

-----------------------------------------------------------------------------
(* Properties.                                                             *)

\* No more tasks of a queue run at once than the limit, if every script that names
\* the queue names the same: across tasks that end, give up and are cancelled.
QueueHolds ==
    \A q \in Queues, l \in Limits :
        limits[q] = {l} => Cardinality({t \in Tasks : task[t].queue = q /\ Running(t)}) <= l

\* No two calls of join, done and all tell the outcome of a task, however they name it;
\* as long as there is one that could, its handle is known; a handle goes when its task
\* has ended, and its outcome stays untold only if an all threw that had passed it.
ToldOnce ==
    /\ toldAgain = {}
    /\ \A t \in Tasks : task[t].pc # "none" =>
          IF t \in handles THEN t \notin told \cup lost \cup Passed
          ELSE /\ Ended(t) /\ t \in told \cup lost \cup Passed
               /\ t \notin told \cap lost

\* As long as an engine is not cleaned up it has at most one connection to each
\* end, whatever dies, is reaped or closed; and one cleaned up without a script
\* still running in it has none.
PoolsAreTidy ==
    \A e \in Engines :
        /\ \A k \in Keys : Cardinality(Pooled(e, k)) <= 1
        /\ e \in closed /\ e # Root /\ cleaner.pc = "idle" => \A k \in Keys : Pooled(e, k) = {}

\* A task that is cancelled ends, also one that waits in its queue, and whoever
\* waits for it goes on, unless its script never comes back.
WaitsFor(t) == script.pc = "wait" /\ Awaited = t
CancelledEnds ==
    \A t \in Tasks : (task[t].cancelled /\ WaitsFor(t))
                        ~> (~WaitsFor(t) \/ panicked \/ [](task[t].pc = "run"))

-----------------------------------------------------------------------------
(* What comments promise and the code does not always keep.                *)

\* "Track child so parent Cleanup() cascades": the child is cleaned up again by its
\* own task, which closes a closed channel.
CleanedOnce == ~panicked
\* "task.cancel(id) - interrupt a running task": not one in a native call.
CancelInterrupts == \A t \in Tasks : task[t].cancelled ~> (task[t].pc # "run" \/ panicked)
\* "Throws if any task errored (after waiting for all)": the other outcomes are lost.
OutcomesAreKept ==
    \A t \in Tasks : task[t].pc # "none" => t \in handles \cup told \cup Passed
\* "Tasks on the same queue run at most `limit` concurrently".
QueueHoldsAlways ==
    \A q \in Queues :
        \A l \in limits[q] :
            (\A m \in limits[q] : m <= l)
                => Cardinality({t \in Tasks : task[t].queue = q /\ Running(t)}) <= l
\* "closes connections that have been idle for more than 5 minutes".
ReapsIdleOnes == [][\A d \in Conns, e \in Engines : Reap(e) /\ d \in Idle(e) => ~conn[d].used]_vars
\* "closes all connections": a script that still runs opens others.
NothingLeft == cleaner.pc = "done" => \A e \in Engines, k \in Keys : Pooled(e, k) = {}
=============================================================================
