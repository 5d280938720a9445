-------------------------- MODULE EngineTasksProofs --------------------------
(* A queue runs no more tasks than its limit, each outcome is told once, and  *)
(* an engine has at most one connection to each end.                          *)
(* A semaphore may be replaced when a script names another limit: the         *)
(* invariant is that a queue which was only asked for one limit has had one   *)
(* semaphore, and that its slots are finitely many.                           *)
EXTENDS EngineTasks, FiniteSetTheorems, TLAPS

TaskState == [pc : {"none", "queue", "make", "run", "clean", "untrack", "end"}, queue : Queues \cup {NoQueue},
              gen : Nat, cap : Limits \cup {0}, cancelled : BOOLEAN, err : BOOLEAN]

TaskTypes ==
    /\ task \in [Tasks -> TaskState]
    /\ queues \in [Queues -> [gen : Nat, cap : Limits \cup {0}]]
    /\ limits \in [Queues -> SUBSET Limits]

\* Those of a queue that hold a slot.
Slots(q) == {t \in Tasks : task[t].queue = q /\ Running(t)}

\* A queue that was never asked for has no semaphore and no task; one that was asked for
\* one limit only has its first semaphore still, and so has every task of it.
OneSemaphore ==
    \A q \in Queues :
      /\ limits[q] = {} => /\ queues[q] = [gen |-> 0, cap |-> 0]
                           /\ \A t \in Tasks : task[t].queue # q
      /\ \A l \in Limits : limits[q] = {l} =>
           /\ queues[q] = [gen |-> 1, cap |-> l]
           /\ \A t \in Tasks : task[t].queue = q => task[t].gen = 1 /\ task[t].cap = l

SlotsAreCounted == \A q \in Queues : IsFiniteSet(Slots(q))

QueueInv == TaskTypes /\ OneSemaphore /\ SlotsAreCounted /\ QueueHolds

\* No task, no queue.
LEMMA QueueInit == Init => QueueInv
  <1> SUFFICES ASSUME Init PROVE QueueInv
    OBVIOUS
  <1>1. TaskTypes
    BY DEF Init, TaskTypes, TaskState, NotSpawned
  <1>2. OneSemaphore
    BY EngineTasksAssumption DEF Init, OneSemaphore, NotSpawned
  <1>3. \A q \in Queues : Slots(q) = {}
    BY DEF Init, Slots, Running, NotSpawned
  <1>4. SlotsAreCounted
    BY <1>3, FS_EmptySet DEF SlotsAreCounted
  <1>5. QueueHolds
    BY DEF Init, QueueHolds
  <1> QED
    BY <1>1, <1>2, <1>4, <1>5 DEF QueueInv

\* Tasks go on, give up and end: nobody takes a slot.
LEMMA FewerSlots ==
    ASSUME QueueInv, UNCHANGED <<queues, limits>>, task' \in [Tasks -> TaskState],
           \A t \in Tasks :
             \/ task'[t].queue = NoQueue
             \/ /\ task'[t].queue = task[t].queue /\ task'[t].gen = task[t].gen /\ task'[t].cap = task[t].cap
                /\ task'[t].pc \in {"make", "run", "clean", "untrack"} => Running(t)
    PROVE  QueueInv'
  <1>1. TaskTypes'
    BY DEF QueueInv, TaskTypes
  <1>9. \A q \in Queues, t \in Tasks : task'[t].queue = q =>
           task[t].queue = q /\ task'[t].gen = task[t].gen /\ task'[t].cap = task[t].cap
    BY EngineTasksAssumption
  <1>2. OneSemaphore'
    BY <1>9 DEF QueueInv, OneSemaphore
  <1>3. \A q \in Queues : Slots(q)' \subseteq Slots(q)
    BY EngineTasksAssumption DEF Slots, Running
  <1>4. \A q \in Queues : IsFiniteSet(Slots(q)') /\ Cardinality(Slots(q)') <= Cardinality(Slots(q)) /\ Cardinality(Slots(q)) \in Nat
                          /\ Cardinality(Slots(q)') \in Nat
    <2> TAKE q \in Queues
    <2>1. IsFiniteSet(Slots(q))
      BY DEF QueueInv, SlotsAreCounted
    <2> QED
      BY <1>3, <2>1, FS_Subset, FS_CardinalityType
  <1>5. SlotsAreCounted'
    BY <1>4 DEF SlotsAreCounted
  <1>6. \A q \in Queues, l \in Limits : limits[q] = {l} => Cardinality(Slots(q)) <= l
    BY DEF QueueInv, QueueHolds, Slots
  <1>7. \A q \in Queues, l \in Limits : limits'[q] = {l} => Cardinality(Slots(q)') <= l
    BY <1>4, <1>6, EngineTasksAssumption
  <1>8. QueueHolds'
    BY <1>7 DEF QueueHolds, Slots
  <1> QED
    BY <1>1, <1>2, <1>5, <1>8 DEF QueueInv

\* What leaves the tasks, the queues and their limits alone.
LEMMA QueueStutter == ASSUME QueueInv, UNCHANGED <<task, queues, limits>> PROVE QueueInv'
  <1>1. task' \in [Tasks -> TaskState]
    BY DEF QueueInv, TaskTypes
  <1> QED
    BY <1>1, FewerSlots DEF Running

\* A task is spawned: nobody runs more than before, and a limit that is the only one a
\* queue was asked for makes its first semaphore, once.
LEMMA SpawnStep ==
    ASSUME QueueInv, NEW t \in Tasks,
           Run(t) \/ \E q \in Queues, l \in Limits : RunQueued(t, q, l)
    PROVE  QueueInv'
  <1>1. CASE Run(t)
    <2>1. UNCHANGED <<queues, limits>> /\ task' = [task EXCEPT ![t] = [NotSpawned EXCEPT !.pc = "make"]]
      BY <1>1 DEF Run, Spawn
    <2>2. [NotSpawned EXCEPT !.pc = "make"] \in TaskState /\ [NotSpawned EXCEPT !.pc = "make"].queue = NoQueue
      BY DEF NotSpawned, TaskState
    <2>3. task' \in [Tasks -> TaskState] /\ task'[t].queue = NoQueue /\ \A s \in Tasks \ {t} : task'[s] = task[s]
      BY <2>1, <2>2 DEF QueueInv, TaskTypes
    <2> QED
      BY <2>1, <2>3, FewerSlots DEF Running
  <1>2. ASSUME NEW q \in Queues, NEW l \in Limits, RunQueued(t, q, l) PROVE QueueInv'
    <2> DEFINE sem == GetQueue(q, l)
               new == [pc |-> "queue", queue |-> q, gen |-> sem.gen, cap |-> sem.cap, cancelled |-> FALSE,
                       err |-> FALSE]
    <2>1. /\ task[t].pc = "none" /\ task' = [task EXCEPT ![t] = new]
          /\ queues' = [queues EXCEPT ![q] = sem]
          /\ limits' = [limits EXCEPT ![q] = @ \cup {l}]
      BY <1>2 DEF RunQueued, Spawn, TaskAt
    <2>2. l \in Nat \ {0}
      BY EngineTasksAssumption
    <2>3. sem \in [gen : Nat, cap : Limits \cup {0}] /\ sem.cap = l
      BY <2>2 DEF GetQueue, QueueInv, TaskTypes
    <2>20. ASSUME limits[q] = {} PROVE sem.gen = 1
      <3>1. queues[q].gen = 0 /\ queues[q].cap = 0
        BY <2>20 DEF QueueInv, OneSemaphore
      <3> QED
        BY <2>2, <3>1 DEF GetQueue
    <2>21. ASSUME limits[q] = {l} PROVE sem.gen = 1
      <3>2. \A m \in Limits : limits[q] = {m} => queues[q] = [gen |-> 1, cap |-> m]
        BY DEF QueueInv, OneSemaphore
      <3>1. queues[q] = [gen |-> 1, cap |-> l]
        BY <2>21, <3>2
      <3> QED
        BY <3>1 DEF GetQueue
    <2>4. /\ limits[q] = {} => sem.gen = 1
          /\ limits[q] = {l} => sem.gen = 1
      BY <2>20, <2>21
    <2> HIDE DEF sem
    <2>5. new \in TaskState /\ new.queue = q /\ new.gen = sem.gen /\ new.cap = sem.cap /\ new.pc = "queue"
      BY <2>3 DEF TaskState
    <2> HIDE DEF new
    <2>6. TaskTypes'
      BY <2>1, <2>3, <2>5 DEF QueueInv, TaskTypes
    <2>7. /\ task'[t] = new /\ \A s \in Tasks \ {t} : task'[s] = task[s]
          /\ queues'[q] = sem /\ \A p \in Queues \ {q} : queues'[p] = queues[p]
          /\ limits'[q] = limits[q] \cup {l} /\ \A p \in Queues \ {q} : limits'[p] = limits[p]
      BY <2>1 DEF QueueInv, TaskTypes
    <2>8. \A m \in Limits : limits'[q] = {m} => m = l /\ limits[q] \in {{}, {l}}
      <3> TAKE m \in Limits
      <3> HAVE limits'[q] = {m}
      <3>1. m = l
        BY <2>7
      <3>2. limits[q] \subseteq {l}
        BY <2>7, <3>1
      <3> QED
        BY <3>1, <3>2
    <2>9. OneSemaphore'
      <3> SUFFICES ASSUME NEW p \in Queues PROVE
             /\ limits'[p] = {} => queues'[p] = [gen |-> 0, cap |-> 0] /\ \A s \in Tasks : task'[s].queue # p
             /\ \A m \in Limits : limits'[p] = {m} =>
                  queues'[p] = [gen |-> 1, cap |-> m]
                  /\ \A s \in Tasks : task'[s].queue = p => task'[s].gen = 1 /\ task'[s].cap = m
        BY DEF OneSemaphore
      <3>1. CASE p # q
        BY <3>1, <2>5, <2>7 DEF QueueInv, OneSemaphore
      <3>2. CASE p = q
        <4>1. limits'[q] # {}
          BY <2>7
        <4>2. ASSUME NEW m \in Limits, limits'[q] = {m} PROVE
                queues'[q] = [gen |-> 1, cap |-> m]
                /\ \A s \in Tasks : task'[s].queue = q => task'[s].gen = 1 /\ task'[s].cap = m
          <5>1. m = l /\ sem.gen = 1 /\ limits[q] \in {{}, {l}}
            BY <4>2, <2>8, <2>4
          <5>2. sem = [gen |-> 1, cap |-> l]
            BY <5>1, <2>3
          <5>3. \A s \in Tasks : task[s].queue = q => task[s].gen = 1 /\ task[s].cap = l
            BY <5>1 DEF QueueInv, OneSemaphore
          <5> QED
            BY <5>1, <5>2, <5>3, <2>3, <2>5, <2>7
        <4> QED
          BY <3>2, <4>1, <4>2
      <3> QED
        BY <3>1, <3>2
    <2>10. \A p \in Queues : Slots(p)' = Slots(p)
      BY <2>1, <2>5, <2>7 DEF Slots, Running
    <2>11. SlotsAreCounted'
      BY <2>10 DEF QueueInv, SlotsAreCounted
    <2>12. \A p \in Queues, m \in Limits : limits[p] = {m} => Cardinality(Slots(p)) <= m
      BY DEF QueueInv, QueueHolds, Slots
    <2>13. limits[q] = {} => Slots(q) = {}
      BY DEF QueueInv, OneSemaphore, Slots
    <2>14. \A p \in Queues, m \in Limits : limits'[p] = {m} => Cardinality(Slots(p)) <= m
      BY <2>2, <2>7, <2>8, <2>12, <2>13, FS_EmptySet
    <2>15. QueueHolds'
      BY <2>10, <2>14 DEF QueueHolds, Slots
    <2> QED
      BY <2>6, <2>9, <2>11, <2>15 DEF QueueInv
  <1> QED
    BY <1>1, <1>2

\* A slot is taken: of the semaphore of the task, which is the queue's only one if the
\* queue was asked for one limit.
LEMMA AcquireStep == ASSUME QueueInv, NEW t \in Tasks, Acquire(t) PROVE QueueInv'
  <1> DEFINE q == task[t].queue
  <1>1. /\ task[t].pc = "queue" /\ Cardinality(Holders(t)) < task[t].cap
        /\ task' = [task EXCEPT ![t] = [@ EXCEPT !.pc = "make", !.err = FALSE]]
        /\ UNCHANGED <<queues, limits>>
    BY DEF Acquire, TaskStep, TaskAt
  <1>2. [task[t] EXCEPT !.pc = "make", !.err = FALSE] \in TaskState
    BY DEF QueueInv, TaskTypes, TaskState
  <1>3. TaskTypes'
    BY <1>1, <1>2 DEF QueueInv, TaskTypes
  <1>4. \A s \in Tasks : /\ task'[s].queue = task[s].queue /\ task'[s].gen = task[s].gen /\ task'[s].cap = task[s].cap
                         /\ s # t => task'[s].pc = task[s].pc
    BY <1>1 DEF QueueInv, TaskTypes, TaskState
  <1>5. OneSemaphore'
    BY <1>1, <1>4 DEF QueueInv, OneSemaphore
  <1>6. \A p \in Queues : Slots(p)' \subseteq (IF p = q THEN Slots(p) \cup {t} ELSE Slots(p))
    BY <1>4 DEF Slots, Running
  <1>7. \A p \in Queues : IsFiniteSet(Slots(p)) /\ Cardinality(Slots(p)) \in Nat
    BY FS_CardinalityType DEF QueueInv, SlotsAreCounted
  <1>8. \A p \in Queues : p # q => IsFiniteSet(Slots(p)') /\ Cardinality(Slots(p)') \in Nat /\ Cardinality(Slots(p)') <= Cardinality(Slots(p))
    BY <1>6, <1>7, FS_Subset, FS_CardinalityType
  <1>9. ASSUME NEW p \in Queues, p = q PROVE /\ IsFiniteSet(Slots(p)') /\ Cardinality(Slots(p)') \in Nat
                                             /\ Cardinality(Slots(p)') <= Cardinality(Slots(p)) + 1
    <2>1. IsFiniteSet(Slots(p) \cup {t}) /\ Cardinality(Slots(p) \cup {t}) <= Cardinality(Slots(p)) + 1
          /\ Cardinality(Slots(p) \cup {t}) \in Nat
      <3>1. IsFiniteSet(Slots(p)) /\ Cardinality(Slots(p)) \in Nat
        BY <1>7
      <3> HIDE DEF q
      <3>2. IsFiniteSet(Slots(p) \cup {t})
        BY <3>1, FS_AddElement
      <3>3. Cardinality(Slots(p) \cup {t}) = IF t \in Slots(p) THEN Cardinality(Slots(p)) ELSE Cardinality(Slots(p)) + 1
        BY <3>1, FS_AddElement
      <3> QED
        BY <3>1, <3>2, <3>3
    <2>2. Slots(p)' \subseteq Slots(p) \cup {t}
      BY <1>6, <1>9
    <2> HIDE DEF q
    <2> QED
      BY <1>7, <2>1, <2>2, FS_Subset, FS_CardinalityType
  <1>10. SlotsAreCounted'
    BY <1>8, <1>9 DEF SlotsAreCounted
  <1>11. ASSUME NEW p \in Queues, NEW l \in Limits, limits'[p] = {l} PROVE Cardinality(Slots(p)') <= l
    <2>1. l \in Nat /\ limits[p] = {l} /\ Cardinality(Slots(p)) <= l
      BY <1>1, <1>11, EngineTasksAssumption DEF QueueInv, QueueHolds, Slots
    <2>2. CASE p # q
      BY <2>1, <2>2, <1>7, <1>8
    <2>3. CASE p = q
      <3>1. \A s \in Tasks : task[s].queue = q => task[s].gen = 1 /\ task[s].cap = l
        BY <2>1, <2>3 DEF QueueInv, OneSemaphore
      <3>2. Holders(t) = Slots(p) /\ task[t].cap = l
        BY <2>3, <3>1 DEF Holders, Slots
      <3>3. Cardinality(Slots(p)) < l
        BY <1>1, <3>2
      <3> QED
        BY <2>1, <2>3, <3>3, <1>7, <1>9
    <2> QED
      BY <2>2, <2>3
  <1>12. QueueHolds'
    BY <1>11 DEF QueueHolds, Slots
  <1> QED
    BY <1>3, <1>5, <1>10, <1>12 DEF QueueInv

\* A task gives up, goes on, ends or is cancelled.
LEMMA TaskSteps ==
    ASSUME QueueInv, NEW t \in Tasks,
           \/ GiveUp(t) \/ MakeChild(t) \/ (\E err \in BOOLEAN : TaskReturns(t, err))
           \/ CleanChild(t) \/ Untrack(t) \/ Cancel(t)
    PROVE  QueueInv'
  <1>1. UNCHANGED <<queues, limits>>
    BY DEF GiveUp, MakeChild, TaskReturns, CleanChild, Untrack, Cancel, TaskStep
  <1>2. PICK r \in TaskState :
          /\ task' = [task EXCEPT ![t] = r]
          /\ \/ r.queue = NoQueue
             \/ /\ r.queue = task[t].queue /\ r.gen = task[t].gen /\ r.cap = task[t].cap
                /\ r.pc = task[t].pc \/ Running(t)
    <2>1. task[t] \in TaskState /\ task[t].err \in BOOLEAN
      BY DEF QueueInv, TaskTypes, TaskState
    <2>0. \A err \in BOOLEAN :
            /\ [NotSpawned EXCEPT !.pc = "end", !.err = err] \in TaskState
            /\ [NotSpawned EXCEPT !.pc = "end", !.err = err].queue = NoQueue
      BY EngineTasksAssumption DEF NotSpawned, TaskState
    <2>2. \A pc \in {"run", "clean", "untrack"}, err \in BOOLEAN :
            [task[t] EXCEPT !.pc = pc, !.err = err] \in TaskState
      BY <2>1 DEF TaskState
    <2>3. [task[t] EXCEPT !.cancelled = TRUE] \in TaskState
      BY <2>1 DEF TaskState
    <2>4. CASE GiveUp(t) \/ Untrack(t)
      <3>1. PICK err \in BOOLEAN : task' = [task EXCEPT ![t] = [NotSpawned EXCEPT !.pc = "end", !.err = err]]
        BY <2>1, <2>4 DEF GiveUp, Untrack, TaskStep
      <3> QED
        BY <2>0, <3>1
    <2>5. CASE MakeChild(t) \/ (\E err \in BOOLEAN : TaskReturns(t, err)) \/ CleanChild(t)
      <3>1. PICK pc \in {"run", "clean", "untrack"}, err \in BOOLEAN :
              task' = [task EXCEPT ![t] = [task[t] EXCEPT !.pc = pc, !.err = err]]
        BY <2>1, <2>5 DEF MakeChild, TaskReturns, CleanChild, TaskStep
      <3>2. Running(t)
        BY <2>5 DEF MakeChild, TaskReturns, CleanChild, TaskAt, Running
      <3>3. LET r == [task[t] EXCEPT !.pc = pc, !.err = err] IN
              r.queue = task[t].queue /\ r.gen = task[t].gen /\ r.cap = task[t].cap
        BY <2>1 DEF TaskState
      <3> QED
        BY <2>2, <3>1, <3>2, <3>3
    <2>6. CASE Cancel(t)
      <3>1. task' = [task EXCEPT ![t] = [task[t] EXCEPT !.cancelled = TRUE]]
        BY <2>6 DEF Cancel
      <3>2. LET r == [task[t] EXCEPT !.cancelled = TRUE] IN
              r.queue = task[t].queue /\ r.gen = task[t].gen /\ r.cap = task[t].cap /\ r.pc = task[t].pc
        BY <2>1 DEF TaskState
      <3> QED
        BY <2>3, <3>1, <3>2
    <2> QED
      BY <2>4, <2>5, <2>6
  <1>3. task' \in [Tasks -> TaskState] /\ task'[t] = r /\ \A s \in Tasks \ {t} : task'[s] = task[s]
    BY <1>2 DEF QueueInv, TaskTypes
  <1> QED
    BY <1>1, <1>2, <1>3, FewerSlots DEF Running

\* Every step keeps the queues within their limits.
LEMMA QueueStep == QueueInv /\ [Next]_vars => QueueInv'
  <1> SUFFICES ASSUME QueueInv, [Next]_vars PROVE QueueInv'
    OBVIOUS
  <1>1. CASE UNCHANGED vars
    BY <1>1, QueueStutter DEF vars, taskVars
  <1>2. CASE WaitNext \/ WaitReturns \/ WaitThrows \/ \E t \in Tasks : Poll(t)
    BY <1>2, QueueStutter DEF WaitNext, WaitReturns, WaitThrows, Poll, Delete
  <1>3. CASE (\E ids \in Lists : Wait(ids)) \/ WaitCancelled \/ ScriptEnds
    BY <1>3, QueueStutter DEF Wait, WaitCancelled, ScriptEnds, taskVars
  <1>4. ASSUME NEW t \in Tasks, CleanupChild(t) PROVE QueueInv'
    BY <1>4, QueueStutter DEF CleanupChild, taskVars
  <1>5. CASE CleanupBegin \/ CleanupSelf
    BY <1>5, QueueStutter DEF CleanupBegin, CleanupSelf, taskVars
  <1>6. CASE Pool
    BY <1>6, QueueStutter
    DEF Pool, PoolStep, taskVars, GetKnown, GetNew, GetDead, Use, CloseHandle, FiveMinutes, Reap
  <1> QED
    BY <1>1, <1>2, <1>3, <1>4, <1>5, <1>6, SpawnStep, AcquireStep, TaskSteps DEF Next, Script, Task

\* task.go: "Tasks on the same queue run at most limit concurrently", if every script
\* that names the queue asks for the same limit.
THEOREM QueuesHold == Spec => []QueueHolds
  <1>1. QueueInv => QueueHolds
    BY DEF QueueInv
  <1> QED
    BY <1>1, QueueInit, QueueStep, PTL DEF Spec

-----------------------------------------------------------------------------

\* The script waits for one of the ids of a call, and each of them is a task whose handle
\* is known or was deleted by the call.
WaitInv ==
    /\ script \in [pc : {"idle", "wait", "ended"}, ids : Lists \cup {<<>>}, at : Nat,
                   err : Tasks \cup {NoTask}]
    /\ script.pc = "wait" => /\ script.ids \in Lists /\ script.at \in DOMAIN script.ids
                             /\ script.err \in Named \cup {NoTask}
                             /\ Named \subseteq handles \cup Passed
    /\ script.pc # "wait" => script.at = 0

\* A task is not spawned yet, or its handle is known, or it has ended and its outcome was
\* told, is about to be, or was lost.
OutcomeInv ==
    \A t \in Tasks :
        IF task[t].pc = "none" \/ t \in handles
        THEN t \notin told \cup lost \cup Passed /\ (task[t].pc = "none" => t \notin handles)
        ELSE /\ Ended(t) /\ t \in told \cup lost \cup Passed
             /\ t \notin told \cap lost /\ t \notin Passed \cap (told \cup lost)

ToldInv == WaitInv /\ OutcomeInv /\ toldAgain = {} /\ task \in [Tasks -> TaskState]

\* A call of ids in 1..n that waits for the last has passed all the others.
LEMMA Ids ==
    ASSUME WaitInv, script.pc = "wait"
    PROVE  /\ Awaited \in Named /\ Passed \subseteq Named /\ Named \subseteq Tasks
           /\ Last => Named = Passed \cup {Awaited}
           /\ NoTask \notin Tasks
  <1>1. PICK n \in 1..MaxIds : script.ids \in [1..n -> Tasks] /\ DOMAIN script.ids = 1..n
    BY DEF WaitInv, Lists
  <1>2. script.at \in 1..n /\ n \in Nat
    BY <1>1, EngineTasksAssumption DEF WaitInv
  <1>3. Awaited \in Named /\ Passed \subseteq Named /\ Named \subseteq Tasks
    BY <1>1, <1>2 DEF Awaited, Named, Passed
  <1>4. ASSUME Last PROVE Named = Passed \cup {Awaited}
    <2>1. script.at = n
      BY <1>1, <1>2, <1>4 DEF Last
    <2>2. \A i \in 1..n : i = n \/ i \in 1..(n - 1)
      BY <1>2
    <2> QED
      BY <1>1, <1>2, <2>1, <2>2 DEF Named, Passed, Awaited
  <1> QED
    BY <1>3, <1>4, EngineTasksAssumption DEF Engines

\* What leaves the script, the handles and what was told alone, and spawns no task.
LEMMA ToldKeeps ==
    ASSUME ToldInv, UNCHANGED <<script, handles, told, toldAgain, lost>>,
           task' \in [Tasks -> TaskState],
           \A t \in Tasks : /\ task'[t].pc = "none" <=> task[t].pc = "none"
                            /\ task[t].pc = "end" => task'[t].pc = "end"
    PROVE  ToldInv'
  BY DEF ToldInv, WaitInv, OutcomeInv, Ended, Passed, Named

\* A script that does not wait has passed none.
LEMMA NonePassed == ASSUME WaitInv, script.pc # "wait" PROVE Passed = {}
  <1>1. 1..(script.at - 1) = {}
    BY DEF WaitInv
  <1> QED
    BY <1>1 DEF Passed

\* The record of a script that does not wait.
LEMMA NoneWaits ==
    /\ NoWait.pc = "idle" /\ NoWait.at = 0
    /\ NoWait \in [pc : {"idle", "wait", "ended"}, ids : Lists \cup {<<>>}, at : Nat,
                   err : Tasks \cup {NoTask}]
  BY DEF NoWait

\* Every step of a script that waits.
LEMMA WaitSteps ==
    ASSUME ToldInv, WaitNext \/ WaitReturns \/ WaitThrows \/ WaitCancelled
    PROVE  ToldInv'
  <1>0. script.pc = "wait" /\ WaitInv /\ OutcomeInv /\ toldAgain = {} /\ task \in [Tasks -> TaskState]
    BY DEF WaitNext, WaitReturns, WaitThrows, WaitCancelled, Waiting, ToldInv
  <1>1. /\ Awaited \in Named /\ Passed \subseteq Named /\ Named \subseteq Tasks
        /\ Last => Named = Passed \cup {Awaited}
        /\ NoTask \notin Tasks
    BY <1>0, Ids
  <1>2. Named \subseteq handles \cup Passed
    BY <1>0 DEF WaitInv
  <1>3. \A t \in Named : t \notin told \cup lost
    BY <1>0, <1>1, <1>2 DEF OutcomeInv
  <1>4. FirstErr \in Named \cup {NoTask}
    BY <1>0, <1>1 DEF FirstErr, WaitInv
  <1>5. ASSUME script' = NoWait PROVE WaitInv' /\ Passed' = {}
    <2>1. WaitInv'
      BY <1>5, NoneWaits DEF WaitInv
    <2>2. 1..(script'.at - 1) = {}
      BY <1>5, NoneWaits
    <2> QED
      BY <2>1, <2>2 DEF Passed
  <1>6. CASE WaitNext
    <2>1. /\ script' = [script EXCEPT !.at = @ + 1, !.err = FirstErr] /\ ~Last
          /\ handles' = handles \ {Awaited} /\ task[Awaited].pc = "end"
          /\ UNCHANGED <<task, told, toldAgain, lost>>
      BY <1>6 DEF WaitNext, Delete, toldVars, Ended
    <2>2. /\ script'.pc = "wait" /\ script'.ids = script.ids /\ script'.at = script.at + 1
          /\ script'.err = FirstErr
      BY <1>0, <2>1 DEF WaitInv
    <2>3. script.at \in Nat /\ script.at >= 1
      <3>1. PICK n \in 1..MaxIds : script.ids \in [1..n -> Tasks]
        BY <1>0 DEF WaitInv, Lists
      <3> QED
        BY <1>0, <3>1 DEF WaitInv
    <2>4. Passed' = Passed \cup {Awaited} /\ Named' = Named
      <3>1. 1..(script'.at - 1) = (1..(script.at - 1)) \cup {script.at}
        BY <2>2, <2>3
      <3> QED
        BY <2>2, <3>1 DEF Passed, Awaited, Named
    <2>5. WaitInv'
      <3>1. script' \in [pc : {"idle", "wait", "ended"}, ids : Lists \cup {<<>>}, at : Nat,
                         err : Tasks \cup {NoTask}]
        <4>1. script \in [pc : {"idle", "wait", "ended"}, ids : Lists \cup {<<>>}, at : Nat,
                          err : Tasks \cup {NoTask}]
          BY <1>0 DEF WaitInv
        <4>2. FirstErr \in Tasks \cup {NoTask} /\ script.at + 1 \in Nat
          BY <1>1, <1>4, <2>3
        <4> QED
          BY <2>1, <4>1, <4>2
      <3>2. script'.at \in DOMAIN script'.ids
        BY <2>1, <2>2 DEF Last
      <3> QED
        BY <1>0, <1>2, <1>4, <2>1, <2>2, <2>4, <3>1, <3>2 DEF WaitInv
    <2>6. OutcomeInv'
      BY <1>0, <1>1, <1>3, <2>1, <2>4 DEF OutcomeInv, Ended
    <2> QED
      BY <1>0, <2>1, <2>5, <2>6 DEF ToldInv
  <1>7. CASE WaitReturns \/ WaitThrows
    <2>1. PICK ts \in SUBSET Named :
             /\ script' = NoWait /\ handles' = handles \ {Awaited} /\ task[Awaited].pc = "end" /\ Last
             /\ told' = told \cup ts /\ toldAgain' = toldAgain \cup (ts \cap told)
             /\ lost' = lost \cup (Named \ ts) /\ task' = task
      <3>1. CASE WaitReturns
        BY <3>1 DEF WaitReturns, Delete, Ended, Tell
      <3>2. CASE WaitThrows
        <4>1. FirstErr \in Named
          BY <3>2, <1>4 DEF WaitThrows
        <4>2. {FirstErr} \in SUBSET Named
          BY <4>1
        <4> QED
          BY <3>2, <4>2 DEF WaitThrows, Delete, Ended, Tell
      <3> QED
        BY <1>7, <3>1, <3>2
    <2>2. toldAgain' = {}
      BY <1>0, <1>3, <2>1
    <2>3. WaitInv' /\ Passed' = {}
      BY <1>5, <2>1
    <2>4. Named = Passed \cup {Awaited}
      BY <1>1, <2>1
    <2>5. OutcomeInv'
      BY <1>0, <1>1, <1>2, <1>3, <2>1, <2>3, <2>4 DEF OutcomeInv, Ended
    <2> QED
      BY <1>0, <2>1, <2>2, <2>3, <2>5 DEF ToldInv
  <1>8. CASE WaitCancelled
    <2>1. script' = NoWait /\ lost' = lost \cup Passed /\ UNCHANGED <<handles, task, told, toldAgain>>
      BY <1>8 DEF WaitCancelled
    <2>2. WaitInv' /\ Passed' = {}
      BY <1>5, <2>1
    <2>3. OutcomeInv'
      BY <1>0, <2>1, <2>2 DEF OutcomeInv, Ended
    <2> QED
      BY <1>0, <2>1, <2>2, <2>3 DEF ToldInv
  <1> QED
    BY <1>6, <1>7, <1>8

\* Every step keeps what a script was told and can still ask for.
LEMMA ToldStep == QueueInv /\ ToldInv /\ [Next]_vars => ToldInv'
  <1> SUFFICES ASSUME QueueInv, QueueInv', ToldInv, [Next]_vars PROVE ToldInv'
    BY QueueStep
  <1>0. task' \in [Tasks -> TaskState] /\ WaitInv /\ OutcomeInv /\ toldAgain = {}
        /\ task \in [Tasks -> TaskState]
    BY DEF QueueInv, TaskTypes, ToldInv
  <1>2. ASSUME NEW t \in Tasks, Run(t) \/ \E q \in Queues, l \in Limits : RunQueued(t, q, l) PROVE ToldInv'
    <2>1. PICK r : Spawn(t, r) /\ r.pc # "none" /\ r.pc # "end"
      <3>1. [NotSpawned EXCEPT !.pc = "make"].pc = "make"
        BY DEF NotSpawned
      <3>2. CASE Run(t)
        BY <3>1, <3>2 DEF Run
      <3>3. ASSUME NEW q \in Queues, NEW l \in Limits, RunQueued(t, q, l)
            PROVE  \E r : Spawn(t, r) /\ r.pc # "none" /\ r.pc # "end"
        <4> DEFINE r == [pc |-> "queue", queue |-> q, gen |-> GetQueue(q, l).gen, cap |-> GetQueue(q, l).cap,
                         cancelled |-> FALSE, err |-> FALSE]
        <4>1. Spawn(t, r) /\ r.pc # "none" /\ r.pc # "end"
          BY <3>3 DEF RunQueued
        <4> QED
          BY <4>1
      <3> QED
        BY <1>2, <3>2, <3>3
    <2>2. /\ task[t].pc = "none" /\ task' = [task EXCEPT ![t] = r] /\ handles' = handles \cup {t}
          /\ UNCHANGED <<script, told, toldAgain, lost>>
      BY <2>1 DEF Spawn, toldVars
    <2>3. Passed' = Passed /\ Named' = Named
      BY <2>2 DEF Passed, Named
    <2>4. WaitInv'
      BY <1>0, <2>2, <2>3 DEF WaitInv
    <2>5. OutcomeInv'
      BY <1>0, <2>1, <2>2, <2>3 DEF OutcomeInv, Ended
    <2> QED
      BY <1>0, <2>2, <2>4, <2>5 DEF ToldInv
  <1>3. ASSUME NEW t \in Tasks, Poll(t) PROVE ToldInv'
    <2>1. /\ handles' = handles \ {t} /\ told' = told \cup {t} /\ task' = task
          /\ toldAgain' = toldAgain \cup ({t} \cap told)
          /\ task[t].pc = "end" /\ t \in handles /\ script.pc = "idle" /\ script' = script /\ lost' = lost
      BY <1>3 DEF Poll, Delete, Ended, Tell, ScriptIdle
    <2>2. Passed = {} /\ Passed' = {}
      <3>1. Passed = {}
        BY <1>0, <2>1, NonePassed
      <3> QED
        BY <2>1, <3>1 DEF Passed
    <2>3. t \notin told
      BY <1>0, <2>1 DEF OutcomeInv
    <2>4. WaitInv'
      BY <1>0, <2>1 DEF WaitInv
    <2>5. OutcomeInv'
      BY <1>0, <2>1, <2>2, <2>3 DEF OutcomeInv, Ended
    <2> QED
      BY <1>0, <2>1, <2>3, <2>4, <2>5 DEF ToldInv
  <1>4. ASSUME NEW ids \in Lists, Wait(ids) PROVE ToldInv'
    <2>1. /\ script.pc = "idle" /\ script' = [pc |-> "wait", ids |-> ids, at |-> 1, err |-> NoTask]
          /\ UNCHANGED <<task, handles, told, toldAgain, lost>>
          /\ \A i \in DOMAIN ids : ids[i] \in handles
      BY <1>4 DEF Wait, ScriptIdle, taskVars, toldVars
    <2>2. 1 \in DOMAIN ids
      <3>1. PICK n \in 1..MaxIds : ids \in [1..n -> Tasks]
        BY DEF Lists
      <3> QED
        BY <3>1, EngineTasksAssumption
    <2>3. Passed = {} /\ Passed' = {}
      <3>1. Passed = {}
        BY <1>0, <2>1, NonePassed
      <3>2. 1..(script'.at - 1) = {}
        BY <2>1
      <3> QED
        BY <3>1, <3>2 DEF Passed
    <2>4. WaitInv'
      BY <2>1, <2>2 DEF WaitInv, Named
    <2>5. OutcomeInv'
      BY <1>0, <2>1, <2>3 DEF OutcomeInv, Ended
    <2> QED
      BY <1>0, <2>1, <2>4, <2>5 DEF ToldInv
  <1>5. CASE ScriptEnds
    <2>1. script' = [script EXCEPT !.pc = "ended"] /\ script.pc = "idle"
          /\ UNCHANGED <<handles, told, toldAgain, lost, task>>
      BY <1>5 DEF ScriptEnds, ScriptIdle, taskVars, toldVars
    <2>2. Passed' = Passed /\ script'.pc = "ended" /\ script'.at = 0
      BY <1>0, <2>1 DEF Passed, WaitInv
    <2>3. WaitInv'
      BY <1>0, <2>1, <2>2 DEF WaitInv
    <2>4. OutcomeInv'
      BY <1>0, <2>1, <2>2 DEF OutcomeInv, Ended
    <2> QED
      BY <1>0, <2>1, <2>3, <2>4 DEF ToldInv
  <1>6. ASSUME NEW t \in Tasks, Task(t) \/ Cancel(t) PROVE ToldInv'
    <2>1. UNCHANGED <<script, handles, told, toldAgain, lost>>
      BY <1>6 DEF Task, Acquire, GiveUp, MakeChild, TaskReturns, CleanChild, Untrack, Cancel, TaskStep, toldVars
    <2>2. /\ task[t].pc # "none" /\ task'[t].pc # "none" /\ \A s \in Tasks \ {t} : task'[s] = task[s]
          /\ task[t].pc = "end" => task'[t].pc = "end"
      <3>1. CASE Cancel(t)
        <4>1. task[t].pc # "none"
          BY <3>1, <1>0 DEF Cancel, OutcomeInv
        <4> QED
          BY <3>1, <4>1, <1>0 DEF Cancel, TaskState
      <3>2. CASE Task(t)
        <4>1. task[t].pc \notin {"none", "end"}
          BY <3>2 DEF Task, Acquire, GiveUp, MakeChild, TaskReturns, CleanChild, Untrack, TaskAt
        <4>2. task'[t].pc # "none" /\ \A s \in Tasks \ {t} : task'[s] = task[s]
          <5>1. CASE Acquire(t)
            BY <1>0, <5>1 DEF Acquire, TaskStep, TaskState, NotSpawned
          <5>2. CASE GiveUp(t)
            BY <1>0, <5>2 DEF GiveUp, TaskStep, TaskState, NotSpawned
          <5>3. CASE MakeChild(t)
            BY <1>0, <5>3 DEF MakeChild, TaskStep, TaskState, NotSpawned
          <5>4. CASE \E err \in BOOLEAN : TaskReturns(t, err)
            BY <1>0, <5>4 DEF TaskReturns, TaskStep, TaskState, NotSpawned
          <5>5. CASE CleanChild(t)
            BY <1>0, <5>5 DEF CleanChild, TaskStep, TaskState, NotSpawned
          <5>6. CASE Untrack(t)
            BY <1>0, <5>6 DEF Untrack, TaskStep, TaskState, NotSpawned
          <5> QED
            BY <3>2, <5>1, <5>2, <5>3, <5>4, <5>5, <5>6 DEF Task
        <4> QED
          BY <4>1, <4>2
      <3> QED
        BY <1>6, <3>1, <3>2
    <2> QED
      BY <1>0, <2>1, <2>2, ToldKeeps
  <1>7. CASE UNCHANGED vars \/ Pool \/ CleanupBegin \/ CleanupSelf \/ \E t \in Tasks : CleanupChild(t)
    <2>1. UNCHANGED <<script, handles, told, toldAgain, lost, task>>
      BY <1>7 DEF vars, taskVars, toldVars, Pool, PoolStep, GetKnown, GetNew, GetDead, Use, CloseHandle, FiveMinutes,
                  Reap, CleanupBegin, CleanupSelf, CleanupChild
    <2> QED
      BY <1>0, <2>1, ToldKeeps
  <1> QED
    BY <1>2, <1>3, <1>4, <1>5, <1>6, <1>7, WaitSteps DEF Next, Script

\* bridge/task.go: whichever of join, all and done the script uses, on however many ids and
\* in whatever order, no two calls tell it the outcome of a task, it can ask until one does,
\* and an outcome is lost only in an all that threw after it had passed the task.
THEOREM OutcomesAreToldOnce == Spec => []ToldOnce
  <1>1. Init => ToldInv
    <2> SUFFICES ASSUME Init PROVE ToldInv
      OBVIOUS
    <2>1. WaitInv
      BY NoneWaits DEF Init, WaitInv
    <2>2. Passed = {}
      BY <2>1, NoneWaits, NonePassed DEF Init
    <2>3. task \in [Tasks -> TaskState] /\ \A t \in Tasks : task[t].pc = "none"
      BY DEF Init, TaskState, NotSpawned
    <2> QED
      BY <2>1, <2>2, <2>3 DEF Init, ToldInv, OutcomeInv
  <1>2. ToldInv => ToldOnce
    BY DEF ToldInv, OutcomeInv, ToldOnce
  <1> QED
    BY <1>1, <1>2, QueueInit, QueueStep, ToldStep, PTL DEF Spec

-----------------------------------------------------------------------------

\* Two open connections of an engine go to different ends; before the root's Cleanup only
\* engines whose task has cleaned up are closed, and those have no connection.
Conn == [state : {"none", "pooled"}, eng : Engines \cup {NoTask}, key : Keys \cup {NoKey},
         idle : BOOLEAN, used : BOOLEAN]
PoolInv ==
    /\ conn \in [Conns -> Conn]
    /\ \A d, c \in Conns :
         conn[d].state = "pooled" /\ conn[c].state = "pooled" /\ conn[d].eng = conn[c].eng /\ conn[d].key = conn[c].key
           => d = c
    /\ cleaner.pc = "idle" =>
         \A e \in closed :
           /\ e \in Tasks /\ task[e].pc \in {"untrack", "end"}
           /\ \A d \in Conns : conn[d].state = "pooled" => conn[d].eng # e

\* Connections that are shut, and one that is changed without going elsewhere, leave it.
LEMMA PoolShrinks ==
    ASSUME PoolInv, UNCHANGED <<closed, task, cleaner>>, conn' \in [Conns -> Conn],
           \A d \in Conns : conn'[d].state = "pooled" =>
              conn[d].state = "pooled" /\ conn'[d].eng = conn[d].eng /\ conn'[d].key = conn[d].key
    PROVE  PoolInv'
  BY DEF PoolInv

\* A connection that is opened where the engine has none.
LEMMA PoolGrows ==
    ASSUME PoolInv, UNCHANGED <<closed, task, cleaner>>, conn' \in [Conns -> Conn],
           NEW n \in Conns, NEW e \in Engines, NEW k \in Keys, Works(e),
           conn'[n].eng = e, conn'[n].key = k,
           \A d \in Conns \ {n} : conn'[d].state = "pooled" =>
              /\ conn[d].state = "pooled" /\ conn'[d].eng = conn[d].eng /\ conn'[d].key = conn[d].key
              /\ ~(conn[d].eng = e /\ conn[d].key = k)
    PROVE  PoolInv'
  <1>1. \A d, c \in Conns :
         conn'[d].state = "pooled" /\ conn'[c].state = "pooled" /\ conn'[d].eng = conn'[c].eng /\ conn'[d].key = conn'[c].key
           => d = c
    <2> SUFFICES ASSUME NEW d \in Conns, NEW c \in Conns, conn'[d].state = "pooled", conn'[c].state = "pooled",
                        conn'[d].eng = conn'[c].eng, conn'[d].key = conn'[c].key, d # c
                 PROVE  FALSE
      OBVIOUS
    <2>1. CASE d # n /\ c # n
      BY <2>1 DEF PoolInv
    <2> QED
      BY <2>1
  <1>2. cleaner'.pc = "idle" =>
         \A f \in closed' :
           /\ f \in Tasks /\ task'[f].pc \in {"untrack", "end"}
           /\ \A d \in Conns : conn'[d].state = "pooled" => conn'[d].eng # f
    <2> SUFFICES ASSUME cleaner.pc = "idle", NEW f \in closed
                 PROVE  /\ f \in Tasks /\ task[f].pc \in {"untrack", "end"}
                        /\ \A d \in Conns : conn'[d].state = "pooled" => conn'[d].eng # f
      OBVIOUS
    <2>1. f \in Tasks /\ task[f].pc \in {"untrack", "end"} /\ f # Root
      BY EngineTasksAssumption DEF PoolInv
    <2>2. e # f
      BY <2>1 DEF Works
    <2> QED
      BY <2>1, <2>2 DEF PoolInv
  <1> QED
    BY <1>1, <1>2 DEF PoolInv

\* The steps of the pools.
LEMMA PoolSteps == ASSUME PoolInv, Pool PROVE PoolInv'
  <1>0. UNCHANGED <<closed, task, cleaner>> /\ conn \in [Conns -> Conn] /\ \A d \in Conns : conn[d] \in Conn
    BY DEF Pool, GetKnown, GetNew, GetDead, Use, CloseHandle, FiveMinutes, Reap, PoolStep, taskVars, PoolInv
  <1>1. Shut \in Conn /\ Shut.state = "none"
    BY DEF Shut, NotOpened, Conn
  <1>2. \A e \in Engines, k \in Keys :
          Opened(e, k) \in Conn /\ Opened(e, k).eng = e /\ Opened(e, k).key = k
    BY DEF Opened, Conn
  <1>3. ASSUME NEW d \in Conns, conn[d].state = "pooled", NEW i \in BOOLEAN, NEW u \in BOOLEAN,
               conn' = [conn EXCEPT ![d] = [conn[d] EXCEPT !.idle = i, !.used = u]]
        PROVE  PoolInv'
    <2>1. [conn[d] EXCEPT !.idle = i, !.used = u] \in Conn
      BY <1>0 DEF Conn
    <2>2. [conn[d] EXCEPT !.idle = i, !.used = u].eng = conn[d].eng
          /\ [conn[d] EXCEPT !.idle = i, !.used = u].key = conn[d].key
      BY <1>0 DEF Conn
    <2>3. conn' \in [Conns -> Conn] /\ \A c \in Conns : c # d => conn'[c] = conn[c]
      BY <1>0, <1>3, <2>1
    <2>4. conn'[d].eng = conn[d].eng /\ conn'[d].key = conn[d].key
      BY <1>0, <1>3, <2>2
    <2> QED
      BY <1>0, <1>3, <2>3, <2>4, PoolShrinks
  <1>4. ASSUME NEW d \in Conns, conn[d].state = "pooled", conn' = [conn EXCEPT ![d] = Shut] PROVE PoolInv'
    <2>1. conn' \in [Conns -> Conn]
      BY <1>0, <1>1, <1>4
    <2>2. \A c \in Conns : conn'[c] = IF c = d THEN Shut ELSE conn[c]
      BY <1>0, <1>4
    <2> QED
      BY <1>0, <1>1, <2>1, <2>2, PoolShrinks
  <1>5. ASSUME NEW e \in Engines, NEW k \in Keys, NEW d \in Conns, GetKnown(e, k, d) PROVE PoolInv'
    <2>1. conn[d].state = "pooled" /\ conn' = [conn EXCEPT ![d].idle = FALSE, ![d].used = TRUE]
      BY <1>5 DEF GetKnown, Pooled
    <2>2. conn' = [conn EXCEPT ![d] = [conn[d] EXCEPT !.idle = FALSE, !.used = TRUE]]
      BY <2>1, <1>0
    <2> QED
      BY <2>1, <2>2, <1>3
  <1>6. ASSUME NEW e \in Engines, NEW k \in Keys, NEW d \in Conns, GetNew(e, k, d) PROVE PoolInv'
    <2>1. Works(e) /\ Pooled(e, k) = {} /\ conn' = [conn EXCEPT ![d] = Opened(e, k)]
      BY <1>6 DEF GetNew
    <2>2. conn' \in [Conns -> Conn] /\ conn'[d] = Opened(e, k) /\ \A c \in Conns \ {d} : conn'[c] = conn[c]
      BY <1>0, <1>2, <2>1
    <2>3. \A c \in Conns : conn[c].state = "pooled" => ~(conn[c].eng = e /\ conn[c].key = k)
      BY <2>1 DEF Pooled
    <2>4. conn'[d].eng = e /\ conn'[d].key = k
      BY <1>2, <2>2
    <2> QED
      BY <1>0, <2>1, <2>2, <2>3, <2>4, PoolGrows
  <1>7. ASSUME NEW e \in Engines, NEW k \in Keys, NEW d \in Conns, GetDead(e, k, d) PROVE PoolInv'
    BY <1>4, <1>7 DEF GetDead, Pooled
  <1>8. ASSUME NEW d \in Conns, Use(d) \/ FiveMinutes(d) PROVE PoolInv'
    <2>1. conn[d].state = "pooled" /\ conn[d].idle \in BOOLEAN
      BY <1>0, <1>8 DEF Use, FiveMinutes, Conn
    <2>2. CASE Use(d)
      <3>1. conn' = [conn EXCEPT ![d].used = TRUE]
        BY <2>2 DEF Use
      <3>2. conn' = [conn EXCEPT ![d] = [conn[d] EXCEPT !.idle = conn[d].idle, !.used = TRUE]]
        BY <1>0, <3>1 DEF Conn
      <3> QED
        BY <2>1, <3>2, <1>3
    <2>3. CASE FiveMinutes(d)
      <3>1. conn' = [conn EXCEPT ![d].idle = TRUE, ![d].used = FALSE]
        BY <2>3 DEF FiveMinutes
      <3>2. conn' = [conn EXCEPT ![d] = [conn[d] EXCEPT !.idle = TRUE, !.used = FALSE]]
        BY <1>0, <3>1
      <3> QED
        BY <2>1, <3>2, <1>3
    <2> QED
      BY <1>8, <2>2, <2>3
  <1>9. ASSUME NEW d \in Conns, CloseHandle(d) PROVE PoolInv'
    BY <1>4, <1>9 DEF CloseHandle
  <1>10. ASSUME NEW e \in Engines, Reap(e) PROVE PoolInv'
    <2>1. conn' = [d \in Conns |-> IF d \in Idle(e) THEN Shut ELSE conn[d]]
      BY <1>10 DEF Reap
    <2>2. conn' \in [Conns -> Conn] /\ \A d \in Conns : conn'[d] = IF d \in Idle(e) THEN Shut ELSE conn[d]
      BY <1>0, <1>1, <2>1
    <2> QED
      BY <1>0, <1>1, <2>2, PoolShrinks
  <1> QED
    BY <1>5, <1>6, <1>7, <1>8, <1>9, <1>10 DEF Pool

\* Pools that are closed.
LEMMA PoolsClose ==
    ASSUME PoolInv, NEW e \in Engines, ClosePools(e),
           \/ cleaner'.pc # "idle"
           \/ cleaner' = cleaner /\ e \in Tasks /\ task'[e].pc \in {"untrack", "end"} /\ \A t \in Tasks \ {e} : task'[t] = task[t]
    PROVE  PoolInv'
  <1>0. Shut \in Conn /\ Shut.state = "none"
    BY DEF Shut, NotOpened, Conn
  <1>1. CASE e \in closed
    <2>1. closed' = closed /\ conn' = conn
      BY <1>1 DEF ClosePools, poolVars
    <2> QED
      BY <2>1 DEF PoolInv
  <1>2. CASE e \notin closed
    <2>1. /\ closed' = closed \cup {e}
          /\ conn' = [d \in Conns |-> IF conn[d].eng = e /\ conn[d].state = "pooled" THEN Shut ELSE conn[d]]
      BY <1>2 DEF ClosePools
    <2>2. \A d \in Conns : conn[d] \in Conn
      BY DEF PoolInv
    <2>3. conn' \in [Conns -> Conn]
          /\ \A d \in Conns : conn'[d] = IF conn[d].eng = e /\ conn[d].state = "pooled" THEN Shut ELSE conn[d]
      BY <1>0, <2>1, <2>2
    <2>4. \A d \in Conns : conn'[d].state = "pooled" =>
             conn[d].state = "pooled" /\ conn'[d].eng = conn[d].eng /\ conn'[d].key = conn[d].key /\ conn'[d].eng # e
      BY <1>0, <2>3
    <2> QED
      BY <2>1, <2>3, <2>4 DEF PoolInv
  <1> QED
    BY <1>1, <1>2

\* Every step keeps that pools are tidy.
LEMMA PoolInvStep == QueueInv /\ PoolInv /\ [Next]_vars => PoolInv'
  <1> SUFFICES ASSUME QueueInv, PoolInv, [Next]_vars PROVE PoolInv'
    OBVIOUS
  <1>0. task \in [Tasks -> TaskState]
    BY DEF QueueInv, TaskTypes
  <1>1. ASSUME UNCHANGED <<conn, closed, cleaner>>, \A e \in closed \cap Tasks : task[e].pc \in {"untrack", "end"} => task'[e].pc \in {"untrack", "end"}
        PROVE  PoolInv'
    BY <1>1 DEF PoolInv
  <1>2. CASE UNCHANGED vars
    BY <1>1, <1>2 DEF vars, taskVars, poolVars
  <1>3. CASE Pool
    BY <1>3, PoolSteps
  <1>4. CASE Script
    <2>1. UNCHANGED <<conn, closed, cleaner>>
      BY <1>4 DEF Script, Run, RunQueued, Spawn, Poll, Delete, Cancel, Wait, WaitNext, WaitReturns, WaitThrows, WaitCancelled, ScriptEnds, poolVars
    <2>2. task' = task \/ \E t \in Tasks : \/ task[t].pc = "none" /\ \E n : task' = [task EXCEPT ![t] = n]
                                           \/ task' = [task EXCEPT ![t].cancelled = TRUE]
      BY <1>4 DEF Script, Run, RunQueued, Spawn, Poll, Delete, Cancel, Wait, WaitNext, WaitReturns, WaitThrows, WaitCancelled, ScriptEnds, taskVars
    <2>3. \A e \in Tasks : task[e].pc \in {"untrack", "end"} => task'[e].pc = task[e].pc
      <3> SUFFICES ASSUME NEW e \in Tasks, task[e].pc \in {"untrack", "end"} PROVE task'[e].pc = task[e].pc
        OBVIOUS
      <3>1. ASSUME NEW t \in Tasks, task[t].pc = "none", NEW n, task' = [task EXCEPT ![t] = n] PROVE task'[e].pc = task[e].pc
        <4>1. e # t
          BY <3>1
        <4> QED
          BY <1>0, <3>1, <4>1
      <3>2. ASSUME NEW t \in Tasks, task' = [task EXCEPT ![t].cancelled = TRUE] PROVE task'[e].pc = task[e].pc
        BY <1>0, <3>2 DEF TaskState
      <3> QED
        BY <2>2, <3>1, <3>2
    <2> QED
      BY <1>1, <2>1, <2>3
  <1>5. ASSUME NEW t \in Tasks,
               \/ Acquire(t) \/ GiveUp(t) \/ MakeChild(t) \/ Untrack(t)
               \/ \E err \in BOOLEAN : TaskReturns(t, err)
        PROVE  PoolInv'
    <2>1. /\ UNCHANGED <<conn, closed, cleaner>>
          /\ \E pc, err : TaskStep(t, pc, err)
      BY <1>5 DEF Acquire, GiveUp, MakeChild, TaskReturns, Untrack, TaskStep, poolVars
    <2>2. task[t].pc \in {"queue", "make", "run", "untrack"} /\ (task[t].pc = "untrack" => Untrack(t))
      BY <1>5 DEF Acquire, GiveUp, MakeChild, TaskReturns, Untrack, TaskAt
    <2>3. \A e \in Tasks \ {t} : task'[e] = task[e]
      BY <1>0, <2>1 DEF TaskStep
    <2>4. task[t].pc = "untrack" => task'[t].pc = "end"
      <3>1. ASSUME Untrack(t) PROVE task'[t].pc = "end"
        BY <1>0, <3>1 DEF Untrack, TaskStep, NotSpawned
      <3> QED
        BY <2>2, <3>1
    <2> QED
      BY <1>1, <2>1, <2>2, <2>3, <2>4
  <1>6. ASSUME NEW t \in Tasks, CleanChild(t) PROVE PoolInv'
    <2>1. ClosePools(t) /\ cleaner' = cleaner /\ t \in Engines
      BY <1>6 DEF CleanChild, TaskStep, Engines
    <2>2. task'[t].pc = "untrack" /\ \A e \in Tasks \ {t} : task'[e] = task[e]
      BY <1>0, <1>6 DEF CleanChild, TaskStep, TaskState
    <2> QED
      BY <2>1, <2>2, PoolsClose
  <1>7. ASSUME NEW t \in Tasks, CleanupChild(t) PROVE PoolInv'
    <2>1. ClosePools(t) /\ t \in Engines /\ cleaner.pc = "children" /\ cleaner' = [cleaner EXCEPT !.left = @ \ {t}]
      BY <1>7 DEF CleanupChild, Engines
    <2>2. cleaner'.pc # "idle" \/ cleaner'.pc = cleaner.pc
      BY <2>1
    <2> QED
      BY <2>1, <2>2, PoolsClose
  <1>8. CASE CleanupBegin
    <2>1. cleaner'.pc = "children" /\ conn' = conn
      BY <1>8 DEF CleanupBegin, poolVars
    <2> QED
      BY <2>1 DEF PoolInv
  <1>9. CASE CleanupSelf
    <2>1. ClosePools(Root) /\ Root \in Engines /\ cleaner.pc = "children" /\ cleaner' = [cleaner EXCEPT !.pc = "done"]
      BY <1>9 DEF CleanupSelf, Engines
    <2>2. cleaner'.pc # "idle"
      BY <2>1
    <2> QED
      BY <2>1, <2>2, PoolsClose
  <1> QED
    BY <1>2, <1>3, <1>4, <1>5, <1>6, <1>7, <1>8, <1>9 DEF Next, Task

\* dbPool and blobPool: whatever dies, is reaped or closed, an engine has at most one
\* connection to each end, and one whose task has cleaned it up has none.
THEOREM PoolsStayTidy == Spec => []PoolsAreTidy
  <1>1. Init => PoolInv
    <2> SUFFICES ASSUME Init PROVE PoolInv
      OBVIOUS
    <2>1. NotOpened \in Conn /\ NotOpened.state = "none"
      BY DEF NotOpened, Conn
    <2>2. conn = [d \in Conns |-> NotOpened] /\ closed = {}
      BY DEF Init
    <2> QED
      BY <2>1, <2>2 DEF PoolInv
  <1>2. PoolInv => PoolsAreTidy
    <2> SUFFICES ASSUME PoolInv, NEW e \in Engines, NEW k \in Keys
                 PROVE  /\ Cardinality(Pooled(e, k)) <= 1
                        /\ e \in closed /\ e # Root /\ cleaner.pc = "idle" => Pooled(e, k) = {}
      BY DEF PoolsAreTidy
    <2>1. Cardinality(Pooled(e, k)) <= 1
      <3>1. CASE Pooled(e, k) = {}
        BY <3>1, FS_EmptySet
      <3>2. CASE Pooled(e, k) # {}
        <4>1. PICK d \in Pooled(e, k) : TRUE
          BY <3>2
        <4>2. Pooled(e, k) = {d}
          BY <4>1 DEF PoolInv, Pooled
        <4> QED
          BY <4>2, FS_Singleton
      <3> QED
        BY <3>1, <3>2
    <2>2. e \in closed /\ cleaner.pc = "idle" => Pooled(e, k) = {}
      BY DEF PoolInv, Pooled
    <2> QED
      BY <2>1, <2>2
  <1> QED
    BY <1>1, <1>2, QueueInit, QueueStep, PoolInvStep, PTL DEF Spec
==============================================================================
