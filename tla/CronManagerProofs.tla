------------------------- MODULE CronManagerProofs -------------------------
(***************************************************************************)
(* Proofs about the cron manager, for any number of jobs, clients, chats   *)
(* and lives of the process.                                               *)
(***************************************************************************)
EXTENDS CronManager, TLAPS

\* What a client that is adding a job may count on: the job is its own, nothing
\* calls for it yet, and what it will take back was never scheduled.
ClientsBound ==
    /\ \A c \in Clients : client[c].pc = "idle" <=> client[c].job = Absent
    /\ \A c \in Clients : client[c].pc # "idle" =>
          LET j == client[c].job IN
          /\ up /\ j \in used
          /\ timer[j] = "none" /\ fire[j] = "none" /\ lifeCalls[j] = 0
          /\ client[c].pc = "insert" => HasRow(j) /\ j \notin entries
          /\ client[c].pc \in {"undo", "undoRow"} => j \in Invalid
          /\ client[c].pc = "undoRow" => j \notin entries
    /\ \A c, d \in Clients :
          client[c].pc # "idle" /\ client[d].job = client[c].job => c = d

\* A job that was never added has left no trace.
Fresh ==
    \A j \in Jobs \ used :
        /\ ~HasRow(j) /\ j \notin entries /\ timer[j] = "none" /\ fire[j] = "none"
        /\ task[j].pc = "none" /\ j \notin del.left /\ lifeCalls[j] = 0

\* A one-shot is armed, or being fired, or neither.
FiresBound ==
    \A j \in Jobs :
        /\ timer[j] = "timer" => j \in OneShots /\ fire[j] = "none" /\ lifeCalls[j] = 0
        /\ timer[j] = "cron" => j \notin OneShots
        /\ fire[j] # "none" => j \in OneShots /\ timer[j] = "none"
        /\ fire[j] = "run" => lifeCalls[j] = 0
        /\ fire[j] \in {"drop", "row"} => calls[j] > 0
        /\ fire[j] = "row" => j \notin entries

\* The inductive invariant.
IInv ==
    /\ TypeOK /\ EntryHasRow /\ OncePerLife
    /\ ClientsBound /\ Fresh /\ FiresBound
    /\ agent => up

LEMMA InitIInv == Init => IInv
  <1> SUFFICES ASSUME Init PROVE IInv
    OBVIOUS
  <1>1. TypeOK
    <2>1. NoTask \in [pc : {"none", "start", "chat", "link", "save"}, chat : Chats0]
      BY DEF NoTask, Chats0
    <2>2. Idle \in [pc : {"idle", "insert", "schedule", "undo", "undoRow"},
                    job : Jobs \cup {Absent}, chat : Chats0]
      BY DEF Idle, Chats0
    <2>3. NoDel \in [pc : {"idle", "rows", "memory"}, chat : Chats0, left : SUBSET Jobs]
      BY DEF NoDel, Chats0
    <2>4. /\ lives \in 0..MaxLives /\ chats \subseteq Chats
          /\ rows \in [Jobs -> Chats0 \cup {Absent}] /\ chatOf \in [Jobs -> Chats0]
      BY CronAssumption DEF Init, Chats0
    <2>5. /\ task \in [Jobs -> [pc : {"none", "start", "chat", "link", "save"}, chat : Chats0]]
          /\ client \in [Clients -> [pc : {"idle", "insert", "schedule", "undo", "undoRow"},
                                     job : Jobs \cup {Absent}, chat : Chats0]]
      BY <2>1, <2>2 DEF Init
    <2> QED
      BY <2>3, <2>4, <2>5 DEF Init, TypeOK
  <1>2. ClientsBound
    BY DEF Init, ClientsBound, Idle
  <1>3. Fresh
    BY DEF Init, Fresh, HasRow, NoTask, NoDel
  <1>4. FiresBound
    BY DEF Init, FiresBound
  <1> QED
    BY CronAssumption, <1>1, <1>2, <1>3, <1>4 DEF Init, IInv, EntryHasRow, OncePerLife

-----------------------------------------------------------------------------
(* Types.                                                                  *)

LEMMA StartType ==
  ASSUME TypeOK, Start
  PROVE  TypeOK'
  <1>1. chatOf' \in [Jobs -> Chats0]
    BY DEF Start, TypeOK, LoadedChat, HasRow, Chats0
  <1>2. timer' \in [Jobs -> {"none", "timer", "cron"}]
    BY DEF Start, ScheduleAll, Armed
  <1>3. fire' \in [Jobs -> {"none", "run", "drop", "row"}]
    BY DEF Start, ScheduleAll, Armed
  <1>4. lives' \in 0..MaxLives
    BY CronAssumption DEF Start, TypeOK
  <1>5. task' \in [Jobs -> [pc : {"none", "start", "chat", "link", "save"}, chat : Chats0]]
    BY DEF Start, TypeOK, LoadedChat, HasRow, Chats0
  <1> QED
    BY <1>1, <1>2, <1>3, <1>4, <1>5 DEF Start, TypeOK, history

LEMMA DownType ==
  ASSUME TypeOK, Down
  PROVE  TypeOK'
  <1>1. task' \in [Jobs -> [pc : {"none", "start", "chat", "link", "save"}, chat : Chats0]]
    BY DEF Down, NoTask, Chats0
  <1>2. client' \in [Clients -> [pc : {"idle", "insert", "schedule", "undo", "undoRow"},
                                 job : Jobs \cup {Absent}, chat : Chats0]]
    BY DEF Down, Idle, Chats0
  <1>3. del' \in [pc : {"idle", "rows", "memory"}, chat : Chats0, left : SUBSET Jobs]
    BY DEF Down, NoDel, Chats0
  <1> QED
    BY <1>1, <1>2, <1>3 DEF Down, TypeOK, history, counters, Chats0

LEMMA CallRunnerType ==
  ASSUME TypeOK, NEW j \in Jobs, NEW chat \in Chats0, CallRunner(j, chat)
  PROVE  /\ calls' \in [Jobs -> Nat] /\ lifeCalls' \in [Jobs -> Nat]
         /\ task' \in [Jobs -> [pc : {"none", "start", "chat", "link", "save"}, chat : Chats0]]
  BY DEF CallRunner, TypeOK

LEMMA FiringType ==
  ASSUME TypeOK, NEW j \in Jobs,
         \/ BecomeDue(j) \/ TimerFires(j) \/ CronFires(j) \/ FireRun(j) \/ FireDrop(j)
         \/ FireRow(j)
  PROVE  TypeOK'
  <1>1. CASE BecomeDue(j)
    BY <1>1 DEF BecomeDue, TypeOK, mgrVars, history, counters
  <1>2. CASE TimerFires(j)
    BY <1>2 DEF TimerFires, TypeOK, mgrVars, history, counters
  <1>3. CASE CronFires(j)
    BY <1>3, CallRunnerType DEF CronFires, TypeOK, mgrVars, history
  <1>4. CASE FireRun(j)
    BY <1>4, CallRunnerType DEF FireRun, TypeOK, mgrVars, history
  <1>5. CASE FireDrop(j)
    BY <1>5 DEF FireDrop, TypeOK, mgrVars, history, counters
  <1>6. CASE FireRow(j)
    BY <1>6 DEF FireRow, TypeOK, mgrVars, history, counters
  <1> QED
    BY <1>1, <1>2, <1>3, <1>4, <1>5, <1>6

LEMMA TaskType ==
  ASSUME TypeOK, NEW j \in Jobs,
         TaskStart(j) \/ TaskChat(j) \/ TaskLink(j) \/ TaskSave(j)
  PROVE  TypeOK'
  <1> USE DEF TypeOK, Chats0, NoTask
  <1>1. CASE TaskStart(j)
    BY <1>1 DEF TaskStart, mgrVars, history, counters
  <1>2. CASE TaskChat(j)
    <2>1. ASSUME NEW chat \in Chats, task' = [task EXCEPT ![j] = [pc |-> "link", chat |-> chat]]
          PROVE  task' \in [Jobs -> [pc : {"none", "start", "chat", "link", "save"},
             chat : Chats0]]
      BY <2>1
    <2>2. task' \in [Jobs -> [pc : {"none", "start", "chat", "link", "save"}, chat : Chats0]]
      BY <1>2, <2>1 DEF TaskChat
    <2>3. chats' \subseteq Chats
      BY <1>2 DEF TaskChat
    <2> QED
      BY <1>2, <2>2, <2>3 DEF TaskChat, mgrVars, history, counters
  <1>3. CASE TaskLink(j)
    BY <1>3, SMTT(40) DEF TaskLink, mgrVars, history, counters
  <1>4. CASE TaskSave(j)
    BY <1>4 DEF TaskSave, mgrVars, history, counters
  <1> QED
    BY <1>1, <1>2, <1>3, <1>4

LEMMA ClientType ==
  ASSUME TypeOK, ClientsBound, NEW c \in Clients,
         \/ AddInsert(c) \/ AddSchedule(c) \/ AddUndo(c) \/ AddUndoRow(c)
         \/ \E j \in Jobs : Remove(c, j) \/ \E chat \in chats \cup {NoChat} : AddSave(c, j,
            chat)
  PROVE  TypeOK'
  <1> DEFINE Client == [pc : {"idle", "insert", "schedule", "undo", "undoRow"},
                        job : Jobs \cup {Absent}, chat : Chats0]
  <1> USE DEF TypeOK
  <1>1. client[c].pc # "idle" => client[c].job \in Jobs
    BY DEF ClientsBound
  <1>2. /\ Idle \in Client
        /\ \A pc \in {"insert", "schedule", "undo", "undoRow"} :
              [client[c] EXCEPT !.pc = pc] \in Client
    BY DEF Idle, Chats0
  <1>3. CASE AddInsert(c)
    BY <1>1, <1>2, <1>3 DEF AddInsert, mgrVars, history, counters
  <1>4. CASE AddSchedule(c)
    <2>1. client' \in [Clients -> Client]
      BY <1>2, <1>4 DEF AddSchedule
    <2>2. timer' \in [Jobs -> {"none", "timer", "cron"}]
      BY <1>4 DEF AddSchedule, Armed
    <2>3. fire' \in [Jobs -> {"none", "run", "drop", "row"}]
      BY <1>4 DEF AddSchedule, Armed
    <2> QED
      BY <1>4, <2>1, <2>2, <2>3 DEF AddSchedule, mgrVars, history, counters
  <1>5. CASE AddUndo(c)
    BY <1>2, <1>5 DEF AddUndo, mgrVars, history, counters
  <1>6. CASE AddUndoRow(c)
    BY <1>2, <1>6 DEF AddUndoRow, mgrVars, history, counters
  <1>7. ASSUME NEW j \in Jobs, Remove(c, j)
        PROVE  TypeOK'
    BY <1>7 DEF Remove, mgrVars, history, counters
  <1>8. ASSUME NEW j \in Jobs, NEW chat \in chats \cup {NoChat}, AddSave(c, j, chat)
        PROVE  TypeOK'
    BY <1>8 DEF AddSave, Chats0, mgrVars, history, counters
  <1> QED
    BY <1>3, <1>4, <1>5, <1>6, <1>7, <1>8

LEMMA DeleteType ==
  ASSUME TypeOK,
         \/ DeleteChat \/ ClearChatID
         \/ \E j \in Jobs : DeleteLink(j)
         \/ \E chat \in Chats : DeleteList(chat)
  PROVE  TypeOK'
  <1> USE DEF TypeOK, Chats0
  <1>1. CASE DeleteChat
    BY <1>1 DEF DeleteChat, mgrVars, history, counters
  <1>2. CASE ClearChatID
    BY <1>2 DEF ClearChatID, NoDel, mgrVars, history, counters
  <1>3. ASSUME NEW j \in Jobs, DeleteLink(j)
        PROVE  TypeOK'
    BY <1>3 DEF DeleteLink, mgrVars, history, counters
  <1>4. ASSUME NEW chat \in Chats, DeleteList(chat)
        PROVE  TypeOK'
    BY <1>4 DEF DeleteList, mgrVars, history, counters
  <1> QED
    BY <1>1, <1>2, <1>3, <1>4

LEMMA TypeStep == IInv /\ [Next]_vars => TypeOK'
  <1> SUFFICES ASSUME TypeOK, ClientsBound, [Next]_vars
               PROVE  TypeOK'
    BY DEF IInv
  <1>1. CASE UNCHANGED vars
    BY <1>1 DEF TypeOK, vars, mgrVars, history, counters
  <1>2. CASE AgentReady
    BY <1>2 DEF AgentReady, TypeOK, mgrVars, history, counters
  <1> QED
    BY <1>1, <1>2, StartType, DownType, FiringType, TaskType, ClientType, DeleteType
    DEF Next, Over

-----------------------------------------------------------------------------
(* The inductive step: what is left of IInv.                               *)

Bounds ==
    /\ EntryHasRow /\ OncePerLife
    /\ ClientsBound /\ Fresh /\ FiresBound
    /\ agent => up

\* The chat a goroutine carries is not the mark of a missing row.
LEMMA TaskChatIsChat ==
  ASSUME TypeOK, NEW j \in Jobs
  PROVE  task[j].chat \in Chats0 /\ task[j].chat # Absent
  BY CronAssumption DEF TypeOK, Chats0

LEMMA ProcessStep ==
  ASSUME IInv, Start \/ AgentReady \/ Down
  PROVE  Bounds'
  <1> USE CronAssumption DEF IInv, TypeOK
  <1>1. CASE Start
    <2>1. \A j \in Jobs :
             /\ ~HasRow(j) => fire'[j] = "none" /\ timer'[j] = "none"
             /\ HasRow(j) /\ j \in OneShots =>
                   \/ fire'[j] = "run" /\ timer'[j] = "none"
                   \/ fire'[j] = "none" /\ timer'[j] = "timer"
             /\ HasRow(j) /\ j \notin OneShots =>
                   fire'[j] = "none" /\ timer'[j] \in {"none", "cron"}
             /\ lifeCalls'[j] = 0
      BY <1>1 DEF Start, ScheduleAll, Armed, Missed
    <2>2. /\ UNCHANGED <<rows, used, del>>
          /\ \A j \in Jobs : task'[j].pc = "none"
          /\ entries' = {j \in Jobs : HasRow(j)}
      BY <1>1 DEF Start, history
    <2> QED
      <3>1. Fresh'
        BY <2>1, <2>2 DEF Fresh, HasRow
      <3>2. FiresBound'
        BY <1>1, <2>1 DEF Start, FiresBound
      <3>3. ClientsBound'
        BY <1>1 DEF Start, ClientsBound
      <3> QED
        BY <1>1, <2>1, <2>2, <3>1, <3>2, <3>3 DEF Start, Bounds, EntryHasRow, OncePerLife,
           HasRow
  <1>2. CASE AgentReady
    BY <1>2 DEF AgentReady, Bounds, EntryHasRow, OncePerLife, ClientsBound, Fresh,
       FiresBound, HasRow, mgrVars, history, counters
  <1>3. CASE Down
    BY <1>3 DEF Down, Idle, NoTask, NoDel, Bounds, EntryHasRow, OncePerLife, ClientsBound,
       Fresh,
       FiresBound, HasRow, mgrVars, history, counters
  <1> QED
    BY <1>1, <1>2, <1>3

LEMMA FiringStep ==
  ASSUME IInv, NEW j \in Jobs,
         \/ BecomeDue(j) \/ TimerFires(j) \/ CronFires(j) \/ FireRun(j) \/ FireDrop(j)
         \/ FireRow(j)
  PROVE  Bounds'
  <1> USE CronAssumption DEF IInv, TypeOK
  <1>1. CASE BecomeDue(j)
    BY <1>1 DEF BecomeDue, Bounds, EntryHasRow, OncePerLife, ClientsBound, Fresh,
       FiresBound, HasRow, mgrVars, history, counters
  <1>2. CASE TimerFires(j)
    BY <1>2 DEF TimerFires, Bounds, EntryHasRow, OncePerLife, ClientsBound, Fresh,
       FiresBound, HasRow, mgrVars, history, counters
  <1>3. CASE CronFires(j)
    BY <1>3 DEF CronFires, CallRunner, Bounds, EntryHasRow, OncePerLife, ClientsBound, Fresh,
       FiresBound, HasRow, mgrVars, history, counters
  <1>4. CASE FireRun(j)
    BY <1>4 DEF FireRun, CallRunner, Bounds, EntryHasRow, OncePerLife, ClientsBound, Fresh,
       FiresBound, HasRow, mgrVars, history, counters
  <1>5. CASE FireDrop(j)
    BY <1>5 DEF FireDrop, Bounds, EntryHasRow, OncePerLife, ClientsBound, Fresh,
       FiresBound, HasRow, mgrVars, history, counters
  <1>6. CASE FireRow(j)
    BY <1>6 DEF FireRow, Bounds, EntryHasRow, OncePerLife, ClientsBound, Fresh,
       FiresBound, HasRow, mgrVars, history, counters
  <1> QED
    BY <1>1, <1>2, <1>3, <1>4, <1>5, <1>6

LEMMA TaskStep ==
  ASSUME IInv, NEW j \in Jobs,
         TaskStart(j) \/ TaskChat(j) \/ TaskLink(j) \/ TaskSave(j)
  PROVE  Bounds'
  <1> USE CronAssumption DEF IInv
  <1>1. task[j].pc # "none" => j \in used
    BY DEF Fresh
  <1>2. CASE TaskStart(j) \/ TaskChat(j) \/ TaskLink(j)
    <2>1. /\ UNCHANGED <<up, agent, rows, entries, timer, fire, client, del, used, calls,
                          lifeCalls>>
          /\ task[j].pc # "none"
          /\ \A k \in Jobs \ {j} : task'[k] = task[k]
      BY <1>2 DEF TaskStart, TaskChat, TaskLink, TypeOK, mgrVars, history, counters
    <2>2. Fresh'
      BY <1>1, <2>1 DEF Fresh, HasRow
    <2> QED
      BY <2>1, <2>2 DEF Bounds, EntryHasRow, OncePerLife, ClientsBound, FiresBound, HasRow
  <1>3. CASE TaskSave(j)
    <2>1. /\ UNCHANGED <<up, agent, entries, timer, fire, client, del, used, calls, lifeCalls>>
          /\ task[j].pc # "none" /\ rows'[j] # Absent
          /\ \A k \in Jobs \ {j} : task'[k] = task[k] /\ rows'[k] = rows[k]
      BY <1>3, TaskChatIsChat DEF TaskSave, TypeOK, mgrVars, history, counters
    <2>2. Fresh'
      BY <1>1, <2>1 DEF Fresh, HasRow
    <2>3. ClientsBound'
      BY <2>1 DEF ClientsBound, HasRow, TypeOK
    <2> QED
      BY <2>1, <2>2, <2>3 DEF Bounds, EntryHasRow, OncePerLife, FiresBound, HasRow, TypeOK
  <1> QED
    BY <1>2, <1>3

LEMMA ClientStep ==
  ASSUME IInv, NEW c \in Clients,
         \/ AddInsert(c) \/ AddSchedule(c) \/ AddUndo(c) \/ AddUndoRow(c)
         \/ \E j \in Jobs : Remove(c, j) \/ \E chat \in chats \cup {NoChat} : AddSave(c, j,
            chat)
  PROVE  Bounds'
  <1> USE CronAssumption DEF IInv, TypeOK
  <1>1. CASE AddInsert(c)
    BY <1>1 DEF AddInsert, Bounds, EntryHasRow, OncePerLife, ClientsBound, Fresh,
       FiresBound, HasRow, mgrVars, history, counters
  <1>2. CASE AddSchedule(c)
    BY <1>2 DEF AddSchedule, Idle, Armed, Missed, Bounds, EntryHasRow, OncePerLife,
       ClientsBound, Fresh,
       FiresBound, HasRow, mgrVars, history, counters
  <1>3. CASE AddUndo(c)
    BY <1>3 DEF AddUndo, Bounds, EntryHasRow, OncePerLife, ClientsBound, Fresh,
       FiresBound, HasRow, mgrVars, history, counters
  <1>4. CASE AddUndoRow(c)
    BY <1>4 DEF AddUndoRow, Idle, Bounds, EntryHasRow, OncePerLife, ClientsBound, Fresh,
       FiresBound, HasRow, mgrVars, history, counters
  <1>5. ASSUME NEW j \in Jobs, Remove(c, j)
        PROVE  Bounds'
    BY <1>5 DEF Remove, Bounds, EntryHasRow, OncePerLife, ClientsBound, Fresh,
       FiresBound, HasRow, mgrVars, history, counters
  <1>6. ASSUME NEW j \in Jobs, NEW chat \in chats \cup {NoChat}, AddSave(c, j, chat)
        PROVE  Bounds'
    BY <1>6 DEF AddSave, Chats0, Bounds, EntryHasRow, OncePerLife, ClientsBound, Fresh,
       FiresBound, HasRow, mgrVars, history, counters
  <1> QED
    BY <1>1, <1>2, <1>3, <1>4, <1>5, <1>6

LEMMA DeleteStep ==
  ASSUME IInv,
         \/ DeleteChat \/ ClearChatID
         \/ \E j \in Jobs : DeleteLink(j)
         \/ \E chat \in Chats : DeleteList(chat)
  PROVE  Bounds'
  <1> USE CronAssumption DEF IInv, TypeOK
  <1>1. CASE DeleteChat
    BY <1>1 DEF DeleteChat, Bounds, EntryHasRow, OncePerLife, ClientsBound, Fresh,
       FiresBound, HasRow, mgrVars, history, counters
  <1>2. CASE ClearChatID
    BY <1>2 DEF ClearChatID, NoDel, Bounds, EntryHasRow, OncePerLife, ClientsBound, Fresh,
       FiresBound, HasRow, mgrVars, history, counters
  <1>3. ASSUME NEW j \in Jobs, DeleteLink(j)
        PROVE  Bounds'
    BY <1>3 DEF DeleteLink, Bounds, EntryHasRow, OncePerLife, ClientsBound, Fresh,
       FiresBound, HasRow, mgrVars, history, counters
  <1>4. ASSUME NEW chat \in Chats, DeleteList(chat)
        PROVE  Bounds'
    BY <1>4 DEF DeleteList, Bounds, EntryHasRow, OncePerLife, ClientsBound, Fresh,
       FiresBound, HasRow, mgrVars, history, counters
  <1> QED
    BY <1>1, <1>2, <1>3, <1>4

LEMMA IInvStep == IInv /\ [Next]_vars => IInv'
  <1> SUFFICES ASSUME IInv, [Next]_vars
               PROVE  Bounds'
    BY TypeStep DEF IInv, Bounds
  <1>1. CASE UNCHANGED vars
    BY <1>1 DEF IInv, vars, Bounds, EntryHasRow, OncePerLife, ClientsBound, Fresh,
       FiresBound, HasRow, mgrVars, history, counters
  <1> QED
    BY <1>1, ProcessStep, FiringStep, TaskStep, ClientStep, DeleteStep DEF Next, Over

-----------------------------------------------------------------------------
(* The theorems.                                                           *)

\* The inductive invariant: types, rows behind entries, what an adding client
\* may count on, and who may still fire a one-shot (cron.go:108-143, 227-285).
THEOREM SpecIInv == Spec => []IInv
  <1> QED
    BY InitIInv, IInvStep, PTL DEF Spec

\* Every reachable state is well typed, for all jobs, clients and chats.
THEOREM TypeCorrect == Spec => []TypeOK
  <1>1. IInv => TypeOK
    BY DEF IInv
  <1> QED
    BY <1>1, SpecIInv, PTL

\* Whatever is listed is in the store, through every interleaving of adding,
\* removing, firing, linking and deleting (cron.go:131-140, 275-284).
THEOREM EntriesAreStored == Spec => []EntryHasRow
  <1>1. IInv => EntryHasRow
    BY DEF IInv
  <1> QED
    BY <1>1, SpecIInv, PTL

\* In one life of the process no one-shot is run twice, although New, a late
\* Add and a timer may each call for it (cron.go:227-249).
THEOREM OneShotsRunOnce == Spec => []OncePerLife
  <1>1. IInv => OncePerLife
    BY DEF IInv
  <1> QED
    BY <1>1, SpecIInv, PTL

\* A one-shot leaves the store only after its runner was called or a client
\* removed it, whenever the process crashes (cron.go:270-285).
THEOREM OneShotsAreKept == Spec => KeptUntilRun
  <1>1. ASSUME IInv, [Next]_vars
        PROVE  [\A j \in OneShots : HasRow(j) /\ rows'[j] = Absent
                                    => calls[j] > 0 \/ j \in removed']_vars
    <2> SUFFICES ASSUME NEW j \in OneShots, HasRow(j), rows'[j] = Absent, Next
                 PROVE  calls[j] > 0 \/ j \in removed'
      BY <1>1 DEF HasRow, vars
    <2>1. /\ j \in Jobs /\ j \notin Invalid /\ NoChat # Absent
          /\ rows \in [Jobs -> Chats0 \cup {Absent}] /\ rows[j] # Absent
      BY <1>1, CronAssumption DEF IInv, TypeOK, HasRow
    <2>2. CASE \E k \in Jobs : FireRow(k)
      BY <1>1, <2>1, <2>2 DEF IInv, FireRow, FiresBound
    <2>3. CASE \E c \in Clients, k \in Jobs : Remove(c, k)
      BY <2>1, <2>3 DEF Remove
    <2>4. CASE \E c \in Clients : AddUndoRow(c)
      BY <1>1, <2>1, <2>4 DEF IInv, AddUndoRow, ClientsBound
    <2>5. ASSUME NEW k \in Jobs, TaskSave(k)
          PROVE  FALSE
      <3>1. task[k].chat # Absent
        BY <1>1, TaskChatIsChat DEF IInv
      <3> QED
        BY <2>1, <2>5, <3>1 DEF TaskSave
    <2>6. ASSUME NEW c \in Clients, NEW k \in Jobs, NEW chat \in chats \cup {NoChat},
                 AddSave(c, k, chat)
          PROVE  FALSE
      <3>1. chat # Absent
        BY <1>1, CronAssumption DEF IInv, TypeOK
      <3> QED
        BY <2>1, <2>6, <3>1 DEF AddSave
    <2>7. ASSUME NEW k \in Jobs, DeleteLink(k)
          PROVE  FALSE
      BY <2>1, <2>7 DEF DeleteLink
    <2> QED
      BY <2>1, <2>2, <2>3, <2>4, <2>5, <2>6, <2>7
      DEF Next, Start, AgentReady, Down, DeleteChat, ClearChatID, Over, BecomeDue, TimerFires,
          CronFires, FireRun, FireDrop, TaskStart, TaskChat, TaskLink, AddInsert, AddSchedule,
          AddUndo, DeleteList, vars
  <1> QED
    BY <1>1, SpecIInv, PTL DEF Spec, KeptUntilRun

\* Whatever is listed and can be scheduled has something that will call for it,
\* or is being fired or added (cron.go:91-97, 275-280).
THEOREM NoneIsLeftBehind == Spec => []ListedIsLive
  <1>1. Init => ListedIsLive
    BY DEF Init, ListedIsLive
  <1>2. IInv /\ ListedIsLive /\ [Next]_vars => ListedIsLive'
    <2> SUFFICES ASSUME IInv, ListedIsLive, [Next]_vars, NEW j \in entries' \ Invalid
                 PROVE  \/ timer'[j] # "none" \/ fire'[j] # "none"
                        \/ \E c \in Clients : client'[c].job = j
      BY DEF ListedIsLive
    <2> USE CronAssumption DEF IInv, TypeOK
    <2>1. CASE UNCHANGED vars
      BY <2>1 DEF vars, mgrVars, ListedIsLive
    <2>2. CASE Start
      BY <2>2 DEF Start, ScheduleAll, Armed, Missed, HasRow
    <2>3. CASE Down
      BY <2>3 DEF Down
    <2>4. CASE AgentReady \/ DeleteChat \/ ClearChatID
      BY <2>4 DEF AgentReady, DeleteChat, ClearChatID, ListedIsLive, mgrVars
    <2>5. ASSUME NEW k \in Jobs,
                 \/ BecomeDue(k) \/ TimerFires(k) \/ CronFires(k) \/ FireRun(k) \/ FireDrop(k)
                 \/ FireRow(k)
             PROVE  timer'[j] # "none" \/ fire'[j] # "none" \/ \E c \in Clients : client'[c].job = j
      BY <2>5 DEF BecomeDue, TimerFires, CronFires, FireRun, FireDrop, FireRow, ListedIsLive,
         FiresBound, mgrVars
    <2>6. ASSUME NEW k \in Jobs,
                 \/ TaskStart(k) \/ TaskChat(k) \/ TaskLink(k) \/ TaskSave(k) \/ DeleteLink(k)
             PROVE  timer'[j] # "none" \/ fire'[j] # "none" \/ \E c \in Clients : client'[c].job = j
      BY <2>6 DEF TaskStart, TaskChat, TaskLink, TaskSave, DeleteLink, ListedIsLive, mgrVars
    <2>7. ASSUME NEW c \in Clients, AddInsert(c) \/ AddUndo(c) \/ AddUndoRow(c)
             PROVE  timer'[j] # "none" \/ fire'[j] # "none" \/ \E d \in Clients : client'[d].job = j
      <3>1. UNCHANGED <<timer, fire>>
        BY <2>7 DEF AddInsert, AddUndo, AddUndoRow, mgrVars
      <3>2. CASE AddInsert(c)
        BY <3>1, <3>2 DEF AddInsert, ListedIsLive
      <3>3. CASE AddUndo(c)
        BY <3>1, <3>3 DEF AddUndo, ListedIsLive
      <3>4. CASE AddUndoRow(c)
        <4>1. j \in entries /\ client[c].job \in Invalid
          BY <3>4 DEF AddUndoRow, ClientsBound, mgrVars
        <4>2. \A d \in Clients \ {c} : client'[d] = client[d]
          BY <3>4 DEF AddUndoRow
        <4> QED
          BY <3>1, <4>1, <4>2 DEF ListedIsLive
      <3> QED
        BY <2>7, <3>2, <3>3, <3>4
    <2>8. ASSUME NEW c \in Clients, AddSchedule(c)
             PROVE  timer'[j] # "none" \/ fire'[j] # "none" \/ \E d \in Clients : client'[d].job = j
      BY <2>8 DEF AddSchedule, Armed, Missed, Idle, ClientsBound, ListedIsLive
    <2>9. ASSUME NEW c \in Clients, NEW k \in Jobs,
                 \/ Remove(c, k)
                 \/ \E chat \in chats \cup {NoChat} : AddSave(c, k, chat)
             PROVE  timer'[j] # "none" \/ fire'[j] # "none" \/ \E d \in Clients : client'[d].job = j
      <3>1. CASE Remove(c, k)
        BY <3>1 DEF Remove, ListedIsLive
      <3>2. ASSUME NEW chat \in chats \cup {NoChat}, AddSave(c, k, chat)
               PROVE  timer'[j] # "none" \/ fire'[j] # "none" \/ \E d \in Clients : client'[d].job = j
        <4>1. /\ j \in entries /\ UNCHANGED <<timer, fire>>
              /\ client[c].job = Absent
              /\ \A d \in Clients \ {c} : client'[d] = client[d]
          BY <3>2 DEF AddSave, ClientsBound, mgrVars
        <4> QED
          BY <4>1 DEF ListedIsLive
      <3> QED
        BY <2>9, <3>1, <3>2
    <2>10. ASSUME NEW chat \in Chats, DeleteList(chat)
              PROVE  timer'[j] # "none" \/ fire'[j] # "none" \/ \E c \in Clients : client'[c].job = j
      BY <2>10 DEF DeleteList, ListedIsLive, mgrVars
    <2> QED
      BY <2>1, <2>2, <2>3, <2>4, <2>5, <2>6, <2>7, <2>8, <2>9, <2>10 DEF Next, Over
  <1> QED
    BY <1>1, <1>2, SpecIInv, PTL DEF Spec
=============================================================================
