---------------------------- MODULE CronManager ----------------------------
(***************************************************************************)
(* The scheduler of altclaw's cron jobs (internal/cron/cron.go), with the  *)
(* runner that main.go gives it, the clients that add and remove jobs (the *)
(* scripts' cron bridge and the web API), the deletion of a chat, and the  *)
(* process around them, which stops or crashes at any time and starts      *)
(* again from the rows in the store.                                       *)
(*                                                                         *)
(* A job has a row in the store, an entry in Manager.entries, and a timer  *)
(* (a one-shot) or a registration with the cron library (a recurring job). *)
(* Only the entries are guarded by Manager.mu.                             *)
(***************************************************************************)
EXTENDS Naturals, FiniteSets

CONSTANTS
    Jobs,      \* jobs that may be added; each once, under an id of its own
    OneShots,  \* those with a duration or a date for a schedule
    Invalid,   \* those whose cron expression does not parse
    AiJobs,    \* those whose content is instructions for the agent
    Clients,   \* callers of cron.add and cron.rm
    Chats,     \* chats, those that cron creates included
    FirstChats,\* the chats there are at first
    NoChat,    \* chat id 0
    Absent,    \* no row, or no job
    MaxLives,  \* bound: how often the process starts
    MaxCalls   \* bound: how often a recurring job is run

ASSUME CronAssumption ==
    /\ OneShots \subseteq Jobs /\ Invalid \subseteq Jobs \ OneShots /\ AiJobs \subseteq Jobs
    /\ FirstChats \subseteq Chats
    /\ NoChat \notin Chats /\ Absent \notin Chats \cup {NoChat} /\ Absent \notin Jobs
    /\ MaxLives \in Nat /\ MaxCalls \in Nat

VARIABLES
    up,        \* the process runs
    agent,     \* main.go's ag is set, and the server serves
    lives,     \* how often the process has started
    rows,      \* the store: each job's ChatID, or Absent
    entries,   \* the keys of Manager.entries
    chatOf,    \* the ChatID in each job's entry
    timer,     \* what will call for each job: "none", "timer" or "cron"
    due,       \* one-shots whose time has come
    fire,      \* fireAndRemove's goroutine for each job: what it does next
    task,      \* each job's call of the runner: its chat, and the runner's goroutine
    client,    \* what each client is doing
    del,       \* the deletion of a chat
    chats,     \* the chats that exist
    used,      \* history: jobs that were added
    removed,   \* history: jobs a client has removed, and was told so
    calls,     \* history: calls of the runner for each job
    lifeCalls, \* history: those of this life
    served     \* history: jobs whose task was begun at least once

mgrVars == <<entries, chatOf, timer>>
history == <<used, removed>>
counters == <<calls, lifeCalls>>
vars == <<up, agent, lives, rows, mgrVars, due, fire, task, client, del, chats, history,
          counters, served>>

Chats0 == Chats \cup {NoChat}
NoTask == [pc |-> "none", chat |-> NoChat]
Idle == [pc |-> "idle", job |-> Absent, chat |-> NoChat]
NoDel == [pc |-> "idle", chat |-> NoChat, left |-> {}]

Init ==
    /\ up = FALSE /\ agent = FALSE /\ lives = 0
    /\ rows = [j \in Jobs |-> Absent]
    /\ entries = {} /\ chatOf = [j \in Jobs |-> NoChat]
    /\ timer = [j \in Jobs |-> "none"] /\ due = {}
    /\ fire = [j \in Jobs |-> "none"] /\ task = [j \in Jobs |-> NoTask]
    /\ client = [c \in Clients |-> Idle] /\ del = NoDel /\ chats = FirstChats
    /\ used = {} /\ removed = {} /\ served = {}
    /\ calls = [j \in Jobs |-> 0] /\ lifeCalls = [j \in Jobs |-> 0]

HasRow(j) == rows[j] # Absent

\* The chat of an entry made from a row.
LoadedChat(j) == IF HasRow(j) THEN rows[j] ELSE NoChat

\* What schedule makes of a job whose time has not passed, and the jobs that it
\* fires at once.  An expression that does not parse is not armed.
Armed(j) == IF j \in OneShots THEN "timer" ELSE IF j \in Invalid THEN "none" ELSE "cron"
Missed(j) == j \in OneShots \cap due

-----------------------------------------------------------------------------
(* The process.                                                            *)

\* cron.New: every row becomes an entry and is scheduled.  A one-shot that was
\* missed is fired at once; an expression that does not parse is only logged.
\* The variants do not fire the missed ones, and arm them as well.
StartForgetsMissed ==
    /\ timer' = [j \in Jobs |-> IF HasRow(j) /\ ~Missed(j) THEN Armed(j) ELSE "none"]
    /\ UNCHANGED fire
StartArmsMissed ==
    /\ timer' = [j \in Jobs |-> IF HasRow(j) THEN Armed(j) ELSE "none"]
    /\ fire' = [j \in Jobs |-> IF HasRow(j) /\ Missed(j) THEN "run" ELSE "none"]
ScheduleAll ==
    /\ timer' = [j \in Jobs |-> IF HasRow(j) /\ ~Missed(j) THEN Armed(j) ELSE "none"]
    /\ fire' = [j \in Jobs |-> IF HasRow(j) /\ Missed(j) THEN "run" ELSE "none"]

Start ==
    /\ ~up /\ lives < MaxLives
    /\ up' = TRUE /\ lives' = lives + 1
    /\ entries' = {j \in Jobs : HasRow(j)}
    /\ chatOf' = [j \in Jobs |-> LoadedChat(j)]
    /\ ScheduleAll
    /\ task' = [j \in Jobs |-> [pc |-> "none", chat |-> LoadedChat(j)]]
    /\ lifeCalls' = [j \in Jobs |-> 0]
    /\ UNCHANGED <<agent, rows, due, client, del, chats, history, calls, served>>

\* main.go builds the agent and the server after cron.New.
AgentReady ==
    /\ up /\ ~agent
    /\ agent' = TRUE
    /\ UNCHANGED <<up, lives, rows, mgrVars, due, fire, task, client, del, chats, history,
                   counters, served>>

\* A crash, or a stop: the rows are all that is left.
Down ==
    /\ up
    /\ up' = FALSE /\ agent' = FALSE
    /\ entries' = {} /\ chatOf' = [j \in Jobs |-> NoChat]
    /\ timer' = [j \in Jobs |-> "none"] /\ fire' = [j \in Jobs |-> "none"]
    /\ task' = [j \in Jobs |-> NoTask] /\ client' = [c \in Clients |-> Idle] /\ del' = NoDel
    /\ UNCHANGED <<lives, rows, due, chats, history, counters, served>>

\* Time passes.
BecomeDue(j) ==
    /\ j \in OneShots \cap used /\ j \notin due
    /\ due' = due \cup {j}
    /\ UNCHANGED <<up, agent, lives, rows, mgrVars, fire, task, client, del, chats, history,
                   counters, served>>

-----------------------------------------------------------------------------
(* Add and Remove.                                                         *)

\* Add saves the row,
AddSave(c, j, chat) ==
    /\ agent /\ client[c].pc = "idle" /\ j \notin used
    /\ used' = used \cup {j}
    /\ rows' = [rows EXCEPT ![j] = chat]
    /\ client' = [client EXCEPT ![c] = [pc |-> "insert", job |-> j, chat |-> chat]]
    /\ UNCHANGED <<up, agent, lives, mgrVars, due, fire, task, del, chats, removed, counters,
                   served>>

\* puts the entry in the map,
AddInsert(c) ==
    /\ client[c].pc = "insert"
    /\ entries' = entries \cup {client[c].job}
    /\ chatOf' = [chatOf EXCEPT ![client[c].job] = client[c].chat]
    /\ client' = [client EXCEPT ![c].pc = "schedule"]
    /\ UNCHANGED <<up, agent, lives, rows, timer, due, fire, task, del, chats, history, counters,
                   served>>

\* and schedules it, after the unlock.
AddSchedule(c) ==
    LET j == client[c].job IN
    /\ client[c].pc = "schedule"
    /\ IF Missed(j)
       THEN /\ fire' = [fire EXCEPT ![j] = "run"]
            /\ task' = [task EXCEPT ![j].chat = chatOf[j]]
            /\ UNCHANGED timer
       ELSE timer' = [timer EXCEPT ![j] = Armed(j)] /\ UNCHANGED <<fire, task>>
    /\ client' = [client EXCEPT ![c] = IF j \in Invalid THEN [@ EXCEPT !.pc = "undo"] ELSE Idle]
    /\ UNCHANGED <<up, agent, lives, rows, entries, chatOf, due, del, chats, history,
                   counters, served>>

\* An expression that did not parse takes the entry back, then the row.
AddUndo(c) ==
    /\ client[c].pc = "undo"
    /\ entries' = entries \ {client[c].job}
    /\ client' = [client EXCEPT ![c].pc = "undoRow"]
    /\ UNCHANGED <<up, agent, lives, rows, chatOf, timer, due, fire, task, del, chats, history,
                   counters, served>>

AddUndoRow(c) ==
    /\ client[c].pc = "undoRow"
    /\ rows' = [rows EXCEPT ![client[c].job] = Absent]
    /\ client' = [client EXCEPT ![c] = Idle]
    /\ UNCHANGED <<up, agent, lives, mgrVars, due, fire, task, del, chats, history, counters,
                   served>>

\* Remove, all of it under mu.  Deleting the row may fail, which the client is
\* told.
Remove(c, j) ==
    /\ agent /\ client[c].pc = "idle" /\ j \in entries
    /\ timer' = [timer EXCEPT ![j] = "none"]
    /\ entries' = entries \ {j}
    /\ \/ rows' = [rows EXCEPT ![j] = Absent] /\ removed' = removed \cup {j}
       \/ UNCHANGED <<rows, removed>>
    /\ UNCHANGED <<up, agent, lives, chatOf, due, fire, task, client, del, chats, used, counters,
                   served>>

-----------------------------------------------------------------------------
(* Firing.                                                                 *)

\* The runner only starts a goroutine.
CallRunner(j, chat) ==
    /\ calls' = [calls EXCEPT ![j] = @ + 1]
    /\ lifeCalls' = [lifeCalls EXCEPT ![j] = @ + 1]
    /\ task' = [task EXCEPT ![j] = [pc |-> "start", chat |-> chat]]

\* The timer's callback reads the entry's chat and calls fireAndRemove.
TimerFires(j) ==
    /\ timer[j] = "timer" /\ j \in due
    /\ timer' = [timer EXCEPT ![j] = "none"]
    /\ fire' = [fire EXCEPT ![j] = "run"]
    /\ task' = [task EXCEPT ![j].chat = chatOf[j]]
    /\ UNCHANGED <<up, agent, lives, rows, entries, chatOf, due, client, del, chats,
                   history, counters, served>>

\* The cron library calls for a recurring job; its tasks may not overlap here.
CronFires(j) ==
    /\ timer[j] = "cron" /\ calls[j] < MaxCalls /\ task[j].pc = "none"
    /\ CallRunner(j, chatOf[j])
    /\ UNCHANGED <<up, agent, lives, rows, mgrVars, due, fire, client, del, chats, history,
                   served>>

\* fireAndRemove: the runner, then the entry, then the row.  The variant calls
\* the runner only when the agent is there.
FireRunIfReady(j) ==
    /\ fire[j] = "run"
    /\ fire' = [fire EXCEPT ![j] = "drop"]
    /\ IF agent THEN CallRunner(j, task[j].chat) ELSE UNCHANGED <<counters, task>>
    /\ UNCHANGED <<up, agent, lives, rows, mgrVars, due, client, del, chats, history, served>>
FireRun(j) ==
    /\ fire[j] = "run"
    /\ fire' = [fire EXCEPT ![j] = "drop"]
    /\ CallRunner(j, task[j].chat)
    /\ UNCHANGED <<up, agent, lives, rows, mgrVars, due, client, del, chats, history, served>>

\* The variant deletes the row while the entry is still listed.
FireDropRow(j) ==
    /\ fire[j] = "drop"
    /\ fire' = [fire EXCEPT ![j] = "none"]
    /\ rows' = [rows EXCEPT ![j] = Absent]
    /\ UNCHANGED <<up, agent, lives, mgrVars, due, task, client, del, chats, history, counters,
                   served>>
FireDrop(j) ==
    /\ fire[j] = "drop"
    /\ fire' = [fire EXCEPT ![j] = IF j \in entries THEN "row" ELSE "none"]
    /\ entries' = entries \ {j}
    /\ UNCHANGED <<up, agent, lives, rows, chatOf, timer, due, task, client, del, chats, history,
                   counters, served>>

FireRow(j) ==
    /\ fire[j] = "row"
    /\ fire' = [fire EXCEPT ![j] = "none"]
    /\ rows' = [rows EXCEPT ![j] = Absent]
    /\ UNCHANGED <<up, agent, lives, mgrVars, due, task, client, del, chats, history, counters,
                   served>>

-----------------------------------------------------------------------------
(* The goroutine of main.go's runner.                                      *)

\* A task for the agent is sent if there is an agent; a script runs, and if it
\* calls agent.run without a chat, one is made for it.
TaskStart(j) ==
    /\ task[j].pc = "start"
    /\ served' = IF j \notin AiJobs \/ agent THEN served \cup {j} ELSE served
    /\ \/ task' = [task EXCEPT ![j] = NoTask]
       \/ /\ j \notin AiJobs /\ agent /\ task[j].chat = NoChat
          /\ task' = [task EXCEPT ![j].pc = "chat"]
    /\ UNCHANGED <<up, agent, lives, rows, mgrVars, due, fire, client, del, chats, history,
                   counters>>

\* ensureChat creates the chat; that may fail.
TaskChat(j) ==
    /\ task[j].pc = "chat"
    /\ \/ task' = [task EXCEPT ![j] = NoTask] /\ UNCHANGED chats
       \/ \E chat \in Chats \ (chats \cup FirstChats) :
             /\ chats' = chats \cup {chat}
             /\ task' = [task EXCEPT ![j] = [pc |-> "link", chat |-> chat]]
    /\ UNCHANGED <<up, agent, lives, rows, mgrVars, due, fire, client, del, history, counters,
                   served>>

\* UpdateJobChatID: the entry under mu,
TaskLink(j) ==
    /\ task[j].pc = "link"
    /\ IF j \in entries
       THEN /\ chatOf' = [chatOf EXCEPT ![j] = task[j].chat]
            /\ task' = [task EXCEPT ![j].pc = "save"]
       ELSE task' = [task EXCEPT ![j] = NoTask] /\ UNCHANGED chatOf
    /\ UNCHANGED <<up, agent, lives, rows, entries, timer, due, fire, client, del, chats, history,
                   counters, served>>

\* then the row, whether or not the job is still there.
TaskSave(j) ==
    /\ task[j].pc = "save"
    /\ chatOf' = [chatOf EXCEPT ![j] = task[j].chat]
    /\ rows' = [rows EXCEPT ![j] = task[j].chat]
    /\ task' = [task EXCEPT ![j] = NoTask]
    /\ UNCHANGED <<up, agent, lives, entries, timer, due, fire, client, del, chats, history,
                   counters, served>>

-----------------------------------------------------------------------------
(* The deletion of a chat: web DELETE, DeleteChat, ClearChatID.            *)

\* ClearCronJobChatID lists the jobs of the chat,
DeleteList(chat) ==
    /\ agent /\ del.pc = "idle" /\ chat \in chats
    /\ del' = [pc |-> "rows", chat |-> chat, left |-> {j \in Jobs : rows[j] = chat}]
    /\ UNCHANGED <<up, agent, lives, rows, mgrVars, due, fire, task, client, chats, history,
                   counters, served>>

\* and saves each of them without it.
DeleteLink(j) ==
    /\ del.pc = "rows" /\ j \in del.left
    /\ rows' = [rows EXCEPT ![j] = NoChat]
    /\ del' = [del EXCEPT !.left = @ \ {j}]
    /\ UNCHANGED <<up, agent, lives, mgrVars, due, fire, task, client, chats, history, counters,
                   served>>

DeleteChat ==
    /\ del.pc = "rows" /\ del.left = {}
    /\ chats' = chats \ {del.chat}
    /\ del' = [del EXCEPT !.pc = "memory"]
    /\ UNCHANGED <<up, agent, lives, rows, mgrVars, due, fire, task, client, history, counters,
                   served>>

ClearChatID ==
    /\ del.pc = "memory"
    /\ chatOf' = [j \in Jobs |-> IF j \in entries /\ chatOf[j] = del.chat THEN NoChat
                                 ELSE chatOf[j]]
    /\ del' = NoDel
    /\ UNCHANGED <<up, agent, lives, rows, entries, timer, due, fire, task, client, chats,
                   history, counters, served>>

-----------------------------------------------------------------------------
\* The process is down for good.
Over == ~up /\ lives = MaxLives /\ UNCHANGED vars

Next ==
    \/ Start \/ AgentReady \/ Down \/ DeleteChat \/ ClearChatID \/ Over
    \/ \E j \in Jobs :
          BecomeDue(j) \/ TimerFires(j) \/ CronFires(j) \/ FireRun(j) \/ FireDrop(j) \/ FireRow(j)
          \/ TaskStart(j) \/ TaskChat(j) \/ TaskLink(j) \/ TaskSave(j) \/ DeleteLink(j)
    \/ \E c \in Clients :
          \/ AddInsert(c) \/ AddSchedule(c) \/ AddUndo(c) \/ AddUndoRow(c)
          \/ \E j \in Jobs : Remove(c, j) \/ \E chat \in chats \cup {NoChat} : AddSave(c, j, chat)
    \/ \E chat \in Chats : DeleteList(chat)

Spec == Init /\ [][Next]_vars

\* Goroutines and timers go on.
Fairness ==
    /\ \A j \in Jobs : WF_vars(TimerFires(j)) /\ WF_vars(FireRun(j)) /\ WF_vars(FireDrop(j))
                       /\ WF_vars(FireRow(j))
    /\ \A c \in Clients : WF_vars(AddInsert(c)) /\ WF_vars(AddSchedule(c))
FairSpec == Spec /\ Fairness

-----------------------------------------------------------------------------
(* Properties.                                                             *)

\* Every variable has its type.
TypeOK ==
    /\ up \in BOOLEAN /\ agent \in BOOLEAN /\ lives \in 0..MaxLives
    /\ rows \in [Jobs -> Chats0 \cup {Absent}]
    /\ entries \subseteq Jobs /\ chatOf \in [Jobs -> Chats0]
    /\ timer \in [Jobs -> {"none", "timer", "cron"}] /\ due \subseteq Jobs
    /\ fire \in [Jobs -> {"none", "run", "drop", "row"}]
    /\ task \in [Jobs -> [pc : {"none", "start", "chat", "link", "save"}, chat : Chats0]]
    /\ client \in [Clients -> [pc : {"idle", "insert", "schedule", "undo", "undoRow"},
                               job : Jobs \cup {Absent}, chat : Chats0]]
    /\ del \in [pc : {"idle", "rows", "memory"}, chat : Chats0, left : SUBSET Jobs]
    /\ chats \subseteq Chats /\ used \subseteq Jobs /\ removed \subseteq Jobs
    /\ served \subseteq Jobs
    /\ calls \in [Jobs -> Nat] /\ lifeCalls \in [Jobs -> Nat]

\* A job that is listed is in the store: it would survive a crash, whatever
\* Add, Remove, fireAndRemove and the chat updates are doing (cron.go:131-140,
\* 275-284).
EntryHasRow == \A j \in entries : HasRow(j)

\* While the process lives a one-shot is run at most once, although a missed
\* one, a timer and a late Add may all call for it (cron.go:238-247).
OncePerLife == \A j \in OneShots : lifeCalls[j] <= 1

\* A job that is listed and can be scheduled will be called, is being run, or is
\* still being added: none is left behind (cron.go:91-97, 275-280).
ListedIsLive ==
    \A j \in entries \ Invalid :
        \/ timer[j] # "none" \/ fire[j] # "none"
        \/ \E c \in Clients : client[c].job = j

\* A one-shot leaves the store only when it has been run or removed, through
\* crashes and restarts (cron.go:270-285).
KeptUntilRun ==
    [][\A j \in OneShots : HasRow(j) /\ rows'[j] = Absent => calls[j] > 0 \/ j \in removed']_vars

\* A listed one-shot whose time has come is run, unless it is removed or the
\* process goes down (cron.go:227-249).
DueIsRun ==
    \A j \in OneShots :
        up /\ j \in entries \cap due ~> ~up \/ calls[j] > 0 \/ j \notin entries

-----------------------------------------------------------------------------
(* What comments promise and the code does not always keep: the README says *)
(* which steps break each of these.                                         *)

\* What will still be called is listed (cron.go:174).
ActiveIsListed == \A j \in Jobs : timer[j] # "none" => j \in entries

\* A removed job is not run (cron.go:153).
RemovedIsQuiet == [][\A j \in removed : calls'[j] = calls[j]]_vars

\* A removed job stays removed (api_cron.go:23).
RemovedIsGone == \A j \in removed : ~HasRow(j)

\* A one-shot is run once (stdlib/docs/cron.md:5).
RunsOnce == \A j \in OneShots : calls[j] <= 1

\* A missed one-shot is carried out (cron.go:115).
MissedIsServed == \A j \in OneShots : lifeCalls[j] > 0 /\ task[j].pc = "none" /\ up => j \in served

\* When a chat has been deleted no job refers to it (cron.go:287-288).
NoDeadChat == del.pc = "idle" => \A j \in entries : chatOf[j] \in chats \cup {NoChat}
=============================================================================
