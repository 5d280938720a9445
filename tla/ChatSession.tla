---------------------------- MODULE ChatSession ----------------------------
(***************************************************************************)
(* The web server's chat sessions: web/api_chat.go, the AskUser and        *)
(* bufferAndBroadcast functions of web/server.go, and rebuildAgent of      *)
(* web/api.go.                                                             *)
(*                                                                         *)
(* Every HTTP request is a goroutine (a member of Requests) that runs one  *)
(* handler at a time and interleaves with the others at the handler's      *)
(* unlocks.  A chat execution (a member of Runs) is the goroutine that     *)
(* Chat starts around agent.Send; the loop of Send itself is abstracted to *)
(* what the session sees of it: it drains the injected messages at the     *)
(* head of an iteration, asks the user, spawns a sub-agent that may        *)
(* outlive it, and returns.  AgentLoop models that loop in full.           *)
(***************************************************************************)
EXTENDS Naturals, Sequences, FiniteSets

CONSTANTS
    Chats,      \* chat IDs
    Sessions,   \* chatSession objects, allocated by getOrCreateSession
    Requests,   \* HTTP request goroutines
    Msgs,       \* messages that may be injected, each at most once
    MaxRuns,    \* bound on the number of executions started
    Ops,        \* the endpoints the environment uses (a bound on a run)
    Scripts,    \* what the executed code may do: "ask", "subagent"
    NoSession,  \* nil *chatSession
    NoChat      \* the chat of a session object not yet allocated

AllOps == {"chat", "stop", "inject", "answer", "clear", "rebuild"}

ASSUME MaxRunsAssumption == MaxRuns \in Nat
ASSUME OpsAssumption == Ops \subseteq AllOps
ASSUME ScriptsAssumption == Scripts \subseteq {"ask", "subagent"}
ASSUME NoSessionAssumption == NoSession \notin Sessions
ASSUME NoChatAssumption == NoChat \notin Chats \cup Msgs

Runs == 1..MaxRuns
NoRun == 0          \* a nil context or cancel function

\* The goroutines that can call AskUser: the execution and its sub-agent.
Askers == Runs \X {"main", "sub"}

VARIABLES
    chats,  \* Server.chats: chat -> session or NoSession
    sess,   \* the chatSession objects
    run,    \* the goroutines started by Chat
    asker,  \* where each Asker is inside AskUser
    req,    \* the HTTP request goroutines
    msg,    \* what became of each injected message
    db      \* persisted chat messages, per chat

vars == <<chats, sess, run, asker, req, msg, db>>

RunPcs == {"none", "spawn", "send", "loop", "work", "ask", "done", "error",
           "end", "ended"}
Live == RunPcs \ {"none", "ended"}

EventTypes == {"meta", "log", "ask", "pending_msg", "done", "error"}
Event == [type: EventTypes, run: Runs \cup {NoRun}]
Row == [kind: {"turn", "answer"}, id: Runs] \cup [kind: {"inject"}, id: Msgs]

Session == [chat: Chats \cup {NoChat}, running: BOOLEAN,
            ctx: Runs \cup {NoRun}, cancel: Runs \cup {NoRun},
            pending: Seq(Msgs), events: SUBSET Event]
Run == [sess: Sessions \cup {NoSession}, pc: RunPcs, cancelled: BOOLEAN,
        sub: {"none", "live", "ask", "gone"}]
Asker == [st: {"idle", "asked", "waiting", "unasked"},
          on: Sessions \cup {NoSession}, wait: Runs \cup {NoRun},
          shown: BOOLEAN]
ReqPcs == {"idle", "lookup", "build", "have", "spawn", "act", "cancel",
           "persist", "notify", "send", "wipe"}
Request == [op: AllOps, pc: ReqPcs, chat: Chats \cup {NoChat},
            sess: Sessions \cup {NoSession}, run: Runs \cup {NoRun},
            msg: Msgs \cup {NoChat}]
MsgState == [st: {"unsent", "sending", "queued", "delivered", "dropped",
                  "refused"},
             to: Runs \cup {NoRun}]

TypeOK ==
    /\ chats \in [Chats -> Sessions \cup {NoSession}]
    /\ sess \in [Sessions -> Session]
    /\ run \in [Runs -> Run]
    /\ asker \in [Askers -> Asker]
    /\ req \in [Requests -> Request]
    /\ msg \in [Msgs -> MsgState]
    /\ db \in [Chats -> Seq(Row)]

NilSession == [chat |-> NoChat, running |-> FALSE, ctx |-> NoRun,
               cancel |-> NoRun, pending |-> <<>>, events |-> {}]
IdleAsker == [st |-> "idle", on |-> NoSession, wait |-> NoRun, shown |-> FALSE]
IdleRequest == [op |-> "chat", pc |-> "idle", chat |-> NoChat,
                sess |-> NoSession, run |-> NoRun, msg |-> NoChat]

Init ==
    /\ chats = [c \in Chats |-> NoSession]
    /\ sess = [s \in Sessions |-> NilSession]
    /\ run = [r \in Runs |-> [sess |-> NoSession, pc |-> "none",
                              cancelled |-> FALSE, sub |-> "none"]]
    /\ asker = [a \in Askers |-> IdleAsker]
    /\ req = [q \in Requests |-> IdleRequest]
    /\ msg = [m \in Msgs |-> [st |-> "unsent", to |-> NoRun]]
    /\ db = [c \in Chats |-> <<>>]

-----------------------------------------------------------------------------
(* Helpers.                                                                *)

ChatOf(r) == sess[run[r].sess].chat

\* bufferAndBroadcast drops everything but done, error and meta once the
\* session has stopped.
Accepts(s, type) == sess[s].running \/ type \in {"done", "error", "meta"}

\* bufferAndBroadcast: record for replay under sess.mu.  What is recorded is
\* what is broadcast, so the SSE hub needs no state of its own here.
BufferAndBroadcast(s, type, r) ==
    sess' = IF Accepts(s, type)
            THEN [sess EXCEPT ![s].events = @ \cup {[type |-> type, run |-> r]}]
            ELSE sess

\* What Chat tests, and Inject tests, under sess.mu.  The variants drop the test.
ClaimableUnchecked(s) == TRUE
Claimable(s) == ~sess[s].running
InjectableUnchecked(s) == TRUE
Injectable(s) == sess[s].running

\* The session once its execution is over; the variant keeps its replay buffer.
ReleasedKeepingEvents(s) == [sess[s] EXCEPT !.running = FALSE, !.cancel = NoRun,
                                            !.pending = <<>>]
Released(s) == [sess[s] EXCEPT !.running = FALSE, !.cancel = NoRun,
                               !.events = {}, !.pending = <<>>]

\* Server.chats after getOrCreateSession.
Registered(c, s) == [chats EXCEPT ![c] = s]

\* The ctx.Done() arm of AskUser's select.
AskInterrupted(a) == run[asker[a].wait].cancelled

\* The check at the head of an iteration; the variant leaves it out.
GoesOnRegardless(r) == TRUE
GoesOn(r) == ~run[r].cancelled

SetPc(q, pc) == req' = [req EXCEPT ![q].pc = pc]
Finish(q) == req' = [req EXCEPT ![q] = IdleRequest]
AddRow(c, kind, id) == db' = [db EXCEPT ![c] = Append(@, [kind |-> kind, id |-> id])]

\* A write with an execution's context may fail once that is cancelled.
AddRowIn(r, kind) ==
    \/ AddRow(ChatOf(r), kind, r)
    \/ run[r].cancelled /\ UNCHANGED db

-----------------------------------------------------------------------------
(* A request arrives and looks its session up under server.mu.             *)

\* The bound MaxRuns: no more chat requests than there are executions left.
RunsLeft ==
    Cardinality({q \in Requests : req[q].pc # "idle" /\ req[q].op = "chat"})
      < Cardinality({r \in Runs : run[r].pc = "none"})

\* Every endpoint but rebuildAgent names a chat; an inject names a message.
Arrive(q, op, c) ==
    /\ req[q].pc = "idle"
    /\ op \in Ops \ {"rebuild"}
    /\ op = "chat" => RunsLeft
    /\ IF op = "inject"
       THEN \E m \in Msgs :
              /\ msg[m].st = "unsent"
              /\ msg' = [msg EXCEPT ![m].st = "sending"]
              /\ req' = [req EXCEPT ![q] = [IdleRequest EXCEPT !.op = op,
                            !.pc = "lookup", !.chat = c, !.msg = m]]
       ELSE /\ req' = [req EXCEPT ![q] = [IdleRequest EXCEPT !.op = op,
                            !.pc = "lookup", !.chat = c]]
            /\ UNCHANGED msg
    /\ UNCHANGED <<chats, sess, run, asker, db>>

\* getOrCreateSession, first critical section: the session, or none yet.
ChatLookup(q) ==
    /\ req[q].op = "chat" /\ req[q].pc = "lookup"
    /\ LET s == chats[req[q].chat]
       IN  req' = [req EXCEPT ![q].sess = s,
                              ![q].pc = IF s = NoSession THEN "build" ELSE "have"]
    /\ UNCHANGED <<chats, sess, run, asker, msg, db>>

\* getOrCreateSession after the unlock: build an agent (or fail), then store
\* the new session over whatever is in the map by now.
CreateSession(q) ==
    /\ req[q].pc = "build"
    /\ \E s \in {t \in Sessions : sess[t].chat = NoChat} :
         /\ sess' = [sess EXCEPT ![s].chat = req[q].chat]
         /\ chats' = Registered(req[q].chat, s)
         /\ req' = [req EXCEPT ![q].sess = s, ![q].pc = "have"]
    /\ UNCHANGED <<run, asker, msg, db>>

NewAgentFails(q) ==
    /\ req[q].pc = "build"
    /\ Finish(q)
    /\ UNCHANGED <<chats, sess, run, asker, msg, db>>

\* Chat under sess.mu: "already_running", or claim the session for a new run.
AlreadyRunning(q) ==
    /\ req[q].pc = "have"
    /\ ~Claimable(req[q].sess)
    /\ Finish(q)
    /\ UNCHANGED <<chats, sess, run, asker, msg, db>>

ClaimSession(q) ==
    /\ req[q].pc = "have"
    /\ Claimable(req[q].sess)
    /\ \E r \in Runs :
         /\ run[r].pc = "none"
         /\ \A r2 \in Runs : r2 < r => run[r2].pc # "none"
         /\ run' = [run EXCEPT ![r].sess = req[q].sess, ![r].pc = "spawn"]
         /\ sess' = [sess EXCEPT ![req[q].sess].running = TRUE,
                                 ![req[q].sess].events = {},
                                 ![req[q].sess].pending = <<>>,
                                 ![req[q].sess].cancel = r,
                                 ![req[q].sess].ctx = r]
         /\ req' = [req EXCEPT ![q].pc = "spawn", ![q].run = r]
    /\ UNCHANGED <<chats, asker, msg, db>>

\* Chat after the unlock: broadcast meta, set the agent's callbacks, go.
SpawnRun(q) ==
    /\ req[q].pc = "spawn"
    /\ run' = [run EXCEPT ![req[q].run].pc = "send"]
    /\ BufferAndBroadcast(req[q].sess, "meta", req[q].run)
    /\ Finish(q)
    /\ UNCHANGED <<chats, asker, msg, db>>

-----------------------------------------------------------------------------
(* The execution: agent.Send as the session sees it, and its epilogue.     *)

\* Send persists the user message; a rate limit or a daily cap ends the turn.
SendBegin(r) ==
    /\ run[r].pc = "send"
    /\ \E pc \in {"loop", "error"} : run' = [run EXCEPT ![r].pc = pc]
    /\ AddRowIn(r, "turn")
    /\ UNCHANGED <<chats, sess, asker, req, msg>>

\* handleStop persists "Stopped by user." and returns.
HandleStop(r) ==
    /\ run[r].pc \in {"loop", "work"}
    /\ run[r].cancelled
    /\ run' = [run EXCEPT ![r].pc = "done"]
    /\ AddRow(ChatOf(r), "answer", r)
    /\ UNCHANGED <<chats, sess, asker, req, msg>>

\* Head of an iteration: ag.PendingMsgs takes the queue under sess.mu.
Drain(r) ==
    LET s == run[r].sess
        taken == {sess[s].pending[i] : i \in 1..Len(sess[s].pending)}
    IN  /\ run[r].pc = "loop"
        /\ GoesOn(r)
        /\ msg' = [m \in Msgs |-> IF m \in taken
                                  THEN [st |-> "delivered", to |-> r]
                                  ELSE msg[m]]
        /\ sess' = [sess EXCEPT ![s].pending = <<>>]
        /\ run' = [run EXCEPT ![r].pc = "work"]
        /\ UNCHANGED <<chats, asker, req, db>>

\* The provider's answer has code: execute it and go round again.
NextIteration(r) ==
    /\ run[r].pc = "work"
    /\ run' = [run EXCEPT ![r].pc = "loop"]
    /\ UNCHANGED <<chats, sess, asker, req, msg, db>>

\* The code calls agent.run and never waits for the result.
SpawnSubAgent(r) ==
    /\ "subagent" \in Scripts
    /\ run[r].pc = "work"
    /\ run[r].sub = "none"
    /\ run' = [run EXCEPT ![r].sub = "live"]
    /\ UNCHANGED <<chats, sess, asker, req, msg, db>>

\* The provider's answer has no code (or iterations ran out): the turn ends.
FinalAnswer(r) ==
    /\ run[r].pc = "work"
    /\ run' = [run EXCEPT ![r].pc = "done"]
    /\ AddRowIn(r, "answer")
    /\ UNCHANGED <<chats, sess, asker, req, msg>>

\* The provider fails three times: Send returns the error.
ProviderError(r) ==
    /\ run[r].pc = "work"
    /\ ~run[r].cancelled
    /\ run' = [run EXCEPT ![r].pc = "error"]
    /\ UNCHANGED <<chats, sess, asker, req, msg, db>>

\* Send has returned: broadcast done or error.
BroadcastEnd(r) ==
    /\ run[r].pc \in {"done", "error"}
    /\ run' = [run EXCEPT ![r].pc = "end"]
    /\ BufferAndBroadcast(run[r].sess, run[r].pc, r)
    /\ UNCHANGED <<chats, asker, req, msg, db>>

\* The last critical section: release the session, discard what is pending.
EndRun(r) ==
    LET s == run[r].sess
        lost == {sess[s].pending[i] : i \in 1..Len(sess[s].pending)}
    IN  /\ run[r].pc = "end"
        /\ run' = [run EXCEPT ![r].pc = "ended"]
        /\ sess' = [sess EXCEPT ![s] = Released(s)]
        /\ msg' = [m \in Msgs |-> IF m \in lost
                                  THEN [msg[m] EXCEPT !.st = "dropped"]
                                  ELSE msg[m]]
        /\ UNCHANGED <<chats, asker, req, db>>

\* A sub-agent logs through the OnLog closure of the run that spawned it.
SubAgentLog(r) ==
    /\ run[r].sub = "live"
    /\ BufferAndBroadcast(run[r].sess, "log", r)
    /\ UNCHANGED <<chats, run, asker, req, msg, db>>

SubAgentReturns(r) ==
    /\ run[r].sub = "live"
    /\ run' = [run EXCEPT ![r].sub = "gone"]
    /\ UNCHANGED <<chats, sess, asker, req, msg, db>>

-----------------------------------------------------------------------------
(* AskUser and ConfirmUser, called from an execution or its sub-agent.     *)

CanAsk(a) ==
    /\ "ask" \in Scripts
    /\ \/ a[2] = "main" /\ run[a[1]].pc = "work"
       \/ a[2] = "sub" /\ run[a[1]].sub = "live"

\* The caller of AskUser is suspended in it.
SetAsking(a, asking) ==
    run' = IF a[2] = "main"
           THEN [run EXCEPT ![a[1]].pc = IF asking THEN "ask" ELSE "work"]
           ELSE [run EXCEPT ![a[1]].sub = IF asking THEN "ask" ELSE "live"]

\* No session is registered for the chat: the call returns at once.
AskNobody(a) ==
    /\ CanAsk(a)
    /\ chats[ChatOf(a[1])] = NoSession
    /\ asker' = [asker EXCEPT ![a] = [IdleAsker EXCEPT !.st = "unasked"]]
    /\ UNCHANGED <<chats, sess, run, req, msg, db>>

\* Look the chat's session up (it need not be the caller's) and show the
\* question, unless bufferAndBroadcast drops it.
Ask(a) ==
    LET s == chats[ChatOf(a[1])]
    IN  /\ CanAsk(a)
        /\ s # NoSession
        /\ SetAsking(a, TRUE)
        /\ asker' = [asker EXCEPT ![a] = [IdleAsker EXCEPT !.st = "asked",
                        !.on = s, !.shown = Accepts(s, "ask")]]
        /\ BufferAndBroadcast(s, "ask", a[1])
        /\ UNCHANGED <<chats, req, msg, db>>

\* Enter the select: sess.ctx is read now.  A session that was never started
\* has a nil context; the nil dereference becomes a JS error of the caller.
AwaitAnswer(a) ==
    LET ctx == sess[asker[a].on].ctx
    IN  /\ asker[a].st = "asked"
        /\ IF ctx = NoRun
           THEN /\ asker' = [asker EXCEPT ![a] = [IdleAsker EXCEPT !.st = "unasked"]]
                /\ SetAsking(a, FALSE)
           ELSE /\ asker' = [asker EXCEPT ![a].st = "waiting", ![a].wait = ctx]
                /\ UNCHANGED run
        /\ UNCHANGED <<chats, sess, req, msg, db>>

\* The awaited context is cancelled.
AskCancelled(a) ==
    /\ asker[a].st = "waiting"
    /\ AskInterrupted(a)
    /\ asker' = [asker EXCEPT ![a] = IdleAsker]
    /\ SetAsking(a, FALSE)
    /\ UNCHANGED <<chats, sess, req, msg, db>>

-----------------------------------------------------------------------------
(* Stop, Chats_0_Inject, Chats_0_Answer, Chats_0_Clear, DELETE, rebuild.    *)

\* The first critical section of Stop, Inject and Answer; 404 when missing.
Lookup(q) ==
    LET s == chats[req[q].chat]
    IN  /\ req[q].op \in {"stop", "inject", "answer"}
        /\ req[q].pc = "lookup"
        /\ IF s = NoSession
           THEN /\ Finish(q)
                /\ msg' = [m \in Msgs |-> IF m = req[q].msg
                                          THEN [msg[m] EXCEPT !.st = "refused"]
                                          ELSE msg[m]]
           ELSE /\ req' = [req EXCEPT ![q].sess = s, ![q].pc = "act"]
                /\ UNCHANGED msg
        /\ UNCHANGED <<chats, sess, run, asker, db>>

\* Stop reads sess.cancel twice and without a lock: finds it not nil ...
StopCheck(q) ==
    /\ req[q].op = "stop" /\ req[q].pc = "act"
    /\ IF sess[req[q].sess].cancel = NoRun THEN Finish(q) ELSE SetPc(q, "cancel")
    /\ UNCHANGED <<chats, sess, run, asker, msg, db>>

\* ... and calls what is there by now.  A nil function panics, and net/http ends
\* the request.
Stop(q) ==
    LET r == sess[req[q].sess].cancel
    IN  /\ req[q].pc = "cancel"
        /\ run' = IF r = NoRun THEN run
                  ELSE [run EXCEPT ![r].cancelled = TRUE]
        /\ Finish(q)
        /\ UNCHANGED <<chats, sess, asker, msg, db>>

\* Inject under sess.mu: queue while running, else 409.
InjectQueue(q) ==
    LET m == req[q].msg
        s == req[q].sess
    IN  /\ req[q].op = "inject" /\ req[q].pc = "act"
        /\ IF Injectable(s)
           THEN /\ sess' = [sess EXCEPT ![s].pending = Append(@, m)]
                /\ msg' = [msg EXCEPT ![m].st = "queued"]
                /\ req' = [req EXCEPT ![q].pc = "persist", ![q].run = sess[s].ctx]
           ELSE /\ msg' = [msg EXCEPT ![m].st = "refused"]
                /\ Finish(q)
                /\ UNCHANGED sess
        /\ UNCHANGED <<chats, run, asker, db>>

InjectPersist(q) ==
    /\ req[q].pc = "persist"
    /\ AddRow(req[q].chat, "inject", req[q].msg)
    /\ SetPc(q, "notify")
    /\ UNCHANGED <<chats, sess, run, asker, msg>>

InjectNotify(q) ==
    /\ req[q].pc = "notify"
    /\ BufferAndBroadcast(req[q].sess, "pending_msg", req[q].run)
    /\ Finish(q)
    /\ UNCHANGED <<chats, run, asker, msg, db>>

\* Answer reads running under sess.mu ...
AnswerCheck(q) ==
    /\ req[q].op = "answer" /\ req[q].pc = "act"
    /\ IF sess[req[q].sess].running THEN SetPc(q, "send") ELSE Finish(q)
    /\ UNCHANGED <<chats, sess, run, asker, msg, db>>

\* ... and then sends without blocking on askChan: some waiting asker of the
\* session receives, or there is none and the answer is refused.
AnswerSend(q) ==
    LET waiting == {a \in Askers : /\ asker[a].st = "waiting"
                                   /\ asker[a].on = req[q].sess}
    IN  /\ req[q].pc = "send"
        /\ \/ \E a \in waiting :
                /\ asker' = [asker EXCEPT ![a] = IdleAsker]
                /\ SetAsking(a, FALSE)
           \/ /\ waiting = {}
              /\ UNCHANGED <<asker, run>>
        /\ Finish(q)
        /\ UNCHANGED <<chats, sess, msg, db>>

\* Clear and DELETE drop the session from the map, running or not ...
DropSession(q) ==
    /\ req[q].op = "clear" /\ req[q].pc = "lookup"
    /\ chats' = [chats EXCEPT ![req[q].chat] = NoSession]
    /\ SetPc(q, "wipe")
    /\ UNCHANGED <<sess, run, asker, msg, db>>

\* ... and then delete the chat's persisted messages.
WipeMessages(q) ==
    /\ req[q].pc = "wipe"
    /\ db' = [db EXCEPT ![req[q].chat] = <<>>]
    /\ Finish(q)
    /\ UNCHANGED <<chats, sess, run, asker, msg>>

\* rebuildAgent forgets every session, running or not.
RebuildAgent ==
    /\ "rebuild" \in Ops
    /\ chats' = [c \in Chats |-> NoSession]
    /\ UNCHANGED <<sess, run, asker, req, msg, db>>

-----------------------------------------------------------------------------
RequestStep(q) ==
    \/ ChatLookup(q) \/ CreateSession(q) \/ NewAgentFails(q)
    \/ AlreadyRunning(q) \/ ClaimSession(q) \/ SpawnRun(q)
    \/ Lookup(q) \/ StopCheck(q) \/ Stop(q)
    \/ InjectQueue(q) \/ InjectPersist(q) \/ InjectNotify(q)
    \/ AnswerCheck(q) \/ AnswerSend(q)
    \/ DropSession(q) \/ WipeMessages(q)

\* The steps of an execution that do not depend on the provider's answer.
RunProgress(r) ==
    \/ SendBegin(r) \/ HandleStop(r) \/ Drain(r)
    \/ NextIteration(r) \/ FinalAnswer(r) \/ ProviderError(r)
    \/ BroadcastEnd(r) \/ EndRun(r)

AskStep(a) == AskNobody(a) \/ Ask(a) \/ AwaitAnswer(a) \/ AskCancelled(a)

SubAgentStep(r) == SpawnSubAgent(r) \/ SubAgentLog(r) \/ SubAgentReturns(r)

Next ==
    \/ \E q \in Requests, op \in AllOps, c \in Chats : Arrive(q, op, c)
    \/ \E q \in Requests : RequestStep(q)
    \/ \E r \in Runs : RunProgress(r) \/ SubAgentStep(r)
    \/ \E a \in Askers : AskStep(a)
    \/ RebuildAgent

Spec == Init /\ [][Next]_vars

\* Goroutines that can run do run.  A provider call is bounded by its 120 s
\* timeout and a block of code by the agent's timeout, after which the engine
\* interrupts the VM: an execution that comes back to "work" again and again
\* (asking, being answered) does move on, hence the strong fairness.  Nothing
\* is assumed of the user: no request need arrive, no question be answered.
Fairness ==
    /\ \A q \in Requests : WF_vars(RequestStep(q))
    /\ \A r \in Runs : SF_vars(RunProgress(r))
    /\ \A a \in Askers : WF_vars(AwaitAnswer(a) \/ AskCancelled(a))

FairSpec == Spec /\ Fairness

-----------------------------------------------------------------------------
(* Properties.                                                             *)

LiveOn(s) == {r \in Runs : run[r].sess = s /\ run[r].pc \in Live}
Pending(s) == {sess[s].pending[i] : i \in DOMAIN sess[s].pending}

\* A session is marked running exactly while one execution uses it, and that
\* execution's context is the one Stop will cancel (Chat claims under sess.mu,
\* the epilogue releases under it).
RunningMeansOneRun ==
    \A s \in Sessions :
      /\ sess[s].running <=> LiveOn(s) # {}
      /\ \A r \in LiveOn(s) : sess[s].cancel = r /\ sess[s].ctx = r

\* A registered session belongs to its chat.
SessionsBound ==
    \A c \in Chats : chats[c] # NoSession => sess[chats[c]].chat = c

\* A started execution works for an allocated session.
RunsBound ==
    \A r \in Runs :
      /\ run[r].pc # "none" => run[r].sess \in Sessions /\ ChatOf(r) \in Chats
      /\ run[r].sub # "none" => run[r].pc # "none"

\* A request past its lookup holds an allocated session, an inject its message,
\* and a Chat about to start its execution an execution of its own.
RequestsBound ==
    \A q \in Requests :
      /\ req[q].pc # "idle" => req[q].chat \in Chats
      /\ req[q].pc \in {"have", "spawn", "act", "cancel", "persist", "notify", "send"}
           => req[q].sess \in Sessions /\ sess[req[q].sess].chat \in Chats
      /\ (req[q].op = "inject" /\ req[q].pc # "idle") => req[q].msg \in Msgs
      /\ req[q].pc \in {"persist", "notify"} => req[q].op = "inject"
      /\ req[q].pc = "spawn" => /\ req[q].run \in Runs
                                /\ run[req[q].run].pc = "spawn"
                                /\ run[req[q].run].sess = req[q].sess

SpawnsApart ==
    \A q1, q2 \in Requests :
      (req[q1].pc = "spawn" /\ req[q2].pc = "spawn" /\ q1 # q2)
        => req[q1].run # req[q2].run

\* Whoever is inside AskUser is suspended there, on a session and a context.
AskersBound ==
    \A a \in Askers : asker[a].st \in {"asked", "waiting"} =>
      /\ asker[a].on \in Sessions
      /\ asker[a].st = "waiting" => asker[a].wait \in Runs
      /\ a[2] = "main" => run[a[1]].pc = "ask"
      /\ a[2] = "sub" => run[a[1]].sub = "ask"

\* What ties the goroutines together across Chat's unlocks: no request starts
\* an execution that another one started or that has moved on, no goroutine
\* works with a session that was never allocated, nobody waits for an answer
\* while it runs on.
Bindings ==
    SessionsBound /\ RunsBound /\ RequestsBound /\ SpawnsApart /\ AskersBound

\* An accepted message waits in exactly one queue, of a running session, and
\* in it once; one already given to an agent waits nowhere (Inject against
\* PendingMsgs and the epilogue).
QueuedOnce ==
    /\ \A s \in Sessions :
         /\ sess[s].pending # <<>> => sess[s].running
         /\ \A i, j \in DOMAIN sess[s].pending :
              sess[s].pending[i] = sess[s].pending[j] => i = j
    /\ \A m \in Msgs :
         msg[m].st = "queued" <=>
           \E s \in Sessions : /\ m \in Pending(s)
                               /\ \A t \in Sessions \ {s} : m \notin Pending(t)

\* What ChatStatus replays to a browser that reconnects never begins or ends
\* an execution other than the one in progress.
ReplayIsOfThisRun ==
    \A s \in Sessions : \A e \in sess[s].events :
      e.type \in {"meta", "done", "error"} => sess[s].running /\ e.run = sess[s].ctx

\* Two executions never work on one chat at a time ("already_running").
OneRunPerChat ==
    \A r1, r2 \in Runs :
      (run[r1].pc \in Live /\ run[r2].pc \in Live /\ ChatOf(r1) = ChatOf(r2)) => r1 = r2

\* ui.ask never comes back without an answer or a cancellation: "blocks until
\* answered or execution cancels" (AskUser).
AskBlocks == \A a \in Askers : asker[a].st # "unasked"

\* An execution that waits for the user's answer had its question shown to the
\* user.  (Its sub-agent's question may be dropped: the README says when.)
WaiterWasShown ==
    \A r \in Runs : LET a == <<r, "main">> IN asker[a].st = "waiting" => asker[a].shown

\* A cancelled execution comes to its end and releases its session, also when
\* it is blocked in ui.ask, as long as its session is the chat's.
CancelledEnds ==
    \A r \in Runs : run[r].cancelled ~> (run[r].pc = "ended" \/ \A c \in Chats : chats[c] # run[r].sess)

-----------------------------------------------------------------------------
(* What comments promise and the code does not always keep: the README says *)
(* which steps break each of these.                                         *)

\* A message accepted with "queued" "will be picked up by the agent at the
\* start of its next loop iteration" (Chats_0_Inject): it is never discarded.
InjectPickedUp == \A m \in Msgs : msg[m].st # "dropped"

\* A message is persisted "immediately so it appears in correct order" (Inject):
\* before the answer of the execution that took it into account.
InjectedBeforeAnswer ==
    \A m \in Msgs, c \in Chats : \A j \in DOMAIN db[c] :
      (msg[m].st = "delivered" /\ db[c][j] = [kind |-> "answer", id |-> msg[m].to])
        => \E i \in 1..(j - 1) : db[c][i] = [kind |-> "inject", id |-> m]

\* "Stop cancels a specific chat execution": when it reports "stopped", every
\* execution of the chat that had started is cancelled.
StopCancels ==
    [][\A q \in Requests :
         (req[q].op = "stop" /\ req[q].pc # "idle" /\ req'[q].pc = "idle")
           => \A r \in Runs :
                (run[r].pc \in Live \ {"spawn"} /\ ChatOf(r) = req[q].chat)
                  => run'[r].cancelled]_vars

\* The cancel function that Stop has found not nil ("sess.cancel != nil") is still
\* there when it calls it.
StopFindsCancel ==
    \A q \in Requests : req[q].pc = "cancel" => sess[req[q].sess].cancel # NoRun

\* "Skips events after the session has stopped to prevent stray sub-agent logs
\* from reaching the frontend" (bufferAndBroadcast): no log of an execution
\* reaches the hub once that execution is over.
NoStrayLogs ==
    \A s \in Sessions : \A e \in sess[s].events :
      e.type = "log" => run[e.run].pc # "ended"
=============================================================================
