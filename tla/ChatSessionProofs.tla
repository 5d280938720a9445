------------------------- MODULE ChatSessionProofs -------------------------
(* Proofs about ChatSession, for any number of chats, sessions, requests,  *)
(* messages and executions.                                                *)
EXTENDS ChatTurns, FiniteSetTheorems, TLAPS

USE MaxRunsAssumption, OpsAssumption, ScriptsAssumption, NoSessionAssumption,
    NoChatAssumption

IInv == TypeOK /\ Bindings /\ RunningMeansOneRun

LEMMA RunsAreNotNoRun == NoRun \notin Runs
  BY DEF NoRun, Runs

LEMMA InitIInv == Init => IInv
  BY RunsAreNotNoRun DEF Init, IInv, TypeOK, Bindings, SessionsBound, RunsBound,
      RequestsBound, SpawnsApart,
     AskersBound, RunningMeansOneRun, NilSession,
     IdleAsker, IdleRequest, Session, Run, Asker, Request, MsgState, Event, Row, Runs,
         NoRun,
     Askers, RunPcs, Live, ReqPcs, AllOps, LiveOn, ChatOf, EventTypes

-----------------------------------------------------------------------------
(* What the helpers do to the types of the variables they change.          *)

LEMMA Elements ==
  ASSUME TypeOK
  PROVE  /\ \A s \in Sessions : sess[s] \in Session
         /\ \A r \in Runs : run[r] \in Run
         /\ \A a \in Askers : asker[a] \in Asker
         /\ \A q \in Requests : req[q] \in Request
         /\ \A m \in Msgs : msg[m] \in MsgState
  BY DEF TypeOK

LEMMA FinishType ==
  ASSUME TypeOK, NEW q \in Requests, Finish(q)
  PROVE  req' \in [Requests -> Request]
  BY DEF TypeOK, Finish, IdleRequest, Request, AllOps, ReqPcs

LEMMA SetPcType ==
  ASSUME TypeOK, NEW q \in Requests, NEW pc \in ReqPcs, SetPc(q, pc)
  PROVE  req' \in [Requests -> Request]
  <1>1. [req[q] EXCEPT !.pc = pc] \in Request
    BY Elements DEF Request
  <1>2. req' = [req EXCEPT ![q] = [req[q] EXCEPT !.pc = pc]]
    BY DEF SetPc
  <1> QED
    BY <1>1, <1>2 DEF TypeOK

LEMMA RunPcType ==
  ASSUME TypeOK, NEW r \in Runs, NEW pc \in RunPcs
  PROVE  [run EXCEPT ![r].pc = pc] \in [Runs -> Run]
  <1>1. [run[r] EXCEPT !.pc = pc] \in Run
    BY Elements DEF Run
  <1>2. [run EXCEPT ![r] = [run[r] EXCEPT !.pc = pc]] \in [Runs -> Run]
    BY <1>1 DEF TypeOK
  <1> QED
    BY <1>2

LEMMA RunSubType ==
  ASSUME TypeOK, NEW r \in Runs, NEW sub \in {"none", "live", "ask", "gone"}
  PROVE  [run EXCEPT ![r].sub = sub] \in [Runs -> Run]
  <1>1. [run[r] EXCEPT !.sub = sub] \in Run
    BY Elements DEF Run
  <1>2. [run EXCEPT ![r] = [run[r] EXCEPT !.sub = sub]] \in [Runs -> Run]
    BY <1>1 DEF TypeOK
  <1> QED
    BY <1>2

LEMMA SetAskingType ==
  ASSUME TypeOK, NEW a \in Askers, NEW asking \in BOOLEAN, SetAsking(a, asking)
  PROVE  run' \in [Runs -> Run]
  <1>1. a[1] \in Runs
    BY DEF Askers
  <1> QED
    BY <1>1, RunPcType, RunSubType DEF SetAsking, RunPcs, TypeOK

LEMMA BroadcastType ==
  ASSUME TypeOK, NEW s \in Sessions, NEW type \in EventTypes,
         NEW r \in Runs \cup {NoRun}, BufferAndBroadcast(s, type, r)
  PROVE  sess' \in [Sessions -> Session]
  <1>1. [type |-> type, run |-> r] \in Event
    BY DEF Event
  <1>2. PICK e \in Event : e = [type |-> type, run |-> r]
    BY <1>1
  <1>3. sess[s].events \cup {e} \in SUBSET Event
    BY Elements DEF Session
  <1>4. [sess[s] EXCEPT !.events = @ \cup {e}] \in Session
    BY <1>3, Elements DEF Session
  <1>5. sess' = [sess EXCEPT ![s] = [sess[s] EXCEPT !.events = @ \cup {e}]] \/ sess' = sess
    BY <1>2 DEF BufferAndBroadcast
  <1> QED
    BY <1>4, <1>5 DEF TypeOK

LEMMA EmptyQueues ==
  /\ <<>> \in Seq(Msgs) /\ <<>> \in Seq(Row)
  /\ {} \in SUBSET Event
  OBVIOUS

LEMMA SetPendingType ==
  ASSUME TypeOK, NEW s \in Sessions, NEW p \in Seq(Msgs)
  PROVE  [sess EXCEPT ![s].pending = p] \in [Sessions -> Session]
  <1>1. [sess[s] EXCEPT !.pending = p] \in Session
    BY Elements DEF Session
  <1>2. [sess EXCEPT ![s] = [sess[s] EXCEPT !.pending = p]] \in [Sessions -> Session]
    BY <1>1 DEF TypeOK
  <1> QED
    BY <1>2

LEMMA AddRowType ==
  ASSUME TypeOK, NEW c \in Chats, NEW kind, NEW id,
         [kind |-> kind, id |-> id] \in Row, AddRow(c, kind, id)
  PROVE  db' \in [Chats -> Seq(Row)]
  BY DEF TypeOK, AddRow

LEMMA RowsOfRuns ==
  ASSUME NEW r \in Runs
  PROVE  /\ [kind |-> "turn", id |-> r] \in Row
         /\ [kind |-> "answer", id |-> r] \in Row
  BY DEF Row

LEMMA IdleAskerType ==
  ASSUME TypeOK, NEW a \in Askers, NEW st \in {"idle", "unasked"}
  PROVE  /\ [asker EXCEPT ![a] = IdleAsker] \in [Askers -> Asker]
         /\ [asker EXCEPT ![a] = [IdleAsker EXCEPT !.st = st]] \in [Askers -> Asker]
  BY DEF TypeOK, IdleAsker, Asker

\* An execution that has started belongs to an allocated session of a chat.
LEMMA StartedRun ==
  ASSUME TypeOK, Bindings, NEW r \in Runs, run[r].pc # "none" \/ run[r].sub # "none"
  PROVE  run[r].sess \in Sessions /\ ChatOf(r) \in Chats /\ run[r].pc # "none"
  BY DEF Bindings, RunsBound

-----------------------------------------------------------------------------
(* Every step preserves the types.                                         *)

LEMMA TypeStep == IInv /\ [Next]_vars => TypeOK'
  <1> SUFFICES ASSUME TypeOK, Bindings, [Next]_vars
               PROVE  TypeOK'
    BY DEF IInv
  <1>1. ASSUME NEW q \in Requests, NEW op \in AllOps, NEW c \in Chats, Arrive(q, op, c)
        PROVE  TypeOK'
    <2>1. /\ req[q].pc = "idle"
          /\ UNCHANGED <<chats, sess, run, asker, db>>
      BY <1>1 DEF Arrive
    <2>2. CASE op = "inject"
      <3>1. PICK m \in Msgs :
              /\ msg' = [msg EXCEPT ![m].st = "sending"]
              /\ req' = [req EXCEPT ![q] = [IdleRequest EXCEPT !.op = op,
                            !.pc = "lookup", !.chat = c, !.msg = m]]
        BY <1>1, <2>2 DEF Arrive
      <3>2. [IdleRequest EXCEPT !.op = op, !.pc = "lookup", !.chat = c, !.msg = m] \in
          Request
        BY DEF IdleRequest, Request, ReqPcs
      <3>3. [msg[m] EXCEPT !.st = "sending"] \in MsgState
        BY Elements DEF MsgState
      <3> QED
        BY <2>1, <3>1, <3>2, <3>3 DEF TypeOK
    <2>3. CASE op # "inject"
      <3>1. [IdleRequest EXCEPT !.op = op, !.pc = "lookup", !.chat = c] \in Request
        BY DEF IdleRequest, Request, ReqPcs
      <3> QED
        BY <1>1, <2>1, <2>3, <3>1 DEF Arrive, TypeOK
    <2> QED
      BY <2>2, <2>3
  <1>2. ASSUME NEW q \in Requests, ChatLookup(q)
        PROVE  TypeOK'
    <2>1. chats[req[q].chat] \in Sessions \cup {NoSession}
      BY <1>2 DEF TypeOK, Bindings, RequestsBound, ChatLookup
    <2>2. req' \in [Requests -> Request]
      BY <1>2, <2>1 DEF ChatLookup, TypeOK, Request, ReqPcs
    <2> QED
      BY <1>2, <2>2 DEF ChatLookup, TypeOK
  <1>3. ASSUME NEW q \in Requests, CreateSession(q)
        PROVE  TypeOK'
    <2>1. req[q].chat \in Chats
      BY <1>3 DEF TypeOK, Bindings, RequestsBound, CreateSession
    <2>2. PICK s \in Sessions :
            /\ sess' = [sess EXCEPT ![s].chat = req[q].chat]
            /\ chats' = [chats EXCEPT ![req[q].chat] = s]
            /\ req' = [req EXCEPT ![q].sess = s, ![q].pc = "have"]
      BY <1>3 DEF CreateSession, Registered
    <2>3. [req[q] EXCEPT !.sess = s, !.pc = "have"] \in Request
      BY Elements DEF Request, ReqPcs
    <2>4. [sess[s] EXCEPT !.chat = req[q].chat] \in Session
      BY <2>1, Elements DEF Session
    <2> QED
      BY <1>3, <2>1, <2>2, <2>3, <2>4 DEF CreateSession, TypeOK
  <1>4. ASSUME NEW q \in Requests, NewAgentFails(q)
        PROVE  TypeOK'
    BY <1>4, FinishType DEF NewAgentFails, TypeOK
  <1>5. ASSUME NEW q \in Requests, AlreadyRunning(q)
        PROVE  TypeOK'
    BY <1>5, FinishType DEF AlreadyRunning, TypeOK
  <1>6. ASSUME NEW q \in Requests, ClaimSession(q)
        PROVE  TypeOK'
    <2>1. req[q].sess \in Sessions
      BY <1>6 DEF Bindings, RequestsBound, ClaimSession
    <2>2. PICK r \in Runs :
            /\ run' = [run EXCEPT ![r].sess = req[q].sess, ![r].pc = "spawn"]
            /\ sess' = [sess EXCEPT ![req[q].sess].running = TRUE,
                                    ![req[q].sess].events = {},
                                    ![req[q].sess].pending = <<>>,
                                    ![req[q].sess].cancel = r,
                                    ![req[q].sess].ctx = r]
            /\ req' = [req EXCEPT ![q].pc = "spawn", ![q].run = r]
      BY <1>6 DEF ClaimSession
    <2>3. [run[r] EXCEPT !.sess = req[q].sess, !.pc = "spawn"] \in Run
      BY <2>1, Elements DEF Run, RunPcs
    <2>4. [sess[req[q].sess] EXCEPT !.running = TRUE, !.events = {},
                             !.pending = <<>>, !.cancel = r, !.ctx = r] \in Session
      <3>1. PICK x \in Session : x = sess[req[q].sess]
        BY <2>1, Elements
      <3>2. [x EXCEPT !.running = TRUE, !.events = {},
                      !.pending = <<>>, !.cancel = r, !.ctx = r] \in Session
        BY EmptyQueues DEF Session
      <3> QED
        BY <3>1, <3>2
    <2>5. [req[q] EXCEPT !.pc = "spawn", !.run = r] \in Request
      BY Elements DEF Request, ReqPcs
    <2>6. run' = [run EXCEPT ![r] = [run[r] EXCEPT !.sess = req[q].sess, !.pc = "spawn"]]
      BY <2>2
    <2>7. sess' = [sess EXCEPT ![req[q].sess] =
                     [sess[req[q].sess] EXCEPT !.running = TRUE, !.events = {},
                                               !.pending = <<>>, !.cancel = r, !.ctx = r]]
      BY <2>2
    <2>8. req' = [req EXCEPT ![q] = [req[q] EXCEPT !.pc = "spawn", !.run = r]]
      BY <2>2
    <2>9. /\ run' \in [Runs -> Run] /\ sess' \in [Sessions -> Session]
          /\ req' \in [Requests -> Request]
      <3>1. run' \in [Runs -> Run]
        BY <2>3, <2>6 DEF TypeOK
      <3>2. sess' \in [Sessions -> Session]
        BY <2>1, <2>4, <2>7 DEF TypeOK
      <3>3. req' \in [Requests -> Request]
        BY <2>5, <2>8 DEF TypeOK
      <3> QED
        BY <3>1, <3>2, <3>3
    <2> QED
      BY <1>6, <2>9 DEF ClaimSession, TypeOK
  <1>7. ASSUME NEW q \in Requests, SpawnRun(q)
        PROVE  TypeOK'
    <2>1. req[q].sess \in Sessions /\ req[q].run \in Runs
      BY <1>7 DEF Bindings, RequestsBound, SpawnRun
    <2> QED
      BY <1>7, <2>1, FinishType, BroadcastType, RunPcType DEF SpawnRun, TypeOK,
          EventTypes, RunPcs
  <1>8. ASSUME NEW q \in Requests, Lookup(q)
        PROVE  TypeOK'
    <2>1. chats[req[q].chat] \in Sessions \cup {NoSession}
      BY <1>8 DEF TypeOK, Bindings, RequestsBound, Lookup
    <2>2. req' \in [Requests -> Request]
      BY <1>8, <2>1, FinishType DEF Lookup, TypeOK, Request, ReqPcs
    <2>3. msg' \in [Msgs -> MsgState]
      <3>1. \A m \in Msgs : [msg[m] EXCEPT !.st = "refused"] \in MsgState
        BY Elements DEF MsgState
      <3> QED
        BY <1>8, <3>1 DEF Lookup, TypeOK
    <2> QED
      BY <1>8, <2>2, <2>3 DEF Lookup, TypeOK
  <1>9. ASSUME NEW q \in Requests, Stop(q)
        PROVE  TypeOK'
    <2>1. run' \in [Runs -> Run]
      <3>1. \A r \in Runs : [run[r] EXCEPT !.cancelled = TRUE] \in Run
        BY Elements DEF Run
      <3>2. \A r \in Runs : [run EXCEPT ![r] = [run[r] EXCEPT !.cancelled = TRUE]] \in [Runs -> Run]
        BY <3>1 DEF TypeOK
      <3>3. \A r \in Runs : [run EXCEPT ![r].cancelled = TRUE] \in [Runs -> Run]
        BY <3>2
      <3>4. sess[req[q].sess].cancel \in Runs \cup {NoRun}
        BY <1>9, Elements DEF Stop, Bindings, RequestsBound, Session
      <3> QED
        BY <1>9, <3>3, <3>4 DEF Stop, TypeOK
    <2> QED
      BY <1>9, <2>1, FinishType DEF Stop, TypeOK
  <1>10. ASSUME NEW q \in Requests, InjectQueue(q)
        PROVE  TypeOK'
    <2>1. req[q].sess \in Sessions /\ req[q].msg \in Msgs
      BY <1>10 DEF Bindings, RequestsBound, InjectQueue
    <2>2. Append(sess[req[q].sess].pending, req[q].msg) \in Seq(Msgs)
      BY <2>1 DEF TypeOK, Session
    <2>3. [sess[req[q].sess] EXCEPT !.pending = Append(@, req[q].msg)] \in Session
      BY <2>1, <2>2, Elements DEF Session
    <2>4. sess' \in [Sessions -> Session]
      BY <1>10, <2>1, <2>3 DEF InjectQueue, TypeOK
    <2>5. /\ [msg[req[q].msg] EXCEPT !.st = "queued"] \in MsgState
          /\ [msg[req[q].msg] EXCEPT !.st = "refused"] \in MsgState
      BY <2>1, Elements DEF MsgState
    <2>6. msg' \in [Msgs -> MsgState]
      BY <1>10, <2>1, <2>5 DEF InjectQueue, TypeOK
    <2>7. sess[req[q].sess].ctx \in Runs \cup {NoRun}
      BY <2>1, Elements DEF Session
    <2>8. [req[q] EXCEPT !.pc = "persist", !.run = sess[req[q].sess].ctx] \in Request
      BY <2>7, Elements DEF Request, ReqPcs
    <2>9. req' \in [Requests -> Request]
      BY <1>10, <2>8, FinishType DEF InjectQueue, TypeOK
    <2> QED
      BY <1>10, <2>4, <2>6, <2>9 DEF InjectQueue, TypeOK
  <1>11. ASSUME NEW q \in Requests, InjectPersist(q)
        PROVE  TypeOK'
    <2>1. req[q].chat \in Chats /\ [kind |-> "inject", id |-> req[q].msg] \in Row
      BY <1>11 DEF Bindings, RequestsBound, InjectPersist, Row
    <2> QED
      BY <1>11, <2>1, AddRowType, SetPcType DEF InjectPersist, TypeOK, ReqPcs
  <1>12. ASSUME NEW q \in Requests, InjectNotify(q)
        PROVE  TypeOK'
    <2>1. req[q].sess \in Sessions /\ req[q].run \in Runs \cup {NoRun}
      BY <1>12 DEF Bindings, RequestsBound, InjectNotify, TypeOK, Request
    <2> QED
      BY <1>12, <2>1, BroadcastType, FinishType DEF InjectNotify, TypeOK, EventTypes
  <1>13. ASSUME NEW q \in Requests, AnswerCheck(q)
        PROVE  TypeOK'
    BY <1>13, FinishType, SetPcType DEF AnswerCheck, TypeOK, ReqPcs
  <1>14. ASSUME NEW q \in Requests, AnswerSend(q)
        PROVE  TypeOK'
    BY <1>14, FinishType, IdleAskerType, SetAskingType DEF AnswerSend, TypeOK
  <1>15. ASSUME NEW q \in Requests, DropSession(q)
        PROVE  TypeOK'
    BY <1>15, SetPcType DEF DropSession, TypeOK, ReqPcs
  <1>16. ASSUME NEW q \in Requests, WipeMessages(q)
        PROVE  TypeOK'
    BY <1>16, EmptyQueues, FinishType DEF WipeMessages, TypeOK
  <1>17. ASSUME NEW r \in Runs, SendBegin(r)
        PROVE  TypeOK'
    <2>1. run[r].pc # "none"
      BY <1>17 DEF SendBegin, AddRowIn
    <2>2. db' \in [Chats -> Seq(Row)]
      <3>1. CASE AddRow(ChatOf(r), "turn", r)
        BY <2>1, <3>1, StartedRun, RowsOfRuns, AddRowType
      <3>2. CASE UNCHANGED db
        BY <3>2 DEF TypeOK
      <3> QED
        BY <1>17, <3>1, <3>2 DEF SendBegin, AddRowIn
    <2>3. run' \in [Runs -> Run]
      <3>1. PICK pc \in {"loop", "error"} : run' = [run EXCEPT ![r].pc = pc]
        BY <1>17 DEF SendBegin, AddRowIn
      <3> QED
        BY <3>1, RunPcType DEF RunPcs
    <2> QED
      BY <1>17, <2>2, <2>3 DEF SendBegin, AddRowIn, TypeOK
  <1>18. ASSUME NEW r \in Runs, HandleStop(r)
        PROVE  TypeOK'
    BY <1>18, StartedRun, RowsOfRuns, AddRowType, RunPcType DEF HandleStop, TypeOK, RunPcs
  <1>19. ASSUME NEW r \in Runs, FinalAnswer(r)
        PROVE  TypeOK'
    BY <1>19, StartedRun, RowsOfRuns, AddRowType, RunPcType DEF FinalAnswer, AddRowIn, TypeOK,
        RunPcs
  <1>20. ASSUME NEW r \in Runs, Drain(r)
        PROVE  TypeOK'
    <2>1. run[r].sess \in Sessions
      BY <1>20, StartedRun DEF Drain
    <2>2. sess' \in [Sessions -> Session]
      BY <1>20, <2>1, EmptyQueues, SetPendingType DEF Drain, TypeOK
    <2>3. msg' \in [Msgs -> MsgState]
      <3>1. [st |-> "delivered", to |-> r] \in MsgState
        BY DEF MsgState
      <3> QED
        BY <1>20, <3>1 DEF Drain, TypeOK
    <2> QED
      BY <1>20, <2>2, <2>3, RunPcType DEF Drain, TypeOK, RunPcs
  <1>21. ASSUME NEW r \in Runs, NextIteration(r)
        PROVE  TypeOK'
    BY <1>21, RunPcType DEF NextIteration, TypeOK, RunPcs
  <1>22. ASSUME NEW r \in Runs, ProviderError(r)
        PROVE  TypeOK'
    BY <1>22, RunPcType DEF ProviderError, TypeOK, RunPcs
  <1>23. ASSUME NEW r \in Runs, BroadcastEnd(r)
        PROVE  TypeOK'
    <2>1. run[r].sess \in Sessions /\ run[r].pc \in EventTypes
      BY <1>23, StartedRun DEF BroadcastEnd, EventTypes
    <2> QED
      BY <1>23, <2>1, BroadcastType, RunPcType DEF BroadcastEnd, TypeOK, RunPcs
  <1>24. ASSUME NEW r \in Runs, EndRun(r)
        PROVE  TypeOK'
    <2>1. run[r].sess \in Sessions
      BY <1>24, StartedRun DEF EndRun
    <2>2. Released(run[r].sess) \in Session
      BY ZenonT(40), <2>1, EmptyQueues, Elements DEF Session, Released
    <2>3. msg' \in [Msgs -> MsgState]
      <3>1. \A m \in Msgs : [msg[m] EXCEPT !.st = "dropped"] \in MsgState
        BY Elements DEF MsgState
      <3> QED
        BY <1>24, <3>1 DEF EndRun, TypeOK
    <2> QED
      BY <1>24, <2>2, <2>3, RunPcType DEF EndRun, TypeOK, RunPcs
  <1>25. ASSUME NEW r \in Runs, SpawnSubAgent(r)
        PROVE  TypeOK'
    BY <1>25, RunSubType DEF SpawnSubAgent, TypeOK
  <1>26. ASSUME NEW r \in Runs, SubAgentReturns(r)
        PROVE  TypeOK'
    BY <1>26, RunSubType DEF SubAgentReturns, TypeOK
  <1>27. ASSUME NEW r \in Runs, SubAgentLog(r)
        PROVE  TypeOK'
    BY <1>27, StartedRun, BroadcastType DEF SubAgentLog, TypeOK, EventTypes
  <1>28. ASSUME NEW a \in Askers, AskNobody(a)
        PROVE  TypeOK'
    BY <1>28, IdleAskerType DEF AskNobody, TypeOK
  <1>29. ASSUME NEW a \in Askers, Ask(a)
        PROVE  TypeOK'
    <2>1. a[1] \in Runs
      BY DEF Askers
    <2>2. ChatOf(a[1]) \in Chats
      BY <1>29, <2>1, StartedRun DEF Ask, CanAsk
    <2>3. chats[ChatOf(a[1])] \in Sessions
      BY <1>29, <2>2 DEF Ask, TypeOK
    <2>4. \A b \in BOOLEAN, s \in Sessions :
            [asker EXCEPT ![a] = [IdleAsker EXCEPT !.st = "asked", !.on = s, !.shown = b]]
              \in [Askers -> Asker]
      BY DEF TypeOK, IdleAsker, Asker
    <2>5. Accepts(chats[ChatOf(a[1])], "ask") \in BOOLEAN
      BY <2>3 DEF Accepts, TypeOK, Session
    <2> QED
      BY <1>29, <2>1, <2>3, <2>4, <2>5, SetAskingType, BroadcastType DEF Ask, TypeOK,
          EventTypes
  <1>30. ASSUME NEW a \in Askers, AwaitAnswer(a)
        PROVE  TypeOK'
    <2>1. asker[a].on \in Sessions
      BY <1>30 DEF AwaitAnswer, Bindings, AskersBound
    <2>2. sess[asker[a].on].ctx \in Runs \cup {NoRun}
      BY <2>1 DEF TypeOK, Session
    <2>3. \A w \in Runs \cup {NoRun} :
            [asker[a] EXCEPT !.st = "waiting", !.wait = w] \in Asker
      BY Elements DEF Asker
    <2>4. asker' \in [Askers -> Asker]
      <3>1. CASE sess[asker[a].on].ctx = NoRun
        BY <1>30, <3>1, IdleAskerType DEF AwaitAnswer
      <3>2. CASE sess[asker[a].on].ctx # NoRun
        BY <1>30, <2>2, <2>3, <3>2 DEF AwaitAnswer, TypeOK
      <3> QED
        BY <3>1, <3>2
    <2>5. run' \in [Runs -> Run]
      BY <1>30, SetAskingType DEF AwaitAnswer, TypeOK
    <2> QED
      BY <1>30, <2>4, <2>5 DEF AwaitAnswer, TypeOK
  <1>31. ASSUME NEW a \in Askers, AskCancelled(a)
        PROVE  TypeOK'
    BY <1>31, IdleAskerType, SetAskingType DEF AskCancelled, TypeOK
  <1>32. CASE RebuildAgent
    BY <1>32 DEF RebuildAgent, TypeOK
  <1>33. CASE UNCHANGED vars
    BY <1>33 DEF vars, TypeOK
  <1>34. ASSUME NEW q \in Requests, StopCheck(q)
        PROVE  TypeOK'
    BY <1>34, FinishType, SetPcType DEF StopCheck, TypeOK, ReqPcs
  <1> QED
    BY <1>1, <1>2, <1>3, <1>4, <1>5, <1>6, <1>7, <1>8, <1>9, <1>10,
       <1>11, <1>12, <1>13, <1>14, <1>15, <1>16, <1>17, <1>18, <1>19,
       <1>20, <1>21, <1>22, <1>23, <1>24, <1>25, <1>26, <1>27, <1>28,
       <1>29, <1>30, <1>31, <1>32, <1>33, <1>34
    DEF Next, RequestStep, RunProgress, SubAgentStep, AskStep

-----------------------------------------------------------------------------
(* What the helpers leave alone.                                           *)

\* A broadcast only touches the replay buffer.
LEMMA BroadcastFrame ==
  ASSUME TypeOK, NEW s \in Sessions, NEW type, NEW r, BufferAndBroadcast(s, type, r)
  PROVE  \A t \in Sessions :
           /\ sess'[t].chat = sess[t].chat /\ sess'[t].running = sess[t].running
           /\ sess'[t].cancel = sess[t].cancel /\ sess'[t].ctx = sess[t].ctx
  BY Elements DEF BufferAndBroadcast, TypeOK, Session

\* Entering or leaving AskUser only moves the asker.
LEMMA AskingFrame ==
  ASSUME TypeOK, NEW a \in Askers, NEW asking \in BOOLEAN, SetAsking(a, asking)
  PROVE  /\ \A r \in Runs : run'[r].sess = run[r].sess
         /\ \A r \in Runs :
              IF r = a[1] /\ a[2] = "main"
              THEN run'[r].pc = IF asking THEN "ask" ELSE "work"
              ELSE run'[r].pc = run[r].pc
         /\ \A r \in Runs :
              IF r = a[1] /\ a[2] = "sub"
              THEN run'[r].sub = IF asking THEN "ask" ELSE "live"
              ELSE run'[r].sub = run[r].sub
  <1>1. a[1] \in Runs /\ a[2] \in {"main", "sub"}
    BY DEF Askers
  <1>2. CASE a[2] = "main"
    BY <1>1, <1>2, Elements DEF SetAsking, TypeOK, Run
  <1>3. CASE a[2] = "sub"
    BY <1>1, <1>3, Elements DEF SetAsking, TypeOK, Run
  <1> QED
    BY <1>1, <1>2, <1>3

LEMMA FinishFrame ==
  ASSUME TypeOK, NEW q \in Requests, Finish(q)
  PROVE  \A p \in Requests : IF p = q THEN req'[p].pc = "idle" ELSE req'[p] = req[p]
  BY DEF Finish, TypeOK, IdleRequest

LEMMA SetPcFrame ==
  ASSUME TypeOK, NEW q \in Requests, NEW pc, SetPc(q, pc)
  PROVE  \A p \in Requests :
           IF p = q
           THEN /\ req'[p].pc = pc /\ req'[p].op = req[p].op
                /\ req'[p].chat = req[p].chat /\ req'[p].sess = req[p].sess
                /\ req'[p].msg = req[p].msg /\ req'[p].run = req[p].run
           ELSE req'[p] = req[p]
  BY Elements DEF SetPc, TypeOK, Request

LEMMA RunPcFrame ==
  ASSUME TypeOK, NEW r \in Runs, NEW pc, run' = [run EXCEPT ![r].pc = pc]
  PROVE  \A x \in Runs : /\ run'[x].sess = run[x].sess /\ run'[x].sub = run[x].sub
                         /\ run'[x].pc = IF x = r THEN pc ELSE run[x].pc
  BY Elements DEF TypeOK, Run

LEMMA RunSubFrame ==
  ASSUME TypeOK, NEW r \in Runs, NEW sub, run' = [run EXCEPT ![r].sub = sub]
  PROVE  \A x \in Runs : /\ run'[x].sess = run[x].sess /\ run'[x].pc = run[x].pc
                         /\ run'[x].sub = IF x = r THEN sub ELSE run[x].sub
  BY Elements DEF TypeOK, Run

\* A step that starts, ends or moves no execution preserves RunningMeansOneRun.
LEMMA SameRuns ==
  ASSUME IInv,
         \A s \in Sessions : /\ sess'[s].running = sess[s].running
                             /\ sess'[s].cancel = sess[s].cancel
                             /\ sess'[s].ctx = sess[s].ctx,
         \A r \in Runs : /\ run'[r].sess = run[r].sess
                         /\ run'[r].pc \in Live <=> run[r].pc \in Live
  PROVE  RunningMeansOneRun'
  BY DEF IInv, RunningMeansOneRun, LiveOn

\* Requests only depend on the chats of sessions and on executions about to start.
LEMMA SameRequests ==
  ASSUME IInv,
         \A s \in Sessions : sess'[s].chat = sess[s].chat,
         \A r \in Runs : run[r].pc = "spawn" => run'[r].pc = "spawn" /\ run'[r].sess = run[r].sess,
         \A q \in Requests : req'[q].pc = "idle" \/ req'[q] = req[q]
  PROVE  RequestsBound' /\ SpawnsApart'
  BY DEF IInv, Bindings, RequestsBound, SpawnsApart

\* A request that moves on within its handler keeps what it holds.
LEMMA SameHandler ==
  ASSUME IInv, NEW q \in Requests, NEW pc \in {"act", "cancel", "persist", "notify", "send",
         "wipe"},
         \A s \in Sessions : sess'[s].chat = sess[s].chat,
         UNCHANGED run,
         \A p \in Requests \ {q} : req'[p] = req[p],
         req[q].pc # "idle", req'[q].pc = pc, req'[q].op = req[q].op,
         req'[q].chat = req[q].chat, req'[q].msg = req[q].msg,
         pc # "wipe" => req'[q].sess \in Sessions /\ sess[req'[q].sess].chat \in Chats,
         pc \in {"persist", "notify"} => req[q].op = "inject"
  PROVE  RequestsBound' /\ SpawnsApart'
  BY DEF IInv, Bindings, RequestsBound, SpawnsApart

\* Executions stay bound when they keep their session and their chat.
LEMMA SameSessions ==
  ASSUME IInv,
         \A s \in Sessions : sess'[s].chat = sess[s].chat,
         \A r \in Runs : /\ run'[r].sess = run[r].sess
                         /\ run'[r].pc # "none" => run[r].pc # "none"
                         /\ run[r].pc # "none" => run'[r].pc # "none"
                         /\ run'[r].sub # "none" => run[r].pc # "none"
  PROVE  RunsBound'
  BY DEF IInv, Bindings, RunsBound, ChatOf

\* A step that ends a handler and moves neither executions nor askers.
LEMMA EndOfHandler ==
  ASSUME IInv, NEW q \in Requests, Finish(q), UNCHANGED <<chats, asker>>,
         \A s \in Sessions : sess'[s].chat = sess[s].chat,
         \A r \in Runs : /\ run'[r].sess = run[r].sess /\ run'[r].pc = run[r].pc
                         /\ run'[r].sub = run[r].sub
  PROVE  Bindings'
  <1>1. RequestsBound' /\ SpawnsApart'
    BY FinishFrame, SameRequests DEF IInv
  <1>2. RunsBound'
    BY SameSessions DEF IInv, Bindings, RunsBound
  <1>3. SessionsBound'
    BY DEF IInv, TypeOK, Bindings, SessionsBound
  <1>4. AskersBound'
    BY DEF IInv, Bindings, AskersBound, Askers
  <1> QED
    BY <1>1, <1>2, <1>3, <1>4 DEF Bindings

\* Whoever leaves AskUser goes on where it was suspended.
LEMMA LeaveAsk ==
  ASSUME IInv, NEW a \in Askers, asker[a].st \in {"asked", "waiting"}, SetAsking(a, FALSE),
         asker'[a].st \in {"idle", "unasked"},
         \A b \in Askers \ {a} : asker'[b] = asker[b],
         UNCHANGED <<chats, sess>>,
         \A q \in Requests : req'[q].pc = "idle" \/ req'[q] = req[q]
  PROVE  Bindings' /\ RunningMeansOneRun'
  <1>1. a[1] \in Runs /\ a[2] \in {"main", "sub"} /\ a = <<a[1], a[2]>>
    BY DEF Askers
  <1>2. /\ a[2] = "main" => run[a[1]].pc = "ask"
        /\ a[2] = "sub" => run[a[1]].sub = "ask"
    BY DEF IInv, Bindings, AskersBound
  <1>3. \A r \in Runs : /\ run'[r].sess = run[r].sess
                        /\ run'[r].pc = run[r].pc \/ (run[r].pc = "ask" /\ run'[r].pc = "work")
                        /\ run'[r].sub = run[r].sub
                           \/ (run[r].sub = "ask" /\ run'[r].sub = "live")
    BY ZenonT(40), <1>1, <1>2, AskingFrame DEF IInv
  <1>4. RunningMeansOneRun'
    BY <1>3, SameRuns DEF Live, RunPcs
  <1>5. RequestsBound' /\ SpawnsApart'
    BY <1>3, SameRequests
  <1>6. RunsBound'
    BY <1>3, SameSessions DEF IInv, Bindings, RunsBound
  <1>7. AskersBound'
    <2>1. \A b \in Askers : b # a => /\ b[1] = a[1] => b[2] # a[2]
      BY DEF Askers
    <2>2. \A b \in Askers \ {a} :
            /\ b[2] = "main" => run'[b[1]].pc = run[b[1]].pc
            /\ b[2] = "sub" => run'[b[1]].sub = run[b[1]].sub
      <3>1. TAKE b \in Askers \ {a}
      <3>2. b[1] \in Runs
        BY DEF Askers
      <3>3. CASE b[1] = a[1]
        BY <1>1, <2>1, <3>2, <3>3, AskingFrame DEF IInv
      <3>4. CASE b[1] # a[1]
        <4>1. /\ run'[b[1]].pc = run[b[1]].pc
              /\ run'[b[1]].sub = run[b[1]].sub
          BY ZenonT(40), <1>1, <3>2, <3>4, AskingFrame DEF IInv
        <4> QED
          BY <4>1
      <3> QED
        BY <3>3, <3>4
    <2> QED
      BY <2>2 DEF IInv, Bindings, AskersBound
  <1>8. SessionsBound'
    BY DEF IInv, Bindings, SessionsBound
  <1> QED
    BY <1>4, <1>5, <1>6, <1>7, <1>8 DEF Bindings

\* Whoever enters AskUser is suspended there.
LEMMA EnterAsk ==
  ASSUME IInv, NEW a \in Askers, Ask(a)
  PROVE  Bindings' /\ RunningMeansOneRun'
  <1>1. a[1] \in Runs /\ a[2] \in {"main", "sub"} /\ a = <<a[1], a[2]>>
    BY DEF Askers
  <1>2. /\ a[2] = "main" => run[a[1]].pc = "work"
        /\ a[2] = "sub" => run[a[1]].sub = "live"
    BY DEF Ask, CanAsk
  <1>3. /\ UNCHANGED <<chats, req>> /\ SetAsking(a, TRUE)
        /\ run[a[1]].pc # "none" /\ ChatOf(a[1]) \in Chats
    BY <1>1, <1>2, StartedRun DEF Ask, IInv
  <1>4. chats[ChatOf(a[1])] \in Sessions
    BY <1>3 DEF Ask, IInv, TypeOK
  <1>5. \A s \in Sessions :
          /\ sess'[s].chat = sess[s].chat /\ sess'[s].running = sess[s].running
          /\ sess'[s].cancel = sess[s].cancel /\ sess'[s].ctx = sess[s].ctx
    BY <1>4, BroadcastFrame DEF Ask, IInv
  <1>6. \A r \in Runs : /\ run'[r].sess = run[r].sess
                        /\ run'[r].pc = run[r].pc \/ (run[r].pc = "work" /\ run'[r].pc = "ask")
                        /\ run'[r].sub = run[r].sub
                           \/ (run[r].sub = "live" /\ run'[r].sub = "ask")
    BY <1>1, <1>2, <1>3, AskingFrame DEF IInv
  <1>7. RunningMeansOneRun'
    BY <1>5, <1>6, SameRuns DEF Live, RunPcs
  <1>8. RequestsBound' /\ SpawnsApart'
    BY <1>3, <1>5, <1>6, SameRequests
  <1>9. RunsBound'
    BY <1>5, <1>6, SameSessions DEF IInv, Bindings, RunsBound
  <1>10. AskersBound'
    <2>1. \A b \in Askers : b # a => (b[1] = a[1] => b[2] # a[2])
      BY DEF Askers
    <2>2. \A b \in Askers \ {a} :
            /\ asker'[b] = asker[b]
            /\ b[2] = "main" => run'[b[1]].pc = run[b[1]].pc
            /\ b[2] = "sub" => run'[b[1]].sub = run[b[1]].sub
      <3>1. TAKE b \in Askers \ {a}
      <3>2. b[1] \in Runs
        BY DEF Askers
      <3>3. asker'[b] = asker[b]
        BY DEF Ask, IInv, TypeOK
      <3>4. CASE b[1] = a[1]
        BY <1>1, <1>3, <2>1, <3>2, <3>3, <3>4, AskingFrame DEF IInv
      <3>5. CASE b[1] # a[1]
        BY <1>3, <3>2, <3>3, <3>5, AskingFrame DEF IInv
      <3> QED
        BY <3>4, <3>5
    <2>3. asker'[a].on \in Sessions /\ asker'[a].st = "asked"
      BY <1>4 DEF Ask, IInv, TypeOK, IdleAsker
    <2>4. /\ a[2] = "main" => run'[a[1]].pc = "ask"
          /\ a[2] = "sub" => run'[a[1]].sub = "ask"
      BY <1>1, <1>3, AskingFrame DEF IInv
    <2> QED
      BY <2>2, <2>3, <2>4 DEF IInv, Bindings, AskersBound
  <1>11. SessionsBound'
    BY <1>3, <1>5 DEF IInv, TypeOK, Bindings, SessionsBound
  <1> QED
    BY <1>7, <1>8, <1>9, <1>10, <1>11 DEF Bindings

\* A step that only moves executions and their sub-agents from one place of
\* Send to another.
LEMMA RunMoves ==
  ASSUME IInv, UNCHANGED <<chats, asker, req>>,
         \A s \in Sessions : sess'[s].chat = sess[s].chat,
         \A x \in Runs :
           /\ run'[x].sess = run[x].sess
           /\ \/ run'[x].pc = run[x].pc
              \/ run[x].pc \notin {"none", "spawn", "ask"} /\ run'[x].pc # "none"
           /\ \/ run'[x].sub = run[x].sub
              \/ run[x].sub # "ask" /\ run[x].pc # "none"
  PROVE  Bindings'
  <1>1. \A x \in Runs : run[x].sub # "none" => run[x].pc # "none"
    BY DEF IInv, Bindings, RunsBound
  <1>2. RequestsBound' /\ SpawnsApart'
    BY SameRequests
  <1>3. RunsBound'
    BY <1>1, SameSessions
  <1>4. SessionsBound'
    BY DEF IInv, TypeOK, Bindings, SessionsBound
  <1>5. AskersBound'
    <2>1. \A a \in Askers : a[1] \in Runs
      BY DEF Askers
    <2> QED
      BY <2>1 DEF IInv, Bindings, AskersBound
  <1> QED
    BY <1>2, <1>3, <1>4, <1>5 DEF Bindings

LEMMA BindingsStep ==
  ASSUME IInv, [Next]_vars
  PROVE  Bindings'
  <1> USE DEF IInv
  <1>1. ASSUME NEW q \in Requests, NEW op \in AllOps, NEW c \in Chats, Arrive(q, op, c)
        PROVE  Bindings'
    <2>1. /\ req[q].pc = "idle"
          /\ UNCHANGED <<chats, sess, run, asker>>
      BY <1>1 DEF Arrive
    <2>2. /\ \A p \in Requests \ {q} : req'[p] = req[p]
          /\ req'[q].pc = "lookup" /\ req'[q].chat = c
          /\ req'[q].op = "inject" => req'[q].msg \in Msgs
      <3>1. CASE op = "inject"
        <4>1. PICK m \in Msgs :
                req' = [req EXCEPT ![q] = [IdleRequest EXCEPT !.op = op,
                          !.pc = "lookup", !.chat = c, !.msg = m]]
          BY <1>1, <3>1 DEF Arrive
        <4> QED
          BY <4>1 DEF TypeOK, IdleRequest
      <3>2. CASE op # "inject"
        <4>1. req' = [req EXCEPT ![q] = [IdleRequest EXCEPT !.op = op,
                        !.pc = "lookup", !.chat = c]]
          BY <1>1, <3>2 DEF Arrive
        <4> QED
          BY <3>2, <4>1 DEF TypeOK, IdleRequest
      <3> QED
        BY <3>1, <3>2
    <2>3. SessionsBound' /\ RunsBound' /\ AskersBound'
      BY <2>1 DEF Bindings, SessionsBound, RunsBound, AskersBound, ChatOf
    <2>4. RequestsBound' /\ SpawnsApart'
      BY <2>1, <2>2 DEF Bindings, RequestsBound, SpawnsApart
    <2> QED
      BY <2>3, <2>4 DEF Bindings
  <1>2. ASSUME NEW q \in Requests, ChatLookup(q)
        PROVE  Bindings'
    <2>1. /\ req[q].op = "chat" /\ req[q].pc = "lookup" /\ req[q].chat \in Chats
          /\ UNCHANGED <<chats, sess, run, asker>>
      BY <1>2 DEF ChatLookup, Bindings, RequestsBound
    <2>2. /\ \A p \in Requests \ {q} : req'[p] = req[p]
          /\ req'[q].op = "chat" /\ req'[q].chat = req[q].chat
          /\ req'[q].sess = chats[req[q].chat]
          /\ req'[q].pc = IF chats[req[q].chat] = NoSession THEN "build" ELSE "have"
      BY <1>2, <2>1, Elements DEF ChatLookup, TypeOK, Request
    <2>3. chats[req[q].chat] # NoSession =>
            /\ chats[req[q].chat] \in Sessions
            /\ sess[chats[req[q].chat]].chat \in Chats
      BY <2>1 DEF TypeOK, Bindings, SessionsBound
    <2>4. RequestsBound' /\ SpawnsApart'
      BY <2>1, <2>2, <2>3 DEF Bindings, RequestsBound, SpawnsApart
    <2> QED
      BY <2>1, <2>4 DEF Bindings, SessionsBound, RunsBound, AskersBound, ChatOf
  <1>3. ASSUME NEW q \in Requests, CreateSession(q)
        PROVE  Bindings'
    <2>1. PICK s \in Sessions :
            /\ sess[s].chat = NoChat
            /\ sess' = [sess EXCEPT ![s].chat = req[q].chat]
            /\ chats' = [chats EXCEPT ![req[q].chat] = s]
            /\ req' = [req EXCEPT ![q].sess = s, ![q].pc = "have"]
            /\ UNCHANGED <<run, asker>>
      BY <1>3 DEF CreateSession, Registered
    <2>2. req[q].chat \in Chats
      BY <1>3 DEF CreateSession, Bindings, RequestsBound
    <2>3. \A t \in Sessions : sess'[t].chat = IF t = s THEN req[q].chat ELSE sess[t].chat
      BY <2>1, Elements DEF TypeOK, Session
    <2>4. \A d \in Chats : chats'[d] = IF d = req[q].chat THEN s ELSE chats[d]
      BY <2>1, <2>2 DEF TypeOK
    <2>5. SessionsBound'
      <3>1. \A d \in Chats : chats[d] # NoSession => chats[d] \in Sessions \ {s}
        <4>1. \A d \in Chats : chats[d] # NoSession => sess[chats[d]].chat # NoChat
          BY DEF Bindings, SessionsBound
        <4> QED
          BY <2>1, <4>1 DEF TypeOK
      <3> QED
        BY <2>3, <2>4, <3>1 DEF Bindings, SessionsBound
    <2>6. RunsBound'
      BY <2>1, <2>3, <2>2 DEF Bindings, RunsBound, ChatOf
    <2>7. /\ \A p \in Requests \ {q} : req'[p] = req[p]
          /\ req'[q].sess = s /\ req'[q].pc = "have"
          /\ req'[q].chat = req[q].chat /\ req'[q].op = req[q].op
          /\ req'[q].msg = req[q].msg
      BY <2>1, Elements DEF TypeOK, Request
    <2>8. RequestsBound' /\ SpawnsApart'
      <3>1. \A t \in Sessions : sess[t].chat \in Chats => sess'[t].chat \in Chats
        BY <2>2, <2>3
      <3>2. req[q].pc = "build" /\ sess'[s].chat \in Chats
        BY <1>3, <2>2, <2>3 DEF CreateSession
      <3>3. \A r \in Runs : run'[r] = run[r]
        BY <2>1
      <3>4. RequestsBound'
        BY <2>2, <2>7, <3>1, <3>2, <3>3 DEF Bindings, RequestsBound
      <3>5. SpawnsApart'
        BY <2>7 DEF Bindings, SpawnsApart
      <3> QED
        BY <3>4, <3>5
    <2>9. AskersBound'
      BY <2>1 DEF Bindings, AskersBound
    <2> QED
      BY <2>5, <2>6, <2>8, <2>9 DEF Bindings
  <1>4. ASSUME NEW q \in Requests, NewAgentFails(q)
        PROVE  Bindings'
    BY <1>4, EndOfHandler DEF NewAgentFails
  <1>5. ASSUME NEW q \in Requests, AlreadyRunning(q)
        PROVE  Bindings'
    BY <1>5, EndOfHandler DEF AlreadyRunning
  <1>6. ASSUME NEW q \in Requests, ClaimSession(q)
        PROVE  Bindings'
    <2>1. PICK r \in Runs :
            /\ run[r].pc = "none"
            /\ run' = [run EXCEPT ![r].sess = req[q].sess, ![r].pc = "spawn"]
            /\ sess' = [sess EXCEPT ![req[q].sess].running = TRUE,
                                    ![req[q].sess].events = {},
                                    ![req[q].sess].pending = <<>>,
                                    ![req[q].sess].cancel = r,
                                    ![req[q].sess].ctx = r]
            /\ req' = [req EXCEPT ![q].pc = "spawn", ![q].run = r]
            /\ UNCHANGED <<chats, asker>>
      BY <1>6 DEF ClaimSession
    <2>2. /\ req[q].pc = "have" /\ req[q].sess \in Sessions
          /\ sess[req[q].sess].chat \in Chats
      BY <1>6 DEF ClaimSession, Bindings, RequestsBound
    <2>3. \A s \in Sessions : sess'[s].chat = sess[s].chat
      BY <2>1, Elements DEF TypeOK, Session
    <2>4. /\ run'[r].pc = "spawn" /\ run'[r].sess = req[q].sess /\ run'[r].sub = run[r].sub
          /\ \A r2 \in Runs \ {r} : run'[r2] = run[r2]
      BY <2>1, Elements DEF TypeOK, Run
    <2>5. /\ req'[q].pc = "spawn" /\ req'[q].run = r /\ req'[q].sess = req[q].sess
          /\ req'[q].chat = req[q].chat /\ req'[q].op = req[q].op
          /\ req'[q].msg = req[q].msg
          /\ \A p \in Requests \ {q} : req'[p] = req[p]
      BY <2>1, Elements DEF TypeOK, Request
    <2>6. RequestsBound' /\ SpawnsApart'
      <3>1. /\ run[r].pc = "none"
            /\ \A p \in Requests : req[p].pc = "spawn" => req[p].run # r
        BY <2>1 DEF Bindings, RequestsBound
      <3>2. RequestsBound'
        BY <2>2, <2>3, <2>4, <2>5, <3>1 DEF Bindings, RequestsBound
      <3>3. SpawnsApart'
        BY <2>5, <3>1 DEF Bindings, SpawnsApart
      <3> QED
        BY <3>2, <3>3
    <2>7. RunsBound'
      <3>1. ChatOf(r)' \in Chats
        BY <2>2, <2>3, <2>4 DEF ChatOf
      <3>2. \A r2 \in Runs \ {r} : run[r2].pc # "none" => ChatOf(r2)' \in Chats
        BY <2>3, <2>4 DEF Bindings, RunsBound, ChatOf
      <3> QED
        BY <2>2, <2>4, <3>1, <3>2 DEF Bindings, RunsBound
    <2>8. SessionsBound'
      BY <2>1, <2>3 DEF TypeOK, Bindings, SessionsBound
    <2>9. AskersBound'
      <3>1. \A a \in Askers : /\ a[1] \in Runs
                              /\ run[a[1]].pc = "ask" => run'[a[1]].pc = "ask"
                              /\ run'[a[1]].sub = run[a[1]].sub
        BY <2>1, <2>4 DEF Askers
      <3> QED
        BY <2>1, <3>1 DEF Bindings, AskersBound
    <2> QED
      BY <2>6, <2>7, <2>8, <2>9 DEF Bindings
  <1>7. ASSUME NEW q \in Requests, SpawnRun(q)
        PROVE  Bindings'
    <2>1. /\ req[q].sess \in Sessions /\ req[q].run \in Runs /\ req[q].pc = "spawn"
          /\ run[req[q].run].pc = "spawn"
      BY <1>7 DEF SpawnRun, Bindings, RequestsBound
    <2>2. \A s \in Sessions : sess'[s].chat = sess[s].chat
      BY <1>7, <2>1, BroadcastFrame DEF SpawnRun
    <2>3. \A r \in Runs : /\ run'[r].sess = run[r].sess /\ run'[r].sub = run[r].sub
                          /\ run'[r].pc = IF r = req[q].run THEN "send" ELSE run[r].pc
      BY <1>7, <2>1, Elements DEF SpawnRun, TypeOK, Run
    <2>4. \A p \in Requests : IF p = q THEN req'[p].pc = "idle" ELSE req'[p] = req[p]
      BY <1>7, FinishFrame DEF SpawnRun
    <2>5. RequestsBound' /\ SpawnsApart'
      BY <2>1, <2>2, <2>3, <2>4 DEF Bindings, RequestsBound, SpawnsApart
    <2>6. RunsBound'
      BY <2>1, <2>2, <2>3, SameSessions DEF Bindings, RunsBound
    <2>7. SessionsBound'
      BY SMTT(40), <1>7, <2>2 DEF SpawnRun, TypeOK, Bindings, SessionsBound
    <2>8. AskersBound'
      BY <1>7, <2>1, <2>3 DEF SpawnRun, Bindings, AskersBound, Askers
    <2> QED
      BY <2>5, <2>6, <2>7, <2>8 DEF Bindings
  <1>8. ASSUME NEW q \in Requests, Lookup(q)
        PROVE  Bindings'
    <2>1. UNCHANGED <<chats, sess, run, asker>> /\ req[q].pc = "lookup"
      BY <1>8 DEF Lookup
    <2>2. req[q].chat \in Chats
      BY <2>1 DEF Bindings, RequestsBound
    <2>3. CASE chats[req[q].chat] = NoSession
      BY <1>8, <2>1, <2>3, EndOfHandler DEF Lookup
    <2>4. CASE chats[req[q].chat] # NoSession
      <3>1. /\ \A p \in Requests \ {q} : req'[p] = req[p]
            /\ req'[q].pc = "act" /\ req'[q].op = req[q].op
            /\ req'[q].chat = req[q].chat /\ req'[q].msg = req[q].msg
            /\ req'[q].sess = chats[req[q].chat]
        BY <1>8, <2>4, Elements DEF Lookup, TypeOK, Request
      <3>2. /\ chats[req[q].chat] \in Sessions
            /\ sess[chats[req[q].chat]].chat \in Chats
        BY <2>2, <2>4 DEF TypeOK, Bindings, SessionsBound
      <3>3. RequestsBound' /\ SpawnsApart'
        BY <2>1, <3>1, <3>2, SameHandler
      <3> QED
        BY <2>1, <3>3 DEF Bindings, SessionsBound, RunsBound, AskersBound, ChatOf
    <2> QED
      BY <2>3, <2>4
  <1>9. ASSUME NEW q \in Requests, Stop(q)
        PROVE  Bindings'
    <2>1. \A r \in Runs : /\ run'[r].sess = run[r].sess /\ run'[r].pc = run[r].pc
                          /\ run'[r].sub = run[r].sub
      BY <1>9, Elements DEF Stop, TypeOK, Run
    <2> QED
      BY <1>9, <2>1, EndOfHandler DEF Stop
  <1>10. ASSUME NEW q \in Requests, InjectQueue(q)
        PROVE  Bindings'
    <2>1. /\ req[q].sess \in Sessions /\ sess[req[q].sess].chat \in Chats
          /\ req[q].op = "inject" /\ req[q].pc = "act"
          /\ UNCHANGED <<chats, run, asker>>
      BY <1>10 DEF InjectQueue, Bindings, RequestsBound
    <2>2. CASE Injectable(req[q].sess)
      <3>1. /\ sess' = [sess EXCEPT ![req[q].sess].pending = Append(@, req[q].msg)]
            /\ req' = [req EXCEPT ![q].pc = "persist", ![q].run = sess[req[q].sess].ctx]
        BY <1>10, <2>2 DEF InjectQueue
      <3>2. \A s \in Sessions : sess'[s].chat = sess[s].chat
        BY <3>1, Elements DEF TypeOK, Session
      <3>3. /\ \A p \in Requests \ {q} : req'[p] = req[p]
            /\ req'[q].pc = "persist" /\ req'[q].op = req[q].op
            /\ req'[q].chat = req[q].chat /\ req'[q].msg = req[q].msg
            /\ req'[q].sess = req[q].sess
        BY <3>1, Elements DEF TypeOK, Request
      <3>4. RequestsBound' /\ SpawnsApart'
        BY <2>1, <3>2, <3>3, SameHandler
      <3>5. SessionsBound'
        BY <2>1, <3>2 DEF TypeOK, Bindings, SessionsBound
      <3>6. RunsBound'
        BY <2>1, <3>2, SameSessions DEF Bindings, RunsBound
      <3> QED
        BY <2>1, <3>4, <3>5, <3>6 DEF Bindings, AskersBound
    <2>3. CASE ~Injectable(req[q].sess)
      BY <1>10, <2>1, <2>3, EndOfHandler DEF InjectQueue
    <2> QED
      BY <2>2, <2>3
  <1>11. ASSUME NEW q \in Requests, InjectPersist(q)
        PROVE  Bindings'
    <2>1. /\ req[q].sess \in Sessions /\ sess[req[q].sess].chat \in Chats
          /\ req[q].op = "inject" /\ req[q].pc = "persist"
          /\ UNCHANGED <<chats, sess, run, asker>> /\ SetPc(q, "notify")
      BY <1>11 DEF InjectPersist, Bindings, RequestsBound
    <2>2. RequestsBound' /\ SpawnsApart'
      BY <2>1, SetPcFrame, SameHandler
    <2> QED
      BY <2>1, <2>2 DEF Bindings, SessionsBound, RunsBound, AskersBound, ChatOf
  <1>12. ASSUME NEW q \in Requests, InjectNotify(q)
        PROVE  Bindings'
    <2>1. req[q].sess \in Sessions
      BY <1>12 DEF InjectNotify, Bindings, RequestsBound
    <2>2. \A s \in Sessions : sess'[s].chat = sess[s].chat
      BY <1>12, <2>1, BroadcastFrame DEF InjectNotify
    <2> QED
      BY <1>12, <2>2, EndOfHandler DEF InjectNotify
  <1>13. ASSUME NEW q \in Requests, AnswerCheck(q)
        PROVE  Bindings'
    <2>1. /\ req[q].sess \in Sessions /\ sess[req[q].sess].chat \in Chats
          /\ req[q].op = "answer" /\ req[q].pc = "act"
          /\ UNCHANGED <<chats, sess, run, asker>>
          /\ SetPc(q, "send") \/ Finish(q)
      BY <1>13 DEF AnswerCheck, Bindings, RequestsBound
    <2>2. CASE SetPc(q, "send")
      <3>1. RequestsBound' /\ SpawnsApart'
        BY <2>1, <2>2, SetPcFrame, SameHandler
      <3> QED
        BY <2>1, <3>1 DEF Bindings, SessionsBound, RunsBound, AskersBound, ChatOf
    <2>3. CASE Finish(q)
      BY <2>1, <2>3, EndOfHandler
    <2> QED
      BY <2>1, <2>2, <2>3
  <1>14. ASSUME NEW q \in Requests, AnswerSend(q)
        PROVE  Bindings'
    <2>1. \A p \in Requests : req'[p].pc = "idle" \/ req'[p] = req[p]
      BY <1>14, FinishFrame DEF AnswerSend
    <2>2. CASE UNCHANGED <<asker, run>>
      <3>1. RequestsBound' /\ SpawnsApart'
        BY <1>14, <2>1, <2>2, SameRequests DEF AnswerSend
      <3> QED
        BY <1>14, <2>2, <3>1 DEF AnswerSend, Bindings, SessionsBound, RunsBound,
            AskersBound, ChatOf
    <2>3. ASSUME NEW a \in Askers, asker[a].st = "waiting", SetAsking(a, FALSE),
                 asker' = [asker EXCEPT ![a] = IdleAsker]
          PROVE  Bindings'
      BY <1>14, <2>1, <2>3, LeaveAsk DEF AnswerSend, TypeOK, IdleAsker
    <2> QED
      BY <1>14, <2>2, <2>3 DEF AnswerSend
  <1>15. ASSUME NEW q \in Requests, DropSession(q)
        PROVE  Bindings'
    <2>1. /\ req[q].pc = "lookup" /\ SetPc(q, "wipe")
          /\ chats' = [chats EXCEPT ![req[q].chat] = NoSession]
          /\ UNCHANGED <<sess, run, asker>>
      BY <1>15 DEF DropSession
    <2>2. RequestsBound' /\ SpawnsApart'
      BY <2>1, SetPcFrame, SameHandler
    <2>3. SessionsBound'
      BY <2>1 DEF TypeOK, Bindings, SessionsBound
    <2> QED
      BY <2>1, <2>2, <2>3 DEF Bindings, RunsBound, AskersBound, ChatOf
  <1>16. ASSUME NEW q \in Requests, WipeMessages(q)
        PROVE  Bindings'
    BY <1>16, EndOfHandler DEF WipeMessages
  <1>17. ASSUME NEW r \in Runs, SendBegin(r)
        PROVE  Bindings'
    <2>1. PICK pc \in {"loop", "error"} : run' = [run EXCEPT ![r].pc = pc]
      BY <1>17 DEF SendBegin
    <2> QED
      BY <1>17, <2>1, RunPcFrame, RunMoves DEF SendBegin
  <1>18. ASSUME NEW r \in Runs, HandleStop(r)
        PROVE  Bindings'
    BY <1>18, RunPcFrame, RunMoves DEF HandleStop
  <1>19. ASSUME NEW r \in Runs, Drain(r)
        PROVE  Bindings'
    <2>1. \A s \in Sessions : sess'[s].chat = sess[s].chat
      BY <1>19, Elements DEF Drain, TypeOK, Session
    <2> QED
      BY <1>19, <2>1, RunPcFrame, RunMoves DEF Drain
  <1>20. ASSUME NEW r \in Runs, NextIteration(r)
        PROVE  Bindings'
    BY <1>20, RunPcFrame, RunMoves DEF NextIteration
  <1>21. ASSUME NEW r \in Runs, ProviderError(r)
        PROVE  Bindings'
    BY <1>21, RunPcFrame, RunMoves DEF ProviderError
  <1>22. ASSUME NEW r \in Runs, FinalAnswer(r)
        PROVE  Bindings'
    BY <1>22, RunPcFrame, RunMoves DEF FinalAnswer
  <1>23. ASSUME NEW r \in Runs, BroadcastEnd(r)
        PROVE  Bindings'
    <2>1. run[r].sess \in Sessions
      BY <1>23, StartedRun DEF BroadcastEnd
    <2>2. \A s \in Sessions : sess'[s].chat = sess[s].chat
      BY <1>23, <2>1, BroadcastFrame DEF BroadcastEnd
    <2> QED
      BY <1>23, <2>2, RunPcFrame, RunMoves DEF BroadcastEnd
  <1>24. ASSUME NEW r \in Runs, EndRun(r)
        PROVE  Bindings'
    <2>1. \A s \in Sessions : sess'[s].chat = sess[s].chat
      BY <1>24, Elements DEF EndRun, Released, TypeOK, Session
    <2> QED
      BY <1>24, <2>1, RunPcFrame, RunMoves DEF EndRun
  <1>25. ASSUME NEW r \in Runs, SpawnSubAgent(r)
        PROVE  Bindings'
    BY <1>25, RunSubFrame, RunMoves DEF SpawnSubAgent
  <1>26. ASSUME NEW r \in Runs, SubAgentReturns(r)
        PROVE  Bindings'
    <2>1. run[r].pc # "none"
      BY <1>26, StartedRun DEF SubAgentReturns
    <2> QED
      BY <1>26, <2>1, RunSubFrame, RunMoves DEF SubAgentReturns
  <1>27. ASSUME NEW r \in Runs, SubAgentLog(r)
        PROVE  Bindings'
    <2>1. run[r].sess \in Sessions
      BY <1>27, StartedRun DEF SubAgentLog
    <2>2. \A s \in Sessions : sess'[s].chat = sess[s].chat
      BY <1>27, <2>1, BroadcastFrame DEF SubAgentLog
    <2> QED
      BY <1>27, <2>2, RunMoves DEF SubAgentLog
  <1>28. ASSUME NEW a \in Askers, AskNobody(a)
        PROVE  Bindings'
    <2>1. \A b \in Askers : asker'[b] = asker[b] \/ asker'[b].st = "unasked"
      BY <1>28 DEF AskNobody, TypeOK, IdleAsker
    <2> QED
      BY <1>28, <2>1 DEF AskNobody, Bindings, SessionsBound, RunsBound,
          RequestsBound, SpawnsApart, AskersBound, ChatOf
  <1>29. ASSUME NEW a \in Askers, Ask(a)
        PROVE  Bindings'
    BY <1>29, EnterAsk
  <1>30. ASSUME NEW a \in Askers, AwaitAnswer(a)
        PROVE  Bindings'
    <2>1. CASE sess[asker[a].on].ctx = NoRun
      <3>1. /\ asker[a].st = "asked" /\ SetAsking(a, FALSE)
            /\ UNCHANGED <<chats, sess, req>>
            /\ asker' = [asker EXCEPT ![a] = [IdleAsker EXCEPT !.st = "unasked"]]
        BY <1>30, <2>1 DEF AwaitAnswer
      <3>2. /\ asker'[a].st = "unasked"
            /\ \A b \in Askers \ {a} : asker'[b] = asker[b]
        BY <3>1 DEF TypeOK, IdleAsker
      <3> QED
        BY <3>1, <3>2, LeaveAsk
    <2>2. CASE sess[asker[a].on].ctx # NoRun
      <3>1. sess[asker[a].on].ctx \in Runs
        BY <1>30, <2>2, Elements DEF AwaitAnswer, Bindings, AskersBound, Session
      <3>2. /\ asker[a].st = "asked" /\ UNCHANGED <<chats, sess, run, req>>
            /\ asker' = [asker EXCEPT ![a].st = "waiting", ![a].wait = sess[asker[a].on].ctx]
        BY <1>30, <2>2 DEF AwaitAnswer
      <3>3. /\ asker'[a].on = asker[a].on /\ asker'[a].wait \in Runs
            /\ \A b \in Askers \ {a} : asker'[b] = asker[b]
        BY <3>1, <3>2, Elements DEF TypeOK, Asker
      <3>4. AskersBound'
        BY <3>2, <3>3 DEF Bindings, AskersBound
      <3> QED
        BY <3>2, <3>4 DEF Bindings, SessionsBound, RunsBound, RequestsBound,
            SpawnsApart, ChatOf
    <2> QED
      BY <2>1, <2>2
  <1>31. ASSUME NEW a \in Askers, AskCancelled(a)
        PROVE  Bindings'
    BY <1>31, LeaveAsk DEF AskCancelled, TypeOK, IdleAsker
  <1>32. CASE RebuildAgent
    BY <1>32 DEF RebuildAgent, Bindings, SessionsBound, RunsBound, RequestsBound,
        SpawnsApart, AskersBound, ChatOf
  <1>33. CASE UNCHANGED vars
    BY <1>33 DEF vars, Bindings, SessionsBound, RunsBound, RequestsBound,
        SpawnsApart, AskersBound, ChatOf
  <1>34. ASSUME NEW q \in Requests, StopCheck(q)
        PROVE  Bindings'
    <2>1. /\ req[q].sess \in Sessions /\ sess[req[q].sess].chat \in Chats
          /\ req[q].op = "stop" /\ req[q].pc = "act"
          /\ UNCHANGED <<chats, sess, run, asker>>
          /\ SetPc(q, "cancel") \/ Finish(q)
      BY <1>34 DEF StopCheck, Bindings, RequestsBound
    <2>2. CASE SetPc(q, "cancel")
      <3>1. RequestsBound' /\ SpawnsApart'
        BY <2>1, <2>2, SetPcFrame, SameHandler
      <3> QED
        BY <2>1, <3>1 DEF Bindings, SessionsBound, RunsBound, AskersBound, ChatOf
    <2>3. CASE Finish(q)
      BY <2>1, <2>3, EndOfHandler
    <2> QED
      BY <2>1, <2>2, <2>3
  <1> QED
    BY <1>1, <1>2, <1>3, <1>4, <1>5, <1>6, <1>7, <1>8, <1>9, <1>10,
       <1>11, <1>12, <1>13, <1>14, <1>15, <1>16, <1>17, <1>18, <1>19,
       <1>20, <1>21, <1>22, <1>23, <1>24, <1>25, <1>26, <1>27, <1>28,
       <1>29, <1>30, <1>31, <1>32, <1>33, <1>34
    DEF Next, RequestStep, RunProgress, SubAgentStep, AskStep


\* Chat claims a session that no execution uses, the epilogue releases it; the
\* other steps leave sessions and executions as they are or move one that is live.
LEMMA RunsStep ==
  ASSUME IInv, [Next]_vars
  PROVE  RunningMeansOneRun'
  <1> USE DEF IInv
  <1>1. ASSUME NEW q \in Requests, NEW op \in AllOps, NEW c \in Chats, Arrive(q, op, c)
        PROVE  RunningMeansOneRun'
    BY <1>1, SameRuns DEF Arrive
  <1>2. ASSUME NEW q \in Requests, ChatLookup(q)
        PROVE  RunningMeansOneRun'
    BY <1>2, SameRuns DEF ChatLookup
  <1>3. ASSUME NEW q \in Requests, CreateSession(q)
        PROVE  RunningMeansOneRun'
    BY <1>3, RunsAreNotNoRun DEF CreateSession, Bindings, RunningMeansOneRun, LiveOn,
        Live, RunPcs,
        SetPc, Finish, AddRow, BufferAndBroadcast, Released, Registered, SetAsking,
        ChatOf, TypeOK, Session, Run, Asker, Request, Askers,
        SessionsBound, RunsBound, RequestsBound, SpawnsApart, AskersBound
  <1>4. ASSUME NEW q \in Requests, NewAgentFails(q)
        PROVE  RunningMeansOneRun'
    BY <1>4, SameRuns DEF NewAgentFails
  <1>5. ASSUME NEW q \in Requests, AlreadyRunning(q)
        PROVE  RunningMeansOneRun'
    BY <1>5, SameRuns DEF AlreadyRunning
  <1>6. ASSUME NEW q \in Requests, ClaimSession(q)
        PROVE  RunningMeansOneRun'
    <2>1. PICK r \in Runs :
            /\ run[r].pc = "none"
            /\ run' = [run EXCEPT ![r].sess = req[q].sess, ![r].pc = "spawn"]
            /\ sess' = [sess EXCEPT ![req[q].sess].running = TRUE,
                                    ![req[q].sess].events = {},
                                    ![req[q].sess].pending = <<>>,
                                    ![req[q].sess].cancel = r,
                                    ![req[q].sess].ctx = r]
      BY <1>6 DEF ClaimSession
    <2>2. req[q].sess \in Sessions /\ ~sess[req[q].sess].running
      BY <1>6 DEF ClaimSession, Claimable, Bindings, RequestsBound
    <2>3. \A r2 \in Runs : ~(run[r2].sess = req[q].sess /\ run[r2].pc \in Live)
      BY <2>2 DEF RunningMeansOneRun, LiveOn
    <2>4. /\ run'[r].pc = "spawn" /\ run'[r].sess = req[q].sess
          /\ \A r2 \in Runs \ {r} : run'[r2] = run[r2]
      BY <2>1, Elements DEF TypeOK, Run
    <2>5. /\ sess'[req[q].sess].running /\ sess'[req[q].sess].cancel = r
          /\ sess'[req[q].sess].ctx = r
          /\ \A s \in Sessions \ {req[q].sess} : sess'[s] = sess[s]
      BY <2>1, <2>2, Elements DEF TypeOK, Session
    <2> QED
      <3>1. PICK t \in Sessions : t = req[q].sess
        BY <2>2
      <3>2. LiveOn(t)' = {r}
        <4>1. \A r2 \in Runs : (run'[r2].sess = t /\ run'[r2].pc \in Live) <=> r2 = r
          BY <2>3, <2>4, <3>1 DEF Live, RunPcs
        <4> QED
          BY <4>1 DEF LiveOn
      <3>3. ASSUME NEW s \in Sessions \ {t}
            PROVE  LiveOn(s)' = LiveOn(s)
        BY <2>1, <2>4, <3>1 DEF LiveOn, Live
      <3>4. \A s \in Sessions \ {t} :
              /\ sess'[s].running <=> LiveOn(s)' # {}
              /\ \A r2 \in LiveOn(s)' : sess'[s].cancel = r2 /\ sess'[s].ctx = r2
        BY <2>5, <3>1, <3>3 DEF RunningMeansOneRun
      <3> QED
        BY <2>5, <3>1, <3>2, <3>4 DEF RunningMeansOneRun
  <1>7. ASSUME NEW q \in Requests, SpawnRun(q)
        PROVE  RunningMeansOneRun'
    BY <1>7, RunsAreNotNoRun DEF SpawnRun, Bindings, RunningMeansOneRun, LiveOn, Live,
        RunPcs,
        SetPc, Finish, AddRow, BufferAndBroadcast, Released, Registered, SetAsking,
        ChatOf, TypeOK, Session, Run, Asker, Request, Askers,
        SessionsBound, RunsBound, RequestsBound, SpawnsApart, AskersBound
  <1>8. ASSUME NEW q \in Requests, Lookup(q)
        PROVE  RunningMeansOneRun'
    BY <1>8, SameRuns DEF Lookup
  <1>9. ASSUME NEW q \in Requests, Stop(q)
        PROVE  RunningMeansOneRun'
    <2>1. \A r \in Runs : run'[r].sess = run[r].sess /\ run'[r].pc = run[r].pc
      BY <1>9, Elements DEF Stop, TypeOK, Run
    <2> QED
      BY <1>9, <2>1, SameRuns DEF Stop
  <1>10. ASSUME NEW q \in Requests, InjectQueue(q)
        PROVE  RunningMeansOneRun'
    <2>1. req[q].sess \in Sessions
      BY <1>10 DEF InjectQueue, Bindings, RequestsBound
    <2>2. \A s \in Sessions : /\ sess'[s].running = sess[s].running
                              /\ sess'[s].cancel = sess[s].cancel
                              /\ sess'[s].ctx = sess[s].ctx
      <3>1. CASE Injectable(req[q].sess)
        <4>1. sess' = [sess EXCEPT ![req[q].sess].pending = Append(@, req[q].msg)]
          BY <1>10, <3>1 DEF InjectQueue
        <4> QED
          BY <2>1, <4>1, Elements DEF TypeOK, Session
      <3>2. CASE ~Injectable(req[q].sess)
        BY <1>10, <3>2 DEF InjectQueue
      <3> QED
        BY <3>1, <3>2
    <2> QED
      BY <1>10, <2>2, SameRuns DEF InjectQueue
  <1>11. ASSUME NEW q \in Requests, InjectPersist(q)
        PROVE  RunningMeansOneRun'
    BY <1>11, SameRuns DEF InjectPersist
  <1>12. ASSUME NEW q \in Requests, InjectNotify(q)
        PROVE  RunningMeansOneRun'
    BY <1>12, StartedRun, BroadcastFrame, SameRuns DEF InjectNotify, Bindings,
        RequestsBound
  <1>13. ASSUME NEW q \in Requests, AnswerCheck(q)
        PROVE  RunningMeansOneRun'
    BY <1>13, SameRuns DEF AnswerCheck
  <1>14. ASSUME NEW q \in Requests, AnswerSend(q)
        PROVE  RunningMeansOneRun'
    <2>1. CASE UNCHANGED run
      BY <1>14, <2>1, SameRuns DEF AnswerSend
    <2>2. ASSUME NEW a \in Askers, asker[a].st = "waiting", SetAsking(a, FALSE),
                 asker' = [asker EXCEPT ![a] = IdleAsker]
          PROVE  RunningMeansOneRun'
      <3>1. \A p \in Requests : req'[p].pc = "idle" \/ req'[p] = req[p]
        BY <1>14, FinishFrame DEF AnswerSend
      <3> QED
        BY <1>14, <2>2, <3>1, LeaveAsk DEF AnswerSend, TypeOK, IdleAsker
    <2> QED
      BY <1>14, <2>1, <2>2 DEF AnswerSend
  <1>15. ASSUME NEW q \in Requests, DropSession(q)
        PROVE  RunningMeansOneRun'
    BY <1>15, SameRuns DEF DropSession
  <1>16. ASSUME NEW q \in Requests, WipeMessages(q)
        PROVE  RunningMeansOneRun'
    BY <1>16, SameRuns DEF WipeMessages
  <1>17. ASSUME NEW r \in Runs, SendBegin(r)
        PROVE  RunningMeansOneRun'
    <2>1. \A r2 \in Runs : /\ run'[r2].sess = run[r2].sess
                           /\ run'[r2].pc \in Live <=> run[r2].pc \in Live
      BY <1>17, Elements DEF SendBegin, AddRowIn, TypeOK, Run, Live, RunPcs
    <2> QED
      BY <1>17, <2>1, SameRuns DEF SendBegin, AddRowIn
  <1>18. ASSUME NEW r \in Runs, HandleStop(r)
        PROVE  RunningMeansOneRun'
    <2>1. \A r2 \in Runs : /\ run'[r2].sess = run[r2].sess
                           /\ run'[r2].pc \in Live <=> run[r2].pc \in Live
      BY <1>18, Elements DEF HandleStop, TypeOK, Run, Live, RunPcs
    <2> QED
      BY <1>18, <2>1, SameRuns DEF HandleStop
  <1>19. ASSUME NEW r \in Runs, Drain(r)
        PROVE  RunningMeansOneRun'
    BY <1>19, RunsAreNotNoRun DEF Drain, Bindings, RunningMeansOneRun, LiveOn, Live,
        RunPcs,
        SetPc, Finish, AddRow, BufferAndBroadcast, Released, Registered, SetAsking,
        ChatOf, TypeOK, Session, Run, Asker, Request, Askers,
        SessionsBound, RunsBound, RequestsBound, SpawnsApart, AskersBound
  <1>20. ASSUME NEW r \in Runs, NextIteration(r)
        PROVE  RunningMeansOneRun'
    <2>1. \A r2 \in Runs : /\ run'[r2].sess = run[r2].sess
                           /\ run'[r2].pc \in Live <=> run[r2].pc \in Live
      BY <1>20, Elements DEF NextIteration, TypeOK, Run, Live, RunPcs
    <2> QED
      BY <1>20, <2>1, SameRuns DEF NextIteration
  <1>21. ASSUME NEW r \in Runs, ProviderError(r)
        PROVE  RunningMeansOneRun'
    <2>1. \A r2 \in Runs : /\ run'[r2].sess = run[r2].sess
                           /\ run'[r2].pc \in Live <=> run[r2].pc \in Live
      BY <1>21, Elements DEF ProviderError, TypeOK, Run, Live, RunPcs
    <2> QED
      BY <1>21, <2>1, SameRuns DEF ProviderError
  <1>22. ASSUME NEW r \in Runs, FinalAnswer(r)
        PROVE  RunningMeansOneRun'
    <2>1. \A r2 \in Runs : /\ run'[r2].sess = run[r2].sess
                           /\ run'[r2].pc \in Live <=> run[r2].pc \in Live
      BY <1>22, Elements DEF FinalAnswer, AddRowIn, TypeOK, Run, Live, RunPcs
    <2> QED
      BY <1>22, <2>1, SameRuns DEF FinalAnswer, AddRowIn
  <1>23. ASSUME NEW r \in Runs, BroadcastEnd(r)
        PROVE  RunningMeansOneRun'
    BY <1>23, RunsAreNotNoRun DEF BroadcastEnd, Bindings, RunningMeansOneRun, LiveOn,
        Live, RunPcs,
        SetPc, Finish, AddRow, BufferAndBroadcast, Released, Registered, SetAsking,
        ChatOf, TypeOK, Session, Run, Asker, Request, Askers,
        SessionsBound, RunsBound, RequestsBound, SpawnsApart, AskersBound
  <1>24. ASSUME NEW r \in Runs, EndRun(r)
        PROVE  RunningMeansOneRun'
    BY <1>24, RunsAreNotNoRun DEF EndRun, Bindings, RunningMeansOneRun, LiveOn, Live,
        RunPcs,
        SetPc, Finish, AddRow, BufferAndBroadcast, Released, Registered, SetAsking,
        ChatOf, TypeOK, Session, Run, Asker, Request, Askers,
        SessionsBound, RunsBound, RequestsBound, SpawnsApart, AskersBound
  <1>25. ASSUME NEW r \in Runs, SpawnSubAgent(r)
        PROVE  RunningMeansOneRun'
    <2>1. \A r2 \in Runs : /\ run'[r2].sess = run[r2].sess
                           /\ run'[r2].pc \in Live <=> run[r2].pc \in Live
      BY <1>25, Elements DEF SpawnSubAgent, TypeOK, Run, Live, RunPcs
    <2> QED
      BY <1>25, <2>1, SameRuns DEF SpawnSubAgent
  <1>26. ASSUME NEW r \in Runs, SubAgentReturns(r)
        PROVE  RunningMeansOneRun'
    <2>1. \A r2 \in Runs : /\ run'[r2].sess = run[r2].sess
                           /\ run'[r2].pc \in Live <=> run[r2].pc \in Live
      BY <1>26, Elements DEF SubAgentReturns, TypeOK, Run, Live, RunPcs
    <2> QED
      BY <1>26, <2>1, SameRuns DEF SubAgentReturns
  <1>27. ASSUME NEW r \in Runs, SubAgentLog(r)
        PROVE  RunningMeansOneRun'
    BY <1>27, StartedRun, BroadcastFrame, SameRuns DEF SubAgentLog, Bindings,
        RequestsBound
  <1>28. ASSUME NEW a \in Askers, AskNobody(a)
        PROVE  RunningMeansOneRun'
    BY <1>28, SameRuns DEF AskNobody
  <1>29. ASSUME NEW a \in Askers, Ask(a)
        PROVE  RunningMeansOneRun'
    BY <1>29, EnterAsk
  <1>30. ASSUME NEW a \in Askers, AwaitAnswer(a)
        PROVE  RunningMeansOneRun'
    <2>1. CASE sess[asker[a].on].ctx = NoRun
      <3>1. /\ asker[a].st = "asked" /\ SetAsking(a, FALSE)
            /\ UNCHANGED <<chats, sess, req>>
            /\ asker' = [asker EXCEPT ![a] = [IdleAsker EXCEPT !.st = "unasked"]]
        BY <1>30, <2>1 DEF AwaitAnswer
      <3>2. /\ asker'[a].st = "unasked"
            /\ \A b \in Askers \ {a} : asker'[b] = asker[b]
        BY <3>1 DEF TypeOK, IdleAsker
      <3> QED
        BY <3>1, <3>2, LeaveAsk
    <2>2. CASE sess[asker[a].on].ctx # NoRun
      BY <1>30, <2>2, SameRuns DEF AwaitAnswer
    <2> QED
      BY <2>1, <2>2
  <1>31. ASSUME NEW a \in Askers, AskCancelled(a)
        PROVE  RunningMeansOneRun'
    BY <1>31, LeaveAsk DEF AskCancelled, TypeOK, IdleAsker
  <1>32. CASE RebuildAgent
    BY <1>32, SameRuns DEF RebuildAgent
  <1>33. CASE UNCHANGED vars
    BY <1>33, SameRuns DEF vars
  <1>34. ASSUME NEW q \in Requests, StopCheck(q)
        PROVE  RunningMeansOneRun'
    BY <1>34, SameRuns DEF StopCheck
  <1> QED
    BY <1>1, <1>2, <1>3, <1>4, <1>5, <1>6, <1>7, <1>8, <1>9, <1>10,
       <1>11, <1>12, <1>13, <1>14, <1>15, <1>16, <1>17, <1>18, <1>19,
       <1>20, <1>21, <1>22, <1>23, <1>24, <1>25, <1>26, <1>27, <1>28,
       <1>29, <1>30, <1>31, <1>32, <1>33, <1>34
    DEF Next, RequestStep, RunProgress, SubAgentStep, AskStep

-----------------------------------------------------------------------------
THEOREM SpecIInv == Spec => []IInv
  <1>1. IInv /\ [Next]_vars => IInv'
    BY TypeStep, BindingsStep, RunsStep DEF IInv
  <1> QED
    BY InitIInv, <1>1, PTL DEF Spec

\* Every reachable state is well typed.
THEOREM TypeCorrect == Spec => []TypeOK
  BY SpecIInv, PTL DEF IInv

\* A session is marked running exactly while one execution works on it, and
\* its cancel function and context are that execution's: what Chat's "already
\* running" test and Stop rely on.
THEOREM OneRunPerSession == Spec => []RunningMeansOneRun
  BY SpecIInv, PTL DEF IInv

\* No goroutine is left with a session, an execution or a question that is not
\* its own.
THEOREM GoroutinesBound == Spec => []Bindings
  BY SpecIInv, PTL DEF IInv

-----------------------------------------------------------------------------
(* What a browser that reconnects is shown.                                *)

\* The steps that change a session.
LEMMA SessionSteps ==
  ASSUME [Next]_vars
  PROVE  \/ UNCHANGED sess
         \/ \E q \in Requests : \/ CreateSession(q) \/ ClaimSession(q) \/ SpawnRun(q)
                                \/ InjectQueue(q) \/ InjectNotify(q)
         \/ \E r \in Runs : Drain(r) \/ BroadcastEnd(r) \/ EndRun(r) \/ SubAgentLog(r)
         \/ \E a \in Askers : Ask(a)
  <1>1. ASSUME NEW q \in Requests, RequestStep(q)
        PROVE  UNCHANGED sess \/ CreateSession(q) \/ ClaimSession(q) \/ SpawnRun(q)
                 \/ InjectQueue(q) \/ InjectNotify(q)
    BY <1>1 DEF RequestStep, ChatLookup, NewAgentFails, AlreadyRunning, Lookup, StopCheck,
        Stop, InjectPersist, AnswerCheck, AnswerSend, DropSession, WipeMessages
  <1>2. ASSUME NEW r \in Runs, RunProgress(r) \/ SubAgentStep(r)
        PROVE  UNCHANGED sess \/ Drain(r) \/ BroadcastEnd(r) \/ EndRun(r) \/ SubAgentLog(r)
    BY <1>2 DEF RunProgress, SubAgentStep, SendBegin, HandleStop, NextIteration,
        FinalAnswer, ProviderError, SpawnSubAgent, SubAgentReturns
  <1>3. ASSUME NEW a \in Askers, AskStep(a)
        PROVE  UNCHANGED sess \/ Ask(a)
    BY <1>3 DEF AskStep, AskNobody, AwaitAnswer, AskCancelled
  <1>4. ASSUME NEW q \in Requests, NEW op \in AllOps, NEW c \in Chats, Arrive(q, op, c)
        PROVE  UNCHANGED sess
    BY <1>4 DEF Arrive
  <1>5. CASE RebuildAgent \/ UNCHANGED vars
    BY <1>5 DEF RebuildAgent, vars
  <1> QED
    BY <1>1, <1>2, <1>3, <1>4, <1>5 DEF Next

\* A broadcast adds its event to the replay buffer of its session, or is dropped.
LEMMA BroadcastAdds ==
  ASSUME TypeOK, NEW s \in Sessions, NEW type, NEW r, BufferAndBroadcast(s, type, r)
  PROVE  \A t \in Sessions :
           /\ sess'[t].pending = sess[t].pending
           /\ \A e \in sess'[t].events :
                e \in sess[t].events \/ (t = s /\ e = [type |-> type, run |-> r])
  BY Elements DEF BufferAndBroadcast, TypeOK, Session

\* A step that neither claims nor releases a session, and buffers nothing but
\* logs, questions and the beginning and end of the execution in progress.
LEMMA SameReplay ==
  ASSUME ReplayIsOfThisRun,
         \A s \in Sessions :
           /\ sess'[s].running = sess[s].running /\ sess'[s].ctx = sess[s].ctx
           /\ \A e \in sess'[s].events :
                \/ e \in sess[s].events
                \/ e.type \notin {"meta", "done", "error"}
                \/ sess[s].running /\ e.run = sess[s].ctx
  PROVE  ReplayIsOfThisRun'
  BY DEF ReplayIsOfThisRun

\* A claimed session starts from nothing, and the others stay as they are.
LEMMA ClaimFrame ==
  ASSUME TypeOK, NEW q \in Requests, req[q].sess \in Sessions, ClaimSession(q)
  PROVE  /\ ~sess[req[q].sess].running
         /\ sess'[req[q].sess].running
         /\ sess'[req[q].sess].pending = <<>> /\ sess'[req[q].sess].events = {}
         /\ \A s \in Sessions \ {req[q].sess} : sess'[s] = sess[s]
  <1>1. PICK s \in Sessions : s = req[q].sess
    OBVIOUS
  <1>2. PICK r \in Runs : sess' = [sess EXCEPT ![s].running = TRUE, ![s].events = {}, ![s].pending = <<>>,
                                               ![s].cancel = r, ![s].ctx = r]
    BY <1>1 DEF ClaimSession
  <1>3. PICK x \in Session : x = sess[s]
    BY Elements
  <1>4. sess' = [sess EXCEPT ![s] = [x EXCEPT !.running = TRUE, !.events = {}, !.pending = <<>>,
                                              !.cancel = r, !.ctx = r]]
    BY <1>2, <1>3
  <1>5. /\ sess'[s] = [x EXCEPT !.running = TRUE, !.events = {}, !.pending = <<>>,
                                !.cancel = r, !.ctx = r]
        /\ \A t \in Sessions \ {s} : sess'[t] = sess[t]
    BY <1>4 DEF TypeOK
  <1>6. sess'[s].running /\ sess'[s].pending = <<>> /\ sess'[s].events = {}
    BY <1>5 DEF Session
  <1>7. ~sess[s].running
    BY <1>1 DEF ClaimSession, Claimable
  <1> QED
    BY <1>1, <1>5, <1>6, <1>7

\* A goroutine that begins or ends its own execution finds its session in use by it.
LEMMA LiveRunOwnsSession ==
  ASSUME IInv, NEW r \in Runs, run[r].pc \in Live
  PROVE  /\ run[r].sess \in Sessions
         /\ sess[run[r].sess].running /\ sess[run[r].sess].ctx = r
  <1>1. run[r].sess \in Sessions
    BY StartedRun DEF IInv, Live
  <1>2. r \in LiveOn(run[r].sess)
    BY DEF LiveOn
  <1> QED
    BY <1>1, <1>2 DEF IInv, RunningMeansOneRun

LEMMA ReplayStep ==
  ASSUME IInv, ReplayIsOfThisRun, [Next]_vars
  PROVE  ReplayIsOfThisRun'
  <1>1. TypeOK /\ Bindings /\ RequestsBound
    BY DEF IInv, Bindings
  <1>2. CASE UNCHANGED sess
    BY <1>2, SameReplay
  <1>3. ASSUME NEW q \in Requests, CreateSession(q)
        PROVE  ReplayIsOfThisRun'
    <2>1. \A s \in Sessions : /\ sess'[s].running = sess[s].running
                              /\ sess'[s].ctx = sess[s].ctx
                              /\ sess'[s].events = sess[s].events
      BY <1>1, <1>3, Elements DEF CreateSession, TypeOK, Session
    <2> QED
      BY <2>1, SameReplay
  <1>4. ASSUME NEW q \in Requests, ClaimSession(q)
        PROVE  ReplayIsOfThisRun'
    <2>1. \A s \in Sessions : sess'[s].events = {} \/ sess'[s] = sess[s]
      <3>1. req[q].sess \in Sessions
        BY <1>1, <1>4 DEF ClaimSession, RequestsBound
      <3> QED
        BY <1>1, <1>4, <3>1, ClaimFrame
    <2> QED
      BY <2>1 DEF ReplayIsOfThisRun
  <1>5. ASSUME NEW q \in Requests, SpawnRun(q)
        PROVE  ReplayIsOfThisRun'
    <2>1. /\ req[q].sess \in Sessions /\ req[q].run \in Runs
          /\ run[req[q].run].pc = "spawn" /\ run[req[q].run].sess = req[q].sess
      BY <1>1, <1>5 DEF SpawnRun, RequestsBound
    <2>2. sess[req[q].sess].running /\ sess[req[q].sess].ctx = req[q].run
      BY <2>1, LiveRunOwnsSession DEF Live, RunPcs
    <2>3. BufferAndBroadcast(req[q].sess, "meta", req[q].run)
      BY <1>5 DEF SpawnRun
    <2> QED
      BY <1>1, <2>1, <2>2, <2>3, BroadcastAdds, BroadcastFrame, SameReplay
  <1>6. ASSUME NEW q \in Requests, InjectQueue(q)
        PROVE  ReplayIsOfThisRun'
    <2>1. req[q].sess \in Sessions
      BY <1>1, <1>6 DEF InjectQueue, RequestsBound
    <2>2. \/ UNCHANGED sess
          \/ sess' = [sess EXCEPT ![req[q].sess].pending = Append(@, req[q].msg)]
      BY <1>6 DEF InjectQueue
    <2>3. \A s \in Sessions : /\ sess'[s].running = sess[s].running
                              /\ sess'[s].ctx = sess[s].ctx
                              /\ sess'[s].events = sess[s].events
      <3>1. CASE UNCHANGED sess
        BY <3>1
      <3>2. CASE sess' = [sess EXCEPT ![req[q].sess].pending = Append(@, req[q].msg)]
        BY <1>1, <2>1, <3>2, Elements DEF TypeOK, Session
      <3> QED
        BY <2>2, <3>1, <3>2
    <2> QED
      BY <2>3, SameReplay
  <1>7. ASSUME NEW q \in Requests, InjectNotify(q)
        PROVE  ReplayIsOfThisRun'
    <2>1. req[q].sess \in Sessions
      BY <1>1, <1>7 DEF InjectNotify, RequestsBound
    <2>2. BufferAndBroadcast(req[q].sess, "pending_msg", req[q].run)
      BY <1>7 DEF InjectNotify
    <2> QED
      BY <1>1, <2>1, <2>2, BroadcastAdds, BroadcastFrame, SameReplay
  <1>8. ASSUME NEW r \in Runs, Drain(r)
        PROVE  ReplayIsOfThisRun'
    <2>1. sess' = [sess EXCEPT ![run[r].sess].pending = <<>>]
      BY <1>8 DEF Drain
    <2>2. \A s \in Sessions : /\ sess'[s].running = sess[s].running
                              /\ sess'[s].ctx = sess[s].ctx
                              /\ sess'[s].events = sess[s].events
      BY <1>1, <2>1, Elements DEF TypeOK, Session
    <2> QED
      BY <2>2, SameReplay
  <1>9. ASSUME NEW r \in Runs, BroadcastEnd(r)
        PROVE  ReplayIsOfThisRun'
    <2>1. run[r].pc \in Live
      BY <1>9 DEF BroadcastEnd, Live, RunPcs
    <2>2. BufferAndBroadcast(run[r].sess, run[r].pc, r)
      BY <1>9 DEF BroadcastEnd
    <2>3. run[r].sess \in Sessions /\ sess[run[r].sess].running /\ sess[run[r].sess].ctx = r
      BY <2>1, LiveRunOwnsSession
    <2> QED
      BY <1>1, <2>2, <2>3, BroadcastAdds, BroadcastFrame, SameReplay
  <1>10. ASSUME NEW r \in Runs, EndRun(r)
         PROVE  ReplayIsOfThisRun'
    <2>1. run[r].sess \in Sessions /\ sess' = [sess EXCEPT ![run[r].sess] = Released(run[r].sess)]
      BY <1>1, <1>10, StartedRun DEF EndRun
    <2>2. Released(run[r].sess).events = {}
      BY <1>1, <2>1, Elements DEF Released, Session
    <2>3. \A s \in Sessions : sess'[s].events = {} \/ sess'[s] = sess[s]
      BY <1>1, <2>1, <2>2 DEF TypeOK
    <2> QED
      BY <2>3 DEF ReplayIsOfThisRun
  <1>11. ASSUME NEW r \in Runs, SubAgentLog(r)
         PROVE  ReplayIsOfThisRun'
    <2>1. run[r].sess \in Sessions /\ BufferAndBroadcast(run[r].sess, "log", r)
      BY <1>1, <1>11, StartedRun DEF SubAgentLog
    <2> QED
      BY <1>1, <2>1, BroadcastAdds, BroadcastFrame, SameReplay
  <1>12. ASSUME NEW a \in Askers, Ask(a)
         PROVE  ReplayIsOfThisRun'
    <2>1. a[1] \in Runs /\ BufferAndBroadcast(chats[ChatOf(a[1])], "ask", a[1])
      BY <1>12 DEF Ask, Askers
    <2>2. ChatOf(a[1]) \in Chats
      BY <1>1, <1>12, <2>1, StartedRun DEF Ask, CanAsk
    <2>3. chats[ChatOf(a[1])] \in Sessions
      BY <1>1, <1>12, <2>2 DEF Ask, TypeOK
    <2> QED
      BY <1>1, <2>1, <2>3, BroadcastAdds, BroadcastFrame, SameReplay
  <1> QED
    BY <1>2, <1>3, <1>4, <1>5, <1>6, <1>7, <1>8, <1>9, <1>10, <1>11, <1>12, SessionSteps

\* What ChatStatus replays never begins or ends an execution other than the one
\* in progress: no browser that reconnects sees its chat end while it goes on.
THEOREM ReplayIsCurrent == Spec => []ReplayIsOfThisRun
  <1>1. Init => ReplayIsOfThisRun
    BY DEF Init, NilSession, ReplayIsOfThisRun
  <1>2. IInv /\ ReplayIsOfThisRun /\ [Next]_vars => ReplayIsOfThisRun'
    BY ReplayStep
  <1> QED
    BY SpecIInv, <1>1, <1>2, PTL DEF Spec

-----------------------------------------------------------------------------
(* What becomes of an injected message.                                    *)

\* The handler of an inject that has not yet queued its message.
Carries(q) == req[q].op = "inject" /\ req[q].pc \in {"lookup", "act"}

\* No message waits twice in a queue, no queue outlives its execution.
QueuesSound ==
    \A s \in Sessions :
      /\ sess[s].pending # <<>> => sess[s].running
      /\ \A i, j \in DOMAIN sess[s].pending :
           sess[s].pending[i] = sess[s].pending[j] => i = j

\* No message waits in two queues.
QueuesApart ==
    \A s, t \in Sessions, m \in Msgs : m \in Pending(s) /\ m \in Pending(t) => s = t

\* A message says that it waits when it does.
QueuedIsPending ==
    \A m \in Msgs : msg[m].st = "queued" <=> \E s \in Sessions : m \in Pending(s)

\* A handler carries a message that waits nowhere yet, and that no other carries.
CarriersSound ==
    \A q \in Requests :
      /\ req[q].op # "inject" => req[q].msg = NoChat
      /\ Carries(q) => msg[req[q].msg].st = "sending"
      /\ \A p \in Requests : Carries(p) /\ Carries(q) /\ req[p].msg = req[q].msg => p = q

MessagesInv == QueuesSound /\ QueuesApart /\ QueuedIsPending /\ CarriersSound

LEMMA MessagesInvImplies == MessagesInv => QueuedOnce
  BY DEF MessagesInv, QueuesSound, QueuesApart, QueuedIsPending, QueuedOnce

LEMMA InitMessages == Init => MessagesInv
  BY DEF Init, MessagesInv, QueuesSound, QueuesApart, QueuedIsPending, CarriersSound,
     NilSession, IdleRequest, Carries, Pending

\* A step that leaves queues and messages alone, and in which no handler takes
\* up a message.
LEMMA SameMessages ==
  ASSUME MessagesInv, UNCHANGED msg,
         \A s \in Sessions : /\ sess'[s].pending = sess[s].pending
                             /\ sess'[s].running = sess[s].running,
         \A p \in Requests :
           /\ req'[p].op # "inject" => req'[p].msg = NoChat
           /\ Carries(p)' => Carries(p) /\ req'[p].msg = req[p].msg
  PROVE  MessagesInv'
  <1>1. \A s \in Sessions : Pending(s)' = Pending(s)
    BY DEF Pending
  <1>2. QueuesSound'
    BY DEF MessagesInv, QueuesSound
  <1>3. QueuesApart' /\ QueuedIsPending'
    BY <1>1 DEF MessagesInv, QueuesApart, QueuedIsPending
  <1>4. CarriersSound'
    BY DEF MessagesInv, CarriersSound
  <1> QED
    BY <1>2, <1>3, <1>4 DEF MessagesInv

\* A handler that goes on or ends takes up no message.
LEMMA HandlerCarriesOn ==
  ASSUME TypeOK, MessagesInv, NEW q \in Requests,
         \A p \in Requests \ {q} : req'[p] = req[p],
         \/ req'[q] = IdleRequest
         \/ /\ req'[q].op = req[q].op /\ req'[q].msg = req[q].msg
            /\ req'[q].pc \in {"lookup", "act"}
                 => req[q].op # "inject" \/ req[q].pc \in {"lookup", "act"}
  PROVE  \A p \in Requests :
           /\ req'[p].op # "inject" => req'[p].msg = NoChat
           /\ Carries(p)' => Carries(p) /\ req'[p].msg = req[p].msg
  BY DEF MessagesInv, CarriersSound, Carries, IdleRequest

LEMMA FinishCarries ==
  ASSUME TypeOK, MessagesInv, NEW q \in Requests, Finish(q)
  PROVE  \A p \in Requests :
           /\ req'[p].op # "inject" => req'[p].msg = NoChat
           /\ Carries(p)' => Carries(p) /\ req'[p].msg = req[p].msg
  <1>1. req'[q] = IdleRequest /\ \A p \in Requests \ {q} : req'[p] = req[p]
    BY DEF Finish, TypeOK
  <1> QED
    BY <1>1, HandlerCarriesOn

LEMMA SetPcCarries ==
  ASSUME TypeOK, MessagesInv, NEW q \in Requests,
         NEW pc \in ReqPcs \ {"lookup", "act"}, SetPc(q, pc)
  PROVE  \A p \in Requests :
           /\ req'[p].op # "inject" => req'[p].msg = NoChat
           /\ Carries(p)' => Carries(p) /\ req'[p].msg = req[p].msg
  BY SetPcFrame, HandlerCarriesOn

LEMMA SameCarriers ==
  ASSUME MessagesInv, UNCHANGED req
  PROVE  \A p \in Requests :
           /\ req'[p].op # "inject" => req'[p].msg = NoChat
           /\ Carries(p)' => Carries(p) /\ req'[p].msg = req[p].msg
  BY DEF MessagesInv, CarriersSound, Carries

\* A handler takes up a message that nobody sent yet.
LEMMA ArriveMessages ==
  ASSUME IInv, MessagesInv, NEW q \in Requests, NEW op \in AllOps, NEW c \in Chats,
         Arrive(q, op, c)
  PROVE  MessagesInv'
  <1>1. TypeOK /\ UNCHANGED sess
    BY DEF IInv, Arrive
  <1>2. CASE op # "inject"
    <2>1. /\ UNCHANGED msg
          /\ req' = [req EXCEPT ![q] = [IdleRequest EXCEPT !.op = op, !.pc = "lookup", !.chat = c]]
      BY <1>2 DEF Arrive
    <2>2. \A p \in Requests \ {q} : req'[p] = req[p]
      BY <1>1, <2>1 DEF TypeOK
    <2>3. req'[q].op = op /\ req'[q].msg = NoChat
      BY <1>1, <2>1 DEF TypeOK, IdleRequest
    <2>4. \A p \in Requests :
            /\ req'[p].op # "inject" => req'[p].msg = NoChat
            /\ Carries(p)' => Carries(p) /\ req'[p].msg = req[p].msg
      BY <1>2, <2>2, <2>3 DEF MessagesInv, CarriersSound, Carries
    <2> QED
      BY <1>1, <2>1, <2>4, SameMessages
  <1>3. CASE op = "inject"
    <2>1. PICK m \in Msgs :
            /\ msg[m].st = "unsent"
            /\ msg' = [msg EXCEPT ![m].st = "sending"]
            /\ req' = [req EXCEPT ![q] = [IdleRequest EXCEPT !.op = op,
                          !.pc = "lookup", !.chat = c, !.msg = m]]
      BY <1>3 DEF Arrive
    <2>2. \A p \in Requests \ {q} : req'[p] = req[p]
      BY <1>1, <2>1 DEF TypeOK
    <2>3. req'[q].op = "inject" /\ req'[q].msg = m
      BY <1>1, <1>3, <2>1 DEF TypeOK, IdleRequest
    <2>4. msg'[m].st = "sending" /\ \A n \in Msgs \ {m} : msg'[n] = msg[n]
      BY <1>1, <2>1, Elements DEF TypeOK, MsgState
    <2>5. \A s \in Sessions : Pending(s)' = Pending(s)
      BY <1>1 DEF Pending
    <2>6. QueuesSound' /\ QueuesApart'
      BY <1>1, <2>5 DEF MessagesInv, QueuesSound, QueuesApart
    <2>7. QueuedIsPending'
      BY <2>1, <2>4, <2>5 DEF MessagesInv, QueuedIsPending
    <2>8. \A p \in Requests : Carries(p) => req[p].msg \in Msgs /\ req[p].msg # m
      BY <2>1 DEF IInv, Bindings, RequestsBound, MessagesInv, CarriersSound, Carries
    <2>9. \A p \in Requests \ {q} : Carries(p)' <=> Carries(p)
      BY <2>2 DEF Carries
    <2>10. CarriersSound'
      BY <2>2, <2>3, <2>4, <2>8, <2>9 DEF MessagesInv, CarriersSound
    <2> QED
      BY <2>6, <2>7, <2>10 DEF MessagesInv
  <1> QED
    BY <1>2, <1>3

\* A message that is refused waits nowhere.
LEMMA RefusedMessage ==
  ASSUME IInv, MessagesInv, NEW q \in Requests, Carries(q), Finish(q), UNCHANGED sess,
         NEW m \in Msgs, m = req[q].msg, msg'[m].st = "refused",
         \A n \in Msgs \ {m} : msg'[n] = msg[n]
  PROVE  MessagesInv'
  <1>1. \A s \in Sessions : Pending(s)' = Pending(s)
    BY DEF Pending
  <1>2. QueuesSound' /\ QueuesApart'
    BY <1>1 DEF MessagesInv, QueuesSound, QueuesApart
  <1>3. msg[m].st = "sending"
    BY DEF MessagesInv, CarriersSound
  <1>4. QueuedIsPending'
    BY <1>1, <1>3 DEF MessagesInv, QueuedIsPending
  <1>5. \A p \in Requests : /\ req'[p].op # "inject" => req'[p].msg = NoChat
                            /\ Carries(p)' => Carries(p) /\ req'[p].msg = req[p].msg
    BY FinishCarries DEF IInv
  <1>6. \A p \in Requests : Carries(p)' => p # q
    BY FinishFrame DEF IInv, Carries
  <1>7. \A p \in Requests : Carries(p) => req[p].msg \in Msgs
    BY DEF IInv, Bindings, RequestsBound, Carries
  <1>8. \A p \in Requests : Carries(p)' => msg'[req'[p].msg].st = "sending"
    BY <1>5, <1>6, <1>7 DEF MessagesInv, CarriersSound
  <1>9. CarriersSound'
    BY <1>5, <1>8 DEF MessagesInv, CarriersSound
  <1> QED
    BY <1>2, <1>4, <1>9 DEF MessagesInv

\* Inject, under sess.mu: the message joins the queue of an execution.
LEMMA QueueMessage ==
  ASSUME IInv, MessagesInv, NEW q \in Requests, InjectQueue(q)
  PROVE  MessagesInv'
  <1>1. TypeOK /\ Carries(q)
    BY DEF IInv, InjectQueue, Carries
  <1>2. req[q].sess \in Sessions /\ req[q].msg \in Msgs
    BY DEF IInv, Bindings, RequestsBound, InjectQueue
  <1>3. PICK m \in Msgs, s \in Sessions : m = req[q].msg /\ s = req[q].sess
    BY <1>2
  <1>4. msg[m].st = "sending"
    BY <1>1, <1>3 DEF MessagesInv, CarriersSound
  <1>5. CASE ~Injectable(s)
    <2>1. msg' = [msg EXCEPT ![m].st = "refused"] /\ Finish(q) /\ UNCHANGED sess
      BY <1>3, <1>5 DEF InjectQueue
    <2>2. msg'[m].st = "refused" /\ \A n \in Msgs \ {m} : msg'[n] = msg[n]
      BY <1>1, <2>1, Elements DEF TypeOK, MsgState
    <2> QED
      BY <1>1, <1>3, <2>1, <2>2, RefusedMessage
  <1>6. CASE Injectable(s)
    <2>1. /\ sess' = [sess EXCEPT ![s].pending = Append(@, m)]
          /\ msg' = [msg EXCEPT ![m].st = "queued"]
          /\ req' = [req EXCEPT ![q].pc = "persist", ![q].run = sess[s].ctx]
      BY <1>3, <1>6 DEF InjectQueue
    <2>2. msg'[m].st = "queued" /\ \A n \in Msgs \ {m} : msg'[n] = msg[n]
      BY <1>1, <2>1, Elements DEF TypeOK, MsgState
    <2>3. /\ sess'[s].pending = Append(sess[s].pending, m) /\ sess'[s].running
          /\ \A t \in Sessions \ {s} : sess'[t] = sess[t]
      BY <1>1, <1>6, <2>1, Elements DEF TypeOK, Session, Injectable
    <2>4. sess[s].pending \in Seq(Msgs)
      BY <1>1, Elements DEF Session
    <2>5. PICK p \in Seq(Msgs) : p = sess[s].pending
      BY <2>4
    <2>6. PICK n \in Nat : n = Len(p) + 1 /\ DOMAIN p = 1..(n - 1)
      BY <2>5
    <2>7. /\ DOMAIN Append(p, m) = 1..n /\ Append(p, m)[n] = m
          /\ \A i \in DOMAIN p : i # n /\ Append(p, m)[i] = p[i]
          /\ \A i \in 1..n : i = n \/ i \in DOMAIN p
          /\ n \in 1..n /\ \A i \in DOMAIN p : i \in 1..n
      BY <2>5, <2>6
    <2>8. \A t \in Sessions : m \notin Pending(t)
      BY <1>4 DEF MessagesInv, QueuedIsPending
    <2>9. \A i \in DOMAIN p : p[i] # m
      BY <2>5, <2>8 DEF Pending
    <2>10. \A t \in Sessions : Pending(t)' = IF t = s THEN Pending(t) \cup {m} ELSE Pending(t)
      <3> DEFINE w == Append(p, m)
      <3>2. DOMAIN w = 1..n /\ w[n] = m /\ \A i \in DOMAIN p : w[i] = p[i]
        BY <2>7
      <3>3. sess'[s].pending = w /\ sess[s].pending = p
        BY <2>3, <2>5
      <3> HIDE DEF w
      <3>4. \A x : (\E i \in 1..n : x = w[i]) <=> (\E i \in DOMAIN p : x = p[i]) \/ x = m
        BY <2>7, <3>2
      <3>5. Pending(s)' = {w[i] : i \in 1..n} /\ Pending(s) = {p[i] : i \in DOMAIN p}
        BY <3>2, <3>3 DEF Pending
      <3>1. Pending(s)' = Pending(s) \cup {m}
        BY <3>4, <3>5
      <3>6. \A t \in Sessions \ {s} : Pending(t)' = Pending(t)
        BY <2>3 DEF Pending
      <3> QED
        BY <3>1, <3>6
    <2>11. QueuesSound'
      <3> DEFINE w == Append(p, m)
      <3>1. \A i, j \in DOMAIN p : p[i] = p[j] => i = j
        BY <2>5 DEF MessagesInv, QueuesSound
      <3>2. /\ DOMAIN w = 1..n /\ w[n] = m
            /\ \A i \in DOMAIN p : w[i] = p[i]
            /\ \A i \in 1..n : i = n \/ i \in DOMAIN p
        BY <2>7
      <3>3. sess'[s].pending = w
        BY <2>3, <2>5
      <3> HIDE DEF w
      <3>4. \A i, j \in 1..n : w[i] = w[j] => i = j
        BY <2>9, <3>1, <3>2
      <3>5. \A t \in Sessions \ {s} : /\ sess'[t].pending # <<>> => sess'[t].running
                                      /\ \A i, j \in DOMAIN sess'[t].pending :
                                            sess'[t].pending[i] = sess'[t].pending[j] => i = j
        BY <2>3 DEF MessagesInv, QueuesSound
      <3>6. /\ sess'[s].running
            /\ \A i, j \in DOMAIN sess'[s].pending :
                  sess'[s].pending[i] = sess'[s].pending[j] => i = j
        BY <2>3, <3>2, <3>3, <3>4
      <3> QED
        BY <3>5, <3>6 DEF QueuesSound
    <2>12. QueuesApart'
      BY <2>8, <2>10 DEF MessagesInv, QueuesApart
    <2>13. QueuedIsPending'
      BY <2>2, <2>10 DEF MessagesInv, QueuedIsPending
    <2>14. /\ req'[q].op = req[q].op /\ req'[q].msg = req[q].msg /\ req'[q].pc = "persist"
           /\ \A o \in Requests \ {q} : req'[o] = req[o]
      BY <1>1, <2>1, Elements DEF TypeOK, Request
    <2>15. \A o \in Requests : /\ req'[o].op # "inject" => req'[o].msg = NoChat
                               /\ Carries(o)' => Carries(o) /\ req'[o].msg = req[o].msg
      BY <1>1, <2>14, HandlerCarriesOn
    <2>16. \A o \in Requests : Carries(o)' => o # q
      BY <2>14 DEF Carries
    <2>17. \A o \in Requests : Carries(o) => req[o].msg \in Msgs
      BY DEF IInv, Bindings, RequestsBound, Carries
    <2>18. \A o \in Requests : Carries(o)' => msg'[req'[o].msg].st = "sending"
      BY <1>1, <1>3, <2>2, <2>15, <2>16, <2>17 DEF MessagesInv, CarriersSound
    <2>19. CarriersSound'
      BY <2>15, <2>18 DEF MessagesInv, CarriersSound
    <2> QED
      BY <2>11, <2>12, <2>13, <2>19 DEF MessagesInv
  <1> QED
    BY <1>5, <1>6

\* A queue is emptied: into the agent, or by the epilogue.
LEMMA EmptyQueue ==
  ASSUME IInv, MessagesInv, NEW s \in Sessions, UNCHANGED req,
         sess'[s].pending = <<>>,
         \A t \in Sessions \ {s} : sess'[t] = sess[t],
         \A m \in Msgs : IF m \in Pending(s)
                         THEN msg'[m].st \in {"delivered", "dropped"}
                         ELSE msg'[m] = msg[m]
  PROVE  MessagesInv'
  <1>1. Pending(s)' = {} /\ \A t \in Sessions \ {s} : Pending(t)' = Pending(t)
    BY DEF Pending
  <1>2. QueuesSound'
    BY DEF MessagesInv, QueuesSound
  <1>3. QueuesApart'
    BY <1>1 DEF MessagesInv, QueuesApart
  <1>4. QueuedIsPending'
    BY <1>1 DEF MessagesInv, QueuesApart, QueuedIsPending
  <1>5. \A p \in Requests : Carries(p) => req[p].msg \in Msgs
    BY DEF IInv, Bindings, RequestsBound, Carries
  <1>6. \A p \in Requests : Carries(p) => req[p].msg \notin Pending(s)
    BY <1>5 DEF MessagesInv, CarriersSound, QueuedIsPending
  <1>7. \A p \in Requests : Carries(p)' <=> Carries(p)
    BY DEF Carries
  <1>8. CarriersSound'
    BY <1>5, <1>6, <1>7 DEF MessagesInv, CarriersSound
  <1> QED
    BY <1>2, <1>3, <1>4, <1>8 DEF MessagesInv

LEMMA MessagesStep ==
  ASSUME IInv, MessagesInv, [Next]_vars
  PROVE  MessagesInv'
  <1>1. TypeOK /\ Bindings /\ RequestsBound
    BY DEF IInv, Bindings
  <1>2. ASSUME NEW q \in Requests, NEW op \in AllOps, NEW c \in Chats, Arrive(q, op, c)
        PROVE  MessagesInv'
    BY <1>2, ArriveMessages
  <1>3. ASSUME NEW q \in Requests,
               \/ NewAgentFails(q) \/ AlreadyRunning(q) \/ Stop(q) \/ AnswerSend(q) \/ WipeMessages(q)
        PROVE  MessagesInv'
    <2>1. Finish(q) /\ UNCHANGED <<sess, msg>>
      BY <1>3 DEF NewAgentFails, AlreadyRunning, Stop, AnswerSend, WipeMessages
    <2> QED
      BY <1>1, <2>1, FinishCarries, SameMessages
  <1>4. ASSUME NEW q \in Requests, StopCheck(q) \/ AnswerCheck(q) \/ InjectPersist(q) \/ DropSession(q)
        PROVE  MessagesInv'
    <2>1. /\ Finish(q) \/ \E pc \in {"cancel", "send", "notify", "wipe"} : SetPc(q, pc)
          /\ UNCHANGED <<sess, msg>>
      BY <1>4 DEF StopCheck, AnswerCheck, InjectPersist, DropSession
    <2>2. \A p \in Requests : /\ req'[p].op # "inject" => req'[p].msg = NoChat
                              /\ Carries(p)' => Carries(p) /\ req'[p].msg = req[p].msg
      <3>1. CASE Finish(q)
        BY <1>1, <3>1, FinishCarries
      <3>2. ASSUME NEW pc \in {"cancel", "send", "notify", "wipe"}, SetPc(q, pc)
            PROVE  \A p \in Requests : /\ req'[p].op # "inject" => req'[p].msg = NoChat
                                       /\ Carries(p)' => Carries(p) /\ req'[p].msg = req[p].msg
        <4>1. pc \in ReqPcs \ {"lookup", "act"}
          BY DEF ReqPcs
        <4> QED
          BY <1>1, <3>2, <4>1, SetPcCarries
      <3> QED
        BY <2>1, <3>1, <3>2
    <2> QED
      BY <2>1, <2>2, SameMessages
  <1>5. ASSUME NEW q \in Requests, ChatLookup(q) \/ CreateSession(q) \/ ClaimSession(q)
        PROVE  MessagesInv'
    <2>1. /\ UNCHANGED msg /\ req[q].pc \in {"lookup", "build", "have"}
          /\ req[q].pc = "lookup" => req[q].op = "chat"
      BY <1>5 DEF ChatLookup, CreateSession, ClaimSession
    <2>2. /\ req'[q].op = req[q].op /\ req'[q].msg = req[q].msg
          /\ req'[q].pc \in {"build", "have", "spawn"}
          /\ \A p \in Requests \ {q} : req'[p] = req[p]
      <3>1. CASE ChatLookup(q)
        BY <1>1, <3>1, Elements DEF ChatLookup, TypeOK, Request
      <3>2. CASE CreateSession(q)
        BY <1>1, <3>2, Elements DEF CreateSession, TypeOK, Request
      <3>3. CASE ClaimSession(q)
        BY <1>1, <3>3, Elements DEF ClaimSession, TypeOK, Request
      <3> QED
        BY <1>5, <3>1, <3>2, <3>3
    <2>3. \A p \in Requests : /\ req'[p].op # "inject" => req'[p].msg = NoChat
                              /\ Carries(p)' => Carries(p) /\ req'[p].msg = req[p].msg
      BY <1>1, <2>2, HandlerCarriesOn
    <2>4. CASE ClaimSession(q)
      <3>1. /\ req[q].sess \in Sessions /\ ~sess[req[q].sess].running
            /\ sess'[req[q].sess].running /\ sess'[req[q].sess].pending = <<>>
            /\ \A s \in Sessions \ {req[q].sess} : sess'[s] = sess[s]
        <4>1. req[q].sess \in Sessions
          BY <1>1, <2>4 DEF ClaimSession, RequestsBound
        <4> QED
          BY <1>1, <2>4, <4>1, ClaimFrame
      <3>2. sess[req[q].sess].pending = <<>>
        BY <3>1 DEF MessagesInv, QueuesSound
      <3>3. \A s \in Sessions : /\ sess'[s].pending = sess[s].pending
                                /\ sess[s].running => sess'[s].running
        BY <3>1, <3>2
      <3>4. \A s \in Sessions : Pending(s)' = Pending(s)
        BY <3>3 DEF Pending
      <3>5. QueuesSound'
        BY <3>3 DEF MessagesInv, QueuesSound
      <3>6. QueuesApart' /\ QueuedIsPending'
        BY <2>1, <3>4 DEF MessagesInv, QueuesApart, QueuedIsPending
      <3>7. CarriersSound'
        BY <2>1, <2>3 DEF MessagesInv, CarriersSound
      <3> QED
        BY <3>5, <3>6, <3>7 DEF MessagesInv
    <2>5. CASE ChatLookup(q) \/ CreateSession(q)
      <3>1. \A s \in Sessions : /\ sess'[s].pending = sess[s].pending
                                /\ sess'[s].running = sess[s].running
        <4>1. CASE ChatLookup(q)
          BY <4>1 DEF ChatLookup
        <4>2. CASE CreateSession(q)
          BY <1>1, <4>2, Elements DEF CreateSession, TypeOK, Session
        <4> QED
          BY <2>5, <4>1, <4>2
      <3> QED
        BY <2>1, <2>3, <3>1, SameMessages
    <2> QED
      BY <1>5, <2>4, <2>5
  <1>6. ASSUME NEW q \in Requests, SpawnRun(q) \/ InjectNotify(q)
        PROVE  MessagesInv'
    <2>1. /\ Finish(q) /\ UNCHANGED msg /\ req[q].sess \in Sessions
          /\ \E type \in EventTypes : BufferAndBroadcast(req[q].sess, type, req[q].run)
      BY <1>1, <1>6 DEF SpawnRun, InjectNotify, RequestsBound, EventTypes
    <2>2. \A s \in Sessions : /\ sess'[s].pending = sess[s].pending
                              /\ sess'[s].running = sess[s].running
      BY <1>1, <2>1, BroadcastAdds, BroadcastFrame
    <2> QED
      BY <1>1, <2>1, <2>2, FinishCarries, SameMessages
  <1>7. ASSUME NEW q \in Requests, Lookup(q)
        PROVE  MessagesInv'
    <2>1. UNCHANGED sess /\ req[q].pc = "lookup" /\ req[q].op \in {"stop", "inject", "answer"}
      BY <1>7 DEF Lookup
    <2>2. CASE chats[req[q].chat] # NoSession
      <3>1. /\ UNCHANGED msg
            /\ req' = [req EXCEPT ![q].sess = chats[req[q].chat], ![q].pc = "act"]
        BY <1>7, <2>2 DEF Lookup
      <3>2. /\ req'[q].op = req[q].op /\ req'[q].msg = req[q].msg
            /\ \A p \in Requests \ {q} : req'[p] = req[p]
        BY <1>1, <3>1, Elements DEF TypeOK, Request
      <3>3. \A p \in Requests : /\ req'[p].op # "inject" => req'[p].msg = NoChat
                                /\ Carries(p)' => Carries(p) /\ req'[p].msg = req[p].msg
        BY <1>1, <2>1, <3>2, HandlerCarriesOn
      <3> QED
        BY <2>1, <3>1, <3>3, SameMessages
    <2>3. CASE chats[req[q].chat] = NoSession
      <3>1. /\ Finish(q)
            /\ msg' = [m \in Msgs |-> IF m = req[q].msg
                                      THEN [msg[m] EXCEPT !.st = "refused"]
                                      ELSE msg[m]]
        BY <1>7, <2>3 DEF Lookup
      <3>2. CASE req[q].op = "inject"
        <4>1. Carries(q) /\ req[q].msg \in Msgs
          BY <1>1, <2>1, <3>2 DEF Carries, RequestsBound
        <4>2. PICK m \in Msgs : m = req[q].msg
          BY <4>1
        <4>3. msg'[m].st = "refused" /\ \A n \in Msgs \ {m} : msg'[n] = msg[n]
          BY <1>1, <3>1, <4>2, Elements DEF MsgState
        <4> QED
          BY <2>1, <3>1, <4>1, <4>2, <4>3, RefusedMessage
      <3>3. CASE req[q].op # "inject"
        <4>1. req[q].msg \notin Msgs
          BY <3>3 DEF MessagesInv, CarriersSound
        <4>2. msg' = msg
          BY <1>1, <3>1, <4>1 DEF TypeOK
        <4> QED
          BY <1>1, <2>1, <3>1, <4>2, FinishCarries, SameMessages
      <3> QED
        BY <3>2, <3>3
    <2> QED
      BY <2>2, <2>3
  <1>8. ASSUME NEW q \in Requests, InjectQueue(q)
        PROVE  MessagesInv'
    BY <1>8, QueueMessage
  <1>9. ASSUME NEW r \in Runs, Drain(r) \/ EndRun(r)
        PROVE  MessagesInv'
    <2>1. run[r].sess \in Sessions /\ UNCHANGED req
      BY <1>1, <1>9, StartedRun DEF Drain, EndRun
    <2>2. PICK s \in Sessions : s = run[r].sess
      BY <2>1
    <2>3. sess[s].pending \in Seq(Msgs)
      BY <1>1, Elements DEF Session
    <2>4. {sess[s].pending[i] : i \in 1..Len(sess[s].pending)} = Pending(s)
      BY <2>3 DEF Pending
    <2>5. /\ sess'[s].pending = <<>>
          /\ \A t \in Sessions \ {s} : sess'[t] = sess[t]
      <3>1. CASE Drain(r)
        BY <1>1, <2>2, <3>1, Elements DEF Drain, TypeOK, Session
      <3>2. CASE EndRun(r)
        BY <1>1, <2>2, <3>2, Elements DEF EndRun, Released, TypeOK, Session
      <3> QED
        BY <1>9, <3>1, <3>2
    <2>6. \A m \in Msgs : IF m \in Pending(s)
                          THEN msg'[m].st \in {"delivered", "dropped"}
                          ELSE msg'[m] = msg[m]
      <3>1. CASE Drain(r)
        BY <1>1, <2>2, <2>4, <3>1, Elements DEF Drain, MsgState
      <3>2. CASE EndRun(r)
        BY <1>1, <2>2, <2>4, <3>2, Elements DEF EndRun, MsgState
      <3> QED
        BY <1>9, <3>1, <3>2
    <2> QED
      BY <2>1, <2>5, <2>6, EmptyQueue
  <1>10. ASSUME NEW r \in Runs, BroadcastEnd(r) \/ SubAgentLog(r)
         PROVE  MessagesInv'
    <2>1. /\ run[r].sess \in Sessions /\ UNCHANGED <<req, msg>>
          /\ \E type \in EventTypes : BufferAndBroadcast(run[r].sess, type, r)
      BY <1>1, <1>10, StartedRun DEF BroadcastEnd, SubAgentLog, EventTypes
    <2>2. \A s \in Sessions : /\ sess'[s].pending = sess[s].pending
                              /\ sess'[s].running = sess[s].running
      BY <1>1, <2>1, BroadcastAdds, BroadcastFrame
    <2> QED
      BY <2>1, <2>2, SameCarriers, SameMessages
  <1>11. ASSUME NEW r \in Runs,
                \/ SendBegin(r) \/ HandleStop(r) \/ NextIteration(r) \/ FinalAnswer(r)
                \/ ProviderError(r) \/ SpawnSubAgent(r) \/ SubAgentReturns(r)
         PROVE  MessagesInv'
    <2>1. UNCHANGED <<sess, req, msg>>
      BY <1>11 DEF SendBegin, HandleStop, NextIteration, FinalAnswer, ProviderError,
          SpawnSubAgent, SubAgentReturns
    <2> QED
      BY <2>1, SameCarriers, SameMessages
  <1>12. ASSUME NEW a \in Askers, AskStep(a)
         PROVE  MessagesInv'
    <2>1. UNCHANGED <<req, msg>>
      BY <1>12 DEF AskStep, AskNobody, Ask, AwaitAnswer, AskCancelled
    <2>2. CASE Ask(a)
      <3>1. a[1] \in Runs /\ BufferAndBroadcast(chats[ChatOf(a[1])], "ask", a[1])
        BY <2>2 DEF Ask, Askers
      <3>2. ChatOf(a[1]) \in Chats
        BY <1>1, <2>2, <3>1, StartedRun DEF Ask, CanAsk
      <3>3. chats[ChatOf(a[1])] \in Sessions
        BY <1>1, <2>2, <3>2 DEF Ask, TypeOK
      <3>4. \A s \in Sessions : /\ sess'[s].pending = sess[s].pending
                                /\ sess'[s].running = sess[s].running
        BY <1>1, <3>1, <3>3, BroadcastAdds, BroadcastFrame
      <3> QED
        BY <2>1, <3>4, SameCarriers, SameMessages
    <2>3. CASE AskNobody(a) \/ AwaitAnswer(a) \/ AskCancelled(a)
      <3>1. UNCHANGED sess
        BY <2>3 DEF AskNobody, AwaitAnswer, AskCancelled
      <3> QED
        BY <2>1, <3>1, SameCarriers, SameMessages
    <2> QED
      BY <1>12, <2>2, <2>3 DEF AskStep
  <1>13. CASE RebuildAgent \/ UNCHANGED vars
    <2>1. UNCHANGED <<sess, req, msg>>
      BY <1>13 DEF RebuildAgent, vars
    <2> QED
      BY <2>1, SameCarriers, SameMessages
  <1> QED
    BY <1>2, <1>3, <1>4, <1>5, <1>6, <1>7, <1>8, <1>9, <1>10, <1>11, <1>12, <1>13
    DEF Next, RequestStep, RunProgress, SubAgentStep

\* An accepted message waits in exactly one queue, once, of a session in use,
\* whatever order Inject, PendingMsgs, the epilogue and rebuilds come in: none is
\* given to two executions, and none waits where nobody will look.
THEOREM MessageQueuedOnce == Spec => []QueuedOnce
  <1>1. IInv /\ MessagesInv /\ [Next]_vars => MessagesInv'
    BY MessagesStep
  <1> QED
    BY SpecIInv, InitMessages, <1>1, MessagesInvImplies, PTL DEF Spec

-----------------------------------------------------------------------------
(* The executions are turns of AgentTurn.                                  *)

\* An execution leaves finitely many answers.
AnswersFinite == \A r \in Runs : IsFiniteSet(AnswerRows(r))

LEMMA AnswerRowsAre ==
  ASSUME NEW r
  PROVE  /\ \A x : x \in AnswerRows(r) <=>
              \E c \in Chats : \E k \in DOMAIN db[c] : IsAnswer(db[c][k], r) /\ x = <<c, k>>
         /\ \A x : (x \in AnswerRows(r))' <=>
              \E c \in Chats : \E k \in DOMAIN db'[c] : IsAnswer(db'[c][k], r) /\ x = <<c, k>>
  BY DEF AnswerRows

\* A step that adds no row.
LEMMA SameRows ==
  ASSUME AnswersFinite, UNCHANGED db, NEW r \in Runs
  PROVE  IsFiniteSet(AnswerRows(r))' /\ Answers(r)' = Answers(r)
  BY DEF AnswersFinite, AnswerRows, Answers

\* A row adds one to the answers of the execution whose answer it is.
LEMMA AnswersOfRow ==
  ASSUME TypeOK, AnswersFinite, NEW c \in Chats, NEW kind, NEW id, AddRow(c, kind, id),
         [kind |-> kind, id |-> id] \in Row, NEW r \in Runs
  PROVE  /\ IsFiniteSet(AnswerRows(r))'
         /\ Answers(r)' = IF kind = "answer" /\ id = r THEN Answers(r) + 1 ELSE Answers(r)
  <1> DEFINE row == [kind |-> kind, id |-> id]
             A == AnswerRows(r)
  <1>1. db[c] \in Seq(Row) /\ db'[c] = Append(db[c], row)
        /\ \A d \in Chats \ {c} : db'[d] = db[d]
    BY DEF TypeOK, AddRow
  <1>2. IsAnswer(row, r) <=> kind = "answer" /\ id = r
    BY DEF IsAnswer
  <1>3. PICK p \in Seq(Row) : p = db[c]
    BY <1>1
  <1>4. PICK n \in Nat : n = Len(p) + 1 /\ DOMAIN p = 1..(n - 1)
    BY <1>3
  <1> HIDE DEF row
  <1>5. row \in Row
    BY DEF row
  <1>6. /\ DOMAIN db'[c] = 1..n /\ db'[c][n] = row /\ n \notin DOMAIN db[c]
        /\ \A k \in DOMAIN db[c] : db'[c][k] = db[c][k]
        /\ \A k : k \in 1..n <=> k = n \/ k \in DOMAIN db[c]
    BY <1>1, <1>3, <1>4, <1>5
  <1>7. <<c, n>> \notin A
    <2>1. SUFFICES ASSUME NEW d \in Chats, NEW k \in DOMAIN db[d], <<c, n>> = <<d, k>>
                   PROVE  FALSE
      BY AnswerRowsAre
    <2> QED
      BY <1>6, <2>1
  <1>8. \A x : (x \in AnswerRows(r))' <=> x \in A \/ (x = <<c, n>> /\ IsAnswer(row, r))
    <2>1. \A x : (\E d \in Chats : \E k \in DOMAIN db'[d] : IsAnswer(db'[d][k], r) /\ x = <<d, k>>)
                 <=> \/ \E d \in Chats \ {c} : \E k \in DOMAIN db[d] : IsAnswer(db[d][k], r) /\ x = <<d, k>>
                     \/ \E k \in DOMAIN db'[c] : IsAnswer(db'[c][k], r) /\ x = <<c, k>>
      BY <1>1
    <2>2. \A x : (\E k \in DOMAIN db'[c] : IsAnswer(db'[c][k], r) /\ x = <<c, k>>)
                 <=> \/ \E k \in DOMAIN db[c] : IsAnswer(db[c][k], r) /\ x = <<c, k>>
                     \/ IsAnswer(row, r) /\ x = <<c, n>>
      BY <1>6
    <2>3. \A x : x \in A <=> \/ \E d \in Chats \ {c} : \E k \in DOMAIN db[d] : IsAnswer(db[d][k], r) /\ x = <<d, k>>
                             \/ \E k \in DOMAIN db[c] : IsAnswer(db[c][k], r) /\ x = <<c, k>>
      BY AnswerRowsAre
    <2> QED
      BY <2>1, <2>2, <2>3, AnswerRowsAre
  <1>9. AnswerRows(r)' = IF IsAnswer(row, r) THEN A \cup {<<c, n>>} ELSE A
    BY <1>8
  <1>10. IsFiniteSet(A) /\ Answers(r) = Cardinality(A)
    BY DEF AnswersFinite, Answers
  <1>11. Answers(r)' = Cardinality(AnswerRows(r)')
    BY DEF Answers
  <1> HIDE DEF A
  <1>12. IsFiniteSet(A \cup {<<c, n>>}) /\ Cardinality(A \cup {<<c, n>>}) = Cardinality(A) + 1
    BY <1>7, <1>10, FS_AddElement
  <1> QED
    BY <1>2, <1>9, <1>10, <1>11, <1>12

\* Clearing a chat takes rows away.
LEMMA WipeKeepsFinite ==
  ASSUME TypeOK, AnswersFinite, NEW q \in Requests, WipeMessages(q)
  PROVE  AnswersFinite'
  <1> SUFFICES ASSUME NEW r \in Runs PROVE IsFiniteSet(AnswerRows(r))'
    BY DEF AnswersFinite
  <1>1. \A c \in Chats : db'[c] = db[c] \/ db'[c] = <<>>
    BY DEF WipeMessages, TypeOK
  <1>2. \A c \in Chats : \A k \in DOMAIN db'[c] : k \in DOMAIN db[c] /\ db'[c][k] = db[c][k]
    BY <1>1
  <1>3. \A x : (x \in AnswerRows(r))' => x \in AnswerRows(r)
    BY <1>2, AnswerRowsAre
  <1>4. AnswerRows(r)' \subseteq AnswerRows(r)
    BY <1>3
  <1> QED
    BY <1>4, FS_Subset DEF AnswersFinite

\* The place of an execution, and its context, as a step leaves them.
LEMMA RunPcMoves ==
  ASSUME TypeOK, NEW x \in Runs, NEW pc, run' = [run EXCEPT ![x].pc = pc]
  PROVE  \A r \in Runs : /\ run'[r].cancelled = run[r].cancelled
                         /\ run'[r].pc = IF r = x THEN pc ELSE run[r].pc
  BY Elements DEF TypeOK, Run

LEMMA AskingMoves ==
  ASSUME IInv, NEW a \in Askers,
         \/ CanAsk(a) /\ SetAsking(a, TRUE)
         \/ asker[a].st \in {"asked", "waiting"} /\ SetAsking(a, FALSE)
  PROVE  \A r \in Runs : /\ run'[r].cancelled = run[r].cancelled
                         /\ \/ run'[r].pc = run[r].pc
                            \/ run[r].pc \in {"work", "ask"} /\ run'[r].pc \in {"work", "ask"}
  <1>1. a[1] \in Runs /\ a[2] \in {"main", "sub"} /\ TypeOK
    BY DEF Askers, IInv
  <1>2. a[2] = "main" => run[a[1]].pc \in {"work", "ask"}
    BY DEF CanAsk, IInv, Bindings, AskersBound
  <1>3. CASE a[2] = "main"
    <2>1. run' = [run EXCEPT ![a[1]].pc = "ask"] \/ run' = [run EXCEPT ![a[1]].pc = "work"]
      BY <1>3 DEF SetAsking
    <2> QED
      BY <1>1, <1>2, <1>3, <2>1, RunPcMoves
  <1>4. CASE a[2] = "sub"
    BY <1>1, <1>4, Elements DEF SetAsking, TypeOK, Run
  <1> QED
    BY <1>1, <1>3, <1>4

\* An execution that is not moved, or stays within its work, stutters.
LEMMA TurnStutters ==
  ASSUME NEW r \in Runs, run'[r].cancelled = run[r].cancelled,
         \/ run'[r].pc = run[r].pc
         \/ run[r].pc \in {"none", "spawn"} /\ run'[r].pc \in {"none", "spawn"}
         \/ run[r].pc \in {"work", "ask"} /\ run'[r].pc \in {"work", "ask"}
         \/ run[r].pc \in {"done", "error", "end"} /\ run'[r].pc \in {"end", "ended"},
         Answers(r)' = Answers(r)
  PROVE  [Turn(r)!Next]_(Turn(r)!turnVars)
  <1>1. Phase(r)' = Phase(r)
    <2>1. CASE run'[r].pc = run[r].pc
      BY <2>1 DEF Phase
    <2>2. CASE run[r].pc \in {"none", "spawn"} /\ run'[r].pc \in {"none", "spawn"}
      BY <2>2 DEF Phase
    <2>3. CASE run[r].pc \in {"work", "ask"} /\ run'[r].pc \in {"work", "ask"}
      BY <2>3 DEF Phase
    <2>4. CASE run[r].pc \in {"done", "error", "end"} /\ run'[r].pc \in {"end", "ended"}
      BY <2>4 DEF Phase
    <2> QED
      BY <2>1, <2>2, <2>3, <2>4
  <1> QED
    BY <1>1 DEF Turn!turnVars

\* The phase of a turn, from where its execution is.
LEMMA PhaseIs ==
  ASSUME NEW r
  PROVE  /\ run[r].pc = "spawn" => Phase(r) = "waiting"
         /\ run[r].pc = "send" => Phase(r) = "send"
         /\ run[r].pc = "loop" => Phase(r) = "loop"
         /\ run[r].pc = "work" => Phase(r) = "work"
         /\ run[r].pc \in {"done", "error"} => Phase(r) = "over"
         /\ run'[r].pc = "send" => Phase(r)' = "send"
         /\ run'[r].pc = "loop" => Phase(r)' = "loop"
         /\ run'[r].pc = "work" => Phase(r)' = "work"
         /\ run'[r].pc \in {"done", "error"} => Phase(r)' = "over"
  BY DEF Phase

\* A step that writes no row and only asks, answers, queues, looks up or cleans up.
LEMMA OthersStutter ==
  ASSUME IInv, AnswersFinite, UNCHANGED db, NEW r \in Runs,
         UNCHANGED run \/ \E a \in Askers :
            \/ CanAsk(a) /\ SetAsking(a, TRUE)
            \/ asker[a].st \in {"asked", "waiting"} /\ SetAsking(a, FALSE)
  PROVE  [Turn(r)!Next]_(Turn(r)!turnVars)
  <1>1. Answers(r)' = Answers(r)
    BY SameRows
  <1>2. CASE UNCHANGED run
    BY <1>1, <1>2, TurnStutters
  <1>3. CASE \E a \in Askers : \/ CanAsk(a) /\ SetAsking(a, TRUE)
                               \/ asker[a].st \in {"asked", "waiting"} /\ SetAsking(a, FALSE)
    BY <1>1, <1>3, AskingMoves, TurnStutters
  <1> QED
    BY <1>2, <1>3

\* An execution that moves writes no answer, or its own at its end.
LEMMA SendTurns ==
  ASSUME IInv, AnswersFinite, NEW x \in Runs,
         \/ SendBegin(x) \/ HandleStop(x) \/ Drain(x) \/ NextIteration(x) \/ FinalAnswer(x)
         \/ ProviderError(x) \/ BroadcastEnd(x) \/ EndRun(x)
  PROVE  AnswersFinite' /\ \A r \in Runs : [Turn(r)!Next]_(Turn(r)!turnVars)
  <1>1. TypeOK
    BY DEF IInv
  <1>2. PICK pc : run' = [run EXCEPT ![x].pc = pc]
    BY DEF SendBegin, HandleStop, Drain, NextIteration, FinalAnswer, ProviderError,
       BroadcastEnd, EndRun
  <1>3. \A r \in Runs : /\ run'[r].cancelled = run[r].cancelled
                        /\ run'[r].pc = IF r = x THEN pc ELSE run[r].pc
    BY ZenonT(40), <1>1, <1>2, RunPcMoves
  <1>4. run[x].pc # "none"
    BY DEF SendBegin, HandleStop, Drain, NextIteration, FinalAnswer, ProviderError,
       BroadcastEnd, EndRun
  <1>5. ChatOf(x) \in Chats
    BY <1>1, <1>4, StartedRun DEF IInv
  <1>6. ASSUME UNCHANGED db
        PROVE  AnswersFinite' /\ \A r \in Runs : Answers(r)' = Answers(r)
    BY <1>6, SameRows DEF AnswersFinite
  <1>7. ASSUME NEW kind \in {"turn", "answer"}, AddRow(ChatOf(x), kind, x)
        PROVE  /\ AnswersFinite'
               /\ \A r \in Runs : Answers(r)' = IF kind = "answer" /\ r = x THEN Answers(r) + 1 ELSE Answers(r)
    <2>1. [kind |-> kind, id |-> x] \in Row
      BY RowsOfRuns
    <2> QED
      BY <1>1, <1>5, <1>7, <2>1, AnswersOfRow DEF AnswersFinite
  <1>8. AnswersFinite' /\ \A r \in Runs \ {x} : Answers(r)' = Answers(r)
    <2>1. \/ UNCHANGED db \/ AddRow(ChatOf(x), "turn", x) \/ AddRow(ChatOf(x), "answer", x)
      BY DEF SendBegin, HandleStop, Drain, NextIteration, FinalAnswer, ProviderError,
         BroadcastEnd, EndRun, AddRowIn
    <2> QED
      BY <1>6, <1>7, <2>1
  <1>9. \A r \in Runs \ {x} : [Turn(r)!Next]_(Turn(r)!turnVars)
    BY <1>3, <1>8, TurnStutters
  <1>10. [Turn(x)!Next]_(Turn(x)!turnVars)
    <2>1. CASE SendBegin(x)
      <3>1. run[x].pc = "send" /\ run'[x].pc \in {"loop", "error"}
        BY <1>1, <2>1, Elements DEF SendBegin, AddRowIn, TypeOK, Run
      <3>2. Answers(x)' = Answers(x)
        BY <1>6, <1>7, <2>1 DEF SendBegin, AddRowIn
      <3> QED
        BY <1>3, <3>1, <3>2, PhaseIs DEF Turn!Next, Turn!Admit
    <2>2. CASE HandleStop(x)
      <3>1. run[x].pc \in {"loop", "work"} /\ run'[x].pc = "done" /\ AddRow(ChatOf(x), "answer", x)
        BY <1>1, <2>2, Elements DEF HandleStop, TypeOK, Run
      <3>2. Answers(x)' = Answers(x) + 1
        BY <1>7, <3>1
      <3> QED
        BY <1>3, <3>1, <3>2, PhaseIs DEF Turn!Next, Turn!Answer
    <2>3. CASE Drain(x)
      <3>1. run[x].pc = "loop" /\ run'[x].pc = "work" /\ ~run[x].cancelled /\ UNCHANGED db
        BY <1>1, <2>3, Elements DEF Drain, GoesOn, TypeOK, Run
      <3>2. Answers(x)' = Answers(x)
        BY <1>6, <3>1
      <3> QED
        BY <1>3, <3>1, <3>2, PhaseIs DEF Turn!Next, Turn!Enter
    <2>4. CASE NextIteration(x)
      <3>1. run[x].pc = "work" /\ run'[x].pc = "loop" /\ UNCHANGED db
        BY <1>1, <2>4, Elements DEF NextIteration, TypeOK, Run
      <3>2. Answers(x)' = Answers(x)
        BY <1>6, <3>1
      <3> QED
        BY <1>3, <3>1, <3>2, PhaseIs DEF Turn!Next, Turn!Again
    <2>5. CASE FinalAnswer(x)
      <3>1. run[x].pc = "work" /\ run'[x].pc = "done"
        BY <1>1, <2>5, Elements DEF FinalAnswer, AddRowIn, TypeOK, Run
      <3>2. AddRow(ChatOf(x), "answer", x) \/ (run[x].cancelled /\ UNCHANGED db)
        BY <2>5 DEF FinalAnswer, AddRowIn
      <3>3. Answers(x)' = Answers(x) + 1 \/ (run[x].cancelled /\ Answers(x)' = Answers(x))
        BY <1>6, <1>7, <3>2
      <3> QED
        BY <1>3, <3>1, <3>3, PhaseIs DEF Turn!Next, Turn!Answer
    <2>6. CASE ProviderError(x)
      <3>1. run[x].pc = "work" /\ run'[x].pc = "error" /\ UNCHANGED db
        BY <1>1, <2>6, Elements DEF ProviderError, TypeOK, Run
      <3>2. Answers(x)' = Answers(x)
        BY <1>6, <3>1
      <3> QED
        BY <1>3, <3>1, <3>2, PhaseIs DEF Turn!Next, Turn!Fail
    <2>7. CASE BroadcastEnd(x) \/ EndRun(x)
      <3>1. run[x].pc \in {"done", "error", "end"} /\ UNCHANGED db
        BY <2>7 DEF BroadcastEnd, EndRun
      <3>2. run'[x].pc \in {"end", "ended"}
        BY <1>1, <2>7, Elements DEF BroadcastEnd, EndRun, TypeOK, Run
      <3>3. Answers(x)' = Answers(x)
        BY <1>6, <3>1
      <3> QED
        BY <1>3, <3>1, <3>2, <3>3, TurnStutters
    <2> QED
      BY <2>1, <2>2, <2>3, <2>4, <2>5, <2>6, <2>7
  <1> QED
    BY <1>8, <1>9, <1>10

\* Every step is a step or a stutter of each turn, unless it clears the chat.
LEMMA TurnsStep ==
  ASSUME IInv, AnswersFinite, [Next]_vars
  PROVE  /\ AnswersFinite'
         /\ Erasing \/ \A r \in Runs : [Turn(r)!Next]_(Turn(r)!turnVars)
  <1>1. TypeOK /\ Bindings /\ RequestsBound
    BY DEF IInv, Bindings
  <1> DEFINE Good == AnswersFinite' /\ \A r \in Runs : [Turn(r)!Next]_(Turn(r)!turnVars)
  <1>2. ASSUME UNCHANGED db PROVE AnswersFinite'
    BY <1>2, SameRows DEF AnswersFinite
  <1>3. ASSUME UNCHANGED db,
               UNCHANGED run \/ \E a \in Askers :
                  \/ CanAsk(a) /\ SetAsking(a, TRUE)
                  \/ asker[a].st \in {"asked", "waiting"} /\ SetAsking(a, FALSE)
        PROVE  Good
    BY <1>2, <1>3, OthersStutter
  <1>4. ASSUME NEW q \in Requests, NEW op \in AllOps, NEW c \in Chats, Arrive(q, op, c)
        PROVE  Good
    BY <1>3, <1>4 DEF Arrive
  <1>5. ASSUME NEW q \in Requests,
               \/ ChatLookup(q) \/ CreateSession(q) \/ NewAgentFails(q) \/ AlreadyRunning(q)
               \/ Lookup(q) \/ StopCheck(q) \/ InjectQueue(q) \/ InjectNotify(q)
               \/ AnswerCheck(q) \/ DropSession(q)
        PROVE  Good
    <2>1. UNCHANGED <<run, db>>
      BY <1>5 DEF ChatLookup, CreateSession, NewAgentFails, AlreadyRunning, Lookup, StopCheck,
          InjectQueue, InjectNotify, AnswerCheck, DropSession
    <2> QED
      BY <1>3, <2>1
  <1>6. ASSUME NEW q \in Requests, AnswerSend(q)
        PROVE  Good
    <2>1. UNCHANGED db /\ (UNCHANGED run \/ \E a \in Askers : asker[a].st = "waiting" /\ SetAsking(a, FALSE))
      BY <1>6 DEF AnswerSend
    <2> QED
      BY <1>3, <2>1
  <1>7. ASSUME NEW a \in Askers, AskStep(a)
        PROVE  Good
    <2>1. UNCHANGED db
      BY <1>7 DEF AskStep, AskNobody, Ask, AwaitAnswer, AskCancelled
    <2>2. \/ UNCHANGED run
          \/ CanAsk(a) /\ SetAsking(a, TRUE)
          \/ asker[a].st \in {"asked", "waiting"} /\ SetAsking(a, FALSE)
      BY <1>7 DEF AskStep, AskNobody, Ask, AwaitAnswer, AskCancelled
    <2> QED
      BY <1>3, <2>1, <2>2
  <1>19. ASSUME NEW x \in Runs, SubAgentLog(x)
         PROVE  Good
    BY <1>3, <1>19 DEF SubAgentLog
  <1>8. ASSUME RebuildAgent \/ UNCHANGED vars
        PROVE  Good
    <2>1. UNCHANGED <<run, db>>
      BY <1>8 DEF RebuildAgent, vars
    <2> QED
      BY <1>3, <2>1
  <1>9. ASSUME NEW q \in Requests, InjectPersist(q)
        PROVE  Good
    <2>1. /\ req[q].chat \in Chats /\ req[q].msg \in Msgs /\ UNCHANGED run
          /\ AddRow(req[q].chat, "inject", req[q].msg)
      BY <1>1, <1>9 DEF InjectPersist, RequestsBound
    <2>2. [kind |-> "inject", id |-> req[q].msg] \in Row
      BY <2>1 DEF Row
    <2>3. \A r \in Runs : IsFiniteSet(AnswerRows(r))' /\ Answers(r)' = Answers(r)
      BY <1>1, <2>1, <2>2, AnswersOfRow
    <2> QED
      BY <2>1, <2>3, TurnStutters DEF AnswersFinite
  <1>10. ASSUME NEW q \in Requests, WipeMessages(q)
         PROVE  AnswersFinite' /\ Erasing
    BY <1>1, <1>10, WipeKeepsFinite DEF Erasing
  <1>11. ASSUME NEW q \in Requests, Stop(q)
         PROVE  Good
    <2>1. UNCHANGED db /\ AnswersFinite'
      BY <1>2, <1>11 DEF Stop
    <2>2. \A r \in Runs : Answers(r)' = Answers(r)
      BY <2>1, SameRows
    <2>3. \A r \in Runs : run'[r] = run[r] \/ (run'[r].cancelled = TRUE /\ run'[r].pc = run[r].pc)
      BY <1>1, <1>11, Elements DEF Stop, TypeOK, Run
    <2>4. ASSUME NEW r \in Runs, run'[r].cancelled = TRUE, run'[r].pc = run[r].pc
          PROVE  [Turn(r)!Next]_(Turn(r)!turnVars)
      <3>1. Phase(r)' = Phase(r)
        BY <2>4 DEF Phase
      <3> QED
        BY <2>2, <2>4, <3>1 DEF Turn!Next, Turn!Cancel
    <2>5. ASSUME NEW r \in Runs, run'[r] = run[r]
          PROVE  [Turn(r)!Next]_(Turn(r)!turnVars)
      BY <2>2, <2>5, TurnStutters
    <2> QED
      BY <2>1, <2>3, <2>4, <2>5
  <1>12. ASSUME NEW q \in Requests, ClaimSession(q)
         PROVE  Good
    <2>1. UNCHANGED db /\ AnswersFinite'
      BY <1>2, <1>12 DEF ClaimSession
    <2>2. \A r \in Runs : Answers(r)' = Answers(r)
      BY <2>1, SameRows
    <2>3. \A r \in Runs : /\ run'[r].cancelled = run[r].cancelled
                          /\ \/ run'[r].pc = run[r].pc
                             \/ run[r].pc = "none" /\ run'[r].pc = "spawn"
      BY <1>1, <1>12, Elements DEF ClaimSession, TypeOK, Run
    <2> QED
      BY <2>1, <2>2, <2>3, TurnStutters
  <1>13. ASSUME NEW q \in Requests, SpawnRun(q)
         PROVE  Good
    <2>1. UNCHANGED db /\ AnswersFinite'
      BY <1>2, <1>13 DEF SpawnRun
    <2>2. \A r \in Runs : Answers(r)' = Answers(r)
      BY <2>1, SameRows
    <2>3. req[q].run \in Runs /\ run[req[q].run].pc = "spawn"
      BY <1>1, <1>13 DEF SpawnRun, RequestsBound
    <2>4. PICK x \in Runs : x = req[q].run
      BY <2>3
    <2>5. run' = [run EXCEPT ![x].pc = "send"]
      BY <1>13, <2>4 DEF SpawnRun
    <2>6. \A r \in Runs : /\ run'[r].cancelled = run[r].cancelled
                          /\ run'[r].pc = IF r = x THEN "send" ELSE run[r].pc
      BY ZenonT(40), <1>1, <2>5, RunPcMoves
    <2>7. [Turn(x)!Next]_(Turn(x)!turnVars)
      BY <2>2, <2>3, <2>4, <2>6, PhaseIs DEF Turn!Next, Turn!Start
    <2>8. \A r \in Runs \ {x} : [Turn(r)!Next]_(Turn(r)!turnVars)
      BY <2>2, <2>6, TurnStutters
    <2> QED
      BY <2>1, <2>7, <2>8
  <1>14. ASSUME NEW x \in Runs, RunProgress(x)
         PROVE  Good
    BY <1>14, SendTurns DEF RunProgress
  <1>15. ASSUME NEW x \in Runs, SpawnSubAgent(x) \/ SubAgentReturns(x)
         PROVE  Good
    <2>1. UNCHANGED db /\ AnswersFinite'
      BY <1>2, <1>15 DEF SpawnSubAgent, SubAgentReturns
    <2>2. \A r \in Runs : Answers(r)' = Answers(r)
      BY <2>1, SameRows
    <2>3. \A r \in Runs : run'[r].cancelled = run[r].cancelled /\ run'[r].pc = run[r].pc
      <3>1. CASE SpawnSubAgent(x)
        BY <1>1, <3>1, Elements DEF SpawnSubAgent, TypeOK, Run
      <3>2. CASE SubAgentReturns(x)
        BY <1>1, <3>2, Elements DEF SubAgentReturns, TypeOK, Run
      <3> QED
        BY <1>15, <3>1, <3>2
    <2> QED
      BY <2>1, <2>2, <2>3, TurnStutters
  <1> HIDE DEF Good
  <1>16. ASSUME NEW q \in Requests, RequestStep(q)
         PROVE  Good \/ (AnswersFinite' /\ Erasing)
    BY <1>5, <1>6, <1>9, <1>10, <1>11, <1>12, <1>13, <1>16 DEF RequestStep
  <1>17. ASSUME NEW x \in Runs, SubAgentStep(x)
         PROVE  Good
    BY <1>15, <1>17, <1>19 DEF SubAgentStep
  <1>18. Good \/ (AnswersFinite' /\ Erasing)
    BY <1>4, <1>7, <1>8, <1>14, <1>16, <1>17 DEF Next
  <1> QED
    BY <1>18 DEF Good

\* Chat's executions implement AgentTurn: however sessions, stops, injected messages,
\* questions, sub-agents and rebuilds interleave, each is one turn of the agent,
\* started once, over once, answered as the abstract turn is; only clearing the
\* chat takes an answer away.
THEOREM ChatRunsAreTurns == Spec => TurnsImplemented
  <1>1. Init => AnswersFinite /\ \A r \in Runs : Turn(r)!Init
    <2> SUFFICES ASSUME Init, NEW r \in Runs
                 PROVE  IsFiniteSet(AnswerRows(r)) /\ Turn(r)!Init
      BY DEF AnswersFinite
    <2>1. \A c \in Chats : DOMAIN db[c] = {}
      BY DEF Init
    <2>2. \A x : x \notin AnswerRows(r)
      BY <2>1, AnswerRowsAre
    <2>3. AnswerRows(r) = {}
      BY <2>2
    <2>4. Answers(r) = 0 /\ IsFiniteSet(AnswerRows(r))
      BY <2>3, FS_EmptySet DEF Answers
    <2>5. run[r].cancelled = FALSE /\ run[r].pc = "none"
      BY DEF Init
    <2>6. Phase(r) = "waiting"
      BY <2>5 DEF Phase
    <2> QED
      BY <2>4, <2>5, <2>6 DEF Turn!Init
  <1>2. IInv /\ AnswersFinite /\ [Next]_vars
          => AnswersFinite' /\ [Erasing \/ \A r \in Runs : [Turn(r)!Next]_(Turn(r)!turnVars)]_vars
    BY TurnsStep
  <1> QED
    BY SpecIInv, <1>1, <1>2, PTL DEF Spec, TurnsImplemented

=============================================================================
