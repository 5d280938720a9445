---------------------------- MODULE EngineProofs ----------------------------
(***************************************************************************)
(* Proofs about what an engine's VM runs and what runs beside it: the      *)
(* turns and blocks under its lock, for any number of them and any         *)
(* timeout; the persistent connections with their warm VMs, through        *)
(* crashes and restarts; and the history and the workspace's repository    *)
(* of the git bridge, whatever snapshots, compactions and stashes overlap. *)
(***************************************************************************)
EXTENDS EngineRun, ConnManager, Git, TLAPS

\* A turn at or inside Run has begun a block.
BlocksBegun == \A t \in Turns : pc[t] \in {"lock", "run", "unwind"} => block[t] > 0

\* The engine's execution context is that of the Run that holds e.mu.
CtxBound == execCtx = IF mu \in Turns \ Scripts THEN mu ELSE Nobody

\* What a live timer will do, what is left when it is paused, and that it is
\* paused while the VM waits for a sub-agent or, in page.pause, for the user.
Timing ==
    /\ dlTimer = "live" =>
          /\ fireAt = dlStarted + dlBudget /\ dlStarted <= clock
          /\ fireAt + spent >= clock + grant
    /\ execCtx # Nobody => dlBudget = 0 \/ dlBudget + spent >= grant
    /\ Paused => dlTimer = "nil"

\* The inductive invariant.
IInv == TypeOK /\ RunsAreSerial /\ NoDeadlineLeft /\ BlocksBegun /\ CtxBound /\ Timing

\* Each turn of a chat is alone, and its context is the engine's stop context.
Alone == \A t \in Turns : pc[t] \notin {"idle", "over"} => stopCtx = t

\* The native calls.
NativeStep == NativeCall \/ NativeReturns \/ PageWait \/ PageGoesOn

LEMMA InitIInv == Init => IInv
  BY EngineAssumption DEF Init, IInv, TypeOK, RunsAreSerial, NoDeadlineLeft, BlocksBegun,
     CtxBound, Timing, Paused, NoBlock, Free, SubStates

-----------------------------------------------------------------------------
(* Types.                                                                  *)

Sub == [state : SubStates, of : Turns \cup {Nobody}, ctx : {"none", "turn", "block"},
        on : Turns \cup {Nobody}, cancelled : BOOLEAN]

LEMMA EndOfBlockType ==
  ASSUME TypeOK, NEW t \in Turns, EndOfBlock(t)
  PROVE  /\ pc' \in [Turns -> {"idle", "turn", "lock", "run", "unwind", "over"}]
         /\ sub' \in [Handles -> Sub]
  <1>1. \A h \in Handles : [sub[h] EXCEPT !.cancelled = TRUE] \in Sub
    BY DEF TypeOK, Sub
  <1>2. sub' \in [Handles -> Sub]
    BY <1>1 DEF EndOfBlock, TypeOK, Sub
  <1> QED
    BY <1>2 DEF EndOfBlock, TypeOK

LEMMA LeaveType ==
  ASSUME TypeOK, NEW t \in Turns, Leave(t)
  PROVE  /\ mu' \in Turns \cup {Nobody} /\ execCtx' \in Turns \cup {Nobody}
         /\ dlTimer' \in {"nil", "live", "fired"} /\ fireAt' \in Nat /\ dlBudget' \in Nat
         /\ grant' \in Nat /\ spent' \in Nat
  BY DEF Leave, TypeOK

LEMMA CurrentIsBlock ==
  ASSUME TypeOK, BlocksBegun, RunsAreSerial, mu # Nobody
  PROVE  Current \in Blocks
  BY DEF TypeOK, BlocksBegun, RunsAreSerial, Current, Blocks

LEMMA TurnType ==
  ASSUME IInv, NEW t \in Turns,
         \/ BeginTurn(t) \/ BeginBlock(t) \/ EnterLate(t) \/ Enter(t) \/ TakeResult(t)
         \/ CtxDone(t) \/ Unwound(t) \/ EndTurn(t) \/ Stop(t)
  PROVE  TypeOK'
  <1>1. CASE BeginTurn(t)
    BY <1>1 DEF IInv, TypeOK, BeginTurn, turnVars, timerVars
  <1>2. CASE BeginBlock(t)
    BY EngineAssumption, <1>2 DEF IInv, TypeOK, BeginBlock, turnVars, timerVars
  <1>3. CASE EnterLate(t)
    BY <1>3, EndOfBlockType DEF IInv, TypeOK, EnterLate, Sub, timerVars
  <1>4. CASE Enter(t)
    BY EngineAssumption, <1>4 DEF IInv, TypeOK, Enter, SetExecCtx, turnVars, timerVars
  <1>5. CASE TakeResult(t)
    <2>1. EndOfBlock(t) /\ Leave(t) /\ ch' = "empty"
      BY <1>5 DEF TakeResult
    <2> QED
      BY <1>5, <2>1, EndOfBlockType, LeaveType DEF IInv, TypeOK, TakeResult, Leave, Sub
  <1>6. CASE CtxDone(t)
    <2>1. Current \in Blocks
      BY EngineAssumption, <1>6, CurrentIsBlock DEF IInv, CtxDone, RunsAreSerial
    <2> QED
      BY <1>6, <2>1 DEF IInv, TypeOK, CtxDone, turnVars, timerVars
  <1>7. CASE Unwound(t)
    <2>1. EndOfBlock(t) /\ Leave(t) /\ ch' = "empty"
      BY <1>7 DEF Unwound
    <2> QED
      BY <2>1, EndOfBlockType, LeaveType DEF IInv, TypeOK, Leave, Sub
  <1>8. CASE EndTurn(t)
    BY <1>8 DEF IInv, TypeOK, EndTurn, turnVars, timerVars
  <1>9. CASE Stop(t)
    BY <1>9 DEF IInv, TypeOK, Stop, turnVars, timerVars
  <1> QED
    BY <1>1, <1>2, <1>3, <1>4, <1>5, <1>6, <1>7, <1>8, <1>9

LEMMA HandleType ==
  ASSUME IInv, NEW h \in Handles,
         AgentRun(h) \/ AgentKill(h) \/ ResultWait(h) \/ SubEnds(h)
  PROVE  TypeOK'
  <1>1. CASE AgentRun(h)
    <2>1. /\ StopContext[1] \in {"none", "turn", "block"}
          /\ StopContext[2] \in Turns \cup {Nobody}
      BY DEF StopContext, IInv, TypeOK
    <2>2. [state |-> "running", of |-> mu, ctx |-> StopContext[1], on |-> StopContext[2],
           cancelled |-> FALSE] \in Sub
      BY <2>1 DEF Sub, SubStates, IInv, TypeOK
    <2>3. sub' \in [Handles -> Sub]
      BY <1>1, <2>2 DEF AgentRun, IInv, TypeOK, Sub
    <2> QED
      BY <1>1, <2>3 DEF AgentRun, IInv, TypeOK, Sub, turnVars, timerVars
  <1>2. CASE AgentKill(h)
    <2>1. [sub[h] EXCEPT !.cancelled = TRUE] \in Sub
      BY DEF Sub, IInv, TypeOK
    <2>2. sub' \in [Handles -> Sub]
      BY <1>2, <2>1 DEF AgentKill, IInv, TypeOK, Sub
    <2> QED
      BY <1>2, <2>2 DEF AgentKill, IInv, TypeOK, Sub, turnVars, timerVars
  <1>3. CASE ResultWait(h)
    BY <1>3 DEF IInv, TypeOK, ResultWait, Pause, turnVars
  <1>4. CASE SubEnds(h)
    <2>1. [sub[h] EXCEPT !.state = "done"] \in Sub
      BY DEF Sub, SubStates, IInv, TypeOK
    <2>2. sub' \in [Handles -> Sub]
      BY <1>4, <2>1 DEF SubEnds, IInv, TypeOK, Sub
    <2> QED
      BY <1>4, <2>2 DEF SubEnds, IInv, TypeOK, Sub, turnVars, timerVars
  <1> QED
    BY <1>1, <1>2, <1>3, <1>4

LEMMA VmType ==
  ASSUME IInv, VmFinish \/ VmObeys \/ ResultDone \/ ResultCancelled \/ NativeStep
  PROVE  TypeOK'
  <1>1. CASE VmFinish
    BY <1>1 DEF IInv, TypeOK, VmFinish, VmEnds, turnVars, timerVars
  <1>2. CASE VmObeys
    BY <1>2 DEF IInv, TypeOK, VmObeys, VmEnds, NoBlock, turnVars, timerVars
  <1>3. CASE ResultDone
    BY EngineAssumption, <1>3 DEF IInv, TypeOK, ResultDone, Resume, SubStates, turnVars,
       timerVars
  <1>4. CASE ResultCancelled
    BY EngineAssumption, <1>4 DEF IInv, TypeOK, ResultCancelled, Resume, turnVars, timerVars
  <1>5. CASE NativeCall \/ NativeReturns
    BY <1>5 DEF IInv, TypeOK, NativeCall, NativeReturns, turnVars, timerVars
  <1>6. CASE PageWait
    BY <1>6 DEF IInv, TypeOK, PageWait, Pause, turnVars
  <1>7. CASE PageGoesOn
    BY EngineAssumption, <1>7 DEF IInv, TypeOK, PageGoesOn, Resume, turnVars, timerVars
  <1> QED
    BY <1>1, <1>2, <1>3, <1>4, <1>5, <1>6, <1>7 DEF NativeStep

LEMMA TimeType ==
  ASSUME IInv, Tick \/ Expire \/ \E b \in firing : Callback(b)
  PROVE  TypeOK'
  <1>1. CASE Tick
    BY EngineAssumption, <1>1 DEF IInv, TypeOK, Tick, turnVars, timerVars
  <1>2. CASE Expire
    <2>1. Current \in Blocks
      <3>1. mu # Nobody
        BY EngineAssumption, <1>2 DEF IInv, Expire, NoDeadlineLeft, CtxBound
      <3> QED
        BY <3>1, CurrentIsBlock DEF IInv
    <2> QED
      BY <1>2, <2>1 DEF IInv, TypeOK, Expire, turnVars, timerVars
  <1>3. ASSUME NEW b \in firing, Callback(b)
        PROVE  TypeOK'
    BY <1>3 DEF IInv, TypeOK, Callback, turnVars, timerVars
  <1> QED
    BY <1>1, <1>2, <1>3

-----------------------------------------------------------------------------
(* The inductive step: what is left of IInv.                               *)

Bounds == RunsAreSerial /\ NoDeadlineLeft /\ BlocksBegun /\ CtxBound /\ Timing

LEMMA TurnStep ==
  ASSUME IInv, NEW t \in Turns,
         \/ BeginTurn(t) \/ BeginBlock(t) \/ EnterLate(t) \/ Enter(t) \/ TakeResult(t)
         \/ CtxDone(t) \/ Unwound(t) \/ EndTurn(t) \/ Stop(t)
  PROVE  Bounds'
  <1> USE EngineAssumption DEF IInv, TypeOK, IsRun
  <1>1. CASE BeginTurn(t)
    BY <1>1 DEF BeginTurn, Bounds, RunsAreSerial, NoDeadlineLeft,
       BlocksBegun, CtxBound, Timing, Paused, turnVars, timerVars
  <1>2. CASE BeginBlock(t)
    BY <1>2 DEF BeginBlock, Bounds, RunsAreSerial, NoDeadlineLeft,
       BlocksBegun, CtxBound, Timing, Paused, turnVars, timerVars
  <1>3. CASE EnterLate(t)
    BY <1>3 DEF EnterLate, EndOfBlock, Bounds, RunsAreSerial, NoDeadlineLeft,
       BlocksBegun, CtxBound, Timing, Paused, turnVars, timerVars
  <1>4. CASE Enter(t)
    <2>1. /\ mu = Nobody /\ mu' = t /\ vm' = "js" /\ ch' = "empty"
          /\ pc' = [pc EXCEPT ![t] = "run"]
          /\ UNCHANGED <<clock, block>> /\ pc[t] = "lock"
      BY <1>4 DEF Enter
    <2>2. RunsAreSerial' /\ BlocksBegun'
      BY <2>1 DEF RunsAreSerial, BlocksBegun
    <2>3. CASE t \in Scripts
      BY <1>4, <2>1, <2>2, <2>3 DEF Enter, Bounds, NoDeadlineLeft, CtxBound, Timing, Paused, timerVars
    <2>4. CASE t \notin Scripts
      <3>1. /\ dlTimer' = "live" /\ execCtx' = t /\ spent' = 0 /\ dlStarted' = clock
            /\ fireAt' = clock + dlBudget' /\ grant' = dlBudget' /\ dlBudget' \in Int
        BY <1>4, <2>4 DEF Enter, SetExecCtx
      <3>2. NoDeadlineLeft' /\ CtxBound'
        BY <2>1, <2>4, <3>1 DEF NoDeadlineLeft, CtxBound
      <3>3. Timing'
        <4>1. clock \in Int /\ ~Paused' /\ clock' = clock
          BY <2>1 DEF Paused
        <4>2. fireAt' = dlStarted' + dlBudget' /\ dlStarted' <= clock'
          BY <3>1, <4>1
        <4>3. fireAt' + spent' >= clock' + grant' /\ dlBudget' + spent' >= grant'
          <5>1. \A c, d \in Int : c + d + 0 >= c + d /\ d + 0 >= d
            OBVIOUS
          <5> QED
            BY <3>1, <4>1, <5>1
        <4> QED
          BY <4>1, <4>2, <4>3 DEF Timing
      <3> QED
        BY <2>2, <3>2, <3>3 DEF Bounds
    <2> QED
      BY <2>3, <2>4
  <1>5. CASE TakeResult(t)
    BY <1>5 DEF TakeResult, EndOfBlock, Leave, Bounds, RunsAreSerial, NoDeadlineLeft,
       BlocksBegun, CtxBound, Timing, Paused, turnVars, timerVars
  <1>6. CASE CtxDone(t)
    BY <1>6 DEF CtxDone, Bounds, RunsAreSerial, NoDeadlineLeft,
       BlocksBegun, CtxBound, Timing, Paused, turnVars, timerVars
  <1>7. CASE Unwound(t)
    BY <1>7 DEF Unwound, EndOfBlock, Leave, Bounds, RunsAreSerial, NoDeadlineLeft,
       BlocksBegun, CtxBound, Timing, Paused, turnVars, timerVars
  <1>8. CASE EndTurn(t)
    BY <1>8 DEF EndTurn, Bounds, RunsAreSerial, NoDeadlineLeft,
       BlocksBegun, CtxBound, Timing, Paused, turnVars, timerVars
  <1>9. CASE Stop(t)
    BY <1>9 DEF Stop, Bounds, RunsAreSerial, NoDeadlineLeft,
       BlocksBegun, CtxBound, Timing, Paused, turnVars, timerVars
  <1> QED
    BY <1>1, <1>2, <1>3, <1>4, <1>5, <1>6, <1>7, <1>8, <1>9

LEMMA HandleStep ==
  ASSUME IInv, NEW h \in Handles,
         AgentRun(h) \/ AgentKill(h) \/ ResultWait(h) \/ SubEnds(h)
  PROVE  Bounds'
  <1> USE EngineAssumption DEF IInv, TypeOK
  <1>1. CASE AgentRun(h) \/ AgentKill(h) \/ SubEnds(h)
    BY <1>1 DEF AgentRun, AgentKill, SubEnds, Bounds, RunsAreSerial, NoDeadlineLeft,
       BlocksBegun, CtxBound, Timing, Paused, turnVars, timerVars
  <1>2. CASE ResultWait(h)
    BY <1>2 DEF ResultWait, Pause, Bounds, RunsAreSerial, NoDeadlineLeft,
       BlocksBegun, CtxBound, Timing, Paused, turnVars, timerVars
  <1> QED
    BY <1>1, <1>2

\* Resuming arms the timer for what is left.
LEMMA ResumeStep ==
  ASSUME IInv, Resume, Paused, vm' = "js",
         UNCHANGED <<clock, pc, block, mu, execCtx, ch, grant, spent>>
  PROVE  Bounds'
  <1> USE EngineAssumption DEF IInv, TypeOK, Paused
  <1>1. RunsAreSerial' /\ BlocksBegun' /\ CtxBound'
    BY DEF RunsAreSerial, BlocksBegun, CtxBound
  <1>2. CASE dlBudget <= 0
    BY <1>1, <1>2 DEF Resume, Bounds, NoDeadlineLeft, Timing, timerVars
  <1>3. CASE dlBudget > 0
    <2>1. /\ dlTimer' = "live" /\ fireAt' = clock + dlBudget /\ dlStarted' = clock
          /\ dlBudget' = dlBudget
      BY <1>3 DEF Resume
    <2> QED
      BY <1>1, <1>3, <2>1 DEF Bounds, NoDeadlineLeft, Timing
  <1> QED
    BY <1>2, <1>3

LEMMA VmStep ==
  ASSUME IInv, VmFinish \/ VmObeys \/ ResultDone \/ ResultCancelled \/ NativeStep
  PROVE  Bounds'
  <1>1. CASE VmFinish \/ VmObeys
    BY EngineAssumption, <1>1 DEF IInv, TypeOK, VmFinish, VmObeys, VmEnds, Bounds,
       RunsAreSerial, NoDeadlineLeft,
       BlocksBegun, CtxBound, Timing, Paused, turnVars, timerVars
  <1>2. CASE ResultDone \/ ResultCancelled \/ PageGoesOn
    BY <1>2, ResumeStep DEF ResultDone, ResultCancelled, PageGoesOn, Paused, turnVars
  <1>3. CASE NativeCall \/ NativeReturns
    BY EngineAssumption, <1>3 DEF IInv, TypeOK, NativeCall, NativeReturns, Bounds,
       RunsAreSerial, NoDeadlineLeft, BlocksBegun, CtxBound, Timing, Paused, turnVars, timerVars
  <1>4. CASE PageWait
    BY EngineAssumption, <1>4 DEF IInv, TypeOK, PageWait, Pause, Bounds,
       RunsAreSerial, NoDeadlineLeft, BlocksBegun, CtxBound, Timing, Paused, turnVars, timerVars
  <1> QED
    BY <1>1, <1>2, <1>3, <1>4 DEF NativeStep

LEMMA TimeStep ==
  ASSUME IInv, Tick \/ Expire \/ \E b \in firing : Callback(b)
  PROVE  Bounds'
  <1> USE EngineAssumption DEF IInv, TypeOK
  <1>1. CASE Tick
    BY <1>1 DEF Tick, Bounds, RunsAreSerial, NoDeadlineLeft,
       BlocksBegun, CtxBound, Timing, Paused, turnVars, timerVars
  <1>2. CASE Expire
    BY <1>2 DEF Expire, Bounds, RunsAreSerial, NoDeadlineLeft,
       BlocksBegun, CtxBound, Timing, Paused, turnVars, timerVars
  <1>3. ASSUME NEW b \in firing, Callback(b)
        PROVE  Bounds'
    BY <1>3 DEF Callback, Bounds, RunsAreSerial, NoDeadlineLeft,
       BlocksBegun, CtxBound, Timing, Paused, turnVars, timerVars
  <1> QED
    BY <1>1, <1>2, <1>3

LEMMA IInvStep == IInv /\ [Next]_vars => IInv'
  <1> SUFFICES ASSUME IInv, [Next]_vars
               PROVE  TypeOK' /\ Bounds'
    BY DEF IInv, Bounds
  <1>1. CASE UNCHANGED vars
    BY <1>1 DEF IInv, vars, TypeOK, Bounds, RunsAreSerial, NoDeadlineLeft, BlocksBegun,
       CtxBound,
       Timing, Paused, turnVars, timerVars
  <1>2. CASE Next
    BY <1>1, <1>2, TurnType, TurnStep, HandleType, HandleStep, VmType, VmStep, TimeType,
       TimeStep
    DEF Next, Done, NativeStep
  <1> QED
    BY <1>1, <1>2

-----------------------------------------------------------------------------
(* The theorems.                                                           *)

\* The inductive invariant: the VM, the deadline and the execution context all
\* belong to the holder of e.mu (engine.go:760-817).
THEOREM SpecIInv == Spec => []IInv
  <1> QED
    BY InitIInv, IInvStep, PTL DEF Spec

\* Every reachable state is well typed; in particular what is left of a paused
\* deadline is never negative (engine.go:715-728).
THEOREM TypeCorrect == Spec => []TypeOK
  <1>1. IInv => TypeOK
    BY DEF IInv
  <1> QED
    BY <1>1, SpecIInv, PTL

\* The VM runs for the holder of e.mu alone, however many turns, tasks and
\* scripts share the engine, and also when its holder timed out (engine.go:643-654).
THEOREM VmIsSerial == Spec => []RunsAreSerial
  <1>1. IInv => RunsAreSerial
    BY DEF IInv
  <1> QED
    BY <1>1, SpecIInv, PTL

\* Between Runs no timer is armed and none could be resumed (engine.go:791-800).
THEOREM DeadlinesAreCleared == Spec => []NoDeadlineLeft
  <1>1. IInv => NoDeadlineLeft
    BY DEF IInv
  <1> QED
    BY <1>1, SpecIInv, PTL

\* However often agent.result pauses and resumes the deadline, its timer fires
\* only after the block has used the time it was given (engine.go:713-743).
THEOREM DeadlineIsNotEarly == Spec => []NotEarly
  <1>1. IInv => NotEarly
    BY DEF IInv, Timing, NotEarly
  <1> QED
    BY <1>1, SpecIInv, PTL

\* Without scripts, whoever waits in agent.result waits on the context of the
\* block that runs, so the end of the block wakes it (engine.go:138-145).
THEOREM WaitsAreWoken ==
  ASSUME Scripts = {}
  PROVE  Spec => []WaitEndsWithBlock
  <1>1. IInv => WaitEndsWithBlock
    BY EngineAssumption DEF IInv, TypeOK, RunsAreSerial, CtxBound, WaitEndsWithBlock
  <1> QED
    BY <1>1, SpecIInv, PTL

\* Without cron tasks and scripts, a running sub-agent lives under the context
\* of the turn that started it, whichever block that was in (agent.go:528-529).
THEOREM SubAgentsBelong ==
  ASSUME CronTurns = {}, Scripts = {}
  PROVE  Spec => []SubAgentsFollowTurn
  <1> DEFINE Inv == Alone /\ SubAgentsFollowTurn
  <1>1. Init => Inv
    BY DEF Init, Alone, SubAgentsFollowTurn, Free
  <1>2. IInv /\ Inv /\ [Next]_vars => Inv'
    <2> SUFFICES ASSUME IInv, Inv, [Next]_vars
                 PROVE  Inv'
      OBVIOUS
    <2> USE EngineAssumption DEF IInv, TypeOK, Alone, SubAgentsFollowTurn
    <2>1. CASE UNCHANGED vars
      BY <2>1 DEF vars, turnVars
    <2>2. ASSUME NEW t \in Turns, BeginTurn(t) \/ EndTurn(t) \/ Stop(t)
          PROVE  Inv'
      BY <2>2 DEF BeginTurn, EndTurn, Stop, turnVars
    <2>3. ASSUME NEW t \in Turns, BeginBlock(t) \/ Enter(t) \/ CtxDone(t)
          PROVE  Inv'
      BY <2>3 DEF BeginBlock, Enter, CtxDone, IsRun
    <2>4. ASSUME NEW t \in Turns, EnterLate(t) \/ TakeResult(t) \/ Unwound(t)
          PROVE  Inv'
      <3>1. EndOfBlock(t)
        BY <2>4 DEF EnterLate, TakeResult, Unwound
      <3>2. /\ \A h \in Handles : /\ sub'[h].state = sub[h].state /\ sub'[h].ctx = sub[h].ctx
                                  /\ sub'[h].on = sub[h].on /\ sub'[h].of = sub[h].of
            /\ pc' = [pc EXCEPT ![t] = "turn"] /\ pc[t] \notin {"idle", "over"}
            /\ UNCHANGED stopCtx
        BY <2>4, <3>1 DEF EndOfBlock, IsRun, EnterLate, TakeResult, Unwound, Leave
      <3> QED
        BY <3>2
    <2>5. ASSUME NEW h \in Handles, AgentRun(h)
          PROVE  Inv'
      <3>1. stopCtx = mu /\ mu \in Turns
        BY <2>5 DEF AgentRun, RunsAreSerial
      <3>2. StopContext = <<"turn", mu>>
        BY <3>1 DEF StopContext
      <3> QED
        BY <2>5, <3>2 DEF AgentRun, turnVars
    <2>6. ASSUME NEW h \in Handles, AgentKill(h) \/ ResultWait(h) \/ SubEnds(h)
          PROVE  Inv'
      BY <2>6 DEF AgentKill, ResultWait, SubEnds, turnVars
    <2>7. CASE VmFinish \/ VmObeys \/ ResultDone \/ ResultCancelled \/ NativeStep
      BY <2>7 DEF VmFinish, VmObeys, VmEnds, ResultDone, ResultCancelled, NativeStep,
         NativeCall, NativeReturns, PageWait, PageGoesOn, turnVars
    <2>8. CASE Tick \/ Expire \/ \E b \in firing : Callback(b)
      BY <2>8 DEF Tick, Expire, Callback, turnVars
    <2> QED
      BY <2>1, <2>2, <2>3, <2>4, <2>5, <2>6, <2>7, <2>8 DEF Next, Done, NativeStep
  <1> QED
    BY <1>1, <1>2, SpecIInv, PTL DEF Spec

-----------------------------------------------------------------------------
(* Persistent connections.                                                 *)

RunnerRec == [pc : Pcs, event : Events, err : BOOLEAN, retry : BOOLEAN, tries : 0..MaxRetries]
EntryRec == [cancel : {"unset", "set", "called"}, proto : BOOLEAN, sock : {"none", "open",
   "closed"},
             eng : BOOLEAN, userClosed : BOOLEAN, recent : BOOLEAN, fresh : BOOLEAN]
ClientRec == [pc : {"idle", "save", "insert", "cancel", "close", "row"},
   conn : Conns \cup {NoConn}]

\* Only connections that were added have a row, an entry or a goroutine, and while the
\* process is down there is nothing but the rows.
OnlyUsed(c) ==
    /\ c \in rows \/ runner[c].pc # "none" => c \in used
    /\ c \in listed => c \in rows
    /\ ~up => runner[c].pc = "none" /\ c \notin listed

\* A goroutine that has not begun cannot have been cancelled.
NotBegun(c) == runner[c].pc \in {"none", "start"} => entry[c].cancel = "unset"

\* What is listed has a goroutine that ends, or is cancelled, only by Stop.
Served(c) ==
    c \in listed => /\ runner[c].pc \notin {"none", "cleanEng", "cleanRow"}
                    /\ runner[c].pc = "done" \/ Cancelled(c) => Stopped

\* The goroutine of a connection that is kept has decided not to connect again only
\* for a reason, from where the decision is first made to the row's end.
GivenUp(c) ==
    \/ runner[c].pc \in {"cleanMap", "cleanEng", "cleanRow"}
    \/ runner[c].pc \in {"drop", "flags"} /\ ~runner[c].retry
    \/ runner[c].pc \in {"dispatch", "handle"} /\ runner[c].event \in {"close", "error"}
          /\ ~runner[c].retry
EndsForAReason(c) ==
    /\ c \in Lasting /\ GivenUp(c) => why[c]
    /\ entry[c].userClosed => why[c]
    /\ runner[c].pc = "warm" => runner[c].event \in {"connect", "message"}
    /\ c \in Lasting /\ c \in used => why[c] \/ c \in rows

\* The handler of a message was given a VM, which is not idle for ten minutes.
InUse(c) ==
    c \in listed /\ ~Stopped /\ runner[c].event = "message" /\ entry[c].recent
       /\ runner[c].pc = "handle" => entry[c].eng

Sound(c) == OnlyUsed(c) /\ NotBegun(c) /\ Served(c) /\ EndsForAReason(c) /\ InUse(c)

\* A client that adds a connection, or removes one, has one that is not in the table;
\* that being added has no goroutine and no second owner.
Owns(k) ==
    LET c == client[k].conn IN
    /\ client[k].pc # "idle" => up /\ c \in Conns /\ c \notin listed
    /\ client[k].pc \in {"save", "insert"} =>
          runner[c].pc = "none" /\ \A j \in Clients \ {k} : client[j].conn # c
    /\ client[k].pc = "save" => c \notin used
    /\ client[k].pc = "insert" => c \in rows
    /\ client[k].pc \in {"cancel", "close", "row"} => why[c]

ConnTypes ==
    /\ up \in BOOLEAN /\ lives \in 0..MaxLives /\ stop \in {"no", "closing", "done"}
    /\ rows \subseteq Conns /\ listed \subseteq Conns /\ used \subseteq Conns
    /\ removed \subseteq Conns
    /\ url \in [Conns -> Urls \cup {NoUrl}]
    /\ runner \in [Conns -> RunnerRec] /\ entry \in [Conns -> EntryRec]
    /\ client \in [Clients -> ClientRec] /\ why \in [Conns -> BOOLEAN]

\* The inductive invariant.
ConnIInv ==
    /\ ConnTypes
    /\ ~up => stop = "no"
    /\ \A c \in Conns : Sound(c)
    /\ \A k \in Clients : Owns(k)

-----------------------------------------------------------------------------
\* A step of one connection's goroutine, or of the reaper at one, leaves the others and
\* the clients alone: it keeps the invariant if it keeps what is said of its own.
LEMMA ConnFrame ==
    ASSUME ConnIInv, NEW c \in Conns, runner[c].pc # "none", ConnTypes',
           UNCHANGED <<up, stop, client, used>>,
           \A d \in Conns \ {c} : runner'[d] = runner[d] /\ entry'[d] = entry[d]
              /\ why'[d] = why[d],
           listed' \subseteq listed, listed \ {c} \subseteq listed',
           rows' \subseteq rows, rows \ {c} \subseteq rows',
           why[c] => why'[c], Sound(c)'
    PROVE  ConnIInv'
<1> USE DEF ConnIInv
<1>1. ASSUME NEW d \in Conns \ {c} PROVE Sound(d)'
  <2>1. Sound(d) OBVIOUS
  <2>2. (d \in listed' <=> d \in listed) /\ (d \in rows' <=> d \in rows) OBVIOUS
  <2> QED BY <2>1, <2>2, <1>1 DEF Sound, OnlyUsed, NotBegun, Served, EndsForAReason, GivenUp,
             InUse, Cancelled, Stopped
<1>2. ASSUME NEW k \in Clients PROVE Owns(k)'
  <2>1. Owns(k) OBVIOUS
  <2>2. client[k].conn \in Conns => (why[client[k].conn] => why'[client[k].conn])
    BY DEF ConnTypes
  <2>3. client[k].pc \in {"save", "insert"} => client[k].conn # c
    BY <2>1 DEF Owns
  <2> QED BY <2>1, <2>2, <2>3 DEF Owns
<1> QED BY <1>1, <1>2

\* The records that steps write are entries and goroutines.
LEMMA Records ==
    /\ NoRunner \in RunnerRec /\ [NoRunner EXCEPT !.pc = "start"] \in RunnerRec
    /\ NoEntry \in EntryRec /\ Idle \in ClientRec
    /\ \A e \in EntryRec : Shut(e) \in EntryRec /\ CallCancel(e) \in EntryRec
    /\ \A r \in RunnerRec : [r EXCEPT !.pc = "start"] \in RunnerRec
<1>1. ASSUME NEW e \in EntryRec PROVE Shut(e) \in EntryRec BY DEF Shut, EntryRec
<1>2. ASSUME NEW e \in EntryRec PROVE CallCancel(e) \in EntryRec BY DEF CallCancel, EntryRec
<1>3. ASSUME NEW r \in RunnerRec
      PROVE [r EXCEPT !.pc = "start"] \in RunnerRec BY DEF RunnerRec, Pcs
<1>4. NoRunner \in RunnerRec BY ConnAssumption DEF NoRunner, RunnerRec, Pcs, Events
<1>5. NoEntry \in EntryRec /\ Idle \in ClientRec BY DEF NoEntry, Idle, EntryRec, ClientRec
<1> QED BY <1>1, <1>2, <1>3, <1>4, <1>5

\* Each step of a connection's goroutine keeps the invariant.
LEMMA RunnerKeeps == ASSUME ConnIInv, NEW c \in Conns, Runner(c) PROVE ConnIInv'
<1> USE ConnAssumption
<1>0. ConnTypes /\ Sound(c) /\ (~up => stop = "no") BY DEF ConnIInv
<1>a. runner[c] \in RunnerRec /\ entry[c] \in EntryRec /\ why[c] \in BOOLEAN BY <1>0 DEF ConnTypes
<1>1. CASE Begin(c)
  <2> USE <1>0, <1>a, <1>1 DEF Begin, At, Go, othersOfRunner, hist
  <2>1. runner[c].pc # "none" OBVIOUS
  <2>2. runner'[c] \in RunnerRec /\ runner' \in [Conns -> RunnerRec]
    BY DEF ConnTypes, RunnerRec, Pcs, Events
  <2>3. entry'[c] \in EntryRec /\ entry' \in [Conns -> EntryRec] BY DEF ConnTypes, EntryRec
  <2>4. why' \in [Conns -> BOOLEAN] /\ (why[c] => why'[c]) BY DEF ConnTypes
  <2>5. ConnTypes' BY <2>2, <2>3, <2>4 DEF ConnTypes
  <2>6. Sound(c)'
    BY DEF Sound, OnlyUsed, NotBegun, Served, EndsForAReason, GivenUp, InUse, ConnTypes,
       Cancelled, Stopped, RunnerRec, EntryRec
  <2>7. \A e \in Conns \ {c} : runner'[e] = runner[e] /\ entry'[e] = entry[e] /\ why'[e] = why[e]
    BY DEF ConnTypes
  <2> QED BY <2>1, <2>4, <2>5, <2>6, <2>7, ConnFrame
<1>2. CASE Top(c)
  <2> USE <1>0, <1>a, <1>2 DEF Top, At, Go, othersOfRunner, hist
  <2>1. runner[c].pc # "none" OBVIOUS
  <2>2. runner'[c] \in RunnerRec /\ runner' \in [Conns -> RunnerRec]
    BY DEF ConnTypes, RunnerRec, Pcs, Events
  <2>3. entry'[c] \in EntryRec /\ entry' \in [Conns -> EntryRec] BY DEF ConnTypes, EntryRec
  <2>4. why' \in [Conns -> BOOLEAN] /\ (why[c] => why'[c]) BY DEF ConnTypes
  <2>5. ConnTypes' BY <2>2, <2>3, <2>4 DEF ConnTypes
  <2>6. Sound(c)'
    BY DEF Sound, OnlyUsed, NotBegun, Served, EndsForAReason, GivenUp, InUse, ConnTypes,
       Cancelled, Stopped, RunnerRec, EntryRec
  <2>7. \A e \in Conns \ {c} : runner'[e] = runner[e] /\ entry'[e] = entry[e] /\ why'[e] = why[e]
    BY DEF ConnTypes
  <2> QED BY <2>1, <2>4, <2>5, <2>6, <2>7, ConnFrame
<1>3. CASE DialOk(c)
  <2> USE <1>0, <1>a, <1>3 DEF DialOk, At, Go, othersOfRunner, hist
  <2>1. runner[c].pc # "none" OBVIOUS
  <2>2. runner'[c] \in RunnerRec /\ runner' \in [Conns -> RunnerRec]
    BY DEF ConnTypes, RunnerRec, Pcs, Events
  <2>3. entry'[c] \in EntryRec /\ entry' \in [Conns -> EntryRec] BY DEF ConnTypes, EntryRec
  <2>4. why' \in [Conns -> BOOLEAN] /\ (why[c] => why'[c]) BY DEF ConnTypes
  <2>5. ConnTypes' BY <2>2, <2>3, <2>4 DEF ConnTypes
  <2>6. Sound(c)'
    BY DEF Sound, OnlyUsed, NotBegun, Served, EndsForAReason, GivenUp, InUse, ConnTypes,
       Cancelled, Stopped, RunnerRec, EntryRec
  <2>7. \A e \in Conns \ {c} : runner'[e] = runner[e] /\ entry'[e] = entry[e] /\ why'[e] = why[e]
    BY DEF ConnTypes
  <2> QED BY <2>1, <2>4, <2>5, <2>6, <2>7, ConnFrame
<1>4. ASSUME NEW p \in BOOLEAN, DialFail(c, p) PROVE ConnIInv'
  <2> USE <1>0, <1>a, <1>4 DEF DialFail, At, Go, othersOfRunner, hist
  <2>1. runner[c].pc # "none" OBVIOUS
  <2>2. runner'[c] \in RunnerRec /\ runner' \in [Conns -> RunnerRec]
    BY DEF ConnTypes, RunnerRec, Pcs, Events
  <2>3. entry'[c] \in EntryRec /\ entry' \in [Conns -> EntryRec] BY DEF ConnTypes, EntryRec
  <2>4. why' \in [Conns -> BOOLEAN] /\ (why[c] => why'[c]) BY DEF ConnTypes
  <2>5. ConnTypes' BY <2>2, <2>3, <2>4 DEF ConnTypes
  <2>6. Sound(c)'
    BY DEF Sound, OnlyUsed, NotBegun, Served, EndsForAReason, GivenUp, InUse, ConnTypes,
       Cancelled, Stopped, RunnerRec, EntryRec
  <2>7. \A e \in Conns \ {c} : runner'[e] = runner[e] /\ entry'[e] = entry[e] /\ why'[e] = why[e]
    BY DEF ConnTypes
  <2> QED BY <2>1, <2>4, <2>5, <2>6, <2>7, ConnFrame
<1>5. CASE Connected(c)
  <2> USE <1>0, <1>a, <1>5 DEF Connected, At, Go, othersOfRunner, hist
  <2>1. runner[c].pc # "none" OBVIOUS
  <2>2. runner'[c] \in RunnerRec /\ runner' \in [Conns -> RunnerRec]
    BY DEF ConnTypes, RunnerRec, Pcs, Events
  <2>3. entry'[c] \in EntryRec /\ entry' \in [Conns -> EntryRec] BY DEF ConnTypes, EntryRec
  <2>4. why' \in [Conns -> BOOLEAN] /\ (why[c] => why'[c]) BY DEF ConnTypes
  <2>5. ConnTypes' BY <2>2, <2>3, <2>4 DEF ConnTypes
  <2>6. Sound(c)'
    BY DEF Sound, OnlyUsed, NotBegun, Served, EndsForAReason, GivenUp, InUse, ConnTypes,
       Cancelled, Stopped, RunnerRec, EntryRec
  <2>7. \A e \in Conns \ {c} : runner'[e] = runner[e] /\ entry'[e] = entry[e] /\ why'[e] = why[e]
    BY DEF ConnTypes
  <2> QED BY <2>1, <2>4, <2>5, <2>6, <2>7, ConnFrame
<1>6. ASSUME NEW p \in BOOLEAN, Warm(c, p) PROVE ConnIInv'
  <2> USE <1>0, <1>a, <1>6 DEF Warm, At, Go, othersOfRunner, hist
  <2>1. runner[c].pc # "none" OBVIOUS
  <2>2. runner'[c] \in RunnerRec /\ runner' \in [Conns -> RunnerRec]
    BY DEF ConnTypes, RunnerRec, Pcs, Events
  <2>3. entry'[c] \in EntryRec /\ entry' \in [Conns -> EntryRec] BY DEF ConnTypes, EntryRec
  <2>4. why' \in [Conns -> BOOLEAN] /\ (why[c] => why'[c]) BY DEF ConnTypes
  <2>5. ConnTypes' BY <2>2, <2>3, <2>4 DEF ConnTypes
  <2>6. Sound(c)'
    BY DEF Sound, OnlyUsed, NotBegun, Served, EndsForAReason, GivenUp, InUse, ConnTypes,
       Cancelled, Stopped, RunnerRec, EntryRec
  <2>7. \A e \in Conns \ {c} : runner'[e] = runner[e] /\ entry'[e] = entry[e] /\ why'[e] = why[e]
    BY DEF ConnTypes
  <2> QED BY <2>1, <2>4, <2>5, <2>6, <2>7, ConnFrame
<1>7. CASE Dispatch(c)
  <2> USE <1>0, <1>a, <1>7 DEF Dispatch, At, Go, othersOfRunner, hist, After
  <2>1. runner[c].pc # "none" OBVIOUS
  <2>2. runner'[c] \in RunnerRec /\ runner' \in [Conns -> RunnerRec]
    BY DEF ConnTypes, RunnerRec, Pcs, Events
  <2>3. entry'[c] \in EntryRec /\ entry' \in [Conns -> EntryRec] BY DEF ConnTypes, EntryRec
  <2>4. why' \in [Conns -> BOOLEAN] /\ (why[c] => why'[c]) BY DEF ConnTypes
  <2>5. ConnTypes' BY <2>2, <2>3, <2>4 DEF ConnTypes
  <2>6. Sound(c)'
    BY DEF Sound, OnlyUsed, NotBegun, Served, EndsForAReason, GivenUp, InUse, ConnTypes,
       Cancelled, Stopped, RunnerRec, EntryRec, Events
  <2>7. \A e \in Conns \ {c} : runner'[e] = runner[e] /\ entry'[e] = entry[e] /\ why'[e] = why[e]
    BY DEF ConnTypes
  <2> QED BY <2>1, <2>4, <2>5, <2>6, <2>7, ConnFrame
<1>8. ASSUME NEW p \in BOOLEAN, Handled(c, p) PROVE ConnIInv'
  <2> USE <1>0, <1>a, <1>8 DEF Handled, At, Go, othersOfRunner, hist, After
  <2>1. runner[c].pc # "none" OBVIOUS
  <2>2. runner'[c] \in RunnerRec /\ runner' \in [Conns -> RunnerRec]
    BY DEF ConnTypes, RunnerRec, Pcs, Events
  <2>3. entry'[c] \in EntryRec /\ entry' \in [Conns -> EntryRec] BY DEF ConnTypes, EntryRec
  <2>4. why' \in [Conns -> BOOLEAN] /\ (why[c] => why'[c]) BY DEF ConnTypes
  <2>5. ConnTypes' BY <2>2, <2>3, <2>4 DEF ConnTypes
  <2>6. Sound(c)'
    BY DEF Sound, OnlyUsed, NotBegun, Served, EndsForAReason, GivenUp, InUse, ConnTypes,
       Cancelled, Stopped, RunnerRec, EntryRec, Events
  <2>7. \A e \in Conns \ {c} : runner'[e] = runner[e] /\ entry'[e] = entry[e] /\ why'[e] = why[e]
    BY DEF ConnTypes
  <2> QED BY <2>1, <2>4, <2>5, <2>6, <2>7, ConnFrame
<1>9. CASE HandlerCloses(c)
  <2> USE <1>0, <1>a, <1>9 DEF HandlerCloses, At, Go, othersOfRunner, hist
  <2>1. runner[c].pc # "none" OBVIOUS
  <2>2. runner'[c] \in RunnerRec /\ runner' \in [Conns -> RunnerRec]
    BY DEF ConnTypes, RunnerRec, Pcs, Events
  <2>3. entry'[c] \in EntryRec /\ entry' \in [Conns -> EntryRec] BY DEF ConnTypes, EntryRec
  <2>4. why' \in [Conns -> BOOLEAN] /\ (why[c] => why'[c]) BY DEF ConnTypes
  <2>5. ConnTypes' BY <2>2, <2>3, <2>4 DEF ConnTypes
  <2>6. Sound(c)'
    BY DEF Sound, OnlyUsed, NotBegun, Served, EndsForAReason, GivenUp, InUse, ConnTypes,
       Cancelled, Stopped, RunnerRec, EntryRec
  <2>7. \A e \in Conns \ {c} : runner'[e] = runner[e] /\ entry'[e] = entry[e] /\ why'[e] = why[e]
    BY DEF ConnTypes
  <2> QED BY <2>1, <2>4, <2>5, <2>6, <2>7, ConnFrame
<1>10. CASE ReadTop(c)
  <2> USE <1>0, <1>a, <1>10 DEF ReadTop, At, Go, othersOfRunner, hist, LoseWith
  <2>1. runner[c].pc # "none" OBVIOUS
  <2>2. runner'[c] \in RunnerRec /\ runner' \in [Conns -> RunnerRec]
    BY DEF ConnTypes, RunnerRec, Pcs, Events
  <2>3. entry'[c] \in EntryRec /\ entry' \in [Conns -> EntryRec] BY DEF ConnTypes, EntryRec
  <2>4. why' \in [Conns -> BOOLEAN] /\ (why[c] => why'[c]) BY DEF ConnTypes
  <2>5. ConnTypes' BY <2>2, <2>3, <2>4 DEF ConnTypes
  <2>6. Sound(c)'
    BY DEF Sound, OnlyUsed, NotBegun, Served, EndsForAReason, GivenUp, InUse, ConnTypes,
       Cancelled, Stopped, RunnerRec, EntryRec
  <2>7. \A e \in Conns \ {c} : runner'[e] = runner[e] /\ entry'[e] = entry[e] /\ why'[e] = why[e]
    BY DEF ConnTypes
  <2> QED BY <2>1, <2>4, <2>5, <2>6, <2>7, ConnFrame
<1>11. CASE Message(c)
  <2> USE <1>0, <1>a, <1>11 DEF Message, At, Go, othersOfRunner, hist
  <2>1. runner[c].pc # "none" OBVIOUS
  <2>2. runner'[c] \in RunnerRec /\ runner' \in [Conns -> RunnerRec]
    BY DEF ConnTypes, RunnerRec, Pcs, Events
  <2>3. entry'[c] \in EntryRec /\ entry' \in [Conns -> EntryRec] BY DEF ConnTypes, EntryRec
  <2>4. why' \in [Conns -> BOOLEAN] /\ (why[c] => why'[c]) BY DEF ConnTypes
  <2>5. ConnTypes' BY <2>2, <2>3, <2>4 DEF ConnTypes
  <2>6. Sound(c)'
    BY DEF Sound, OnlyUsed, NotBegun, Served, EndsForAReason, GivenUp, InUse, ConnTypes,
       Cancelled, Stopped, RunnerRec, EntryRec
  <2>7. \A e \in Conns \ {c} : runner'[e] = runner[e] /\ entry'[e] = entry[e] /\ why'[e] = why[e]
    BY DEF ConnTypes
  <2> QED BY <2>1, <2>4, <2>5, <2>6, <2>7, ConnFrame
<1>12. CASE ReadEnds(c)
  <2> USE <1>0, <1>a, <1>12 DEF ReadEnds, At, Go, othersOfRunner, hist, LoseWith
  <2>1. runner[c].pc # "none" OBVIOUS
  <2>2. runner'[c] \in RunnerRec /\ runner' \in [Conns -> RunnerRec]
    BY DEF ConnTypes, RunnerRec, Pcs, Events
  <2>3. entry'[c] \in EntryRec /\ entry' \in [Conns -> EntryRec] BY DEF ConnTypes, EntryRec
  <2>4. why' \in [Conns -> BOOLEAN] /\ (why[c] => why'[c]) BY DEF ConnTypes
  <2>5. ConnTypes' BY <2>2, <2>3, <2>4 DEF ConnTypes
  <2>6. Sound(c)'
    BY DEF Sound, OnlyUsed, NotBegun, Served, EndsForAReason, GivenUp, InUse, ConnTypes,
       Cancelled, Stopped, RunnerRec, EntryRec
  <2>7. \A e \in Conns \ {c} : runner'[e] = runner[e] /\ entry'[e] = entry[e] /\ why'[e] = why[e]
    BY DEF ConnTypes
  <2> QED BY <2>1, <2>4, <2>5, <2>6, <2>7, ConnFrame
<1>13. ASSUME NEW p \in BOOLEAN, PeerEnds(c, p) PROVE ConnIInv'
  <2> USE <1>0, <1>a, <1>13 DEF PeerEnds, At, Go, othersOfRunner, hist, LoseWith
  <2>1. runner[c].pc # "none" OBVIOUS
  <2>2. runner'[c] \in RunnerRec /\ runner' \in [Conns -> RunnerRec]
    BY DEF ConnTypes, RunnerRec, Pcs, Events
  <2>3. entry'[c] \in EntryRec /\ entry' \in [Conns -> EntryRec] BY DEF ConnTypes, EntryRec
  <2>4. why' \in [Conns -> BOOLEAN] /\ (why[c] => why'[c]) BY DEF ConnTypes
  <2>5. ConnTypes' BY <2>2, <2>3, <2>4 DEF ConnTypes
  <2>6. Sound(c)'
    BY DEF Sound, OnlyUsed, NotBegun, Served, EndsForAReason, GivenUp, InUse, ConnTypes,
       Cancelled, Stopped, RunnerRec, EntryRec
  <2>7. \A e \in Conns \ {c} : runner'[e] = runner[e] /\ entry'[e] = entry[e] /\ why'[e] = why[e]
    BY DEF ConnTypes
  <2> QED BY <2>1, <2>4, <2>5, <2>6, <2>7, ConnFrame
<1>14. CASE Drop(c)
  <2> USE <1>0, <1>a, <1>14 DEF Drop, At, Go, othersOfRunner, hist
  <2>1. runner[c].pc # "none" OBVIOUS
  <2>2. runner'[c] \in RunnerRec /\ runner' \in [Conns -> RunnerRec]
    BY DEF ConnTypes, RunnerRec, Pcs, Events
  <2>3. entry'[c] \in EntryRec /\ entry' \in [Conns -> EntryRec] BY DEF ConnTypes, EntryRec
  <2>4. why' \in [Conns -> BOOLEAN] /\ (why[c] => why'[c]) BY DEF ConnTypes
  <2>5. ConnTypes' BY <2>2, <2>3, <2>4 DEF ConnTypes
  <2>6. Sound(c)'
    BY DEF Sound, OnlyUsed, NotBegun, Served, EndsForAReason, GivenUp, InUse, ConnTypes,
       Cancelled, Stopped, RunnerRec, EntryRec
  <2>7. \A e \in Conns \ {c} : runner'[e] = runner[e] /\ entry'[e] = entry[e] /\ why'[e] = why[e]
    BY DEF ConnTypes
  <2> QED BY <2>1, <2>4, <2>5, <2>6, <2>7, ConnFrame
<1>15. CASE Flags(c)
  <2> USE <1>0, <1>a, <1>15 DEF Flags, At, Go, othersOfRunner, hist
  <2>1. runner[c].pc # "none" OBVIOUS
  <2>2. runner'[c] \in RunnerRec /\ runner' \in [Conns -> RunnerRec]
    BY DEF ConnTypes, RunnerRec, Pcs, Events
  <2>3. entry'[c] \in EntryRec /\ entry' \in [Conns -> EntryRec] BY DEF ConnTypes, EntryRec
  <2>4. why' \in [Conns -> BOOLEAN] /\ (why[c] => why'[c]) BY DEF ConnTypes
  <2>5. ConnTypes' BY <2>2, <2>3, <2>4 DEF ConnTypes
  <2>6. Sound(c)'
    BY DEF Sound, OnlyUsed, NotBegun, Served, EndsForAReason, GivenUp, InUse, ConnTypes,
       Cancelled, Stopped, RunnerRec, EntryRec
  <2>7. \A e \in Conns \ {c} : runner'[e] = runner[e] /\ entry'[e] = entry[e] /\ why'[e] = why[e]
    BY DEF ConnTypes
  <2> QED BY <2>1, <2>4, <2>5, <2>6, <2>7, ConnFrame
<1>16. CASE Wait(c)
  <2> USE <1>0, <1>a, <1>16 DEF Wait, At, Go, othersOfRunner, hist
  <2>1. runner[c].pc # "none" OBVIOUS
  <2> DEFINE n == IF runner[c].tries < MaxRetries THEN runner[c].tries + 1 ELSE runner[c].tries
  <2>0. n \in 0..MaxRetries BY DEF RunnerRec
  <2>2. runner'[c] \in RunnerRec /\ runner' \in [Conns -> RunnerRec]
    <3> HIDE DEF n
    <3>1. [runner[c] EXCEPT !.pc = "top", !.tries = n] \in RunnerRec BY <2>0 DEF RunnerRec, Pcs
    <3>2. [runner[c] EXCEPT !.pc = "done"] \in RunnerRec BY DEF RunnerRec, Pcs
    <3>3. \E r \in RunnerRec : runner' = [runner EXCEPT ![c] = r] BY <3>1, <3>2 DEF n
    <3> QED BY <3>3 DEF ConnTypes
  <2>3. entry'[c] \in EntryRec /\ entry' \in [Conns -> EntryRec] BY DEF ConnTypes, EntryRec
  <2>4. why' \in [Conns -> BOOLEAN] /\ (why[c] => why'[c]) BY DEF ConnTypes
  <2>5. ConnTypes' BY <2>2, <2>3, <2>4 DEF ConnTypes
  <2>6. Sound(c)'
    BY DEF Sound, OnlyUsed, NotBegun, Served, EndsForAReason, GivenUp, InUse, ConnTypes,
       Cancelled, Stopped, RunnerRec, EntryRec
  <2>7. \A e \in Conns \ {c} : runner'[e] = runner[e] /\ entry'[e] = entry[e] /\ why'[e] = why[e]
    BY DEF ConnTypes
  <2> QED BY <2>1, <2>4, <2>5, <2>6, <2>7, ConnFrame
<1>17. CASE CleanMap(c)
  <2> USE <1>0, <1>a, <1>17 DEF CleanMap, At, Go, othersOfRunner, hist
  <2>1. runner[c].pc # "none" OBVIOUS
  <2>2. runner'[c] \in RunnerRec /\ runner' \in [Conns -> RunnerRec]
    BY DEF ConnTypes, RunnerRec, Pcs, Events
  <2>3. entry'[c] \in EntryRec /\ entry' \in [Conns -> EntryRec] BY DEF ConnTypes, EntryRec
  <2>4. why' \in [Conns -> BOOLEAN] /\ (why[c] => why'[c]) BY DEF ConnTypes
  <2>5. ConnTypes' BY <2>2, <2>3, <2>4 DEF ConnTypes
  <2>6. Sound(c)'
    BY DEF Sound, OnlyUsed, NotBegun, Served, EndsForAReason, GivenUp, InUse, ConnTypes,
       Cancelled, Stopped, RunnerRec, EntryRec
  <2>7. \A e \in Conns \ {c} : runner'[e] = runner[e] /\ entry'[e] = entry[e] /\ why'[e] = why[e]
    BY DEF ConnTypes
  <2> QED BY <2>1, <2>4, <2>5, <2>6, <2>7, ConnFrame
<1>18. CASE CleanEng(c)
  <2> USE <1>0, <1>a, <1>18 DEF CleanEng, At, Go, othersOfRunner, hist
  <2>1. runner[c].pc # "none" OBVIOUS
  <2>2. runner'[c] \in RunnerRec /\ runner' \in [Conns -> RunnerRec]
    BY DEF ConnTypes, RunnerRec, Pcs, Events
  <2>3. entry'[c] \in EntryRec /\ entry' \in [Conns -> EntryRec] BY DEF ConnTypes, EntryRec
  <2>4. why' \in [Conns -> BOOLEAN] /\ (why[c] => why'[c]) BY DEF ConnTypes
  <2>5. ConnTypes' BY <2>2, <2>3, <2>4 DEF ConnTypes
  <2>6. Sound(c)'
    BY DEF Sound, OnlyUsed, NotBegun, Served, EndsForAReason, GivenUp, InUse, ConnTypes,
       Cancelled, Stopped, RunnerRec, EntryRec
  <2>7. \A e \in Conns \ {c} : runner'[e] = runner[e] /\ entry'[e] = entry[e] /\ why'[e] = why[e]
    BY DEF ConnTypes
  <2> QED BY <2>1, <2>4, <2>5, <2>6, <2>7, ConnFrame
<1>19. CASE CleanRow(c)
  <2> USE <1>0, <1>a, <1>19 DEF CleanRow, At, Go, othersOfRunner, hist
  <2>1. runner[c].pc # "none" OBVIOUS
  <2>2. runner'[c] \in RunnerRec /\ runner' \in [Conns -> RunnerRec]
    BY DEF ConnTypes, RunnerRec, Pcs, Events
  <2>3. entry'[c] \in EntryRec /\ entry' \in [Conns -> EntryRec] BY DEF ConnTypes, EntryRec
  <2>4. why' \in [Conns -> BOOLEAN] /\ (why[c] => why'[c]) BY DEF ConnTypes
  <2>5. ConnTypes' BY <2>2, <2>3, <2>4 DEF ConnTypes
  <2>6. Sound(c)'
    BY DEF Sound, OnlyUsed, NotBegun, Served, EndsForAReason, GivenUp, InUse, ConnTypes,
       Cancelled, Stopped, RunnerRec, EntryRec
  <2>7. \A e \in Conns \ {c} : runner'[e] = runner[e] /\ entry'[e] = entry[e] /\ why'[e] = why[e]
    BY DEF ConnTypes
  <2> QED BY <2>1, <2>4, <2>5, <2>6, <2>7, ConnFrame
<1> QED BY <1>1, <1>2, <1>3, <1>4, <1>5, <1>6, <1>7, <1>8, <1>9, <1>10, <1>11, <1>12, <1>13,
           <1>14, <1>15, <1>16, <1>17, <1>18, <1>19 DEF Runner

\* Each step of a client keeps the invariant.
LEMMA ClientKeeps == ASSUME ConnIInv, NEW k \in Clients, Client(k) PROVE ConnIInv'
<1> USE ConnAssumption
<1> DEFINE c == client[k].conn
<1>0. ConnTypes /\ (~up => stop = "no") /\ (\A d \in Conns : Sound(d))
      /\ \A j \in Clients : Owns(j)
  BY DEF ConnIInv
<1>1. ASSUME NEW u \in Urls, NEW b \in Conns, AddCheck(k, u, b) PROVE ConnIInv'
  <2> USE <1>0, <1>1 DEF AddCheck, ClientAt, ClientGo, hist
  <2>1. ConnTypes' BY DEF ConnTypes, RunnerRec, EntryRec, ClientRec, Pcs, Events, Owns
  <2>2. ASSUME NEW d \in Conns PROVE Sound(d)'
    <3> USE DEF Sound, OnlyUsed, NotBegun, Served, EndsForAReason, GivenUp, InUse, Cancelled,
          Stopped
    <3>1. CASE d = b BY <3>1 DEF ConnTypes, RunnerRec, EntryRec, ClientRec, Owns
    <3>2. CASE d # b BY <3>2 DEF ConnTypes, Owns
    <3> QED BY <3>1, <3>2
  <2>3. ASSUME NEW j \in Clients PROVE Owns(j)'
    <3>1. CASE j = k
      BY <3>1 DEF Owns, ConnTypes, ClientRec, Sound, OnlyUsed, NotBegun, Served, EndsForAReason,
         GivenUp, InUse
    <3>2. CASE j # k
      BY <3>2 DEF Owns, ConnTypes, ClientRec, Sound, OnlyUsed, NotBegun, Served, EndsForAReason,
         GivenUp, InUse
    <3> QED BY <3>1, <3>2
  <2> QED BY <2>1, <2>2, <2>3 DEF ConnIInv
<1>2. ASSUME NEW b \in Conns, Remove(k, b) PROVE ConnIInv'
  <2> USE <1>0, <1>2 DEF Remove, ClientAt, ClientGo, hist
  <2>1. ConnTypes' BY DEF ConnTypes, RunnerRec, EntryRec, ClientRec, Pcs, Events, Owns
  <2>2. ASSUME NEW d \in Conns PROVE Sound(d)'
    <3> USE DEF Sound, OnlyUsed, NotBegun, Served, EndsForAReason, GivenUp, InUse, Cancelled,
          Stopped
    <3>1. CASE d = b BY <3>1 DEF ConnTypes, RunnerRec, EntryRec, ClientRec, Owns
    <3>2. CASE d # b BY <3>2 DEF ConnTypes, Owns
    <3> QED BY <3>1, <3>2
  <2>3. ASSUME NEW j \in Clients PROVE Owns(j)'
    <3>1. CASE j = k
      BY <3>1 DEF Owns, ConnTypes, ClientRec, Sound, OnlyUsed, NotBegun, Served, EndsForAReason,
         GivenUp, InUse
    <3>2. CASE j # k
      BY <3>2 DEF Owns, ConnTypes, ClientRec, Sound, OnlyUsed, NotBegun, Served, EndsForAReason,
         GivenUp, InUse
    <3> QED BY <3>1, <3>2
  <2> QED BY <2>1, <2>2, <2>3 DEF ConnIInv
<1>3. CASE AddSave(k)
  <2> USE <1>0, <1>3 DEF AddSave, ClientAt, ClientGo, Idle, hist
  <2>1. ConnTypes' BY DEF ConnTypes, RunnerRec, EntryRec, ClientRec, Pcs, Events, Owns
  <2>2. ASSUME NEW d \in Conns PROVE Sound(d)'
    <3> USE DEF Sound, OnlyUsed, NotBegun, Served, EndsForAReason, GivenUp, InUse, Cancelled,
          Stopped
    <3>1. CASE d = c BY <3>1 DEF ConnTypes, RunnerRec, EntryRec, ClientRec, Owns
    <3>2. CASE d # c BY <3>2 DEF ConnTypes, Owns
    <3> QED BY <3>1, <3>2
  <2>3. ASSUME NEW j \in Clients PROVE Owns(j)'
    <3>1. CASE j = k
      BY <3>1 DEF Owns, ConnTypes, ClientRec, Sound, OnlyUsed, NotBegun, Served, EndsForAReason,
         GivenUp, InUse
    <3>2. CASE j # k
      BY <3>2 DEF Owns, ConnTypes, ClientRec, Sound, OnlyUsed, NotBegun, Served, EndsForAReason,
         GivenUp, InUse
    <3> QED BY <3>1, <3>2
  <2> QED BY <2>1, <2>2, <2>3 DEF ConnIInv
<1>4. CASE AddInsert(k)
  <2> USE <1>0, <1>4 DEF AddInsert, ClientAt, ClientGo, Idle, hist, Go
  <2>0. c \in Conns BY DEF Owns
  <2>a. [runner[c] EXCEPT !.pc = "start"] \in RunnerRec BY <2>0, Records DEF ConnTypes
  <2>b. runner' = [runner EXCEPT ![c] = [runner[c] EXCEPT !.pc = "start"]] OBVIOUS
  <2>1. ConnTypes'
    <3>1. runner' \in [Conns -> RunnerRec] BY <2>0, <2>a, <2>b DEF ConnTypes
    <3>2. client' \in [Clients -> ClientRec] BY DEF ConnTypes, ClientRec
    <3> QED BY <2>0, <3>1, <3>2 DEF ConnTypes
  <2>2. ASSUME NEW d \in Conns PROVE Sound(d)'
    <3> USE DEF Sound, OnlyUsed, NotBegun, Served, EndsForAReason, GivenUp, InUse, Cancelled,
          Stopped
    <3>1. CASE d = c BY <3>1 DEF ConnTypes, RunnerRec, EntryRec, ClientRec, Owns
    <3>2. CASE d # c BY <3>2 DEF ConnTypes, Owns
    <3> QED BY <3>1, <3>2
  <2>3. ASSUME NEW j \in Clients PROVE Owns(j)'
    <3>1. CASE j = k
      BY <3>1 DEF Owns, ConnTypes, ClientRec, Sound, OnlyUsed, NotBegun, Served, EndsForAReason,
         GivenUp, InUse
    <3>2. CASE j # k
      BY <3>2 DEF Owns, ConnTypes, ClientRec, Sound, OnlyUsed, NotBegun, Served, EndsForAReason,
         GivenUp, InUse
    <3> QED BY <3>1, <3>2
  <2> QED BY <2>1, <2>2, <2>3 DEF ConnIInv
<1>5. CASE RemoveCancel(k)
  <2> USE <1>0, <1>5 DEF RemoveCancel, ClientAt, ClientGo, Idle, hist, CallCancel
  <2>0. c \in Conns BY DEF Owns
  <2>1. ConnTypes'
    <3> HIDE DEF CallCancel
    <3>1. entry' \in [Conns -> EntryRec] BY <2>0, Records DEF ConnTypes
    <3>2. client' \in [Clients -> ClientRec] BY <2>0 DEF ConnTypes, ClientRec
    <3> QED BY <3>1, <3>2 DEF ConnTypes
  <2>2. ASSUME NEW d \in Conns PROVE Sound(d)'
    <3> USE DEF Sound, OnlyUsed, NotBegun, Served, EndsForAReason, GivenUp, InUse, Cancelled,
          Stopped
    <3>1. CASE d = c BY <3>1 DEF ConnTypes, RunnerRec, EntryRec, ClientRec, Owns
    <3>2. CASE d # c BY <3>2 DEF ConnTypes, Owns
    <3> QED BY <3>1, <3>2
  <2>3. ASSUME NEW j \in Clients PROVE Owns(j)'
    <3>1. CASE j = k
      BY <3>1 DEF Owns, ConnTypes, ClientRec, Sound, OnlyUsed, NotBegun, Served, EndsForAReason,
         GivenUp, InUse
    <3>2. CASE j # k
      BY <3>2 DEF Owns, ConnTypes, ClientRec, Sound, OnlyUsed, NotBegun, Served, EndsForAReason,
         GivenUp, InUse
    <3> QED BY <3>1, <3>2
  <2> QED BY <2>1, <2>2, <2>3 DEF ConnIInv
<1>6. CASE RemoveClose(k)
  <2> USE <1>0, <1>6 DEF RemoveClose, ClientAt, ClientGo, Idle, hist, Shut
  <2>0. c \in Conns BY DEF Owns
  <2>1. ConnTypes'
    <3> HIDE DEF Shut
    <3>1. entry' \in [Conns -> EntryRec] BY <2>0, Records DEF ConnTypes
    <3>2. client' \in [Clients -> ClientRec] BY <2>0 DEF ConnTypes, ClientRec
    <3> QED BY <3>1, <3>2 DEF ConnTypes
  <2>2. ASSUME NEW d \in Conns PROVE Sound(d)'
    <3> USE DEF Sound, OnlyUsed, NotBegun, Served, EndsForAReason, GivenUp, InUse, Cancelled,
          Stopped
    <3>1. CASE d = c BY <3>1 DEF ConnTypes, RunnerRec, EntryRec, ClientRec, Owns
    <3>2. CASE d # c BY <3>2 DEF ConnTypes, Owns
    <3> QED BY <3>1, <3>2
  <2>3. ASSUME NEW j \in Clients PROVE Owns(j)'
    <3>1. CASE j = k
      BY <3>1 DEF Owns, ConnTypes, ClientRec, Sound, OnlyUsed, NotBegun, Served, EndsForAReason,
         GivenUp, InUse
    <3>2. CASE j # k
      BY <3>2 DEF Owns, ConnTypes, ClientRec, Sound, OnlyUsed, NotBegun, Served, EndsForAReason,
         GivenUp, InUse
    <3> QED BY <3>1, <3>2
  <2> QED BY <2>1, <2>2, <2>3 DEF ConnIInv
<1>7. CASE RemoveRow(k)
  <2> USE <1>0, <1>7 DEF RemoveRow, ClientAt, ClientGo, Idle, hist
  <2>1. ConnTypes' BY DEF ConnTypes, RunnerRec, EntryRec, ClientRec, Pcs, Events, Owns
  <2>2. ASSUME NEW d \in Conns PROVE Sound(d)'
    <3> USE DEF Sound, OnlyUsed, NotBegun, Served, EndsForAReason, GivenUp, InUse, Cancelled,
          Stopped
    <3>1. CASE d = c BY <3>1 DEF ConnTypes, RunnerRec, EntryRec, ClientRec, Owns
    <3>2. CASE d # c BY <3>2 DEF ConnTypes, Owns
    <3> QED BY <3>1, <3>2
  <2>3. ASSUME NEW j \in Clients PROVE Owns(j)'
    <3>1. CASE j = k
      BY <3>1 DEF Owns, ConnTypes, ClientRec, Sound, OnlyUsed, NotBegun, Served, EndsForAReason,
         GivenUp, InUse
    <3>2. CASE j # k
      BY <3>2 DEF Owns, ConnTypes, ClientRec, Sound, OnlyUsed, NotBegun, Served, EndsForAReason,
         GivenUp, InUse
    <3> QED BY <3>1, <3>2
  <2> QED BY <2>1, <2>2, <2>3 DEF ConnIInv
<1> QED BY <1>1, <1>2, <1>3, <1>4, <1>5, <1>6, <1>7 DEF Client

\* Every other step, and stuttering, keeps it.
LEMMA ConnKeeps == ConnIInv /\ [ConnNext]_connVars => ConnIInv'
<1> SUFFICES ASSUME ConnIInv, [ConnNext]_connVars PROVE ConnIInv' OBVIOUS
<1> USE ConnAssumption
<1>0. ConnTypes /\ (~up => stop = "no") /\ (\A d \in Conns : Sound(d))
      /\ \A j \in Clients : Owns(j)
  BY DEF ConnIInv
<1>1. CASE Start
  <2> USE <1>0, <1>1 DEF Start, NoRunner, NoEntry, hist
  <2>1. ConnTypes'
    <3> HIDE DEF NoRunner, NoEntry
    <3> QED BY Records DEF ConnTypes
  <2>2. ASSUME NEW d \in Conns PROVE Sound(d)'
    BY DEF ConnTypes, EntryRec, Sound, OnlyUsed, NotBegun, Served, EndsForAReason, GivenUp, InUse,
       Cancelled, Stopped
  <2>3. ASSUME NEW j \in Clients PROVE Owns(j)' BY DEF Owns, ConnTypes, Sound, OnlyUsed
  <2> QED BY <2>1, <2>2, <2>3 DEF ConnIInv
<1>2. CASE Down
  <2> USE <1>0, <1>2 DEF Down, NoRunner, NoEntry, Idle, hist
  <2>1. ConnTypes'
    <3> HIDE DEF NoRunner, NoEntry, Idle
    <3> QED BY Records DEF ConnTypes
  <2>2. ASSUME NEW d \in Conns PROVE Sound(d)'
    BY DEF ConnTypes, EntryRec, Sound, OnlyUsed, NotBegun, Served, EndsForAReason, GivenUp, InUse,
       Cancelled, Stopped
  <2>3. ASSUME NEW j \in Clients PROVE Owns(j)' BY DEF Owns, ConnTypes, Sound, OnlyUsed
  <2> QED BY <2>1, <2>2, <2>3 DEF ConnIInv
<1>3. CASE StopBegin
  <2> USE <1>0, <1>3 DEF StopBegin, hist
  <2>1. ConnTypes' BY DEF ConnTypes, RunnerRec, EntryRec, ClientRec, Pcs, Events
  <2>2. ASSUME NEW d \in Conns PROVE Sound(d)'
    BY DEF ConnTypes, EntryRec, Sound, OnlyUsed, NotBegun, Served, EndsForAReason, GivenUp, InUse,
       Cancelled, Stopped
  <2>3. ASSUME NEW j \in Clients PROVE Owns(j)' BY DEF Owns, ConnTypes, Sound, OnlyUsed
  <2> QED BY <2>1, <2>2, <2>3 DEF ConnIInv
<1>4. CASE StopEntries
  <2> USE <1>0, <1>4 DEF StopEntries, Shut, CallCancel, hist
  <2>1. ConnTypes'
    <3> HIDE DEF Shut, CallCancel
    <3>1. ASSUME NEW d \in Conns PROVE entry'[d] \in EntryRec
      <4>1. entry[d] \in EntryRec BY DEF ConnTypes
      <4>2. Shut(CallCancel(entry[d])) \in EntryRec BY <4>1, Records
      <4> QED BY <4>1, <4>2
    <3>2. entry' \in [Conns -> EntryRec] BY <3>1
    <3> QED BY <3>2 DEF ConnTypes
  <2>2. ASSUME NEW d \in Conns PROVE Sound(d)'
    <3>0. entry[d] \in EntryRec /\ entry'[d]
          = IF d \in listed THEN Shut(CallCancel(entry[d])) ELSE entry[d]
      BY DEF ConnTypes
    <3>1. entry[d].cancel = "unset" => entry'[d].cancel = "unset"
      BY <3>0 DEF EntryRec
    <3>2. entry'[d].userClosed = entry[d].userClosed
      BY <3>0 DEF EntryRec
    <3>3. d \notin listed => entry'[d] = entry[d]
      BY <3>0
    <3> HIDE DEF Shut, CallCancel
    <3> QED BY <3>1, <3>2, <3>3 DEF Sound, OnlyUsed, NotBegun, Served, EndsForAReason, GivenUp,
               InUse, Stopped, Cancelled
  <2>3. ASSUME NEW j \in Clients PROVE Owns(j)' BY DEF Owns, ConnTypes, Sound, OnlyUsed
  <2> QED BY <2>1, <2>2, <2>3 DEF ConnIInv
<1>5. ASSUME NEW c \in Conns, TenMinutes(c) PROVE ConnIInv'
  <2>e. entry[c] \in EntryRec BY <1>0 DEF ConnTypes
  <2>0. [entry[c] EXCEPT !.recent = FALSE, !.fresh = FALSE] \in EntryRec BY <2>e DEF EntryRec
  <2> USE <1>0, <1>5 DEF TenMinutes, InVM, othersOfRunner, hist
  <2>1. ConnTypes' BY <2>0 DEF ConnTypes
  <2>2. Sound(c)'
    BY DEF Sound, OnlyUsed, NotBegun, Served, EndsForAReason, GivenUp, InUse, ConnTypes, EntryRec,
       Cancelled, Stopped
  <2>3. runner[c].pc # "none"
    BY DEF Sound, OnlyUsed, NotBegun, Served, EndsForAReason, GivenUp, InUse
  <2>4. \A e \in Conns \ {c} : runner'[e] = runner[e] /\ entry'[e] = entry[e] /\ why'[e] = why[e]
    BY DEF ConnTypes
  <2>5. UNCHANGED <<up, stop, client, used, listed, rows, why>> OBVIOUS
  <2> HIDE <1>0, <1>5 DEF TenMinutes, InVM, othersOfRunner
  <2> QED BY <2>1, <2>2, <2>3, <2>4, <2>5, ConnFrame
<1>6. ASSUME NEW c \in Conns, Reap(c) PROVE ConnIInv'
  <2>e. entry[c] \in EntryRec BY <1>0 DEF ConnTypes
  <2>0. [entry[c] EXCEPT !.eng = FALSE] \in EntryRec BY <2>e DEF EntryRec
  <2> USE <1>0, <1>6 DEF Reap, othersOfRunner, hist
  <2>1. ConnTypes' BY <2>0 DEF ConnTypes
  <2>2. Sound(c)'
    BY DEF Sound, OnlyUsed, NotBegun, Served, EndsForAReason, GivenUp, InUse, ConnTypes, EntryRec,
       Cancelled, Stopped
  <2>3. runner[c].pc # "none"
    BY DEF Sound, OnlyUsed, NotBegun, Served, EndsForAReason, GivenUp, InUse
  <2>4. \A e \in Conns \ {c} : runner'[e] = runner[e] /\ entry'[e] = entry[e] /\ why'[e] = why[e]
    BY DEF ConnTypes
  <2>5. UNCHANGED <<up, stop, client, used, listed, rows, why>> OBVIOUS
  <2> HIDE <1>0, <1>6 DEF Reap, othersOfRunner
  <2> QED BY <2>1, <2>2, <2>3, <2>4, <2>5, ConnFrame
<1>7. CASE UNCHANGED connVars
  BY <1>7 DEF connVars, ConnIInv, ConnTypes, Sound, OnlyUsed, NotBegun, Served, EndsForAReason,
     GivenUp, InUse, Owns, Cancelled, Stopped
<1> QED BY <1>1, <1>2, <1>3, <1>4, <1>5, <1>6, <1>7, RunnerKeeps, ClientKeeps DEF ConnNext

\* The first state satisfies the invariant.
LEMMA ConnStarts == ConnInit => ConnIInv
<1> SUFFICES ASSUME ConnInit PROVE ConnIInv OBVIOUS
<1> USE ConnAssumption DEF ConnInit
<1>1. ConnTypes
  <2>1. lives \in 0..MaxLives OBVIOUS
  <2>2. runner \in [Conns -> RunnerRec] /\ entry \in [Conns -> EntryRec] BY Records
  <2>3. client \in [Clients -> ClientRec] BY Records
  <2>4. url \in [Conns -> Urls \cup {NoUrl}] /\ why \in [Conns -> BOOLEAN] OBVIOUS
  <2> QED BY <2>1, <2>2, <2>3, <2>4 DEF ConnTypes
<1>2. ASSUME NEW c \in Conns PROVE Sound(c)
  BY DEF NoRunner, NoEntry, Sound, OnlyUsed, NotBegun, Served, EndsForAReason, GivenUp, InUse,
     Cancelled
<1>3. ASSUME NEW k \in Clients PROVE Owns(k)
  BY DEF Idle, Owns
<1> QED BY <1>1, <1>2, <1>3 DEF ConnIInv

\* Every state does.
LEMMA ConnSafe == ConnSpec => []ConnIInv
  BY ConnStarts, ConnKeeps, PTL DEF ConnSpec

\* Every connection, entry and client is in a state its code names (connmgr.go).
THEOREM ConnTyped == ConnSpec => []ConnTypeOK
<1>1. ConnIInv => ConnTypeOK
  BY DEF ConnIInv, ConnTypes, ConnTypeOK, RunnerRec, EntryRec, ClientRec
<1> QED BY <1>1, ConnSafe, PTL

\* ListedIsServed: whatever adds, removals, failures, stops and restarts interleave, a
\* connection of the table has its row and a goroutine that has not ended.
THEOREM EveryListedIsServed == ConnSpec => []ListedIsServed
<1>1. ConnIInv => ListedIsServed
  BY DEF ConnIInv, ConnTypes, Sound, OnlyUsed, Served, ListedIsServed
<1> QED BY <1>1, ConnSafe, PTL

\* RowsAreKept: a connection that reconnects loses its row only for a reason, whatever the
\* process is doing when it stops or crashes.
THEOREM NoRowIsLost == ConnSpec => []RowsAreKept
<1>1. ConnIInv => RowsAreKept
  BY DEF ConnIInv, ConnTypes, Sound, EndsForAReason, RowsAreKept
<1> QED BY <1>1, ConnSafe, PTL

\* HandlerKeepsVM: the reaper takes no VM from under the handler of a message within
\* ten minutes of it, which handlers exceed only in a native call.
THEOREM HandlersKeepTheirVM == ConnSpec => []HandlerKeepsVM
<1>1. ConnIInv => HandlerKeepsVM
  BY DEF ConnIInv, ConnTypes, Sound, InUse, HandlerKeepsVM, At
<1> QED BY <1>1, ConnSafe, PTL

-----------------------------------------------------------------------------
(* The git bridge.                                                         *)

\* Where a compaction, a stash or a pop is, what it read holds still.
CommandFlow ==
    /\ branch[cur] # <<>>
    /\ cmd.pc = "compact" => Len(cmd.seen) > Keep
    /\ cmd.pc \in {"commit", "ref", "reset"} => cmd.seen # <<>>
    /\ cmd.pc \in {"commit", "ref"} => stash = <<>>
    /\ cmd.pc = "commit" => branch[cur] = cmd.seen
    /\ cmd.pc = "ref" => branch[cur] = <<index>> \o cmd.seen
    /\ cmd.pc = "reset" => stash # <<>> /\ branch[cur] = <<stash[1]>> \o cmd.seen
    /\ cmd.pc \in {"pop", "unref"} => cmd.seen = stash /\ stash # <<>>

\* What a snapshot knows of the turn it is for, if nothing raced with it.
OnTrack(j) ==
    /\ job[j].pc = "walk" => KeptFiles = due
       /\ \A p \in 1..job[j].at - 1 : job[j].tree[p] = due[p]
    /\ job[j].pc = "ref" => job[j].tree = due
    /\ job[j].pc = "sym" => main # <<>> /\ main[1] = due

Quiet ==
    ~raced =>
      /\ \A i, j \in Jobs : job[i].pc # "idle" /\ job[j].pc # "idle" => i = j
      /\ cmd.pc = "compact" => AllIdle /\ named /\ cmd.seen = main /\ Len(main) > Keep
      /\ \A j \in Jobs : job[j].pc = "ref" => job[j].seen = Head_
      /\ due # <<>> => /\ \A j \in Jobs : OnTrack(j)
                       /\ AllIdle => Head_ # <<>> /\ Head_[1] = due

Distinct(s) == \A i \in 1..Len(s) - 1 : s[i] # s[i + 1]
NoneIsEmpty ==
    /\ Distinct(main)
    /\ cmd.pc = "compact" => Distinct(cmd.seen)
    /\ \A j \in Jobs : job[j].pc = "ref" =>
          Distinct(job[j].seen) /\ (job[j].seen # <<>> => job[j].tree # job[j].seen[1])

Popping ==
    /\ cmd.pc = "pop" /\ cmd.alone /\ ~cmd.failed =>
          \A p \in 1..cmd.at - 1 : cmd.seen[1][p] # Absent => files[p] = cmd.seen[1][p]
    /\ PopRestores

JobRec == [pc : {"idle", "walk", "ref", "sym"}, at : 1..Files + 1, tree : Trees, seen : Chains]
CmdRec == [pc : {"free", "compact", "commit", "ref", "reset", "pop", "unref"},
           at : 1..Files + 1, seen : Chains, alone : BOOLEAN, failed : BOOLEAN]
WebRec == [on : BOOLEAN, at : 1..Files + 1, tree : Trees]
Contents == Texts \cup {Blob, Absent}

GitTypes ==
    /\ files \in Trees /\ main \in Chains /\ named \in BOOLEAN
    /\ job \in [Jobs -> JobRec] /\ web \in WebRec /\ cmd \in CmdRec
    /\ index \in Trees /\ branch \in [Branches -> Chains] /\ cur \in Branches
    /\ stash \in Chains /\ owed \subseteq Trees /\ spoilt \subseteq Trees
    /\ due \in Trees \cup {<<>>} /\ raced \in BOOLEAN

\* Which steps write the files, the history, the snapshots, the restore, the block's
\* command and the repository.
LEMMA Writers ==
    ASSUME [GitNext]_gitVars
    PROVE  /\ files' = files \/ Edit \/ Restore \/ WebRestore \/ WebWrite \/ Checkout
              \/ StashReset \/ PopWrite \/ PopWriteFails \/ PopRemove \/ PopRemoveFails
           /\ UNCHANGED history \/ CompactSet \/ \E j \in Jobs : SetMain(j) \/ SetHead(j)
           /\ job' = job \/ TurnEnds \/ GitCommit \/ Crash
              \/ \E j \in Jobs : WalkFile(j) \/ ReadHead(j) \/ SetMain(j) \/ SetHead(j)
           /\ web' = web \/ WebRestoreCommit \/ WebWrite \/ WebDone \/ Crash
           /\ cmd' = cmd \/ CompactRead \/ CompactSet \/ WebRestore \/ WebWrite \/ Stash
              \/ StashCommit \/ StashRef \/ StashReset \/ Pop \/ PopWrite \/ PopWriteFails \/ PopRemove \/ PopRemoveFails \/ PopEnd
              \/ Throw \/ Crash
           /\ UNCHANGED repo \/ Add \/ AddAll \/ RepoCommit \/ NewBranch \/ DeleteBranch
              \/ Checkout
              \/ Stash \/ StashCommit \/ StashRef \/ StashReset \/ PopEnd \/ Throw \/ Crash
<1>1. CASE UNCHANGED gitVars
  BY <1>1 DEF gitVars, history, repo
<1>2. CASE GitNext
  <2>1. files' = files \/ Edit \/ Restore \/ WebRestore \/ WebWrite \/ Checkout
              \/ StashReset \/ PopWrite \/ PopWriteFails \/ PopRemove \/ PopRemoveFails
    BY <1>2 DEF GitNext, TurnEnds, GitCommit, CompactRead, CompactSet, WalkFile, ReadHead,
       SetMain, SetHead, WebRestoreCommit, WebDone, Add, AddAll, Reset, RepoCommit, NewBranch,
       DeleteBranch, Stash, StashCommit, StashRef, Pop, PopEnd, Throw, Crash
  <2>2. UNCHANGED history \/ CompactSet \/ \E j \in Jobs : SetMain(j) \/ SetHead(j)
    BY <1>2 DEF GitNext, TurnEnds, GitCommit, CompactRead, WalkFile, ReadHead, Edit, Restore,
       WebRestore, WebRestoreCommit, WebWrite, WebDone, Add, AddAll, Reset, RepoCommit, NewBranch,
       DeleteBranch, Checkout, Stash, StashCommit, StashRef, StashReset, Pop, PopWrite, PopWriteFails, PopRemove, PopRemoveFails,
       PopEnd, Throw, Crash
  <2>3. job' = job \/ TurnEnds \/ GitCommit \/ Crash
              \/ \E j \in Jobs : WalkFile(j) \/ ReadHead(j) \/ SetMain(j) \/ SetHead(j)
    BY <1>2 DEF GitNext, CompactRead, CompactSet, Edit, Restore, WebRestore, WebRestoreCommit,
       WebWrite, WebDone, Add, AddAll, Reset, RepoCommit, NewBranch, DeleteBranch, Checkout,
          Stash,
       StashCommit, StashRef, StashReset, Pop, PopWrite, PopWriteFails, PopRemove, PopRemoveFails, PopEnd, Throw
  <2>4. web' = web \/ WebRestoreCommit \/ WebWrite \/ WebDone \/ Crash
    BY <1>2 DEF GitNext, TurnEnds, GitCommit, CompactRead, CompactSet, WalkFile, ReadHead,
       SetMain, SetHead, Edit, Restore, WebRestore, Add, AddAll, Reset, RepoCommit, NewBranch,
       DeleteBranch, Checkout, Stash, StashCommit, StashRef, StashReset, Pop, PopWrite, PopWriteFails, PopRemove, PopRemoveFails,
       PopEnd, Throw
  <2>5. cmd' = cmd \/ CompactRead \/ CompactSet \/ WebRestore \/ WebWrite \/ Stash
              \/ StashCommit \/ StashRef \/ StashReset \/ Pop \/ PopWrite \/ PopWriteFails \/ PopRemove \/ PopRemoveFails \/ PopEnd
              \/ Throw \/ Crash
    BY <1>2 DEF GitNext, TurnEnds, GitCommit, WalkFile, ReadHead, SetMain, SetHead, Edit, Restore,
       WebRestoreCommit, WebDone, Add, AddAll, Reset, RepoCommit, NewBranch, DeleteBranch,
          Checkout
  <2>6. UNCHANGED repo \/ Add \/ AddAll \/ RepoCommit \/ NewBranch \/ DeleteBranch \/ Checkout
              \/ Stash \/ StashCommit \/ StashRef \/ StashReset \/ PopEnd \/ Throw \/ Crash
    BY <1>2 DEF GitNext, TurnEnds, GitCommit, CompactRead, CompactSet, WalkFile, ReadHead,
       SetMain, SetHead, Edit, Restore, WebRestore, WebRestoreCommit, WebWrite, WebDone, Reset,
          Pop,
       PopWrite, PopWriteFails, PopRemove, PopRemoveFails
  <2> QED BY <2>1, <2>2, <2>3, <2>4, <2>5, <2>6
<1> QED BY <1>1, <1>2

\* The steps of a pop but its last leave the repository alone, and of the command what
\* it has read.
LEMMA PopSteps ==
    ASSUME cmd \in CmdRec, PopWrite \/ PopWriteFails \/ PopRemove \/ PopRemoveFails
    PROVE  /\ cmd.pc = "pop" /\ cmd'.pc \in {"pop", "unref"} /\ cmd'.seen = cmd.seen
           /\ UNCHANGED repo
<1>1. CASE PopWrite BY <1>1 DEF PopWrite, CmdRec
<1>2. CASE PopWriteFails BY <1>2 DEF PopWriteFails, CmdRec
<1>3. CASE PopRemove BY <1>3 DEF PopRemove, CmdRec
<1>4. CASE PopRemoveFails BY <1>4 DEF PopRemoveFails, CmdRec
<1> QED BY <1>1, <1>2, <1>3, <1>4

\* A newer commit in front of a chain, and a chain's newest ones.
LEMMA Chain ==
    ASSUME NEW s \in Chains, NEW t \in Trees
    PROVE  /\ <<t>> \o s \in Chains /\ <<t>> \o s # <<>> /\ (<<t>> \o s)[1] = t
           /\ Len(<<t>> \o s) = Len(s) + 1
           /\ \A i \in 1..Len(s) : (<<t>> \o s)[i + 1] = s[i]
  BY DEF Chains

\* What a chain with a newer commit in front holds.
LEMMA InFront ==
    ASSUME NEW s \in Chains, NEW t \in Trees
    PROVE  Range(<<t>> \o s) = {t} \cup Range(s)
<1>1. DOMAIN (<<t>> \o s) = 1..Len(s) + 1 /\ DOMAIN s = 1..Len(s) /\ Len(s) \in Nat BY DEF Chains
<1>2. (<<t>> \o s)[1] = t /\ \A i \in 1..Len(s) : (<<t>> \o s)[i + 1] = s[i] BY Chain
<1>3. ASSUME NEW i \in 1..Len(s) + 1 PROVE (<<t>> \o s)[i] \in {t} \cup Range(s)
  <2>1. CASE i = 1 BY <1>2, <2>1
  <2>2. CASE i # 1
    <3>1. i - 1 \in 1..Len(s) /\ (i - 1) + 1 = i BY <1>1, <2>2
    <3>2. (<<t>> \o s)[i] = s[i - 1] BY <3>1, <1>2
    <3> QED BY <3>1, <3>2, <1>1 DEF Range
  <2> QED BY <2>1, <2>2
<1>4. ASSUME NEW i \in 1..Len(s) PROVE s[i] \in Range(<<t>> \o s)
  <2>1. i + 1 \in DOMAIN (<<t>> \o s) BY <1>1
  <2> QED BY <2>1, <1>2 DEF Range
<1>5. t \in Range(<<t>> \o s)
  <2>1. 1 \in DOMAIN (<<t>> \o s) BY <1>1
  <2> QED BY <2>1, <1>2 DEF Range
<1> QED BY <1>1, <1>3, <1>4, <1>5 DEF Range

\* What a chain holds are trees.
LEMMA InChain ==
    ASSUME NEW s \in Chains
    PROVE  /\ s # <<>> => Len(s) > 0 /\ s[1] \in Trees
           /\ \A i \in DOMAIN s : s[i] \in Trees
           /\ Len(s) \in Nat /\ DOMAIN s = 1..Len(s)
           /\ Len(s) > 0 => s # <<>>
  BY DEF Chains

\* A compacted chain is the newest Keep of it.
LEMMA Shortened ==
    ASSUME NEW s \in Chains, Len(s) > Keep
    PROVE  /\ SubSeq(s, 1, Keep) \in Chains /\ Len(SubSeq(s, 1, Keep)) = Keep
           /\ SubSeq(s, 1, Keep) # <<>>
           /\ \A i \in 1..Keep : SubSeq(s, 1, Keep)[i] = s[i]
  BY GitAssumption DEF Chains

\* What a file may hold, in and out of a tree.
LEMMA TreeFacts ==
    /\ Empty \in Trees /\ First \in Trees
    /\ \A f \in Trees, p \in Paths : f[p] \in Contents
    /\ \A f \in Trees, p \in Paths, c \in Contents : [f EXCEPT ![p] = c] \in Trees
    /\ \A c \in Contents : Kept(c) \in Contents
    /\ <<>> \in Chains /\ \A t \in Trees : <<t>> \in Chains
  BY GitAssumption DEF Trees, Empty, First, Kept, Contents, Chains

\* The records that the steps write are snapshots, commands and restores.
LEMMA RecFacts ==
    /\ NoJob \in JobRec /\ NoCommand \in CmdRec /\ NoWeb \in WebRec
    /\ \A r \in JobRec : [r EXCEPT !.pc = "sym"] \in JobRec
       /\ [NoJob EXCEPT !.pc = "walk"] \in JobRec
    /\ \A r \in JobRec, s \in Chains : [r EXCEPT !.pc = "ref", !.seen = s] \in JobRec
    /\ \A r \in JobRec, t \in Trees, i \in 1..Files + 1 : [r EXCEPT !.tree = t, !.at
       = i] \in JobRec
    /\ \A r \in CmdRec, b \in BOOLEAN : [r EXCEPT !.alone = b] \in CmdRec
    /\ \A r \in CmdRec : [r EXCEPT !.pc = "ref"] \in CmdRec
       /\ [r EXCEPT !.pc = "reset"] \in CmdRec
    /\ \A r \in CmdRec : [r EXCEPT !.pc = "unref"] \in CmdRec
       /\ [r EXCEPT !.pc = "unref", !.failed = TRUE] \in CmdRec
    /\ \A r \in CmdRec, i \in 1..Files + 1 :
          [r EXCEPT !.at = i] \in CmdRec /\ [r EXCEPT !.at = i, !.failed = TRUE] \in CmdRec
    /\ \A r \in CmdRec, s \in Chains, x \in {"compact", "commit", "pop"} :
          [r EXCEPT !.pc = x, !.seen = s] \in CmdRec
<1> USE GitAssumption, TreeFacts
<1>1. NoJob \in JobRec /\ NoCommand \in CmdRec /\ NoWeb \in WebRec
  BY DEF NoJob, NoCommand, NoWeb, JobRec, CmdRec, WebRec
<1>2. ASSUME NEW r \in JobRec
      PROVE [r EXCEPT !.pc = "sym"] \in JobRec /\ [NoJob EXCEPT !.pc = "walk"] \in JobRec
  BY <1>1 DEF JobRec
<1>3. ASSUME NEW r \in JobRec, NEW s \in Chains
      PROVE [r EXCEPT !.pc = "ref", !.seen = s] \in JobRec
  BY DEF JobRec
<1>4. ASSUME NEW r \in JobRec, NEW t \in Trees, NEW i \in 1..Files + 1
      PROVE  [r EXCEPT !.tree = t, !.at = i] \in JobRec
  BY DEF JobRec
<1>5. ASSUME NEW r \in CmdRec, NEW b \in BOOLEAN PROVE [r EXCEPT !.alone = b] \in CmdRec
  BY DEF CmdRec
<1>6. ASSUME NEW r \in CmdRec
      PROVE  /\ [r EXCEPT !.pc = "ref"] \in CmdRec /\ [r EXCEPT !.pc = "reset"] \in CmdRec
             /\ [r EXCEPT !.pc = "unref"] \in CmdRec
             /\ [r EXCEPT !.pc = "unref", !.failed = TRUE] \in CmdRec
  BY DEF CmdRec
<1>7. ASSUME NEW r \in CmdRec, NEW i \in 1..Files + 1
      PROVE  [r EXCEPT !.at = i] \in CmdRec /\ [r EXCEPT !.at = i, !.failed = TRUE] \in CmdRec
  BY DEF CmdRec
<1>8. ASSUME NEW r \in CmdRec, NEW s \in Chains, NEW x \in {"compact", "commit", "pop"}
      PROVE  [r EXCEPT !.pc = x, !.seen = s] \in CmdRec
  BY DEF CmdRec
<1> QED BY <1>1, <1>2, <1>3, <1>4, <1>5, <1>6, <1>7, <1>8

\* A command that begins is at its first step and holds what it read.
LEMMA Begun ==
    ASSUME NEW d, NEW x, NEW c, d = NoCommand \/ d = [NoCommand EXCEPT !.pc = x, !.seen = c]
    PROVE  d.pc = "free" \/ (d.pc = x /\ d.seen = c)
<1>1. NoCommand \in CmdRec BY RecFacts
<1> QED BY <1>1 DEF CmdRec, NoCommand

\* Each step keeps the types.
LEMMA GitTypesKeep == ASSUME GitTypes, CommandFlow, [GitNext]_gitVars PROVE GitTypes'
<1> USE GitAssumption DEF GitTypes
<1>0. Head_ \in Chains /\ KeptFiles \in Trees
  <2>1. \A p \in Paths : Kept(files[p]) \in Contents BY TreeFacts
  <2>2. KeptFiles \in Trees BY <2>1 DEF KeptFiles, Trees, Contents
  <2> QED BY <2>2, TreeFacts DEF Head_
<1>1. files' \in Trees
  <2>1. CASE Edit
    <3>1. PICK p \in Paths, c \in Contents : files' = [files EXCEPT ![p] = c]
      BY <2>1 DEF Edit, Contents
    <3> QED BY <3>1, TreeFacts
  <2>2. CASE Restore
    <3>1. PICK c \in DOMAIN Head_, p \in Paths : files' = [files EXCEPT ![p] = Head_[c][p]]
      BY <2>2 DEF Restore
    <3>2. Head_[c][p] \in Contents BY <1>0, InChain, TreeFacts
    <3> QED BY <3>1, <3>2, TreeFacts
  <2>3. CASE WebRestore
    <3>1. PICK c \in DOMAIN Head_, p \in Paths : files' = [files EXCEPT ![p] = Head_[c][p]]
      BY <2>3 DEF WebRestore
    <3>2. Head_[c][p] \in Contents BY <1>0, InChain, TreeFacts
    <3> QED BY <3>1, <3>2, TreeFacts
  <2>4. CASE WebWrite
    <3>1. web.tree \in Trees BY DEF WebRec
    <3> QED BY <2>4, <3>1, TreeFacts DEF WebWrite
  <2>5. CASE Checkout
    <3>1. PICK b \in Branches : branch[b] # <<>> /\ cur' = b BY <2>5 DEF Checkout
    <3>2. branch[b] \in Chains OBVIOUS
    <3> QED BY <2>5, <3>1, <3>2, InChain DEF Checkout
  <2>6. CASE StashReset
    <3>1. cmd.seen \in Chains /\ cmd.seen # <<>> BY <2>6 DEF StashReset, CommandFlow, CmdRec
    <3> QED BY <2>6, <3>1, InChain DEF StashReset
  <2>7. CASE PopWrite
    <3>1. cmd.seen \in Chains /\ cmd.seen # <<>> BY <2>7 DEF PopWrite, CommandFlow, CmdRec
    <3>2. cmd.seen[1] \in Trees BY <3>1, InChain
    <3> QED BY <2>7, <3>2, TreeFacts DEF PopWrite
  <2>8. CASE PopRemove
    <3>1. \A p \in Paths : files[p] \in Contents /\ Absent \in Contents BY TreeFacts DEF Contents
    <3> QED BY <2>8, <3>1 DEF PopRemove, Trees, Contents
  <2>9. CASE PopWriteFails
    <3>1. files[cmd.at] \in Contents /\ Texts \subseteq Contents /\ cmd.at \in Paths
      BY <2>9, TreeFacts DEF Contents, PopWriteFails
    <3>2. PICK c \in Contents : files' = [files EXCEPT ![cmd.at] = c]
      BY <2>9, <3>1 DEF PopWriteFails
    <3> QED BY <3>1, <3>2, TreeFacts
  <2>10. CASE PopRemoveFails
    <3>1. \A p \in Paths : files[p] \in Contents /\ Absent \in Contents BY TreeFacts DEF Contents
    <3>2. PICK left \in SUBSET Gone \ {{}} :
             files' = [p \in Paths |-> IF p \in Gone \ left THEN Absent ELSE files[p]]
      BY <2>10 DEF PopRemoveFails
    <3> QED BY <3>1, <3>2 DEF Trees, Contents
  <2> QED BY <2>1, <2>2, <2>3, <2>4, <2>5, <2>6, <2>7, <2>8, <2>9, <2>10, Writers
<1>2. main' \in Chains /\ named' \in BOOLEAN
  <2>1. CASE CompactSet
    <3>1. cmd.seen \in Chains BY DEF CmdRec
    <3>2. Len(cmd.seen) \in Nat /\ SubSeq(cmd.seen, 1, Keep) \in Chains
      BY <3>1, <2>1 DEF Chains, CommandFlow, CompactSet
    <3> QED BY <2>1, <3>2 DEF CompactSet
  <2>2. ASSUME NEW j \in Jobs, SetMain(j) PROVE main' \in Chains /\ named' \in BOOLEAN
    <3>1. job[j].seen \in Chains /\ job[j].tree \in Trees BY DEF JobRec
    <3> QED BY <2>2, <3>1, Chain DEF SetMain
  <2>3. ASSUME NEW j \in Jobs, SetHead(j) PROVE main' \in Chains /\ named' \in BOOLEAN
    BY <2>3 DEF SetHead
  <2> QED BY <2>1, <2>2, <2>3, Writers DEF history
<1>3. job' \in [Jobs -> JobRec]
  <2>1. CASE TurnEnds BY <2>1, RecFacts DEF TurnEnds, StartSnapshot
  <2>2. CASE GitCommit BY <2>2, RecFacts DEF GitCommit, StartSnapshot
  <2>3. CASE Crash BY <2>3, RecFacts DEF Crash
  <2>4. ASSUME NEW j \in Jobs, WalkFile(j) PROVE job' \in [Jobs -> JobRec]
    <3>1. job[j] \in JobRec /\ job[j].at \in Paths /\ job[j].tree \in Trees
      BY <2>4 DEF WalkFile, JobRec
    <3> DEFINE t == [job[j].tree EXCEPT ![job[j].at] = Kept(files[job[j].at])]
               r == [job[j] EXCEPT !.tree = t, !.at = job[j].at + 1]
    <3>2. t \in Trees BY <3>1, TreeFacts
    <3>3. job[j].at + 1 \in 1..Files + 1 BY <3>1 DEF Paths
    <3>4. r \in JobRec
      <4> HIDE DEF t
      <4> QED BY <3>1, <3>2, <3>3, RecFacts
    <3>5. job' = [job EXCEPT ![j] = r] BY <2>4 DEF WalkFile
    <3> HIDE DEF r
    <3> QED BY <3>4, <3>5
  <2>5. ASSUME NEW j \in Jobs, ReadHead(j) PROVE job' \in [Jobs -> JobRec]
    <3>1. job[j] \in JobRec OBVIOUS
    <3>2. [job[j] EXCEPT !.pc = "ref", !.seen = Head_] \in JobRec BY <1>0, <3>1, RecFacts
    <3>3. job' = [job EXCEPT ![j] = NoJob]
             \/ job' = [job EXCEPT ![j] = [job[j] EXCEPT !.pc = "ref", !.seen = Head_]]
      BY <2>5 DEF ReadHead
    <3> QED BY <3>2, <3>3, RecFacts
  <2>6. ASSUME NEW j \in Jobs, SetMain(j) PROVE job' \in [Jobs -> JobRec]
    <3>1. [job[j] EXCEPT !.pc = "sym"] \in JobRec BY RecFacts
    <3>2. job' = [job EXCEPT ![j] = [job[j] EXCEPT !.pc = "sym"]] BY <2>6 DEF SetMain
    <3> QED BY <3>1, <3>2
  <2>7. ASSUME NEW j \in Jobs, SetHead(j) PROVE job' \in [Jobs -> JobRec]
    BY <2>7, RecFacts DEF SetHead
  <2> QED BY <2>1, <2>2, <2>3, <2>4, <2>5, <2>6, <2>7, Writers
<1>4. web' \in WebRec
  <2>1. CASE WebRestoreCommit BY <2>1, <1>0, InChain DEF WebRestoreCommit, WebRec
  <2>2. CASE WebWrite BY <2>2 DEF WebWrite, WebRec, Paths
  <2>3. CASE WebDone \/ Crash BY <2>3, RecFacts DEF WebDone, Crash
  <2> QED BY <2>1, <2>2, <2>3, Writers
<1>5. cmd' \in CmdRec
  <2>0. cmd.seen \in Chains /\ branch[cur] \in Chains BY DEF CmdRec
  <2>1. CASE CompactRead BY <2>1, <1>0, RecFacts DEF CompactRead
  <2>2. CASE Stash BY <2>2, <2>0, RecFacts DEF Stash
  <2>3. CASE Pop BY <2>3, <2>0, RecFacts DEF Pop
  <2>4. CASE WebRestore BY <2>4, RecFacts DEF WebRestore
  <2>5. CASE WebWrite BY <2>5, RecFacts DEF WebWrite
  <2>6. CASE StashCommit \/ StashRef BY <2>6, RecFacts DEF StashCommit, StashRef
  <2>7. CASE PopWrite
    <3>1. cmd.at + 1 \in 1..Files + 1 BY <2>7 DEF PopWrite, CmdRec, Paths
    <3>2. cmd' = [cmd EXCEPT !.at = cmd.at + 1] BY <2>7 DEF PopWrite
    <3> QED BY <3>1, <3>2, RecFacts
  <2>8. CASE PopRemove BY <2>8, RecFacts DEF PopRemove
  <2>9. CASE CompactSet \/ StashReset \/ PopEnd \/ Throw \/ Crash
    BY <2>9, RecFacts DEF CompactSet, StashReset, PopEnd, Throw, Crash
  <2>10. CASE PopWriteFails
    <3>1. cmd.at + 1 \in 1..Files + 1 BY <2>10 DEF PopWriteFails, CmdRec, Paths
    <3>2. cmd' = [cmd EXCEPT !.at = cmd.at + 1, !.failed = TRUE] BY <2>10 DEF PopWriteFails
    <3> QED BY <3>1, <3>2, RecFacts
  <2>11. CASE PopRemoveFails BY <2>11, RecFacts DEF PopRemoveFails
  <2> QED BY <2>1, <2>2, <2>3, <2>4, <2>5, <2>6, <2>7, <2>8, <2>9, <2>10, <2>11, Writers
<1>6. /\ index' \in Trees /\ branch' \in [Branches -> Chains] /\ cur' \in Branches
      /\ stash' \in Chains /\ owed' \subseteq Trees /\ spoilt' \subseteq Trees
  <2>0. cmd.seen \in Chains /\ branch[cur] \in Chains /\ stash \in Chains BY DEF CmdRec
  <2>1. CASE Add
    <3>1. \A p \in Paths : files[p] \in Contents BY TreeFacts
    <3> QED BY <2>1, <3>1, TreeFacts DEF Add
  <2>2. CASE AddAll BY <2>2 DEF AddAll
  <2>3. CASE RepoCommit
    <3>1. <<index>> \o branch[cur] \in Chains BY <2>0, Chain
    <3>2. branch' = [branch EXCEPT ![cur] = <<index>> \o branch[cur]] BY <2>3 DEF RepoCommit
    <3> QED BY <2>3, <3>1, <3>2 DEF RepoCommit
  <2>4. CASE NewBranch BY <2>4, <2>0 DEF NewBranch
  <2>5. CASE DeleteBranch BY <2>5, TreeFacts DEF DeleteBranch
  <2>6. CASE Checkout
    <3>1. PICK b \in Branches : branch[b] # <<>> /\ cur' = b BY <2>6 DEF Checkout
    <3>2. branch[b] \in Chains OBVIOUS
    <3>3. index' \in Trees BY <2>6, <3>1, <3>2, InChain DEF Checkout
    <3> QED BY <2>6, <3>1, <3>3 DEF Checkout
  <2>7. CASE Stash BY <2>7 DEF Stash
  <2>8. CASE StashCommit
    <3>1. <<index>> \o branch[cur] \in Chains BY <2>0, Chain
    <3>2. branch' = branch \/ branch' = [branch EXCEPT ![cur] = <<index>> \o branch[cur]]
      BY <2>8 DEF StashCommit
    <3> QED BY <2>8, <3>1, <3>2 DEF StashCommit
  <2>9. CASE StashRef
    <3>1. Tip \in Trees BY <2>0, InChain DEF Tip, CommandFlow
    <3>2. <<Tip>> \o cmd.seen \in Chains BY <2>0, <3>1, Chain
    <3> QED BY <2>9, <3>2 DEF StashRef
  <2>10. CASE StashReset
    <3>1. cmd.seen[1] \in Trees BY <2>10, <2>0, InChain DEF StashReset, CommandFlow
    <3> QED BY <2>10, <2>0, <3>1 DEF StashReset
  <2>11. CASE PopEnd
    <3>1. cmd.seen # <<>> /\ cmd.seen[1] \in Trees BY <2>11, <2>0, InChain DEF PopEnd, CommandFlow
    <3> QED BY <2>11, <3>1, TreeFacts DEF PopEnd
  <2>12. CASE Throw \/ Crash BY <2>12 DEF Throw, Crash, GiveUp
  <2> QED BY <2>1, <2>2, <2>3, <2>4, <2>5, <2>6, <2>7, <2>8, <2>9, <2>10, <2>11, <2>12, Writers
     DEF repo
<1>7. due' \in Trees \cup {<<>>} /\ raced' \in BOOLEAN
  <2>1. CASE TurnEnds BY <2>1, <1>0 DEF TurnEnds
  <2>2. CASE GitCommit BY <2>2 DEF GitCommit
  <2>3. CASE UNCHANGED gitVars BY <2>3 DEF gitVars
  <2>4. CASE GitNext /\ ~TurnEnds /\ ~GitCommit
    <3>1. due' = due
      BY <2>4 DEF GitNext, CompactRead, CompactSet, WalkFile, ReadHead, SetMain, SetHead, Edit,
         Restore, WebRestore, WebRestoreCommit, WebWrite, WebDone, Add, AddAll, Reset, RepoCommit,
         NewBranch, DeleteBranch, Checkout, Stash, StashCommit, StashRef, StashReset, Pop,
            PopWrite, PopWriteFails,
         PopRemove, PopRemoveFails, PopEnd, Throw, Crash
    <3>2. raced' = TRUE \/ raced' = raced \/ raced' = (raced \/ Walking) \/ raced' = (raced
          \/ ~AllIdle)
      BY <2>4 DEF GitNext, CompactRead, CompactSet, WalkFile, ReadHead, SetMain, SetHead, Edit,
         Restore, WebRestore, WebRestoreCommit, WebWrite, WebDone, Add, AddAll, Reset, RepoCommit,
         NewBranch, DeleteBranch, Checkout, Stash, StashCommit, StashRef, StashReset, Pop,
            PopWrite, PopWriteFails,
         PopRemove, PopRemoveFails, PopEnd, Throw, Crash, Touch
    <3> QED BY <3>1, <3>2
  <2> QED BY <2>1, <2>2, <2>3, <2>4
<1> QED BY <1>1, <1>2, <1>3, <1>4, <1>5, <1>6, <1>7

-----------------------------------------------------------------------------
\* Between the steps of a compaction, a stash or a pop nobody writes what it read.
LEMMA FlowKeeps == ASSUME GitTypes, CommandFlow, [GitNext]_gitVars PROVE CommandFlow'
<1> USE GitAssumption DEF GitTypes, CommandFlow
<1>0. branch[cur] \in Chains /\ stash \in Chains /\ cmd.seen \in Chains BY DEF CmdRec
<1>1. CASE UNCHANGED cmd /\ UNCHANGED repo
  BY <1>1 DEF repo
<1>2. CASE CompactRead
  <2>1. cmd' = NoCommand \/ (Len(Head_) > Keep
        /\ cmd' = [NoCommand EXCEPT !.pc = "compact", !.seen = Head_])
    <3>1. Head_ \in Chains BY TreeFacts DEF Head_
    <3>2. Len(Head_) \in Nat BY <3>1, InChain
    <3> QED BY <1>2, <3>2 DEF CompactRead
  <2> QED BY <1>2, <2>1 DEF CompactRead, NoCommand, repo
<1>3. CASE CompactSet BY <1>3 DEF CompactSet, NoCommand, repo
<1>4. CASE WebRestore BY <1>4 DEF WebRestore, repo, CmdRec
<1>5. CASE WebWrite BY <1>5 DEF WebWrite, repo, CmdRec
<1>6. CASE Stash BY <1>6 DEF Stash, NoCommand
<1>7. CASE StashCommit
  <2>1. CASE index = Tip BY <1>7, <2>1 DEF StashCommit, NoCommand
  <2>2. CASE index # Tip
    <3>1. branch'[cur'] = <<index>> \o cmd.seen BY <1>7, <2>2 DEF StashCommit
    <3>2. branch'[cur'] # <<>> BY <1>0, <3>1, Chain
    <3> QED BY <1>7, <2>2, <3>1, <3>2 DEF StashCommit, CmdRec
  <2> QED BY <2>1, <2>2
<1>8. CASE StashRef
  <2>1. Tip = index BY <1>0, <1>8, Chain DEF StashRef, Tip
  <2>2. stash' = <<index>> \o cmd.seen /\ stash' # <<>> /\ stash'[1] = index
    BY <1>0, <1>8, <2>1, Chain DEF StashRef
  <2> QED BY <1>8, <2>2 DEF StashRef, CmdRec
<1>9. CASE StashReset BY <1>9 DEF StashReset, NoCommand
<1>10. CASE Pop BY <1>10 DEF Pop, NoCommand, repo
<1>11. CASE PopWrite \/ PopWriteFails \/ PopRemove \/ PopRemoveFails
  BY <1>11 DEF PopWrite, PopWriteFails, PopRemove, PopRemoveFails, repo, CmdRec
<1>12. CASE PopEnd BY <1>12 DEF PopEnd, NoCommand
<1>13. CASE Throw \/ Crash BY <1>13 DEF Throw, Crash, NoCommand
<1>14. CASE Add \/ AddAll BY <1>14 DEF Add, AddAll, Command, Ready
<1>15. CASE RepoCommit
  <2>1. branch'[cur'] = <<index>> \o branch[cur] BY <1>15 DEF RepoCommit
  <2>2. branch'[cur'] # <<>> BY <1>0, <2>1, Chain
  <2> QED BY <1>15, <2>2 DEF RepoCommit, Command, Ready
<1>16. CASE NewBranch \/ DeleteBranch BY <1>16 DEF NewBranch, DeleteBranch, Command, Ready
<1>17. CASE Checkout
  BY <1>17 DEF Checkout, Command, Ready
<1> QED BY <1>1, <1>2, <1>3, <1>4, <1>5, <1>6, <1>7, <1>8, <1>9, <1>10, <1>11, <1>12, <1>13,
           <1>14, <1>15, <1>16, <1>17, Writers

\* Each step keeps what a stash took within reach.
LEMMA WorkKeeps ==
    ASSUME GitTypes, CommandFlow, WorkIsKept, [GitNext]_gitVars
    PROVE  WorkIsKept'
<1> USE GitAssumption DEF GitTypes, CommandFlow, WorkIsKept, Held, Range
<1>0. branch[cur] \in Chains /\ stash \in Chains /\ cmd.seen \in Chains BY DEF CmdRec
<1>1. CASE UNCHANGED repo /\ (cmd'.pc = "commit" <=> cmd.pc = "commit")
  BY <1>1 DEF repo
<1>2. CASE CompactRead
  BY <1>2 DEF CompactRead, Command, Ready, NoCommand, repo
<1>3. CASE CompactSet BY <1>3 DEF CompactSet, NoCommand, repo
<1>4. CASE WebRestore BY <1>4, <1>1 DEF WebRestore, CmdRec
<1>5. CASE WebWrite BY <1>5, <1>1 DEF WebWrite, CmdRec
<1>6. CASE Stash
  <2>1. /\ owed' = owed \cup {index'} /\ branch' = branch /\ stash = <<>> /\ cmd.pc = "free"
        /\ spoilt' = spoilt \ {index'} /\ cmd'.pc = "commit"
    BY <1>6 DEF Stash, Command, Ready, NoCommand
  <2>2. ASSUME NEW w \in owed
        PROVE  w \in spoilt \/ \E b \in Branches : w \in Range(branch[b])
    <3>1. w # <<>> BY GitAssumption DEF Trees, Paths
    <3> QED BY <2>1, <2>2, <3>1
  <2> HIDE DEF Range
  <2> QED BY <2>1, <2>2
<1>7. CASE StashCommit
  <2>1. CASE index = Tip BY <1>7, <2>1 DEF StashCommit, NoCommand
  <2>2. CASE index # Tip
    <3>1. branch' = [branch EXCEPT ![cur] = <<index>> \o branch[cur]] /\ owed' = owed
          /\ stash' = stash /\ spoilt' = spoilt
          /\ cmd'.pc = "ref" BY <1>7, <2>2 DEF StashCommit, CmdRec
    <3>2. Range(<<index>> \o branch[cur]) = {index} \cup Range(branch[cur])
      BY <1>0, InFront
    <3> HIDE DEF Range
    <3> QED BY <3>1, <3>2
  <2> QED BY <2>1, <2>2
<1>8. CASE StashRef
  <2>1. /\ owed' = owed /\ branch' = branch /\ stash = <<>> /\ cmd.pc = "ref" /\ cmd'.pc = "reset"
        /\ spoilt' = spoilt
    BY <1>8 DEF StashRef, CmdRec
  <2>2. ASSUME NEW w \in owed
        PROVE  w \in spoilt \/ \E b \in Branches : w \in Range(branch[b])
    <3>1. w # <<>> BY GitAssumption DEF Trees, Paths
    <3> QED BY <2>1, <2>2, <3>1
  <2> HIDE DEF Range
  <2> QED BY <2>1, <2>2
<1>9. CASE StashReset
  <2>1. Range(branch[cur]) = {stash[1]} \cup Range(cmd.seen)
    <3>1. stash[1] \in Trees /\ branch[cur] = <<stash[1]>> \o cmd.seen
      BY <1>9, <1>0, InChain DEF StashReset
    <3> HIDE DEF Range
    <3> QED BY <3>1, <1>0, InFront
  <2>2. branch' = [branch EXCEPT ![cur] = cmd.seen] /\ stash' = stash /\ owed' = owed
        /\ stash # <<>> /\ spoilt' = spoilt
        /\ cmd.pc = "reset" /\ cmd'.pc = "free"
    BY <1>9 DEF StashReset, NoCommand
  <2> HIDE DEF Range
  <2> QED BY <2>1, <2>2
<1>10. CASE Pop BY <1>10 DEF Pop, Command, Ready, NoCommand, repo
<1>11. CASE PopWrite \/ PopWriteFails \/ PopRemove \/ PopRemoveFails
  <2>1. UNCHANGED repo /\ cmd.pc = "pop" /\ cmd'.pc \in {"pop", "unref"} BY <1>11, <1>0, PopSteps
  <2> HIDE DEF Range
  <2> QED BY <2>1 DEF repo
<1>12. CASE PopEnd
  <2>1. /\ cmd.seen = stash /\ branch' = branch /\ cmd.pc = "unref" /\ cmd'.pc = "free"
        /\ \/ spoilt' = spoilt \cup {stash[1]} /\ owed' = owed
           \/ owed' = owed \ {stash[1]} /\ spoilt' = spoilt
    BY <1>12 DEF PopEnd, NoCommand
  <2> HIDE DEF Range
  <2> QED BY <2>1
<1>13. CASE Throw \/ Crash BY <1>13 DEF Throw, Crash, GiveUp, NoCommand
<1>14. CASE Add \/ AddAll BY <1>14 DEF Add, AddAll, Command, Ready
<1>15. CASE RepoCommit
  <2>1. Range(<<index>> \o branch[cur]) = {index} \cup Range(branch[cur])
    BY <1>0, InFront
  <2>2. branch' = [branch EXCEPT ![cur] = <<index>> \o branch[cur]] /\ owed' = owed
        /\ stash' = stash /\ spoilt' = spoilt
        /\ cmd.pc = "free" /\ cmd'.pc = "free" BY <1>15 DEF RepoCommit, Command, Ready
  <2> HIDE DEF Range
  <2> QED BY <2>1, <2>2
<1>16. CASE NewBranch
  <2>1. PICK b \in Branches : branch[b] = <<>> /\ branch' = [branch EXCEPT ![b] = branch[cur]]
    BY <1>16 DEF NewBranch
  <2>2. \A d \in Branches : Range(branch[d]) \subseteq Range(branch'[d])
    BY <2>1
  <2>3. owed' = owed /\ stash' = stash /\ spoilt' = spoilt /\ cmd.pc = "free" /\ cmd'.pc = "free"
    BY <1>16 DEF NewBranch, Command, Ready
  <2> HIDE DEF Range
  <2> QED BY <2>2, <2>3
<1>17. CASE DeleteBranch BY <1>17 DEF DeleteBranch, Command, Ready
<1>18. CASE Checkout
  BY <1>18 DEF Checkout, Command, Ready
<1> QED BY <1>1, <1>2, <1>3, <1>4, <1>5, <1>6, <1>7, <1>8, <1>9, <1>10, <1>11, <1>12, <1>13,
           <1>14, <1>15, <1>16, <1>17, <1>18, Writers
-----------------------------------------------------------------------------
\* Whatever snapshots and compactions overlap, no commit they write repeats the one before.
LEMMA NoneEmptyKeeps ==
    ASSUME GitTypes, CommandFlow, NoneIsEmpty, [GitNext]_gitVars
    PROVE  NoneIsEmpty'
<1> USE GitAssumption DEF GitTypes, NoneIsEmpty
<1>0. cmd.seen \in Chains /\ Head_ \in Chains /\ Distinct(Head_)
      /\ \A j \in Jobs : job[j] \in JobRec
  BY TreeFacts DEF Head_, Distinct, CmdRec
<1>1. Distinct(main')
  <2>1. CASE CompactSet
    <3>1. Len(cmd.seen) \in Nat /\ Len(cmd.seen) > Keep /\ cmd.pc = "compact"
          /\ main' = SubSeq(cmd.seen, 1, Keep)
      BY <2>1, <1>0, InChain DEF CompactSet, CommandFlow
    <3> QED BY <3>1, <1>0, Shortened DEF Distinct
  <2>2. ASSUME NEW j \in Jobs, SetMain(j) PROVE Distinct(main')
    <3> DEFINE s == job[j].seen
               t == job[j].tree
    <3>1. s \in Chains /\ t \in Trees /\ Distinct(s) /\ (s # <<>> => t # s[1])
          /\ main' = <<t>> \o s
      BY <2>2, <1>0 DEF SetMain, JobRec
    <3>2. Len(s) \in Nat /\ (Len(s) > 0 => s # <<>>) BY <3>1, InChain
    <3> HIDE DEF s, t
    <3>3. ASSUME NEW i \in 1..Len(s) PROVE (<<t>> \o s)[i] # (<<t>> \o s)[i + 1]
      <4>1. (<<t>> \o s)[1] = t /\ (<<t>> \o s)[i + 1] = s[i] BY <3>1, Chain
      <4>2. CASE i = 1 BY <4>1, <4>2, <3>1, <3>2
      <4>3. CASE i # 1
        <5>1. i - 1 \in 1..Len(s) - 1 /\ i - 1 \in 1..Len(s) /\ (i - 1) + 1 = i BY <3>2, <4>3
        <5>2. (<<t>> \o s)[i] = s[i - 1] BY <5>1, <3>1, Chain
        <5>3. s[i - 1] # s[(i - 1) + 1] BY <5>1, <3>1 DEF Distinct
        <5> QED BY <4>1, <5>1, <5>2, <5>3
      <4> QED BY <4>2, <4>3
    <3>4. Len(<<t>> \o s) = Len(s) + 1 BY <3>1, Chain
    <3> QED BY <3>1, <3>2, <3>3, <3>4 DEF Distinct
  <2>3. ASSUME NEW j \in Jobs, SetHead(j) PROVE Distinct(main')
    BY <2>3 DEF SetHead
  <2> QED BY <2>1, <2>2, <2>3, Writers DEF history
<1>2. cmd'.pc = "compact" => Distinct(cmd'.seen)
  <2>1. CASE CompactRead
    <3>1. cmd' = NoCommand \/ cmd' = [NoCommand EXCEPT !.pc = "compact", !.seen = Head_]
      BY <2>1 DEF CompactRead
    <3>2. cmd'.pc = "compact" => cmd'.seen = Head_ BY <3>1, Begun
    <3> QED BY <3>2, <1>0
  <2>2. CASE CompactSet \/ Stash \/ StashReset \/ Pop \/ PopEnd \/ Throw \/ Crash
    <3>1. cmd' = NoCommand \/ \E x \in {"commit", "pop"}, c \in Chains : cmd'
          = [NoCommand EXCEPT !.pc = x, !.seen = c]
      BY <2>2 DEF CompactSet, Stash, StashReset, Pop, PopEnd, Throw, Crash
    <3> QED BY <3>1, Begun
  <2>3. CASE WebRestore \/ WebWrite BY <2>3 DEF WebRestore, WebWrite, CmdRec
  <2>4. CASE StashCommit \/ StashRef
    BY <2>4 DEF StashCommit, StashRef, CmdRec, NoCommand
  <2>5. CASE PopWrite \/ PopWriteFails \/ PopRemove \/ PopRemoveFails
    BY <2>5, <1>0, PopSteps
  <2> QED BY <2>1, <2>2, <2>3, <2>4, <2>5, Writers
<1>3. ASSUME NEW i \in Jobs, job'[i].pc = "ref"
      PROVE  Distinct(job'[i].seen) /\ (job'[i].seen # <<>> => job'[i].tree # job'[i].seen[1])
  <2>1. CASE TurnEnds BY <2>1, <1>3, <1>0 DEF TurnEnds, StartSnapshot, NoJob
  <2>2. CASE GitCommit BY <2>2, <1>3, <1>0 DEF GitCommit, StartSnapshot, NoJob
  <2>3. CASE Crash BY <2>3, <1>3 DEF Crash, NoJob
  <2>4. ASSUME NEW j \in Jobs, WalkFile(j) PROVE job'[i] = job[i]
    BY <2>4, <1>3, <1>0 DEF WalkFile, JobRec
  <2>5. ASSUME NEW j \in Jobs, ReadHead(j), i = j
        PROVE  Distinct(job'[i].seen) /\ (job'[i].seen # <<>> => job'[i].tree # job'[i].seen[1])
    <3>1. job'[i] = [job[i] EXCEPT !.pc = "ref", !.seen = Head_] /\ ~(Head_ # <<>>
          /\ Changes(Head_[1], job[i].tree) = {})
      BY <2>5, <1>3 DEF ReadHead, NoJob
    <3>2. job'[i].seen = Head_ /\ job'[i].tree = job[i].tree BY <3>1, <1>0 DEF JobRec
    <3>3. Head_ # <<>> => job[i].tree # Head_[1] BY <3>1 DEF Changes
    <3> QED BY <3>2, <3>3, <1>0
  <2>6. ASSUME NEW j \in Jobs, ReadHead(j) \/ SetMain(j) \/ SetHead(j), i # j
        PROVE job'[i] = job[i]
    BY <2>6 DEF ReadHead, SetMain, SetHead
  <2>7. ASSUME NEW j \in Jobs, SetMain(j) \/ SetHead(j), i = j PROVE FALSE
    BY <2>7, <1>3, <1>0 DEF SetMain, SetHead, JobRec, NoJob
  <2>8. job' = job \/ TurnEnds \/ GitCommit \/ Crash \/ \E j \in Jobs : WalkFile(j)
        \/ ReadHead(j) \/ SetMain(j) \/ SetHead(j)
    BY Writers
  <2>9. job'[i] = job[i] => job[i].pc = "ref" /\ Distinct(job'[i].seen)
        /\ (job'[i].seen # <<>> => job'[i].tree # job'[i].seen[1])
    BY <1>3
  <2> QED BY <2>1, <2>2, <2>3, <2>4, <2>5, <2>6, <2>7, <2>8, <2>9
<1> QED BY <1>1, <1>2, <1>3

\* A pop that nobody interferes with has written all it visited.
LEMMA PoppingKeeps ==
    ASSUME GitTypes, CommandFlow, Popping, [GitNext]_gitVars
    PROVE  Popping'
<1> USE GitAssumption DEF GitTypes, Popping, PopRestores
<1>1. CASE UNCHANGED cmd /\ (UNCHANGED files \/ cmd.pc = "free")
  BY <1>1
<1>2. CASE Edit \/ Restore \/ Checkout
  BY <1>2 DEF Edit, Restore, Checkout, Command, Ready
<1>3. CASE WebRestore BY <1>3 DEF WebRestore, CmdRec
<1>4. CASE WebWrite BY <1>4 DEF WebWrite, CmdRec
<1>5. CASE CompactRead \/ CompactSet \/ Stash \/ StashReset \/ PopEnd \/ Throw \/ Crash
  <2>1. ASSUME CompactRead PROVE cmd'.pc \in {"free", "compact"}
    <3>1. cmd' = NoCommand \/ cmd' = [NoCommand EXCEPT !.pc = "compact", !.seen = Head_]
      BY <2>1 DEF CompactRead
    <3> QED BY <3>1, Begun
  <2>2. cmd'.pc \in {"free", "compact", "commit"}
    <3>1. CompactRead \/ cmd' = NoCommand
          \/ cmd' = [NoCommand EXCEPT !.pc = "commit", !.seen = branch[cur]]
      BY <1>5 DEF CompactSet, Stash, StashReset, PopEnd, Throw, Crash
    <3> QED BY <2>1, <3>1, Begun
  <2> QED BY <2>2
<1>6. CASE StashCommit \/ StashRef
  BY <1>6 DEF StashCommit, StashRef, NoCommand, CmdRec
<1>7. CASE Pop BY <1>7 DEF Pop, NoCommand
<1>8. CASE PopWrite
  <2>1. cmd.at \in Paths /\ cmd.pc = "pop" /\ cmd' = [cmd EXCEPT !.at = cmd.at + 1]
    BY <1>8 DEF PopWrite
  <2>2. cmd'.pc = "pop" /\ cmd'.alone = cmd.alone /\ cmd'.seen = cmd.seen /\ cmd'.at = cmd.at + 1
        /\ cmd'.failed = cmd.failed
    BY <2>1 DEF CmdRec
  <2>3. files' = IF cmd.seen[1][cmd.at] = Absent THEN files ELSE [files EXCEPT ![cmd.at]
        = cmd.seen[1][cmd.at]]
    BY <1>8 DEF PopWrite
  <2>4. \A p \in 1..cmd.at : p = cmd.at \/ p \in 1..cmd.at - 1 BY <2>1 DEF Paths
  <2>5. (cmd.at + 1) - 1 = cmd.at /\ 1..cmd.at \subseteq Paths BY <2>1 DEF Paths
  <2> QED BY <2>1, <2>2, <2>3, <2>4, <2>5 DEF Trees
<1>9. CASE PopRemove
  <2>1. cmd'.pc = "unref" /\ cmd'.alone = cmd.alone /\ cmd'.seen = cmd.seen
        /\ cmd'.failed = cmd.failed
    BY <1>9 DEF PopRemove, CmdRec
  <2>2. cmd.pc = "pop" /\ 1..cmd.at - 1 = Paths BY <1>9 DEF PopRemove, Paths
  <2> QED BY <1>9, <2>1, <2>2 DEF PopRemove, Gone
<1>10. CASE PopWriteFails \/ PopRemoveFails
  <2>1. cmd'.failed BY <1>10 DEF PopWriteFails, PopRemoveFails, CmdRec
  <2> QED BY <2>1
<1> QED BY <1>1, <1>2, <1>3, <1>4, <1>5, <1>6, <1>7, <1>8, <1>9, <1>10, Writers
-----------------------------------------------------------------------------
\* A snapshot that nothing raced with is the only one, and is of the turn's last files.
LEMMA QuietKeeps ==
    ASSUME GitTypes, CommandFlow, Quiet, [GitNext]_gitVars
    PROVE  Quiet'
<1> USE GitAssumption DEF GitTypes
<1>0. cmd.seen \in Chains /\ Head_ \in Chains /\ main \in Chains
      /\ \A j \in Jobs : job[j] \in JobRec
  BY TreeFacts DEF Head_, CmdRec
<1>1. CASE raced' BY <1>1 DEF Quiet
<1>2. CASE TurnEnds /\ ~raced'
  <2>1. PICK a \in Autos : job' = [job EXCEPT ![a] = [NoJob EXCEPT !.pc = "walk"]] /\ a \in Jobs
    BY <1>2 DEF TurnEnds, StartSnapshot, Jobs
  <2>2. AllIdle /\ cmd' = cmd /\ cmd.pc = "free" /\ due' = KeptFiles
        /\ KeptFiles' = KeptFiles /\ ~raced'
    BY <1>2 DEF TurnEnds, KeptFiles
  <2>3. job'[a].pc = "walk" /\ job'[a].at = 1 /\ \A i \in Jobs \ {a} : job'[i].pc = "idle"
    BY <2>1, <2>2 DEF AllIdle, NoJob
  <2>4. \A i \in Jobs : OnTrack(i)'
    BY <2>2, <2>3 DEF OnTrack
  <2>5. ~AllIdle'
    BY <2>1, <2>3 DEF AllIdle
  <2> QED BY <2>2, <2>3, <2>4, <2>5 DEF Quiet
<1>3. CASE GitCommit /\ ~raced'
  <2>1. job' = [job EXCEPT ![Script] = [NoJob EXCEPT !.pc = "walk"]] /\ Script \in Jobs
    BY <1>3 DEF GitCommit, StartSnapshot, Jobs
  <2>2. AllIdle /\ cmd' = cmd /\ cmd.pc = "free" /\ due' = <<>>
    BY <1>3 DEF GitCommit, Command, Ready
  <2>3. job'[Script].pc = "walk" /\ \A i \in Jobs \ {Script} : job'[i].pc = "idle"
    BY <2>1, <2>2 DEF AllIdle, NoJob
  <2> QED BY <2>2, <2>3 DEF Quiet
<1>4. CASE ~raced' /\ ~TurnEnds /\ ~GitCommit
  <2>0. ~raced /\ due' = due /\ (files' = files \/ ~Walking)
    <3>1. CASE UNCHANGED gitVars BY <1>4, <3>1 DEF gitVars
    <3>2. CASE GitNext
      BY <1>4, <3>2 DEF GitNext, CompactRead, CompactSet, WalkFile, ReadHead, SetMain, SetHead,
         Edit,
         Restore, WebRestore, WebRestoreCommit, WebWrite, WebDone, Add, AddAll, Reset, RepoCommit,
         NewBranch, DeleteBranch, Checkout, Stash, StashCommit, StashRef, StashReset, Pop,
            PopWrite, PopWriteFails,
         PopRemove, PopRemoveFails, PopEnd, Throw, Crash, Touch
    <3> QED BY <3>1, <3>2
  <2>a. ~Crash BY <1>4 DEF Crash
  <2>1. CASE job' = job /\ UNCHANGED history /\ (cmd'.pc = "compact" => cmd' = cmd)
    <3>1. Head_' = Head_ /\ AllIdle' = AllIdle BY <2>1 DEF Head_, AllIdle, history
    <3>2. \A j \in Jobs : OnTrack(j) => OnTrack(j)'
      BY <2>0, <2>1 DEF OnTrack, KeptFiles, history, Walking
    <3> QED BY <2>0, <2>1, <3>1, <3>2 DEF Quiet, history
  <2>2. CASE CompactRead
    <3>1. AllIdle /\ job' = job /\ main' = main /\ named' = named
      BY <2>2, <1>4 DEF CompactRead, history
    <3>2. Len(Head_) \in Nat BY <1>0, InChain
    <3>3. cmd'.pc = "compact" => cmd'.seen = Head_ /\ Len(Head_) > Keep
      <4>1. cmd' = NoCommand \/ (cmd' = [NoCommand EXCEPT !.pc = "compact", !.seen = Head_]
            /\ Len(Head_) > Keep)
        BY <2>2, <3>2 DEF CompactRead
      <4> QED BY <4>1, Begun
    <3>4. Len(Head_) > Keep => named /\ Head_ = main
      BY <3>2 DEF Head_
    <3>5. Head_' = Head_ /\ AllIdle' BY <3>1 DEF Head_, AllIdle
    <3>6. \A j \in Jobs : OnTrack(j)' BY <3>1 DEF OnTrack, AllIdle
    <3> QED BY <2>0, <3>1, <3>3, <3>4, <3>5, <3>6 DEF Quiet, AllIdle
  <2>3. CASE CompactSet
    <3>1. AllIdle /\ named /\ cmd.seen = main /\ Len(main) > Keep /\ job' = job /\ named' = named
          /\ main' = SubSeq(main, 1, Keep) /\ cmd'.pc = "free"
      BY <2>0, <2>3 DEF CompactSet, Quiet, NoCommand
    <3>2. main' # <<>> /\ main'[1] = main[1] BY <3>1, <1>0, Shortened
    <3>3. Head_ = main /\ Head_' = main' /\ AllIdle' BY <3>1 DEF Head_, AllIdle
    <3>4. \A j \in Jobs : OnTrack(j)' BY <3>1 DEF OnTrack, AllIdle
    <3> QED BY <2>0, <3>1, <3>2, <3>3, <3>4 DEF Quiet, AllIdle
  <2>4. ASSUME NEW j \in Jobs, WalkFile(j) \/ ReadHead(j) \/ SetMain(j) \/ SetHead(j) PROVE Quiet'
    <3>1. job[j].pc # "idle" /\ files' = files /\ cmd' = cmd
          /\ \A i \in Jobs \ {j} : job'[i] = job[i]
      BY <2>4 DEF WalkFile, ReadHead, SetMain, SetHead
    <3>2. cmd.pc # "compact" BY <2>0, <3>1 DEF Quiet, AllIdle
    <3>3. \A i \in Jobs \ {j} : job[i].pc = "idle" /\ job'[i].pc = "idle" BY <2>0, <3>1 DEF Quiet
    <3>4. \A i \in Jobs \ {j} : OnTrack(i)' BY <3>3 DEF OnTrack
    <3>5. due # <<>> => OnTrack(j) BY <2>0 DEF Quiet
    <3>6. job[j] \in JobRec BY <1>0
    <3>7. CASE WalkFile(j)
      <4> DEFINE at == job[j].at
      <4>1. job'[j] = [job[j] EXCEPT !.tree = [job[j].tree EXCEPT ![at]
            = Kept(files[at])], !.at = at + 1]
            /\ at \in Paths /\ job[j].pc = "walk"
        BY <3>7 DEF WalkFile
      <4>2. job'[j].pc = "walk" /\ job'[j].at = at + 1
            /\ job'[j].tree = [job[j].tree EXCEPT ![at] = Kept(files[at])]
        BY <4>1, <3>6 DEF JobRec
      <4>3. due # <<>> => OnTrack(j)'
        <5> SUFFICES ASSUME due # <<>> PROVE OnTrack(j)' OBVIOUS
        <5>1. KeptFiles = due /\ \A p \in 1..at - 1 : job[j].tree[p] = due[p]
          BY <3>5, <4>1 DEF OnTrack
        <5>2. Kept(files[at]) = due[at] BY <5>1, <4>1 DEF KeptFiles
        <5>3. KeptFiles' = due' BY <5>1, <2>0, <3>1 DEF KeptFiles
        <5>4. job[j].tree \in Trees BY <3>6 DEF JobRec
        <5>5. ASSUME NEW p \in 1..at PROVE job'[j].tree[p] = due[p]
          <6>1. p \in Paths /\ (p = at \/ p \in 1..at - 1) BY <4>1 DEF Paths
          <6> QED BY <6>1, <4>2, <5>1, <5>2, <5>4 DEF Trees
        <5>6. (at + 1) - 1 = at BY <4>1 DEF Paths
        <5> HIDE DEF at
        <5> QED BY <4>2, <5>3, <5>5, <5>6, <2>0 DEF OnTrack
      <4>4. ~AllIdle' BY <4>2 DEF AllIdle
      <4> QED BY <2>0, <3>1, <3>2, <3>3, <3>4, <4>2, <4>3, <4>4 DEF Quiet
    <3>8. CASE ReadHead(j)
      <4>1. main' = main /\ named' = named /\ Head_' = Head_ BY <3>8 DEF ReadHead, history, Head_
      <4>2. due # <<>> => job[j].tree = due
        <5> SUFFICES ASSUME due # <<>> PROVE job[j].tree = due OBVIOUS
        <5>1. job[j].pc = "walk" /\ job[j].at = Files + 1 BY <3>8 DEF ReadHead
        <5>2. \A p \in Paths : job[j].tree[p] = due[p] BY <3>5, <5>1 DEF OnTrack, Paths
        <5>3. job[j].tree \in Trees /\ due \in Trees BY <3>6 DEF JobRec
        <5> QED BY <5>2, <5>3 DEF Trees
      <4>3. CASE Head_ # <<>> /\ Changes(Head_[1], job[j].tree) = {}
        <5>1. job'[j] = NoJob BY <3>8, <4>3 DEF ReadHead
        <5>2. AllIdle' BY <3>3, <5>1 DEF AllIdle, NoJob
        <5>3. Head_[1] = job[j].tree
          <6>1. Head_[1] \in Trees /\ job[j].tree \in Trees BY <1>0, <4>3, InChain,
                <3>6 DEF JobRec
          <6>2. \A p \in Paths : Head_[1][p] = job[j].tree[p] BY <4>3 DEF Changes
          <6> QED BY <6>1, <6>2 DEF Trees
        <5>4. OnTrack(j)' BY <5>1 DEF OnTrack, NoJob
        <5>5. job'[j].pc = "idle" BY <5>1 DEF NoJob
        <5> QED BY <2>0, <3>1, <3>2, <3>3, <3>4, <4>1, <4>2, <4>3, <5>2, <5>3, <5>4, <5>5 DEF
                   Quiet
      <4>4. CASE ~(Head_ # <<>> /\ Changes(Head_[1], job[j].tree) = {})
        <5>1. job'[j] = [job[j] EXCEPT !.pc = "ref", !.seen = Head_] BY <3>8, <4>4 DEF ReadHead
        <5>2. job'[j].pc = "ref" /\ job'[j].seen = Head_ /\ job'[j].tree = job[j].tree
          BY <5>1, <3>6 DEF JobRec
        <5>3. due # <<>> => OnTrack(j)' BY <5>2, <4>2, <2>0 DEF OnTrack
        <5>4. ~AllIdle' BY <5>2 DEF AllIdle
        <5> QED BY <2>0, <3>1, <3>2, <3>3, <3>4, <4>1, <5>2, <5>3, <5>4 DEF Quiet
      <4> QED BY <4>3, <4>4
    <3>9. CASE SetMain(j)
      <4>1. job'[j] = [job[j] EXCEPT !.pc = "sym"] /\ main' = <<job[j].tree>> \o job[j].seen
            /\ job[j].pc = "ref"
        BY <3>9 DEF SetMain
      <4>2. job'[j].pc = "sym" BY <4>1, <3>6 DEF JobRec
      <4>3. main' # <<>> /\ main'[1] = job[j].tree
        <5>1. job[j].tree \in Trees /\ job[j].seen \in Chains BY <3>6 DEF JobRec
        <5> QED BY <4>1, <5>1, Chain
      <4>4. due # <<>> => OnTrack(j)' BY <3>5, <4>1, <4>2, <4>3, <2>0 DEF OnTrack
      <4>5. ~AllIdle' BY <4>2 DEF AllIdle
      <4> QED BY <2>0, <3>1, <3>2, <3>3, <3>4, <4>2, <4>4, <4>5 DEF Quiet
    <3>10. CASE SetHead(j)
      <4>1. job'[j].pc = "idle" /\ main' = main /\ named' /\ job[j].pc = "sym"
        BY <3>10 DEF SetHead, NoJob
      <4>2. AllIdle' BY <3>3, <4>1 DEF AllIdle
      <4>3. Head_' = main BY <4>1 DEF Head_
      <4>4. due # <<>> => main # <<>> /\ main[1] = due BY <3>5, <4>1 DEF OnTrack
      <4>5. OnTrack(j)' BY <4>1 DEF OnTrack
      <4> QED BY <2>0, <3>1, <3>2, <3>3, <3>4, <4>1, <4>2, <4>3, <4>4, <4>5 DEF Quiet
    <3> QED BY <2>4, <3>7, <3>8, <3>9, <3>10
  <2>5. CASE cmd' # cmd /\ ~CompactRead /\ ~CompactSet
    <3>1. job' = job /\ UNCHANGED history
      BY <2>5, <2>a, Writers DEF WebRestore, WebWrite, Stash, StashCommit, StashRef, StashReset,
         Pop,
                                PopWrite, PopWriteFails, PopRemove, PopRemoveFails, PopEnd, Throw
    <3>2. cmd'.pc = "compact" => cmd.pc = "compact" /\ cmd'.seen = cmd.seen
      <4>1. CASE WebRestore \/ WebWrite BY <4>1 DEF WebRestore, WebWrite, CmdRec
      <4>2. CASE Stash \/ StashReset \/ Pop \/ PopEnd \/ Throw
        <5>1. cmd' = NoCommand \/ \E x \in {"commit", "pop"}, c \in Chains : cmd'
              = [NoCommand EXCEPT !.pc = x, !.seen = c]
          BY <4>2 DEF Stash, StashReset, Pop, PopEnd, Throw
        <5> QED BY <5>1, Begun
      <4>3. CASE StashCommit \/ StashRef
        BY <4>3 DEF StashCommit, StashRef, NoCommand, CmdRec
      <4>4. CASE PopWrite \/ PopWriteFails \/ PopRemove \/ PopRemoveFails
        BY <4>4, <2>0, PopSteps
      <4> QED BY <2>5, <2>a, <4>1, <4>2, <4>3, <4>4, Writers
    <3>3. Head_' = Head_ /\ AllIdle' = AllIdle BY <3>1 DEF Head_, AllIdle, history
    <3>4. \A j \in Jobs : OnTrack(j) => OnTrack(j)'
      BY <2>0, <3>1 DEF OnTrack, KeptFiles, history, Walking
    <3> QED BY <2>0, <3>1, <3>2, <3>3, <3>4 DEF Quiet, history
  <2> QED BY <1>4, <2>a, <2>1, <2>2, <2>3, <2>4, <2>5, Writers
<1> QED BY <1>1, <1>2, <1>3, <1>4
-----------------------------------------------------------------------------
\* The inductive invariant.
GitIInv == GitTypes /\ CommandFlow /\ WorkIsKept /\ Quiet /\ NoneIsEmpty /\ Popping

\* The first state satisfies the invariant.
LEMMA GitStarts == GitInit => GitIInv
<1> SUFFICES ASSUME GitInit PROVE GitIInv OBVIOUS
<1> USE GitAssumption DEF GitInit
<1>1. GitTypes BY TreeFacts, RecFacts DEF GitTypes
<1>2. branch[cur] = <<First>> /\ <<First>> # <<>> OBVIOUS
<1>3. CommandFlow BY <1>2 DEF CommandFlow, NoCommand
<1>4. WorkIsKept BY DEF WorkIsKept
<1>5. Quiet BY DEF Quiet, NoJob, NoCommand
<1>6. NoneIsEmpty BY DEF NoneIsEmpty, NoJob, NoCommand, Distinct
<1>7. Popping BY DEF Popping, PopRestores, NoCommand
<1> QED BY <1>1, <1>3, <1>4, <1>5, <1>6, <1>7 DEF GitIInv

\* Every state does.
LEMMA GitSafe == GitSpec => []GitIInv
<1>1. GitIInv /\ [GitNext]_gitVars => GitIInv'
  BY GitTypesKeep, FlowKeeps, WorkKeeps, QuietKeeps, NoneEmptyKeeps, PoppingKeeps DEF GitIInv
<1> QED BY <1>1, GitStarts, PTL DEF GitSpec

\* WorkIsKept: wherever a stash or a pop fails or the process stops, what was stashed is
\* still under refs/stash, on a branch or staged, unless a pop that could not write a file
\* dropped it.
THEOREM StashedWorkIsKept == GitSpec => []WorkIsKept
<1>1. GitIInv => WorkIsKept BY DEF GitIInv
<1> QED BY <1>1, GitSafe, PTL

\* TurnIsSnapshotted: a turn's snapshot that nothing raced with is the newest of the history.
THEOREM EveryQuietTurnIsSnapshotted == GitSpec => []TurnIsSnapshotted
<1>1. GitIInv => TurnIsSnapshotted BY DEF GitIInv, Quiet, TurnIsSnapshotted
<1> QED BY <1>1, GitSafe, PTL

\* PopRestores: a pop that ends undisturbed, its writes done, gives every file back as the stash took it.
THEOREM PopsRestore == GitSpec => []PopRestores
<1>1. GitIInv => PopRestores BY DEF GitIInv, Popping
<1> QED BY <1>1, GitSafe, PTL

\* NoEmptySnapshots: no commit of the log is of the tree before it, also where snapshots
\* and compactions overlap.
THEOREM SnapshotsChangeSomething == GitSpec => []NoEmptySnapshots
<1>1. GitIInv => NoEmptySnapshots
  <2> SUFFICES ASSUME GitIInv, NEW c \in DOMAIN Head_ PROVE Log[c] # {} \/ Head_[c] = Empty
    BY DEF NoEmptySnapshots, Log
  <2>1. Head_ \in Chains /\ Distinct(Head_) /\ Head_[c] \in Trees /\ Len(Head_) \in Nat
        /\ c \in 1..Len(Head_)
    BY TreeFacts, InChain DEF GitIInv, GitTypes, NoneIsEmpty, Head_, Distinct
  <2>2. CASE c = Len(Head_)
    <3>1. Log[c] = Changes(Empty, Head_[c]) BY <2>2 DEF Log
    <3>2. Log[c] = {} => \A p \in Paths : Empty[p] = Head_[c][p] BY <3>1 DEF Changes
    <3> QED BY <3>2, <2>1, TreeFacts DEF Trees
  <2>3. CASE c # Len(Head_)
    <3>1. c \in 1..Len(Head_) - 1 /\ c + 1 \in 1..Len(Head_) BY <2>1, <2>3
    <3>2. Log[c] = Changes(Head_[c + 1], Head_[c]) BY <2>3 DEF Log
    <3>3. Head_[c + 1] \in Trees BY <2>1, <3>1, InChain
    <3>4. Head_[c] # Head_[c + 1] BY <2>1, <3>1 DEF Distinct
    <3>5. Log[c] = {} => \A p \in Paths : Head_[c + 1][p] = Head_[c][p] BY <3>2 DEF Changes
    <3> QED BY <3>3, <3>4, <3>5, <2>1 DEF Trees
  <2> QED BY <2>2, <2>3
<1> QED BY <1>1, GitSafe, PTL

\* HistoryGrows: without a race the history grows at its end or is cut by a compaction.
THEOREM HistoryOnlyGrows == GitSpec => HistoryGrows
<1> DEFINE Grown == LET new == Len(main') - Len(main)
                    IN  IF new > 0 THEN SubSeq(main', new + 1, Len(main')) = main
                        ELSE Len(main) > Keep /\ main' = SubSeq(main, 1, Keep)
<1>1. ASSUME GitIInv, [GitNext]_gitVars, ~raced, named, main' # main PROVE Grown
  <2> USE DEF GitIInv
  <2>0. main \in Chains /\ Head_ = main /\ Len(main) \in Nat /\ \A j \in Jobs : job[j] \in JobRec
    BY <1>1, InChain DEF GitTypes, Head_
  <2>1. CASE CompactSet
    <3>1. main' = SubSeq(main, 1, Keep) /\ Len(main) > Keep BY <1>1, <2>1 DEF CompactSet, Quiet
    <3>2. Len(main') = Keep /\ Keep \in Nat BY <2>0, <3>1, Shortened, GitAssumption
    <3>3. ~(Len(main') - Len(main) > 0) BY <2>0, <3>1, <3>2
    <3> QED BY <3>1, <3>3
  <2>2. ASSUME NEW j \in Jobs, SetMain(j) PROVE Grown
    <3>1. main' = <<job[j].tree>> \o main /\ job[j].tree \in Trees
      BY <1>1, <2>0, <2>2 DEF SetMain, Quiet, JobRec
    <3>2. Len(main') = Len(main) + 1 BY <2>0, <3>1, Chain
    <3>3. SubSeq(main', 2, Len(main) + 1) = main BY <2>0, <3>1 DEF Chains
    <3> QED BY <2>0, <3>2, <3>3
  <2>3. ASSUME NEW j \in Jobs, SetHead(j) PROVE FALSE
    BY <1>1, <2>3 DEF SetHead
  <2> QED BY <1>1, <2>1, <2>2, <2>3, Writers DEF history
<1>2. GitIInv /\ [GitNext]_gitVars => [~raced /\ named /\ main' # main => Grown]_gitVars
  BY <1>1
<1> QED BY <1>2, GitSafe, PTL DEF GitSpec, HistoryGrows
=============================================================================
