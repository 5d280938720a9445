----------------------------- MODULE EngineRun -----------------------------
(***************************************************************************)
(* One engine of altclaw (internal/engine/engine.go): a JavaScript VM that *)
(* runs one code block at a time for the turns of an agent, or a module    *)
(* for a script, under a deadline that agent.result pauses.                *)
(*                                                                         *)
(* A Run is watched from two sides: the select of runInVM, which sees the  *)
(* block's context end, and the pausable timer.  Both call vm.Interrupt,   *)
(* which only sets a flag: the VM clears it when it obeys it, and a flag   *)
(* set while nothing runs waits for the next Run.  Inside a native call    *)
(* (ui.ask, sys.*, task.join) the VM looks at no flag, and nothing bounds  *)
(* how long such a call takes; runInVM waits for it with e.mu held.        *)
(*                                                                         *)
(* A turn's context is cancelled by Stop; a cron task's is Background and  *)
(* never ends; a block's context is the turn's with a deadline.            *)
(***************************************************************************)
EXTENDS Integers, FiniteSets

CONSTANTS
    Turns,      \* the calls of Agent.Send and RunModule that use this engine
    CronTurns,  \* those that a cron task starts, with context.Background()
    Scripts,    \* those that are a RunModule
    Handles,    \* handles agent.run gives out
    Timeout,    \* a.Timeout, in ticks: the time a block is given
    MaxClock,   \* bound: the clock stops here, and no block starts too late
    MaxBlocks,  \* bound: the blocks of one turn
    Nobody      \* nil

ASSUME EngineAssumption ==
    /\ CronTurns \subseteq Turns /\ Scripts \subseteq Turns
    /\ CronTurns \cap Scripts = {}
    /\ Timeout \in Nat \ {0} /\ MaxClock \in Nat /\ MaxBlocks \in Nat
    /\ Nobody \notin Turns /\ Nobody \notin Handles
    /\ {"off", "js", "native", "pause"} \cap Handles = {}

VARIABLES
    clock,
    pc,         \* where each turn is
    block,      \* the number of blocks each turn has begun
    stopped,    \* turns whose context Stop has cancelled
    deadline,   \* the deadline of each turn's current block context
    mu,         \* who holds e.mu
    execCtx,    \* the turn whose block context is e.execCtx
    stopCtx,    \* the turn whose context is e.stopCtx
    dlTimer,    \* e.dlTimer: "nil", "live", or "fired" (Stop returns false)
    fireAt,     \* when the live timer fires (0 when there is none)
    dlBudget, dlStarted,
    firing,     \* timer callbacks that have been started but have not run
    interrupt,  \* the VM's flag: the block for which it was set
    vm,         \* "off", "js", the handle agent.result waits for, or a native call:
                \* "pause" for page.pause, "native" for any other that may take long
    ch,         \* runInVM's channel
    sub,        \* what is behind each handle
    grant,      \* history: the time the current block was given
    spent       \* history: the time it has used while not paused

turnVars == <<pc, block, deadline>>
timerVars == <<dlTimer, fireAt, dlBudget, dlStarted>>
vars == <<clock, turnVars, stopped, mu, execCtx, stopCtx, timerVars, firing,
          interrupt, vm, ch, sub, grant, spent>>

Blocks == Turns \X (1..MaxBlocks)
NoBlock == <<Nobody, 0>>
Free == [state |-> "free", of |-> Nobody, ctx |-> "none", on |-> Nobody, cancelled |-> FALSE]

Init ==
    /\ clock = 0
    /\ pc = [t \in Turns |-> "idle"] /\ block = [t \in Turns |-> 0]
    /\ stopped = {} /\ deadline = [t \in Turns |-> 0]
    /\ mu = Nobody /\ execCtx = Nobody /\ stopCtx = Nobody
    /\ dlTimer = "nil" /\ fireAt = 0 /\ dlBudget = 0 /\ dlStarted = 0
    /\ firing = {} /\ interrupt = NoBlock /\ vm = "off" /\ ch = "empty"
    /\ sub = [h \in Handles |-> Free]
    /\ grant = 0 /\ spent = 0

-----------------------------------------------------------------------------
(* Contexts.                                                               *)

\* ctx.Done() of a turn's current block.
BlockOver(t) == t \in stopped \/ clock >= deadline[t]

\* StopContext: the turn's context if there is one, else the block's, else
\* Background.
StopContext == IF stopCtx # Nobody THEN <<"turn", stopCtx>>
               ELSE IF execCtx # Nobody THEN <<"block", execCtx>> ELSE <<"none", Nobody>>

\* A sub-agent's context: cancelled itself, or with the one it derives from.
SubOver(h) ==
    \/ sub[h].cancelled
    \/ sub[h].ctx = "turn" /\ sub[h].on \in stopped
    \/ sub[h].ctx = "block" /\ BlockOver(sub[h].on)

Current == <<mu, block[mu]>>
IsRun(t) == t \notin Scripts

-----------------------------------------------------------------------------
(* The pausable deadline.                                                  *)

\* PauseDeadline.  A timer that has already fired leaves the budget alone; one
\* that is late leaves none.
Pause ==
    /\ dlTimer' = "nil" /\ fireAt' = 0
    /\ dlBudget' = IF dlTimer # "live" THEN dlBudget
                   ELSE IF dlBudget > clock - dlStarted THEN dlBudget - (clock - dlStarted) ELSE 0
    /\ UNCHANGED dlStarted

\* ResumeDeadline.  The variant forgets to restart the segment.
ResumeSegment ==
    IF dlBudget <= 0 THEN UNCHANGED timerVars
    ELSE dlTimer' = "live" /\ fireAt' = clock + dlBudget /\ UNCHANGED <<dlBudget, dlStarted>>
Resume ==
    IF dlBudget <= 0 THEN UNCHANGED timerVars
    ELSE /\ dlTimer' = "live" /\ fireAt' = clock + dlBudget /\ dlStarted' = clock
         /\ UNCHANGED dlBudget

\* The timer expires: its callback starts in a goroutine of its own.
Expire ==
    /\ dlTimer = "live" /\ clock >= fireAt
    /\ dlTimer' = "fired" /\ fireAt' = 0
    /\ Current \notin firing
    /\ firing' = firing \cup {Current}
    /\ UNCHANGED <<clock, turnVars, stopped, mu, execCtx, stopCtx, dlBudget, dlStarted,
                   interrupt, vm, ch, sub, grant, spent>>

\* The callback interrupts the VM, whatever it runs by now.
Callback(b) ==
    /\ b \in firing
    /\ firing' = firing \ {b}
    /\ interrupt' = b
    /\ UNCHANGED <<clock, turnVars, stopped, mu, execCtx, stopCtx, timerVars, vm, ch, sub,
                   grant, spent>>

-----------------------------------------------------------------------------
(* Turns and their blocks.                                                 *)

\* Send begins.  A chat starts its next turn after the one before; cron tasks
\* do not look.  SetStopCtx(Background) is the same as none.
BeginTurn(t) ==
    /\ pc[t] = "idle" /\ IsRun(t)
    /\ t \in CronTurns \/ \A u \in Turns \ CronTurns : pc[u] \in {"idle", "over"}
    /\ pc' = [pc EXCEPT ![t] = "turn"]
    /\ stopCtx' = IF t \in CronTurns THEN Nobody ELSE t
    /\ UNCHANGED <<clock, block, deadline, stopped, mu, execCtx, timerVars, firing,
                   interrupt, vm, ch, sub, grant, spent>>

\* Send makes the context of the next block and calls Run; a script makes one
\* and calls RunModule.
BeginBlock(t) ==
    /\ pc[t] = (IF IsRun(t) THEN "turn" ELSE "idle")
    /\ block[t] < MaxBlocks /\ clock + Timeout <= MaxClock
    /\ t \notin stopped
    /\ pc' = [pc EXCEPT ![t] = "lock"]
    /\ block' = [block EXCEPT ![t] = @ + 1]
    /\ deadline' = [deadline EXCEPT ![t] = clock + Timeout]
    /\ UNCHANGED <<clock, stopped, mu, execCtx, stopCtx, timerVars, firing, interrupt,
                   vm, ch, sub, grant, spent>>

\* A block's context is cancelled as Run returns, and with it the sub-agents
\* that were given it.
EndOfBlock(t) ==
    /\ pc' = [pc EXCEPT ![t] = IF IsRun(t) THEN "turn" ELSE "over"]
    /\ sub' = [h \in Handles |->
                  IF sub[h].ctx = "block" /\ sub[h].on = t
                  THEN [sub[h] EXCEPT !.cancelled = TRUE] ELSE sub[h]]

\* Run takes e.mu after the deadline has passed.
EnterLate(t) ==
    /\ pc[t] = "lock" /\ mu = Nobody /\ IsRun(t)
    /\ clock >= deadline[t]
    /\ EndOfBlock(t)
    /\ UNCHANGED <<clock, block, deadline, stopped, mu, execCtx, stopCtx, timerVars, firing,
                   interrupt, vm, ch, grant, spent>>

\* Run publishes the block's context.
SetExecCtx(t) == execCtx' = t

\* Run takes e.mu, arms the timer and starts the VM; RunModule only starts it.
Enter(t) ==
    /\ pc[t] = "lock" /\ mu = Nobody
    /\ mu' = t
    /\ pc' = [pc EXCEPT ![t] = "run"]
    /\ vm' = "js" /\ ch' = "empty"
    /\ IF IsRun(t)
       THEN LET left == deadline[t] - clock IN
            /\ left > 0
            /\ dlTimer' = "live" /\ fireAt' = clock + left
            /\ dlBudget' = left /\ dlStarted' = clock
            /\ SetExecCtx(t)
            /\ grant' = left /\ spent' = 0
       ELSE UNCHANGED <<timerVars, execCtx, grant, spent>>
    /\ UNCHANGED <<clock, block, deadline, stopped, stopCtx, firing, interrupt, sub>>

\* What Run's deferred functions undo; Stop does not call back a callback that
\* has started.
Leave(t) ==
    /\ mu' = Nobody
    /\ IF IsRun(t)
       THEN /\ execCtx' = Nobody
            /\ dlTimer' = "nil" /\ fireAt' = 0 /\ dlBudget' = 0
            /\ grant' = 0 /\ spent' = 0
       ELSE UNCHANGED <<execCtx, dlTimer, fireAt, dlBudget, grant, spent>>
    /\ UNCHANGED <<dlStarted, clock, block, deadline, stopped, stopCtx, firing, interrupt, vm>>

\* runInVM's select: the result is there ...
TakeResult(t) ==
    /\ pc[t] = "run" /\ ch # "empty"
    /\ ch' = "empty"
    /\ EndOfBlock(t)
    /\ Leave(t)

\* ... or the context is done: interrupt, and wait for the VM to unwind.  The
\* variant only waits.
CtxDoneSilently(t) ==
    /\ pc[t] = "run" /\ BlockOver(t)
    /\ pc' = [pc EXCEPT ![t] = "unwind"]
    /\ UNCHANGED <<clock, block, deadline, stopped, mu, execCtx, stopCtx, timerVars,
                   firing, interrupt, vm, ch, sub, grant, spent>>
CtxDone(t) ==
    /\ pc[t] = "run" /\ BlockOver(t)
    /\ pc' = [pc EXCEPT ![t] = "unwind"]
    /\ interrupt' = Current
    /\ UNCHANGED <<clock, block, deadline, stopped, mu, execCtx, stopCtx, timerVars,
                   firing, vm, ch, sub, grant, spent>>

\* The variant does not wait.
UnwoundAtOnce(t) ==
    /\ pc[t] = "unwind"
    /\ ch' = "empty"
    /\ EndOfBlock(t)
    /\ Leave(t)
Unwound(t) ==
    /\ pc[t] = "unwind" /\ ch # "empty"
    /\ ch' = "empty"
    /\ EndOfBlock(t)
    /\ Leave(t)

\* Send returns and clears the stop context, whoever's it is by now.
EndTurn(t) ==
    /\ pc[t] = "turn"
    /\ pc' = [pc EXCEPT ![t] = "over"]
    /\ stopCtx' = Nobody
    /\ UNCHANGED <<clock, block, deadline, stopped, mu, execCtx, timerVars, firing,
                   interrupt, vm, ch, sub, grant, spent>>

-----------------------------------------------------------------------------
(* The VM's goroutine.                                                     *)

\* The goroutine sends its result.  (A module's also clears the flag; its engine
\* runs nothing after it.)
VmEnds ==
    /\ vm' = "off" /\ ch' = "result"
    /\ UNCHANGED <<clock, turnVars, stopped, mu, execCtx, stopCtx, timerVars, firing, sub,
                   grant, spent>>

\* The code ends by itself, with a value or an error of its own.
VmFinish ==
    /\ vm = "js" /\ interrupt = NoBlock
    /\ VmEnds
    /\ UNCHANGED interrupt

\* The VM sees the flag before its next instruction.
VmObeys ==
    /\ vm = "js" /\ interrupt # NoBlock
    /\ interrupt' = NoBlock
    /\ VmEnds

\* agent.run: a goroutine with a context derived from StopContext.
AgentRun(h) ==
    /\ vm = "js" /\ interrupt = NoBlock /\ sub[h].state = "free"
    /\ LET parent == StopContext IN
       sub' = [sub EXCEPT ![h] = [state |-> "running", of |-> mu, ctx |-> parent[1],
                                  on |-> parent[2], cancelled |-> FALSE]]
    /\ UNCHANGED <<clock, turnVars, stopped, mu, execCtx, stopCtx, timerVars, firing, interrupt,
                   vm, ch, grant, spent>>

\* agent.kill.
AgentKill(h) ==
    /\ vm = "js" /\ interrupt = NoBlock /\ sub[h].state \in {"running", "done"}
    /\ ~sub[h].cancelled
    /\ sub' = [sub EXCEPT ![h].cancelled = TRUE]
    /\ UNCHANGED <<clock, turnVars, stopped, mu, execCtx, stopCtx, timerVars, firing, interrupt,
                   vm, ch, grant, spent>>

\* agent.result pauses the deadline and waits.
ResultWait(h) ==
    /\ vm = "js" /\ interrupt = NoBlock /\ sub[h].state \in {"running", "done"}
    /\ Pause
    /\ vm' = h
    /\ UNCHANGED <<clock, turnVars, stopped, mu, execCtx, stopCtx, firing, interrupt, ch, sub,
                   grant, spent>>

\* The sub-agent is done: the deadline resumes and the handle is dropped.
ResultDone ==
    /\ vm \in Handles /\ sub[vm].state = "done"
    /\ Resume
    /\ sub' = [sub EXCEPT ![vm].state = "dropped"]
    /\ vm' = "js"
    /\ UNCHANGED <<clock, turnVars, stopped, mu, execCtx, stopCtx, firing, interrupt, ch, grant,
                   spent>>

\* The execution context is done: agent.result throws.
ResultCancelled ==
    /\ vm \in Handles /\ execCtx # Nobody /\ BlockOver(execCtx)
    /\ Resume
    /\ vm' = "js"
    /\ UNCHANGED <<clock, turnVars, stopped, mu, execCtx, stopCtx, firing, interrupt, ch, sub,
                   grant, spent>>

\* A native call that may take long: ui.ask, sys.*, task.join, a request ...
NativeCall ==
    /\ vm = "js" /\ interrupt = NoBlock /\ vm' = "native"
    /\ UNCHANGED <<clock, turnVars, stopped, mu, execCtx, stopCtx, timerVars, firing, interrupt,
                   ch, sub, grant, spent>>

\* ... which returns, or does not: no flag is looked at before it has.
NativeReturns ==
    /\ vm = "native" /\ vm' = "js"
    /\ UNCHANGED <<clock, turnVars, stopped, mu, execCtx, stopCtx, timerVars, firing, interrupt,
                   ch, sub, grant, spent>>

\* page.pause, which waits for the user while the deadline is paused.
PageWait ==
    /\ vm = "js" /\ interrupt = NoBlock
    /\ Pause
    /\ vm' = "pause"
    /\ UNCHANGED <<clock, turnVars, stopped, mu, execCtx, stopCtx, firing, interrupt, ch, sub,
                   grant, spent>>
PageGoesOn ==
    /\ vm = "pause"
    /\ Resume
    /\ vm' = "js"
    /\ UNCHANGED <<clock, turnVars, stopped, mu, execCtx, stopCtx, firing, interrupt, ch, sub,
                   grant, spent>>

-----------------------------------------------------------------------------
(* What happens around the engine.                                         *)

\* A sub-agent's turn ends: it has its answer, or its context is over.
SubEnds(h) ==
    /\ sub[h].state = "running"
    /\ sub' = [sub EXCEPT ![h].state = "done"]
    /\ UNCHANGED <<clock, turnVars, stopped, mu, execCtx, stopCtx, timerVars, firing, interrupt,
                   vm, ch, grant, spent>>

\* The user stops a chat's turn.
Stop(t) ==
    /\ t \in Turns \ (CronTurns \cup Scripts)
    /\ pc[t] \in {"turn", "lock", "run", "unwind"} /\ t \notin stopped
    /\ stopped' = stopped \cup {t}
    /\ UNCHANGED <<clock, turnVars, mu, execCtx, stopCtx, timerVars, firing, interrupt, vm, ch,
                   sub, grant, spent>>

\* spent counts the time the VM is not paused.
Paused == vm \in Handles \cup {"pause"}
Tick ==
    /\ clock < MaxClock
    /\ clock' = clock + 1
    /\ spent' = IF execCtx # Nobody /\ ~Paused THEN spent + 1 ELSE spent
    /\ UNCHANGED <<turnVars, stopped, mu, execCtx, stopCtx, timerVars, firing, interrupt, vm, ch,
                   sub, grant>>

Done == (\A t \in Turns : pc[t] \in {"idle", "over"}) /\ UNCHANGED vars

Next ==
    \/ \E t \in Turns :
          BeginTurn(t) \/ BeginBlock(t) \/ EnterLate(t) \/ Enter(t) \/ TakeResult(t)
          \/ CtxDone(t) \/ Unwound(t) \/ EndTurn(t) \/ Stop(t)
    \/ \E h \in Handles :
          AgentRun(h) \/ AgentKill(h) \/ ResultWait(h) \/ SubEnds(h)
    \/ \E b \in firing : Callback(b)
    \/ Expire \/ VmFinish \/ VmObeys \/ ResultDone \/ ResultCancelled
    \/ NativeCall \/ NativeReturns \/ PageWait \/ PageGoesOn
    \/ Tick \/ Done

Spec == Init /\ [][Next]_vars

\* Goroutines, timers and the clock go on, and a VM that runs JavaScript sees its
\* flag; code that loops, a native call, a sub-agent that takes its time and a user
\* who does not press Stop are not forced.
Fairness ==
    /\ WF_vars(Tick) /\ WF_vars(VmObeys) /\ WF_vars(ResultCancelled)
    /\ \A t \in Turns : /\ WF_vars(Enter(t)) /\ WF_vars(EnterLate(t)) /\ WF_vars(CtxDone(t))
                        /\ WF_vars(TakeResult(t)) /\ WF_vars(Unwound(t))
FairSpec == Spec /\ Fairness

-----------------------------------------------------------------------------
(* Properties.                                                             *)

SubStates == {"free", "running", "done", "dropped"}

\* Every variable has its type.
TypeOK ==
    /\ clock \in 0..MaxClock
    /\ pc \in [Turns -> {"idle", "turn", "lock", "run", "unwind", "over"}]
    /\ block \in [Turns -> 0..MaxBlocks]
    /\ stopped \subseteq Turns /\ deadline \in [Turns -> Nat]
    /\ mu \in Turns \cup {Nobody} /\ execCtx \in Turns \cup {Nobody}
    /\ stopCtx \in Turns \cup {Nobody}
    /\ dlTimer \in {"nil", "live", "fired"}
    /\ fireAt \in Nat /\ dlBudget \in Nat /\ dlStarted \in Nat
    /\ firing \subseteq Blocks /\ interrupt \in Blocks \cup {NoBlock}
    /\ vm \in {"off", "js", "native", "pause"} \cup Handles
    /\ ch \in {"empty", "result"}
    /\ sub \in [Handles -> [state : SubStates, of : Turns \cup {Nobody},
                            ctx : {"none", "turn", "block"}, on : Turns \cup {Nobody},
                            cancelled : BOOLEAN]]
    /\ grant \in Nat /\ spent \in Nat

\* The VM is never shared: code runs, or has left a result, only for the turn
\* that holds e.mu, also when that turn gave up waiting (engine.go:649).
RunsAreSerial ==
    /\ \A t \in Turns : pc[t] \in {"run", "unwind"} <=> mu = t
    /\ (vm # "off" \/ ch # "empty") => mu # Nobody
    /\ ~(vm # "off" /\ ch # "empty")

\* No deadline outlives its Run: between Runs no timer is armed and Resume
\* would arm none (engine.go:791-800).
NoDeadlineLeft == execCtx = Nobody => dlTimer = "nil" /\ dlBudget = 0

\* The timer never fires before the block has used, outside agent.result, the
\* time it was given, however often it was paused (engine.go:713-743).
NotEarly == dlTimer = "live" => fireAt + spent >= clock + grant

\* A sub-agent of a turn lives under the turn's context: Stop reaches it and
\* the deadline of the block that started it does not (agent.go:528-529).
SubAgentsFollowTurn ==
    \A h \in Handles : sub[h].state = "running" => sub[h].ctx = "turn" /\ sub[h].on = sub[h].of

\* What agent.result waits for, it can be woken from when the block is over
\* (engine.go:543-544).
WaitEndsWithBlock == vm \in Handles /\ BlockOver(mu) => execCtx = mu

\* A Run ends, and so does the wait for e.mu: it finishes, is stopped or times
\* out, whether its code loops or waits for a sub-agent that never ends.  What it
\* does not survive is a native call that never returns (engine.go:643-654).
InNative == vm \in {"native", "pause"}
RunEnds ==
    \A t \in Turns \ Scripts :
        pc[t] \in {"lock", "run", "unwind"} ~> (pc[t] \in {"turn", "over"} \/ []InNative)

-----------------------------------------------------------------------------
(* What comments promise and the code does not always keep: the README says *)
(* which steps break each of these.                                         *)

\* Code is interrupted on account of its own block (agent.go:773).
OwnInterrupt == [][VmObeys => interrupt = Current]_vars

\* A block that nobody stopped ends only when it has used its time outside
\* agent.result (engine.go:751-753).
PauseIsFree ==
    [][\A t \in Turns \ stopped :
          IsRun(t) /\ pc[t] = "run" /\ pc'[t] = "unwind" => spent >= grant]_vars

\* "blocks until either the goroutine completes or ctx is cancelled" (engine.go:621-622):
\* a native call keeps runInVM, and who waits for e.mu, beyond the block's context.
CancelEndsRun ==
    \A t \in Turns : pc[t] = "unwind" ~> pc[t] # "unwind"

\* When the user stops the agent its sub-agents are stopped (bridge/agent.go:64-65).
StopReachesSubs ==
    \A t \in stopped, h \in Handles :
        pc[t] # "over" /\ sub[h].state = "running" => SubOver(h)
=============================================================================
