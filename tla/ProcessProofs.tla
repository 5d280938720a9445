---------------------------- MODULE ProcessProofs ----------------------------
(***************************************************************************)
(* Proofs about the processes that scripts start.  Browsers: no Chrome of  *)
(* a living engine is forgotten, an engine cleaned up with no block at     *)
(* work leaves neither a process nor a profile, and a listener stops when it is told to.  A      *)
(* browser is listed only after it was launched and connected to, so the   *)
(* invariants say whose call is holding it until then.                     *)
(* Executors: who reads of an interactive process that it exited has read  *)
(* all it wrote; a command runs in a container of its session; a sweep     *)
(* leaves nothing that ran when it began; the set-ups that fail are        *)
(* bounded.                                                                *)
(***************************************************************************)
EXTENDS Browser, Executor, TLAPS

EngineState == [block : {"unused", "idle", "run", "stopping", "lost"}, proxy : BOOLEAN, late : BOOLEAN]
CallState == [pc : {"none", "launch", "kill", "relaunch", "connect", "register", "navigate", "wait"},
              b : Browsers \cup {NoBrowser}]
Chrome == [st : {"none", "up", "dead"}, owner : Engines \cup {NoBrowser}, profile : Profiles \cup {Temp},
           dir : BOOLEAN, active : BOOLEAN, page : BOOLEAN]

BrowserTypes ==
    /\ eng \in [Engines -> EngineState] /\ op \in [Engines -> CallState] /\ chrome \in [Browsers -> Chrome]

\* A call of an engine is about a browser of its own, and made while a block of it runs.
CallsAreOwn ==
    \A e \in Engines : op[e].pc # "none" =>
      /\ op[e].b \in Browsers /\ chrome[op[e].b].owner = e
      /\ eng[e].block \in {"run", "stopping"}

\* A Chrome that runs is somebody's.
UpIsOwned == \A b \in Browsers : chrome[b].owner = NoBrowser => chrome[b].st = "none"

\* One that runs for a living engine is on its list from the moment it is registered;
\* before that its open is at most at registering it.
UpIsListed ==
    \A b \in Browsers, e \in Engines :
      chrome[b].st = "up" /\ chrome[b].owner = e /\ eng[e].block # "lost"
        => chrome[b].active \/ (op[e].b = b /\ op[e].pc \in {"connect", "register"})

BrowserInv == BrowserTypes /\ CallsAreOwn /\ UpIsOwned /\ UpIsListed

\* No browser was launched.
LEMMA BrowserInit == Init => BrowserInv
  BY BrowserAssumption DEF Init, EngineState, CallState, Chrome, BrowserInv, BrowserTypes, CallsAreOwn, UpIsOwned, UpIsListed, Unused, NoOp, NoChrome

\* Processes may die, and be taken off their list then.
Fewer(old, new) ==
    /\ new.owner = old.owner
    /\ new.st = old.st \/ (new.st = "dead" /\ old.owner # NoBrowser)
    /\ new.st # "dead" => (new.active <=> old.active)

\* Dead: killed, and its temporary directory gone.
LEMMA DeadIsFewer ==
    ASSUME NEW r \in Chrome, r.owner # NoBrowser
    PROVE  /\ Dead(r) \in Chrome /\ Fewer(r, Dead(r)) /\ Dead(r).st = "dead"
           /\ [Dead(r) EXCEPT !.active = FALSE] \in Chrome /\ Fewer(r, [Dead(r) EXCEPT !.active = FALSE])
           /\ [r EXCEPT !.st = "dead"] \in Chrome /\ Fewer(r, [r EXCEPT !.st = "dead"])
  BY DEF Dead, Chrome, Fewer

\* One process changes.
LEMMA OneChrome ==
    ASSUME chrome \in [Browsers -> Chrome], NEW b \in Browsers, NEW r \in Chrome, Fewer(chrome[b], r),
           chrome' = [chrome EXCEPT ![b] = r]
    PROVE  /\ chrome' \in [Browsers -> Chrome] /\ chrome'[b] = r
           /\ \A c \in Browsers : Fewer(chrome[c], chrome'[c])
  BY DEF Fewer

\* Blocks begin and end, and processes die, while every engine is in the call it was in.
LEMMA QuietStep ==
    ASSUME BrowserInv, UNCHANGED op, chrome' \in [Browsers -> Chrome],
           \A b \in Browsers : Fewer(chrome[b], chrome'[b]),
           eng' \in [Engines -> EngineState],
           \A e \in Engines : /\ eng'[e].block = "lost" <=> eng[e].block = "lost"
                              /\ op[e].pc # "none" => eng'[e].block \in {"run", "stopping"}
    PROVE  BrowserInv'
  <1>1. BrowserTypes'
    BY DEF BrowserInv, BrowserTypes, Chrome
  <1>2. CallsAreOwn'
    BY DEF BrowserInv, BrowserTypes, CallsAreOwn, Fewer
  <1>3. UpIsOwned'
    BY DEF BrowserInv, UpIsOwned, Fewer
  <1>4. UpIsListed'
    BY DEF BrowserInv, BrowserTypes, CallsAreOwn, UpIsListed, Fewer
  <1> QED
    BY <1>1, <1>2, <1>3, <1>4 DEF BrowserInv

\* A call goes on, or returns; if it leaves a browser that it had not listed, that is dead.
LEMMA CallGoesOn ==
    ASSUME BrowserInv, NEW e \in Engines, NEW o, op' = [op EXCEPT ![e] = o], op[e].pc # "none",
           o = NoOp \/ (o.b = op[e].b /\ o.pc \in {"kill", "relaunch", "connect", "navigate"}),
           o \in [pc : {"none", "kill", "relaunch", "connect", "navigate"}, b : Browsers \cup {NoBrowser}],
           UNCHANGED eng, chrome' \in [Browsers -> Chrome],
           \A b \in Browsers : Fewer(chrome[b], chrome'[b]),
           op[e].pc \in {"connect", "register"} => chrome'[op[e].b].st = "dead"
    PROVE  BrowserInv'
  <1>1. BrowserTypes'
    BY DEF BrowserInv, BrowserTypes, Chrome, CallState
  <1>0. op'[e] = o /\ \A f \in Engines \ {e} : op'[f] = op[f]
    BY DEF BrowserInv, BrowserTypes
  <1>2. CallsAreOwn'
    BY <1>0 DEF BrowserInv, BrowserTypes, CallsAreOwn, Fewer, NoOp
  <1>3. UpIsOwned'
    BY DEF BrowserInv, UpIsOwned, Fewer
  <1>4. UpIsListed'
    BY <1>0 DEF BrowserInv, BrowserTypes, CallsAreOwn, UpIsListed, Fewer
  <1> QED
    BY <1>1, <1>2, <1>3, <1>4 DEF BrowserInv

\* Blocks start, end, are stopped and cleaned up; the process dies.
LEMMA BlockSteps ==
    ASSUME BrowserInv, NEW e \in Engines,
           BlockStarts(e) \/ BlockEnds(e) \/ Stop(e) \/ CleanUp(e) \/ EngineEnds(e)
    PROVE  BrowserInv'
  <1>1. chrome \in [Browsers -> Chrome] /\ \A b \in Browsers : Fewer(chrome[b], chrome[b])
    BY DEF BrowserInv, BrowserTypes, Chrome, Fewer
  <1>2. op[e].pc # "none" => eng[e].block \in {"run", "stopping"}
    BY DEF BrowserInv, CallsAreOwn
  <1>5. \A f \in Engines : op[f].pc # "none" => eng[f].block \in {"run", "stopping"}
    BY DEF BrowserInv, CallsAreOwn
  <1>6. eng \in [Engines -> EngineState]
    BY DEF BrowserInv, BrowserTypes
  <1>3. CASE BlockStarts(e) \/ BlockEnds(e) \/ Stop(e)
    <2>1. /\ eng' \in [Engines -> EngineState] /\ \A f \in Engines \ {e} : eng'[f] = eng[f]
          /\ eng'[e].block # "lost" /\ eng[e].block # "lost"
          /\ eng'[e].block \in {"run", "stopping"} \/ op[e].pc = "none"
      <3>1. CASE BlockStarts(e)
        BY <1>6, <3>1 DEF BlockStarts, EngineState
      <3>2. CASE BlockEnds(e)
        BY <1>6, <3>2 DEF BlockEnds, EngineState
      <3>3. CASE Stop(e)
        BY <1>6, <3>3 DEF Stop, EngineState
      <3> QED
        BY <1>3, <3>1, <3>2, <3>3
    <2>2. UNCHANGED <<op, chrome>>
      BY <1>3 DEF BlockStarts, BlockEnds, Stop
    <2>3. /\ eng' \in [Engines -> EngineState]
          /\ \A f \in Engines : /\ eng'[f].block = "lost" <=> eng[f].block = "lost"
                                /\ op[f].pc # "none" => eng'[f].block \in {"run", "stopping"}
      BY <1>5, <1>6, <2>1
    <2>4. chrome' \in [Browsers -> Chrome] /\ \A b \in Browsers : Fewer(chrome[b], chrome'[b])
      BY <1>1, <2>2
    <2>5. UNCHANGED op
      BY <2>2
    <2> QED
      BY <2>3, <2>4, <2>5, QuietStep
  <1>4. CASE CleanUp(e) \/ EngineEnds(e)
    <2>1. chrome' \in [Browsers -> Chrome] /\ \A b \in Browsers : Fewer(chrome[b], chrome'[b])
      <3>1. Cleaned(e) /\ e # NoBrowser
        BY <1>4, BrowserAssumption DEF CleanUp, EngineEnds
      <3>2. \A b \in Active(e) : b \in Browsers /\ chrome[b].owner # NoBrowser
        BY <3>1 DEF Active
      <3> QED
        BY <1>1, <3>1, <3>2, DeadIsFewer DEF Cleaned
    <2>2. /\ eng' \in [Engines -> EngineState] /\ \A f \in Engines \ {e} : eng'[f] = eng[f]
          /\ eng'[e].block # "lost" /\ eng[e].block # "lost"
          /\ eng'[e].block = eng[e].block
      <3>1. CASE CleanUp(e)
        BY <1>6, <3>1 DEF CleanUp, EngineState
      <3>2. CASE EngineEnds(e)
        <4> DEFINE x == [eng[e] EXCEPT !.proxy = FALSE]
        <4>1. eng' = [eng EXCEPT ![e] = x] /\ eng[e].block # "lost"
          BY <3>2 DEF EngineEnds
        <4>2. x \in EngineState /\ x.block = eng[e].block
          BY <1>6 DEF EngineState
        <4> HIDE DEF x
        <4> QED
          BY <1>6, <4>1, <4>2
      <3> QED
        BY <1>4, <3>1, <3>2
    <2>3. UNCHANGED op
      BY <1>4 DEF CleanUp, EngineEnds
    <2>4. /\ eng' \in [Engines -> EngineState]
          /\ \A f \in Engines : /\ eng'[f].block = "lost" <=> eng[f].block = "lost"
                                /\ op[f].pc # "none" => eng'[f].block \in {"run", "stopping"}
      BY <1>5, <1>6, <2>2
    <2> QED
      BY <2>1, <2>3, <2>4, QuietStep
  <1> QED
    BY <1>3, <1>4

\* The process dies: no engine that runs is left.
LEMMA DyingStep == ASSUME BrowserInv, ProcessDies PROVE BrowserInv'
  <1>1. BrowserTypes'
    BY DEF ProcessDies, BrowserInv, BrowserTypes, EngineState, CallState, NoOp
  <1>2. CallsAreOwn' /\ UpIsOwned'
    BY DEF ProcessDies, BrowserInv, CallsAreOwn, UpIsOwned, NoOp
  <1>3. \A e \in Engines : eng'[e].block # "lost" => eng[e].block = "unused"
    BY DEF ProcessDies, BrowserInv, BrowserTypes, EngineState
  <1>4. \A e \in Engines : eng'[e].block # "lost" => op[e].pc = "none" /\ eng[e].block # "lost"
    BY <1>3 DEF BrowserInv, CallsAreOwn
  <1>5. UpIsListed'
    BY <1>4 DEF ProcessDies, BrowserInv, UpIsListed
  <1> QED
    BY <1>1, <1>2, <1>5 DEF BrowserInv

\* A call is begun about a browser that is new, or one whose page the script has.
LEMMA CallBegins ==
    ASSUME BrowserInv, NEW e \in Engines, Open(e) \/ Wait(e)
    PROVE  BrowserInv'
  <1>1. op[e].pc = "none" /\ eng[e].block = "run"
    BY DEF Open, Wait, Page, InCall
  <1>2. CASE Wait(e)
    <2>1. PICK b \in Browsers : Page(e, b) /\ op' = [op EXCEPT ![e] = [pc |-> "wait", b |-> b]]
      BY <1>2 DEF Wait
    <2>2. UNCHANGED <<eng, chrome>>
      BY <1>2 DEF Wait
    <2> QED
      BY <1>1, <2>1, <2>2 DEF Page, BrowserInv, BrowserTypes, CallState, CallsAreOwn, UpIsOwned, UpIsListed
  <1>3. CASE Open(e)
    <2>1. PICK b \in Browsers : \E p \in Profiles \cup {Temp} :
             /\ \A c \in Browsers : chrome[c].owner = NoBrowser <=> c >= b
             /\ chrome' = [chrome EXCEPT ![b].owner = e, ![b].profile = p, ![b].dir = p = Temp]
             /\ op' = [op EXCEPT ![e] = [pc |-> "launch", b |-> b]]
      BY <1>3 DEF Open
    <2>15. b \in Nat
      BY BrowserAssumption
    <2>16. b >= b
      BY <2>15
    <2>2. UNCHANGED eng
      BY <1>3 DEF Open
    <2>3. chrome[b].owner = NoBrowser
      BY <2>1, <2>16
    <2>8. PICK p \in Profiles \cup {Temp} :
             /\ chrome' = [chrome EXCEPT ![b].owner = e, ![b].profile = p, ![b].dir = p = Temp]
             /\ op' = [op EXCEPT ![e] = [pc |-> "launch", b |-> b]]
      BY <2>1
    <2> DEFINE q == p = Temp
    <2>10. q \in BOOLEAN
      OBVIOUS
    <2>11. chrome' = [chrome EXCEPT ![b].owner = e, ![b].profile = p, ![b].dir = q]
      BY <2>8
    <2> HIDE DEF q
    <2>12. /\ [chrome[b] EXCEPT !.owner = e, !.profile = p, !.dir = q] \in Chrome
           /\ [pc |-> "launch", b |-> b] \in CallState
      BY <2>10 DEF BrowserInv, BrowserTypes, Chrome, CallState
    <2>13. op' \in [Engines -> CallState]
      BY <2>8, <2>12 DEF BrowserInv, BrowserTypes
    <2>14. chrome' \in [Browsers -> Chrome]
      BY <2>11, <2>12 DEF BrowserInv, BrowserTypes
    <2>9. BrowserTypes'
      BY <2>2, <2>13, <2>14 DEF BrowserInv, BrowserTypes
    <2>4. CallsAreOwn'
      BY <1>1, <2>8, <2>2, <2>3, <2>11, BrowserAssumption DEF BrowserInv, BrowserTypes, CallsAreOwn
    <2>5. UpIsOwned'
      BY <2>11, <2>3, BrowserAssumption DEF BrowserInv, BrowserTypes, UpIsOwned
    <2>6. chrome'[b].st = "none"
      BY <2>11, <2>3 DEF BrowserInv, BrowserTypes, UpIsOwned
    <2>7. UpIsListed'
      BY <1>1, <2>8, <2>2, <2>11, <2>6 DEF BrowserInv, BrowserTypes, UpIsListed
    <2> QED
      BY <2>9, <2>4, <2>5, <2>7 DEF BrowserInv
  <1> QED
    BY <1>2, <1>3

\* Of a call's own browser: it comes up, it is connected to, it is listed.
LEMMA LaunchSteps ==
    ASSUME BrowserInv, NEW e \in Engines, Launch(e) \/ Connect(e) \/ Register(e)
    PROVE  BrowserInv'
  <1> DEFINE b == op[e].b
  <1>1. op[e].pc # "none" /\ b \in Browsers /\ chrome[b].owner = e /\ eng' = eng
    BY DEF Launch, Connect, Register, InCall, BrowserInv, CallsAreOwn
  <1>2. CASE Launch(e)
    <2>1. CASE chrome' = [chrome EXCEPT ![b].st = "up"] /\ To(e, "connect")
      <3>1. op[e].pc \in {"launch", "relaunch"}
        BY <1>2 DEF Launch, InCall
      <3>4. op' = [op EXCEPT ![e].pc = "connect"]
        BY <2>1 DEF To
      <3>8. [chrome[b] EXCEPT !.st = "up"] \in Chrome /\ [op[e] EXCEPT !.pc = "connect"] \in CallState
        BY <1>1 DEF BrowserInv, BrowserTypes, Chrome, CallState
      <3>5. BrowserTypes'
        BY <1>1, <2>1, <3>4, <3>8 DEF BrowserInv, BrowserTypes
      <3>6. CallsAreOwn'
        BY <1>1, <2>1, <3>4 DEF BrowserInv, BrowserTypes, CallsAreOwn
      <3>7. UpIsOwned'
        BY <1>1, <2>1, BrowserAssumption DEF BrowserInv, BrowserTypes, UpIsOwned
      <3>2. BrowserTypes' /\ CallsAreOwn' /\ UpIsOwned'
        BY <3>5, <3>6, <3>7
      <3>3. UpIsListed'
        BY <1>1, <2>1, <3>1 DEF To, BrowserInv, BrowserTypes, CallsAreOwn, UpIsListed
      <3> QED
        BY <3>2, <3>3 DEF BrowserInv
    <2>2. CASE InCall(e, "launch") /\ To(e, "kill") /\ UNCHANGED chrome
      BY <1>1, <2>2 DEF To, InCall, BrowserInv, BrowserTypes, CallState, CallsAreOwn, UpIsOwned, UpIsListed
    <2> QED
      BY <1>2, <2>1, <2>2 DEF Launch
  <1>3. CASE Connect(e)
    BY <1>1, <1>3 DEF Connect, To, InCall, BrowserInv, BrowserTypes, CallState, CallsAreOwn, UpIsOwned, UpIsListed
  <1>4. CASE Register(e)
    <2>1. chrome' = [chrome EXCEPT ![b].active = TRUE] /\ To(e, "navigate") /\ op[e].pc = "register"
      BY <1>4 DEF Register, InCall
    <2>4. op' = [op EXCEPT ![e].pc = "navigate"]
      BY <2>1 DEF To
    <2>11. chrome[b] \in Chrome
      BY <1>1 DEF BrowserInv, BrowserTypes
    <2>9. [chrome[b] EXCEPT !.active = TRUE] \in Chrome
      BY <2>11 DEF Chrome
    <2>10. [op[e] EXCEPT !.pc = "navigate"] \in CallState
      BY <1>1 DEF BrowserInv, BrowserTypes, CallState
    <2>8. [chrome[b] EXCEPT !.active = TRUE] \in Chrome /\ [op[e] EXCEPT !.pc = "navigate"] \in CallState
      BY <2>9, <2>10
    <2>5. BrowserTypes'
      BY <1>1, <2>1, <2>4, <2>8 DEF BrowserInv, BrowserTypes
    <2>6. CallsAreOwn'
      BY <1>1, <2>1, <2>4 DEF BrowserInv, BrowserTypes, CallsAreOwn
    <2>7. UpIsOwned'
      BY <1>1, <2>1, BrowserAssumption DEF BrowserInv, BrowserTypes, UpIsOwned
    <2>2. BrowserTypes' /\ CallsAreOwn' /\ UpIsOwned'
      BY <2>5, <2>6, <2>7
    <2>3. UpIsListed'
      BY <1>1, <2>1 DEF To, BrowserInv, BrowserTypes, CallsAreOwn, UpIsListed
    <2> QED
      BY <2>2, <2>3 DEF BrowserInv
  <1> QED
    BY <1>2, <1>3, <1>4

\* Calls that kill, fail or return.
LEMMA CallEnds ==
    ASSUME BrowserInv, NEW e \in Engines,
           \/ KillForProfile(e) \/ LaunchFails(e) \/ ConnectFails(e) \/ Navigate(e) \/ NavigateFails(e)
           \/ WaitIsOver(e) \/ WaitThrows(e)
    PROVE  BrowserInv'
  <1> DEFINE b == op[e].b
  <1>1. op[e].pc # "none" /\ b \in Browsers /\ chrome[b].owner = e /\ eng' = eng /\ op[e] \in CallState
    BY DEF KillForProfile, LaunchFails, ConnectFails, Navigate, NavigateFails, WaitIsOver, WaitThrows, InCall,
           BrowserInv, BrowserTypes, CallsAreOwn
  <1>2. e # NoBrowser /\ NoOp \in [pc : {"none", "kill", "relaunch", "connect", "navigate"}, b : Browsers \cup {NoBrowser}]
    BY BrowserAssumption DEF NoOp
  <1>3. chrome \in [Browsers -> Chrome] /\ \A c \in Browsers : Fewer(chrome[c], chrome[c])
    BY DEF BrowserInv, BrowserTypes, Chrome, Fewer
  <1>4. CASE KillForProfile(e)
    <2> DEFINE o == [op[e] EXCEPT !.pc = "relaunch"]
    <2>1. /\ op' = [op EXCEPT ![e] = o] /\ o.b = b /\ o.pc = "relaunch" /\ op[e].pc = "kill"
          /\ o \in [pc : {"none", "kill", "relaunch", "connect", "navigate"}, b : Browsers \cup {NoBrowser}]
      <3>1. op[e] \in CallState
        BY <1>1
      <3> QED
        BY <3>1, <1>4 DEF KillForProfile, To, InCall, CallState
    <2>2. chrome' \in [Browsers -> Chrome] /\ \A c \in Browsers : Fewer(chrome[c], chrome'[c])
      <3>1. chrome' = [c \in Browsers |-> IF c \in Sharing(b) THEN Dead(chrome[c]) ELSE chrome[c]]
        BY <1>4 DEF KillForProfile, DeadIn
      <3>2. \A c \in Sharing(b) : c \in Browsers /\ chrome[c].owner # NoBrowser
        BY DEF Sharing, BrowserInv, UpIsOwned
      <3> QED
        BY <1>3, <3>1, <3>2, DeadIsFewer
    <2> HIDE DEF o
    <2> QED
      BY <1>1, <2>1, <2>2, CallGoesOn
  <1>5. CASE LaunchFails(e) \/ ConnectFails(e)
    <2>1. op' = [op EXCEPT ![e] = NoOp] /\ chrome' = [chrome EXCEPT ![b] = Dead(@)]
      BY <1>5 DEF LaunchFails, ConnectFails, Return
    <2>2. /\ chrome' \in [Browsers -> Chrome] /\ chrome'[b].st = "dead"
          /\ \A c \in Browsers : Fewer(chrome[c], chrome'[c])
      <3>1. chrome[b] \in Chrome /\ chrome[b].owner # NoBrowser
        BY <1>1, <1>2, <1>3
      <3>2. Dead(chrome[b]) \in Chrome /\ Fewer(chrome[b], Dead(chrome[b])) /\ Dead(chrome[b]).st = "dead"
        BY <3>1, DeadIsFewer
      <3>3. chrome' = [chrome EXCEPT ![b] = Dead(chrome[b])]
        BY <2>1
      <3> QED
        BY <1>1, <1>3, <3>2, <3>3, OneChrome
    <2> QED
      BY <1>1, <1>2, <2>1, <2>2, CallGoesOn
  <1>6. CASE Navigate(e) \/ NavigateFails(e) \/ WaitIsOver(e) \/ WaitThrows(e)
    <2>1. op' = [op EXCEPT ![e] = NoOp] /\ op[e].pc \in {"navigate", "wait"}
          /\ (chrome' = chrome \/ chrome' = [chrome EXCEPT ![b].page = TRUE])
      BY <1>6 DEF Navigate, NavigateFails, WaitIsOver, WaitThrows, Return, InCall
    <2>2. chrome' \in [Browsers -> Chrome] /\ \A c \in Browsers : Fewer(chrome[c], chrome'[c])
      <3>1. CASE chrome' = [chrome EXCEPT ![b].page = TRUE]
        <4>1. [chrome[b] EXCEPT !.page = TRUE] \in Chrome /\ Fewer(chrome[b], [chrome[b] EXCEPT !.page = TRUE])
          <5>1. PICK c \in Chrome : c = chrome[b]
            BY <1>1, <1>3
          <5>2. [c EXCEPT !.page = TRUE] \in Chrome /\ Fewer(c, [c EXCEPT !.page = TRUE])
            BY DEF Chrome, Fewer
          <5> QED
            BY <5>1, <5>2
        <4>2. chrome' = [chrome EXCEPT ![b] = [chrome[b] EXCEPT !.page = TRUE]]
          BY <3>1
        <4> QED
          BY <1>1, <1>3, <4>1, <4>2, OneChrome
      <3>2. CASE chrome' = chrome
        BY <1>3, <3>2
      <3> QED
        BY <2>1, <3>1, <3>2
    <2> QED
      BY <1>1, <1>2, <2>1, <2>2, CallGoesOn
  <1> QED
    BY <1>4, <1>5, <1>6

\* A page is closed, or Chrome dies by itself.
LEMMA DeathSteps ==
    ASSUME BrowserInv, (\E e \in Engines : Close(e)) \/ ChromeCrashes
    PROVE  BrowserInv'
  <1>1. PICK b \in Browsers : /\ chrome[b].owner # NoBrowser
                              /\ chrome' = [chrome EXCEPT ![b] = Dead(@)] \/ chrome' = [chrome EXCEPT ![b].st = "dead"]
    BY BrowserAssumption DEF Close, Page, ChromeCrashes, BrowserInv, UpIsOwned
  <1>2. UNCHANGED <<eng, op>>
    BY DEF Close, ChromeCrashes
  <1>3. chrome' \in [Browsers -> Chrome] /\ \A c \in Browsers : Fewer(chrome[c], chrome'[c])
    <2>1. chrome \in [Browsers -> Chrome]
      BY DEF BrowserInv, BrowserTypes, Chrome
    <2>2. PICK r \in Chrome : Fewer(chrome[b], r) /\ chrome' = [chrome EXCEPT ![b] = r]
      BY <1>1, <2>1, DeadIsFewer
    <2> QED
      BY <2>1, <2>2, OneChrome
  <1> QED
    BY <1>2, <1>3, QuietStep DEF BrowserInv, BrowserTypes, CallsAreOwn

\* What touches neither engines, calls nor processes.
LEMMA BrowserStutter == BrowserInv /\ UNCHANGED <<eng, op, chrome>> => BrowserInv'
  BY DEF BrowserInv, BrowserTypes, CallsAreOwn, UpIsOwned, UpIsListed

\* Every step keeps the invariant.
LEMMA BrowserStep == BrowserInv /\ [Next]_vars => BrowserInv'
  <1> SUFFICES ASSUME BrowserInv, [Next]_vars PROVE BrowserInv'
    OBVIOUS
  <1>1. CASE UNCHANGED vars
    BY <1>1, BrowserStutter DEF vars
  <1>2. ASSUME NEW e \in Engines, Listen(e) \/ StopListening(e) PROVE BrowserInv'
    BY <1>2, BrowserStutter DEF Listen, StopListening
  <1>3. ASSUME (\E r \in Requests : OnRequest(r)) \/ OnResponse PROVE BrowserInv'
    BY <1>3, BrowserStutter DEF OnRequest, OnResponse
  <1>4. CASE PageIsGone
    BY <1>4, BrowserStutter DEF PageIsGone
  <1> QED
    BY <1>1, <1>2, <1>3, <1>4, BlockSteps, DyingStep, CallBegins, LaunchSteps, CallEnds, DeathSteps DEF Next

\* browser.go: whatever fails while browsers are opened, and whenever the cleanup of a
\* stop comes, every Chrome of a living engine is found by a later cleanup.
THEOREM NoChromeIsForgotten == Spec => []NoneIsForgotten
  <1>1. BrowserInv => NoneIsForgotten
    BY DEF BrowserInv, BrowserTypes, UpIsOwned, UpIsListed, NoneIsForgotten, Chrome
  <1> QED
    BY <1>1, BrowserInit, BrowserStep, PTL DEF Spec

-----------------------------------------------------------------------------
(* What is left of an engine's browsers.                                   *)

\* What an engine must clean up: a process, or a temporary profile.
Remains(r) == r.st = "up" \/ r.dir
Opening(e, b) == op[e].b = b /\ op[e].pc \in {"launch", "kill", "relaunch", "connect", "register"}

\* A process or a profile of a living engine is on its list or in the hands of its open.
RemainsAreHeld ==
    \A b \in Browsers, e \in Engines :
      chrome[b].owner = e /\ Remains(chrome[b]) /\ eng[e].block # "lost"
        => chrome[b].active \/ Opening(e, b)

\* What remains of an engine after a step remained before it, or is in the hands of an open of
\* its; what its open lets go is listed or gone.
Follows ==
    /\ \A e \in Engines : eng[e].block = "lost" => eng'[e].block = "lost"
    /\ \A b \in Browsers, e \in Engines :
         chrome'[b].owner = e /\ Remains(chrome'[b]) =>
           \/ /\ chrome[b].owner = e /\ Remains(chrome[b]) /\ (chrome[b].active => chrome'[b].active)
              /\ Opening(e, b) => chrome'[b].active \/ Opening(e, b)'
           \/ Opening(e, b)'

\* Steps that follow keep it.
LEMMA RemainsFollow == RemainsAreHeld /\ Follows => RemainsAreHeld'
  BY DEF RemainsAreHeld, Follows

LEMMA NothingRemains ==
    ASSUME NEW r \in Chrome
    PROVE  ~Remains(Dead(r)) /\ ~Remains([Dead(r) EXCEPT !.active = FALSE])
  BY DEF Remains, Dead, Chrome

LEMMA RemainsStart == Init => RemainsAreHeld
  BY DEF Init, RemainsAreHeld, Remains, NoChrome

\* What blocks do, and their ends.
LEMMA BlocksFollow ==
    ASSUME BrowserInv, NEW e \in Engines,
           BlockStarts(e) \/ BlockEnds(e) \/ Stop(e) \/ CleanUp(e) \/ EngineEnds(e)
    PROVE  Follows
  <1>1. \A b \in Browsers : chrome[b] \in Chrome
    BY DEF BrowserInv, BrowserTypes
  <1>2. \A f \in Engines : eng[f].block = "lost" => eng'[f].block = "lost"
    BY DEF BrowserInv, BrowserTypes, EngineState, BlockStarts, BlockEnds, Stop, CleanUp, EngineEnds
  <1>3. op' = op
    BY DEF BlockStarts, BlockEnds, Stop, CleanUp, EngineEnds
  <1>4. \A b \in Browsers : chrome'[b] = chrome[b] \/ ~Remains(chrome'[b])
    BY <1>1, NothingRemains DEF BlockStarts, BlockEnds, Stop, CleanUp, EngineEnds, Cleaned
  <1> QED
    BY <1>2, <1>3, <1>4 DEF Follows, Opening

\* The cleanup of an engine with no block at work finds what remains of it: no call of it is open.
LEMMA EndsClear ==
    ASSUME BrowserInv, RemainsAreHeld, NEW e \in Engines, EngineEnds(e), eng[e].block = "idle",
           NEW b \in Browsers, chrome[b].owner = e
    PROVE  chrome'[b].st # "up" /\ ~chrome'[b].dir
  <1>1. chrome[b] \in Chrome /\ op[e].pc = "none"
    BY DEF BrowserInv, BrowserTypes, CallsAreOwn
  <1>2. IF chrome[b].active THEN ~Remains(chrome'[b]) ELSE chrome'[b] = chrome[b]
    BY <1>1, NothingRemains DEF EngineEnds, Cleaned, Active
  <1>3. ~Remains(chrome'[b])
    BY <1>1, <1>2 DEF RemainsAreHeld, Opening
  <1> QED
    BY <1>3 DEF Remains

\* A crash of the process takes the engines with it that were at work, and only those.
LEMMA LostRemain ==
    ASSUME BrowserInv, RemainsAreHeld, ProcessDies
    PROVE  RemainsAreHeld'
  <1>1. \A e \in Engines : eng'[e].block = IF eng[e].block = "unused" THEN eng[e].block ELSE "lost"
    BY DEF BrowserInv, BrowserTypes, EngineState, ProcessDies
  <1>2. chrome' = chrome
    BY DEF ProcessDies
  <1>3. \A e \in Engines : eng[e].block = "unused" => op[e].pc = "none"
    BY DEF BrowserInv, CallsAreOwn
  <1>4. \A e \in Engines : op'[e] = NoOp
    BY DEF ProcessDies
  <1> QED
    BY <1>1, <1>2, <1>3, <1>4 DEF RemainsAreHeld, Opening

\* The steps of open: what it holds is its until it is listed or gone.
LEMMA OpenFollows ==
    ASSUME BrowserInv, NEW e \in Engines, Open(e)
    PROVE  Follows
  <1>1. PICK b \in Browsers, p \in Profiles \cup {Temp} :
            /\ \A c \in Browsers : chrome[c].owner = NoBrowser <=> c >= b
            /\ chrome' = [chrome EXCEPT ![b].owner = e, ![b].profile = p, ![b].dir = p = Temp]
            /\ op' = [op EXCEPT ![e] = [pc |-> "launch", b |-> b]]
    BY DEF Open
  <1>2. eng' = eng /\ eng[e].block = "run" /\ op[e].pc = "none"
    BY DEF Open, InCall
  <1>3. \A c \in Browsers \ {b} : chrome'[c] = chrome[c]
    BY <1>1 DEF BrowserInv, BrowserTypes
  <1>4. chrome'[b].owner = e
    BY <1>1 DEF BrowserInv, BrowserTypes, Chrome
  <1>5. op'[e].b = b /\ op'[e].pc = "launch" /\ \A f \in Engines \ {e} : op'[f] = op[f]
    BY <1>1 DEF BrowserInv, BrowserTypes
  <1> QED
    BY <1>2, <1>3, <1>4, <1>5 DEF Follows, Opening

\* One call of an engine, about one process.
LEMMA CallFollows ==
    ASSUME BrowserInv, NEW e \in Engines, op[e].pc # "none", eng' = eng,
           \A f \in Engines \ {e} : op'[f] = op[f],
           NEW b, b = op[e].b,
           \A c \in Browsers \ {b} : chrome'[c] = chrome[c] \/ ~Remains(chrome'[c]),
           chrome'[b].owner = e,
           \/ ~Remains(chrome'[b])
           \/ op'[e].b = b /\ op'[e].pc \in {"launch", "kill", "relaunch", "connect", "register"}
           \/ chrome'[b].active /\ Remains(chrome[b])
           \/ chrome'[b] = chrome[b] /\ op[e].pc \in {"navigate", "wait"}
    PROVE  Follows
  <1>1. chrome[b].owner = e /\ eng[e].block \in {"run", "stopping"} /\ b \in Browsers
    BY DEF BrowserInv, CallsAreOwn
  <1>2. \A c \in Browsers : Opening(e, c) => c = b
    BY DEF Opening
  <1> QED
    BY <1>1, <1>2 DEF Follows, Opening

\* Each step of a call: it goes on, fails with its process killed, or has listed it.
LEMMA StepsFollow ==
    ASSUME BrowserInv, NEW e \in Engines,
           \/ Launch(e) \/ KillForProfile(e) \/ LaunchFails(e) \/ Connect(e) \/ ConnectFails(e) \/ Register(e)
           \/ Navigate(e) \/ NavigateFails(e) \/ WaitIsOver(e) \/ WaitThrows(e)
    PROVE  Follows
  <1>1. \A c \in Browsers : chrome[c] \in Chrome
    BY DEF BrowserInv, BrowserTypes
  <1>2. op[e].pc # "none"
    BY DEF InCall, Launch, KillForProfile, LaunchFails, Connect, ConnectFails, Register, Navigate, NavigateFails,
       WaitIsOver, WaitThrows
  <1>3. PICK b : b = op[e].b
    OBVIOUS
  <1>4. b \in Browsers /\ chrome[b].owner = e
    BY <1>2, <1>3 DEF BrowserInv, CallsAreOwn
  <1>5. eng' = eng /\ \A f \in Engines \ {e} : op'[f] = op[f]
    BY DEF Launch, KillForProfile, LaunchFails, Connect, ConnectFails, Register, Navigate, NavigateFails,
       WaitIsOver, WaitThrows, To, Return, BrowserInv, BrowserTypes
  <1> DEFINE Rest == \A c \in Browsers \ {b} : chrome'[c] = chrome[c] \/ ~Remains(chrome'[c])
             Own == chrome'[b].owner = e
             Held == op'[e].b = b /\ op'[e].pc \in {"launch", "kill", "relaunch", "connect", "register"}
             Ends == \/ ~Remains(chrome'[b]) \/ Held \/ (chrome'[b].active /\ Remains(chrome[b]))
                     \/ chrome'[b] = chrome[b] /\ op[e].pc \in {"navigate", "wait"}
  <1>6. Rest /\ Own /\ Ends => Follows
    BY <1>2, <1>3, <1>5, CallFollows
  <1>7. ASSUME NEW pc \in {"kill", "relaunch", "connect", "register"}, To(e, pc) PROVE Held
    BY <1>3, <1>7 DEF To, BrowserInv, BrowserTypes, CallState
  <1>8. CASE Launch(e)
    <2>1. Held
      BY <1>7, <1>8 DEF Launch
    <2>2. chrome' = [chrome EXCEPT ![b].st = "up"] \/ chrome' = chrome
      BY <1>3, <1>8 DEF Launch
    <2>3. Rest /\ Own
      BY <1>1, <1>4, <2>2 DEF BrowserInv, BrowserTypes, Chrome
    <2> QED
      BY <1>6, <2>1, <2>3
  <1>9. CASE KillForProfile(e)
    <2>1. Held
      BY <1>7, <1>9 DEF KillForProfile
    <2>2. \A c \in Browsers : chrome'[c] = chrome[c] \/ chrome'[c] = Dead(chrome[c])
      BY <1>9 DEF KillForProfile, DeadIn
    <2>3. chrome'[b] = chrome[b]
      BY <1>3, <1>4, <1>9 DEF KillForProfile, DeadIn, Sharing
    <2>4. Rest /\ Own
      BY <1>1, <1>4, <2>2, <2>3, NothingRemains
    <2> QED
      BY <1>6, <2>1, <2>4
  <1>10. CASE LaunchFails(e) \/ ConnectFails(e)
    <2>1. chrome' = [chrome EXCEPT ![b] = Dead(@)]
      BY <1>3, <1>10 DEF LaunchFails, ConnectFails
    <2>2. chrome'[b] = Dead(chrome[b]) /\ \A c \in Browsers \ {b} : chrome'[c] = chrome[c]
      BY <1>4, <2>1 DEF BrowserInv, BrowserTypes
    <2>3. ~Remains(chrome'[b]) /\ Own
      BY <1>1, <1>4, <2>2, NothingRemains, DeadIsFewer, BrowserAssumption DEF Fewer
    <2> QED
      BY <1>6, <2>2, <2>3
  <1>11. CASE Connect(e)
    <2>1. Held /\ chrome' = chrome
      BY <1>7, <1>11 DEF Connect
    <2> QED
      BY <1>4, <1>6, <2>1
  <1>12. CASE Register(e)
    <2>1. chrome' = [chrome EXCEPT ![b].active = TRUE]
      BY <1>3, <1>12 DEF Register
    <2>2. \A c \in Browsers \ {b} : chrome'[c] = chrome[c]
      BY <1>4, <2>1 DEF BrowserInv, BrowserTypes
    <2>3. /\ chrome'[b].owner = e /\ chrome'[b].active
          /\ chrome'[b].st = chrome[b].st /\ chrome'[b].dir = chrome[b].dir
      BY <1>1, <1>4, <2>1 DEF BrowserInv, BrowserTypes, Chrome
    <2> QED
      BY <1>6, <2>2, <2>3 DEF Remains
  <1>13. CASE Navigate(e)
    <2>1. chrome' = [chrome EXCEPT ![b].page = TRUE] /\ chrome[b].st = "up"
      BY <1>3, <1>13 DEF Navigate
    <2>2. \A c \in Browsers \ {b} : chrome'[c] = chrome[c]
      BY <1>4, <2>1 DEF BrowserInv, BrowserTypes
    <2>3. /\ chrome'[b].owner = e /\ chrome'[b].active = chrome[b].active
          /\ chrome'[b].st = chrome[b].st /\ chrome'[b].dir = chrome[b].dir
      BY <1>1, <1>4, <2>1 DEF BrowserInv, BrowserTypes, Chrome
    <2>4. chrome[b].active
      BY <1>3, <1>4, <1>13, <2>1 DEF BrowserInv, UpIsListed, Navigate, InCall, CallsAreOwn
    <2> QED
      BY <1>6, <2>1, <2>2, <2>3, <2>4 DEF Remains
  <1>14. CASE NavigateFails(e) \/ WaitIsOver(e) \/ WaitThrows(e)
    BY <1>4, <1>6, <1>14 DEF NavigateFails, WaitIsOver, WaitThrows, InCall
  <1> QED
    BY <1>8, <1>9, <1>10, <1>11, <1>12, <1>13, <1>14

\* Scripts close their pages and wait for them; Chrome crashes.
LEMMA PagesFollow ==
    ASSUME BrowserInv, (\E e \in Engines : Close(e) \/ Wait(e)) \/ ChromeCrashes
    PROVE  Follows
  <1>1. \A c \in Browsers : chrome[c] \in Chrome
    BY DEF BrowserInv, BrowserTypes
  <1>2. eng' = eng
    BY DEF Close, Wait, ChromeCrashes
  <1>3. \A e \in Engines : op'[e] = op[e] \/ op[e].pc = "none"
    BY DEF Close, Wait, ChromeCrashes, Page, InCall, BrowserInv, BrowserTypes
  <1> DEFINE Less == \A b \in Browsers : /\ chrome'[b].owner = chrome[b].owner /\ chrome'[b].active = chrome[b].active
                                         /\ Remains(chrome'[b]) => Remains(chrome[b])
  <1>4. Less
    <2>1. ASSUME NEW b \in Browsers, chrome' = [chrome EXCEPT ![b] = Dead(@)] PROVE Less
      <3>1. chrome'[b] = Dead(chrome[b]) /\ \A c \in Browsers \ {b} : chrome'[c] = chrome[c]
        BY <2>1 DEF BrowserInv, BrowserTypes
      <3>2. Dead(chrome[b]).owner = chrome[b].owner /\ Dead(chrome[b]).active = chrome[b].active
        BY <1>1 DEF Dead, Chrome
      <3> QED
        BY <1>1, <3>1, <3>2, NothingRemains
    <2>2. ASSUME NEW b \in Browsers, chrome' = [chrome EXCEPT ![b].st = "dead"] PROVE Less
      BY <1>1, <2>2 DEF BrowserInv, BrowserTypes, Chrome, Remains
    <2>3. CASE chrome' = chrome
      BY <2>3
    <2> QED
      BY <2>1, <2>2, <2>3 DEF Close, Wait, ChromeCrashes
  <1> QED
    BY <1>2, <1>3, <1>4 DEF Follows, Opening

LEMMA RemainsStep ==
    ASSUME BrowserInv, RemainsAreHeld, [Next]_vars
    PROVE  RemainsAreHeld'
  <1>1. CASE UNCHANGED <<eng, op, chrome>>
    BY <1>1 DEF RemainsAreHeld, Opening
  <1>2. CASE UNCHANGED vars \/ (\E e \in Engines : Listen(e) \/ StopListening(e)) \/ PageIsGone
             \/ (\E r \in Requests : OnRequest(r)) \/ OnResponse
    BY <1>1, <1>2 DEF vars, Listen, StopListening, PageIsGone, OnRequest, OnResponse
  <1> QED
    BY <1>2, BlocksFollow, LostRemain, OpenFollows, StepsFollow, PagesFollow, RemainsFollow DEF Next

\* browser.go, cleanup and the failures of open: a cleanup of an engine that comes when no block of
\* it is at work leaves no process and no temporary profile of the engine.
THEOREM IdleEnginesLeaveNothing == Spec => NothingLeft
  <1> DEFINE Inv == BrowserInv /\ RemainsAreHeld
             Clear == \A e \in Engines : EngineEnds(e) /\ eng[e].block = "idle" => \A b \in Browsers :
                         chrome[b].owner = e => chrome'[b].st # "up" /\ ~chrome'[b].dir
  <1>1. Init => Inv
    BY BrowserInit, RemainsStart
  <1>2. Inv /\ [Next]_vars => Inv'
    BY BrowserStep, RemainsStep
  <1>3. Inv => Clear
    BY EndsClear
  <1> QED
    BY <1>1, <1>2, <1>3, PTL DEF Spec, NothingLeft

-----------------------------------------------------------------------------
(* The listener of a page.                                                 *)

\* It has recorded nothing since it was told to stop, or one event, and has stopped.
Listener ==
    /\ net.after \in Nat /\ net.after <= 1 /\ net.done \in BOOLEAN /\ net.live \in BOOLEAN
    /\ net.live \/ ~net.done => net.after = 0
    /\ net \in [page : Browsers \cup {NoBrowser}, done : BOOLEAN, live : BOOLEAN, order : Seq(Requests), events : Nat, after : Nat]

\* Nobody listens yet.
LEMMA NoNetListens ==
    /\ NoNet.after = 0 /\ NoNet.done = FALSE /\ NoNet.live = FALSE
    /\ NoNet \in [page : Browsers \cup {NoBrowser}, done : BOOLEAN, live : BOOLEAN, order : Seq(Requests), events : Nat, after : Nat]
  <1>1. PICK s : s = <<>>
    OBVIOUS
  <1>2. s \in Seq(Requests)
    BY <1>1
  <1>3. NoNet = [page |-> NoBrowser, done |-> FALSE, live |-> FALSE, order |-> s, events |-> 0, after |-> 0]
    BY <1>1 DEF NoNet
  <1> QED
    BY <1>2, <1>3

\* Every step: an event is recorded while nobody has said stop, or is the last.
LEMMA ListenerStep ==
    ASSUME Listener, [Next]_vars
    PROVE  Listener'
  <1>1. CASE net' = net
    BY <1>1 DEF Listener
  <1>2. CASE ProcessDies \/ PageIsGone
    BY <1>2 DEF Listener, ProcessDies, PageIsGone
  <1>3. ASSUME NEW e \in Engines, Listen(e)
        PROVE  Listener'
    <2>1. PICK b \in Browsers : net' = [NoNet EXCEPT !.page = b, !.live = TRUE]
      BY <1>3 DEF Listen
    <2>2. /\ net'.after = 0 /\ net'.done = FALSE /\ net'.live = TRUE
          /\ net' \in [page : Browsers \cup {NoBrowser}, done : BOOLEAN, live : BOOLEAN, order : Seq(Requests), events : Nat, after : Nat]
      BY <2>1, NoNetListens
    <2> QED
      BY <2>2 DEF Listener
  <1>4. ASSUME NEW e \in Engines, StopListening(e)
        PROVE  Listener'
    <2>1. ~net.done /\ net' = [net EXCEPT !.done = TRUE]
      BY <1>4 DEF StopListening
    <2> QED
      BY <2>1 DEF Listener
  <1>5. CASE (\E r \in Requests : OnRequest(r)) \/ OnResponse
    <2>1. PICK n : /\ net.live /\ net' = Recorded(n)
                   /\ n = net \/ \E order \in Seq(Requests) : n = [net EXCEPT !.order = order]
      <3>1. \A r \in Requests : Append(net.order, r) \in Seq(Requests) /\ net.order \in Seq(Requests)
        BY DEF Listener
      <3>2. ASSUME NEW r \in Requests, OnRequest(r)
            PROVE  net.live /\ \E order \in Seq(Requests) : net' = Recorded([net EXCEPT !.order = order])
        BY <3>1, <3>2 DEF OnRequest
      <3>3. CASE OnResponse
        BY <3>3 DEF OnResponse
      <3> QED
        BY <1>5, <3>2, <3>3
    <2>3. /\ n.done = net.done /\ n.after = 0
          /\ n \in [page : Browsers \cup {NoBrowser}, done : BOOLEAN, live : BOOLEAN, order : Seq(Requests), events : Nat, after : Nat]
      BY <2>1 DEF Listener
    <2>4. n.events + 1 \in Nat /\ net' = Recorded(n) /\ net.done \in BOOLEAN
      BY <2>1, <2>3 DEF Listener
    <2>5. PICK l, k : l = (~net.done) /\ k = (IF net.done THEN n.after + 1 ELSE n.after)
      OBVIOUS
    <2>6. net' = [n EXCEPT !.live = l, !.events = n.events + 1, !.after = k]
      BY <2>4, <2>5, Zenon DEF Recorded
    <2>7. CASE net.done
      <3>1. l = FALSE
        BY <2>5, <2>7, Zenon
      <3>2. k = 1
        BY <2>3, <2>5, <2>7
      <3>3. net' = [n EXCEPT !.live = FALSE, !.events = n.events + 1, !.after = 1]
        BY <2>6, <3>1, <3>2
      <3>4. net' \in [page : Browsers \cup {NoBrowser}, done : BOOLEAN, live : BOOLEAN, order : Seq(Requests), events : Nat, after : Nat]
        <4>1. PICK v \in Nat, m \in Nat : v = n.events + 1 /\ m = 1
          BY <2>4
        <4>2. net' = [n EXCEPT !.live = FALSE, !.events = v, !.after = m]
          BY <3>3, <4>1
        <4> QED
          BY <2>3, <4>2
      <3>5. net'.live = FALSE /\ net'.after = 1
        BY <2>3, <3>3
      <3>6. net'.done = n.done
        BY <2>3, <3>3
      <3>7. n.done
        BY <2>3, <2>7, Zenon
      <3> QED
        BY <3>4, <3>5, <3>6, <3>7 DEF Listener
    <2>8. CASE ~net.done
      <3>1. l = TRUE
        BY <2>5, <2>8, Zenon
      <3>2. k = 0
        BY <2>3, <2>5, <2>8
      <3>3. net' = [n EXCEPT !.live = TRUE, !.events = n.events + 1, !.after = 0]
        BY <2>6, <3>1, <3>2
      <3> QED
        BY <2>3, <2>4, <2>8, <3>3 DEF Listener
    <2> QED
      BY <2>7, <2>8
  <1>6. CASE UNCHANGED vars \/ ChromeCrashes
    BY <1>1, <1>6 DEF vars, ChromeCrashes
  <1>7. ASSUME NEW e \in Engines,
               \/ BlockStarts(e) \/ BlockEnds(e) \/ Stop(e) \/ CleanUp(e) \/ EngineEnds(e)
               \/ Open(e) \/ Launch(e) \/ KillForProfile(e) \/ LaunchFails(e)
               \/ Connect(e) \/ ConnectFails(e) \/ Register(e) \/ Navigate(e) \/ NavigateFails(e)
               \/ Wait(e) \/ WaitIsOver(e) \/ WaitThrows(e) \/ Close(e)
        PROVE  Listener'
    BY <1>1, <1>7 DEF BlockStarts, BlockEnds, Stop, CleanUp, EngineEnds, Open, Launch, KillForProfile, LaunchFails,
       Connect, ConnectFails, Register, Navigate, NavigateFails, Wait, WaitIsOver, WaitThrows, Close
  <1> QED
    BY <1>2, <1>3, <1>4, <1>5, <1>6, <1>7 DEF Next

\* browser.go, page.listen: after stop, a listener handles one event at most, as its last.
THEOREM ListenersStop == Spec => []StopsWithinOneEvent
  <1>1. Init => Listener
    <2>1. Init => net = NoNet
      BY DEF Init
    <2> QED
      BY <2>1, NoNetListens DEF Listener
  <1>2. Listener /\ [Next]_vars => Listener'
    BY ListenerStep
  <1>3. Listener => StopsWithinOneEvent
    BY DEF Listener, StopsWithinOneEvent
  <1> QED
    BY <1>1, <1>2, <1>3, PTL DEF Spec

-----------------------------------------------------------------------------
(* The interactive processes: who is told that one exited has read it all. *)

Process == [st : {"none", "open", "dead"}, out : Nat, sent : Nat, read : Nat, done : BOOLEAN, err : BOOLEAN,
            listed : BOOLEAN, told : {"nothing", "exited", "error"}]

\* What is read was sent, and what was sent was written; the goroutine that sends ends without an
\* error when the process is dead and all of it was sent; and only then, with nothing left
\* to read, is anybody told.
Piping(p) ==
    /\ p.read <= p.sent /\ p.sent <= p.out
    /\ p.done /\ ~p.err => p.st = "dead" /\ p.sent = p.out
    /\ p.told = "exited" => p.done /\ ~p.err /\ p.sent = p.read

ProcessInv == proc \in [Handles -> Process] /\ \A h \in Handles : Piping(proc[h])

\* A process that is not there yet, has just begun, or is killed.
LEMMA PipesBegin ==
    /\ NoProc \in Process /\ Piping(NoProc)
    /\ [NoProc EXCEPT !.st = "open", !.listed = TRUE] \in Process
    /\ Piping([NoProc EXCEPT !.st = "open", !.listed = TRUE])
  <1>1. NoProc \in Process
    BY DEF NoProc, Process
  <1>2. Piping(NoProc)
    BY DEF NoProc, Piping
  <1>3. \A p \in Process : [p EXCEPT !.st = "open", !.listed = TRUE] \in Process
    BY DEF Process
  <1>4. \A p \in Process : Piping(p) /\ ~p.done /\ p.told = "nothing" => Piping([p EXCEPT !.st = "open", !.listed = TRUE])
    BY DEF Process, Piping
  <1>5. ~NoProc.done /\ NoProc.told = "nothing"
    BY DEF NoProc
  <1> QED
    BY <1>1, <1>2, <1>3, <1>4, <1>5

LEMMA PipesOfKilled ==
    ASSUME NEW p \in Process, Piping(p)
    PROVE  /\ Kill(p) \in Process /\ Piping(Kill(p))
           /\ [Kill(p) EXCEPT !.listed = FALSE] \in Process /\ Piping([Kill(p) EXCEPT !.listed = FALSE])
  <1>1. CASE p.st = "open"
    BY <1>1 DEF Kill, Process, Piping
  <1>2. CASE p.st # "open"
    BY <1>2 DEF Kill, Process, Piping
  <1> QED
    BY <1>1, <1>2

\* What one process does: it writes and ends, its lines are sent and read.
LEMMA PipesGoOn ==
    ASSUME ProcessInv, NEW h \in Handles,
           WriteLine(h) \/ Exit(h) \/ Terminate(h) \/ Scan(h) \/ ScanEnd(h) \/ ReadLine(h)
    PROVE  \E p \in Process : Piping(p) /\ proc' = [proc EXCEPT ![h] = p]
  <1>1. PICK p \in Process : p = proc[h]
    BY DEF ProcessInv
  <1>2. Piping(p)
    BY <1>1 DEF ProcessInv
  <1>3. CASE WriteLine(h)
    <2>1. [p EXCEPT !.out = @ + 1] \in Process /\ Piping([p EXCEPT !.out = @ + 1])
      BY <1>1, <1>2, <1>3 DEF WriteLine, Process, Piping
    <2> QED
      BY <1>1, <1>3, <2>1 DEF WriteLine, Put
  <1>4. CASE Exit(h) \/ Terminate(h)
    BY <1>1, <1>2, <1>4, PipesOfKilled DEF Exit, Terminate, Put
  <1>5. CASE Scan(h)
    <2>1. CASE proc' = [proc EXCEPT ![h] = [p EXCEPT !.sent = @ + 1]]
      <3>1. [p EXCEPT !.sent = @ + 1] \in Process /\ Piping([p EXCEPT !.sent = @ + 1])
        BY <1>1, <1>2, <1>5 DEF Scan, Process, Piping
      <3> QED
        BY <2>1, <3>1
    <2>2. CASE proc' = [proc EXCEPT ![h] = [p EXCEPT !.done = TRUE, !.err = TRUE]]
      <3>1. /\ [p EXCEPT !.done = TRUE, !.err = TRUE] \in Process
            /\ Piping([p EXCEPT !.done = TRUE, !.err = TRUE])
        BY <1>1, <1>2, <1>5 DEF Scan, Process, Piping
      <3> QED
        BY <2>2, <3>1
    <2> QED
      BY <1>1, <1>5, <2>1, <2>2 DEF Scan, Put
  <1>6. CASE ScanEnd(h)
    <2>1. [p EXCEPT !.done = TRUE] \in Process /\ Piping([p EXCEPT !.done = TRUE])
      BY <1>1, <1>2, <1>6 DEF ScanEnd, Process, Piping
    <2> QED
      BY <1>1, <1>6, <2>1 DEF ScanEnd, Put
  <1>7. CASE ReadLine(h)
    <2>1. CASE p.sent > p.read /\ proc' = [proc EXCEPT ![h] = [p EXCEPT !.read = @ + 1]]
      <3>1. [p EXCEPT !.read = @ + 1] \in Process /\ Piping([p EXCEPT !.read = @ + 1])
        BY <1>2, <2>1 DEF Process, Piping
      <3> QED
        BY <2>1, <3>1
    <2>2. CASE p.done /\ p.sent = p.read
               /\ proc' = [proc EXCEPT ![h] = [p EXCEPT !.told = IF p.err THEN "error" ELSE "exited"]]
      <3>1. /\ [p EXCEPT !.told = IF p.err THEN "error" ELSE "exited"] \in Process
            /\ Piping([p EXCEPT !.told = IF p.err THEN "error" ELSE "exited"])
        BY <1>2, <2>2 DEF Process, Piping
      <3> QED
        BY <2>2, <3>1
    <2> QED
      BY <1>1, <1>7, <2>1, <2>2 DEF ReadLine, Put
  <1> QED
    BY <1>3, <1>4, <1>5, <1>6, <1>7

\* Every step keeps the processes in order.
LEMMA ProcessStep == ProcessInv /\ [ExecutorNext]_executorVars => ProcessInv'
  <1> SUFFICES ASSUME ProcessInv, [ExecutorNext]_executorVars
               PROVE  ProcessInv'
    OBVIOUS
  <1>1. CASE UNCHANGED proc
    BY <1>1 DEF ProcessInv
  <1>2. ASSUME NEW h \in Handles,
               WriteLine(h) \/ Exit(h) \/ Terminate(h) \/ Scan(h) \/ ScanEnd(h) \/ ReadLine(h)
        PROVE  ProcessInv'
    <2>1. PICK p \in Process : Piping(p) /\ proc' = [proc EXCEPT ![h] = p]
      BY <1>2, PipesGoOn
    <2> QED
      BY <2>1 DEF ProcessInv
  <1>3. ASSUME NEW t \in Runners, Popen(t)
        PROVE  ProcessInv'
    <2>1. PICK h \in Handles : proc' = [proc EXCEPT ![h] = [NoProc EXCEPT !.st = "open", !.listed = TRUE]]
      BY <1>3 DEF Popen
    <2> QED
      BY <2>1, PipesBegin DEF ProcessInv
  <1>4. CASE Cleanup
    <2>1. proc' = [h \in Handles |-> [Kill(proc[h]) EXCEPT !.listed = FALSE]]
      BY <1>4 DEF Cleanup
    <2>2. \A h \in Handles : proc[h] \in Process /\ Piping(proc[h])
      BY DEF ProcessInv
    <2>3. \A p \in Process : Piping(p) => /\ [Kill(p) EXCEPT !.listed = FALSE] \in Process
                                          /\ Piping([Kill(p) EXCEPT !.listed = FALSE])
      BY PipesOfKilled
    <2>4. \A h \in Handles : /\ [Kill(proc[h]) EXCEPT !.listed = FALSE] \in Process
                             /\ Piping([Kill(proc[h]) EXCEPT !.listed = FALSE])
      BY <2>2, <2>3
    <2>5. proc' \in [Handles -> Process]
      BY <2>1, <2>4
    <2>6. \A h \in Handles : proc'[h] = [Kill(proc[h]) EXCEPT !.listed = FALSE]
      BY <2>1
    <2> QED
      BY <2>4, <2>5, <2>6 DEF ProcessInv
  <1>5. CASE Down
    BY <1>5, PipesBegin DEF Down, ProcessInv
  <1>6. CASE Start \/ Sweep \/ RelayDies \/ AllowPort
    BY <1>1, <1>6 DEF Start, Sweep, RelayDies, AllowPort
  <1>7. ASSUME NEW c \in Ids, Arrive(c) \/ Watchdog(c) \/ Dies(c)
        PROVE  ProcessInv'
    BY <1>1, <1>7 DEF Arrive, Watchdog, Dies
  <1>8. ASSUME NEW t \in Threads, RelayRun(t)
        PROVE  ProcessInv'
    BY <1>1, <1>8 DEF RelayRun
  <1>9. ASSUME NEW t \in Runners,
               Infra(t) \/ Look(t) \/ Spawned(t) \/ GuardLocal(t) \/ Run(t) \/ Call(t) \/ SetImage(t)
        PROVE  ProcessInv'
    BY <1>1, <1>9 DEF Infra, Look, Spawned, GuardLocal, Run, Call, SetImage
  <1>10. ASSUME NEW t \in Subs,
                Delegate(t) \/ Again(t) \/ EndSub(t) \/ SetSessionImage(t) \/ SessionImageSet(t) \/ StopSession(t)
         PROVE  ProcessInv'
    BY <1>1, <1>10 DEF Delegate, Again, EndSub, SetSessionImage, SessionImageSet, StopSession
  <1> QED
    BY <1>1, <1>2, <1>3, <1>4, <1>5, <1>6, <1>7, <1>8, <1>9, <1>10 DEF ExecutorNext, executorVars, Command, SubAgent

\* readLine says that a process exited only when it has, and every line it wrote was read: whatever
\* its reader, its killer, Cleanup and the goroutine that copies its output do in between.
THEOREM ExitIsSaidLast == ExecutorSpec => []ExitedMeansAllRead
  <1>1. ExecutorInit => ProcessInv
    BY PipesBegin DEF ExecutorInit, ProcessInv
  <1>2. ProcessInv => ExitedMeansAllRead
    BY DEF ProcessInv, Piping, Process, ExitedMeansAllRead
  <1> QED
    BY <1>1, <1>2, ProcessStep, PTL DEF ExecutorSpec

-----------------------------------------------------------------------------
(* Whose containers commands run in, what a sweep leaves, how often a set-up *)
(* is tried.                                                               *)

DockerState == [def : Ids \cup {None}, sess : [Subs -> Ids \cup {None}], hb : BOOLEAN, named : BOOLEAN,
                relay : BOOLEAN, ready : BOOLEAN, err : BOOLEAN, retries : 0..Retries + 1]
ConState == [st : {"asked", "runs", "failed", "gone"}, for : Subs \cup {None}, watch : Watches, early : BOOLEAN]
ThreadState == [pc : Pcs, con : Ids \cup {Host, None}, port : BOOLEAN]

\* Who waits for a docker run waits for a container.
DockerTypes ==
    /\ d \in DockerState /\ con \in [Ids -> ConState] /\ th \in [Threads -> ThreadState]
    /\ \A t \in Threads : th[t].pc \in {"spawn", "imaging"} => th[t].con \in Ids

\* The default was made for nobody, a session's container for it or for nobody, and so with
\* those that a thread holds; a sub-agent uses its session's, and waits for the default only
\* when it has none.
DefaultIsFree == \A c \in Ids : c = d.def => con[c].for = None
SessionsAreOwned == \A c \in Ids, s \in Subs : c = d.sess[s] => con[c].for \in {None, s}
HeldAreOwned ==
    \A c \in Ids, u \in Threads :
       c = th[u].con => con[c].for \in {None, u} /\ (th[u].pc = "spawn" => con[c].for = None)
SessionsAreUsed ==
    \A u \in Subs :
       /\ th[u].pc = "spawn" => d.sess[u] = None
       /\ th[u].pc = "exec" /\ th[u].con \in Ids /\ d.sess[u] # None => th[u].con = d.sess[u]
Owned == DefaultIsFree /\ SessionsAreOwned /\ HeldAreOwned /\ SessionsAreUsed

OwnInv == DockerTypes /\ Owned

\* Containers that go are nobody's.
Gone(cons, new) == new \in [Ids -> ConState] /\ \A c \in Ids : new[c].for \in {cons[c].for, None}

LEMMA NoConIsCon == NoCon \in ConState /\ NoCon.for = None /\ NoCon.early = FALSE /\ NoCon.st = "gone"
  BY DEF NoCon, ConState, Watches

\* docker rm.
LEMMA RemovedGo ==
    ASSUME NEW cons \in [Ids -> ConState], NEW cs
    PROVE  /\ Gone(cons, Removed(cons, cs))
           /\ \A c \in Ids : Removed(cons, cs)[c] = cons[c] \/ Removed(cons, cs)[c] = NoCon
  <1>1. \A c \in Ids : Removed(cons, cs)[c] = IF c \in cs /\ cons[c].st = "runs" THEN NoCon ELSE cons[c]
    BY DEF Removed
  <1>2. Removed(cons, cs) = [c \in Ids |-> IF c \in cs /\ cons[c].st = "runs" THEN NoCon ELSE cons[c]]
    BY DEF Removed
  <1>3. Removed(cons, cs) \in [Ids -> ConState]
    BY <1>2, NoConIsCon
  <1> QED
    BY <1>1, <1>3, NoConIsCon DEF Gone

\* What a thread does next: without a container, or in front of the relay.
LEMMA NotIds == None \notin Ids /\ Host \notin Ids
  BY ExecutorAssumption

LEMMA OffIs == Off \in ThreadState /\ Off.con = None /\ Off.pc = "idle"
  BY DEF Off, ThreadState, Pcs

LEMMA GoIs ==
    ASSUME NEW pc \in Pcs, NEW r, r = [Off EXCEPT !.pc = pc]
    PROVE  r \in ThreadState /\ r.con = None /\ r.pc = pc
  BY DEF Off, ThreadState

LEMMA RelayIs ==
    ASSUME NEW b \in BOOLEAN, NEW r, r = [Off EXCEPT !.pc = "relay", !.port = b]
    PROVE  r \in ThreadState /\ r.con = None /\ r.pc = "relay"
  BY DEF Off, ThreadState, Pcs

\* Containers go, and what the fields name may be forgotten, while nothing else happens.
LEMMA ContainersGo ==
    ASSUME OwnInv, th' = th, Gone(con, con'),
           d' \in DockerState, d'.def \in {d.def, None}, \A s \in Subs : d'.sess[s] \in {d.sess[s], None}
    PROVE  OwnInv'
  <1>1. DockerTypes'
    BY DEF OwnInv, DockerTypes, Gone
  <1>2. DefaultIsFree'
    BY NotIds DEF OwnInv, Owned, Gone, DefaultIsFree
  <1>3. SessionsAreOwned'
    BY NotIds DEF OwnInv, Owned, Gone, SessionsAreOwned
  <1>4. HeldAreOwned'
    BY DEF OwnInv, Owned, Gone, HeldAreOwned
  <1>5. SessionsAreUsed'
    BY DEF OwnInv, Owned, Gone, SessionsAreUsed
  <1> QED
    BY <1>1, <1>2, <1>3, <1>4, <1>5 DEF OwnInv, Owned

\* A thread does something without a container, and the default may be forgotten.
LEMMA ThreadMoves ==
    ASSUME OwnInv, NEW t \in Threads, NEW r \in ThreadState, th' = [th EXCEPT ![t] = r],
           r.con \notin Ids, r.pc \notin {"spawn", "imaging"},
           d' \in DockerState, d'.def \in {d.def, None}, d'.sess = d.sess, Gone(con, con')
    PROVE  OwnInv'
  <1>1. th' \in [Threads -> ThreadState] /\ th'[t] = r /\ \A u \in Threads \ {t} : th'[u] = th[u]
    BY DEF OwnInv, DockerTypes
  <1>2. DockerTypes'
    BY <1>1 DEF OwnInv, DockerTypes, Gone
  <1>3. DefaultIsFree'
    BY NotIds DEF OwnInv, Owned, DefaultIsFree, SessionsAreOwned, HeldAreOwned, SessionsAreUsed, Gone
  <1>4. SessionsAreOwned'
    BY DEF OwnInv, Owned, DefaultIsFree, SessionsAreOwned, HeldAreOwned, SessionsAreUsed, Gone
  <1>5. HeldAreOwned'
    <2> SUFFICES ASSUME NEW c \in Ids, NEW u \in Threads, c = th'[u].con
                 PROVE  con'[c].for \in {None, u} /\ (th'[u].pc = "spawn" => con'[c].for = None)
      BY DEF HeldAreOwned
    <2>1. u # t /\ th'[u] = th[u]
      BY <1>1
    <2> QED
      BY <2>1 DEF OwnInv, Owned, DefaultIsFree, SessionsAreOwned, HeldAreOwned, SessionsAreUsed, Gone
  <1>6. SessionsAreUsed'
    <2> SUFFICES ASSUME NEW u \in Subs
                 PROVE  /\ th'[u].pc = "spawn" => d'.sess[u] = None
                        /\ th'[u].pc = "exec" /\ th'[u].con \in Ids /\ d'.sess[u] # None => th'[u].con = d'.sess[u]
      BY DEF SessionsAreUsed
    <2>1. CASE u = t
      BY <1>1, <2>1
    <2>2. CASE u # t
      <3>1. th'[u] = th[u]
        BY <1>1, <2>2 DEF Threads, Runners
      <3> QED
        BY <3>1 DEF OwnInv, Owned, DefaultIsFree, SessionsAreOwned, HeldAreOwned, SessionsAreUsed
    <2> QED
      BY <2>1, <2>2
  <1>7. Owned'
    BY <1>3, <1>4, <1>5, <1>6 DEF Owned
  <1> QED
    BY <1>2, <1>7 DEF OwnInv

\* The same of Go.
LEMMA ThreadGoes ==
    ASSUME OwnInv, NEW t \in Threads, NEW pc \in Pcs \ {"spawn", "imaging"}, Go(t, pc),
           d' \in DockerState, d'.def \in {d.def, None}, d'.sess = d.sess, Gone(con, con')
    PROVE  OwnInv'
  <1>1. PICK r : r = [Off EXCEPT !.pc = pc]
    OBVIOUS
  <1>2. r \in ThreadState /\ r.con \notin Ids /\ r.pc = pc
    BY <1>1, GoIs, NotIds
  <1>3. th' = [th EXCEPT ![t] = r]
    BY <1>1 DEF Go
  <1> QED
    BY <1>2, <1>3, ThreadMoves

\* docker run: a container of which nobody knows yet.
LEMMA ContainerSpawns ==
    ASSUME OwnInv, NEW t \in Runners, NEW for \in {None, t}, for \in Subs \cup {None}, NEW pc \in {"spawn", "imaging"},
           pc = "spawn" => for = None /\ (t \in Subs => d.sess[t] = None),
           Spawn(t, for, pc), d' = d
    PROVE  OwnInv'
  <1>1. PICK x \in Ids : /\ Free(x) /\ With(t, pc, x)
                         /\ con' = [con EXCEPT ![x] = [NoCon EXCEPT !.st = "asked", !.for = for,
                                                         !.watch = IF d.hb THEN "touched" ELSE "none"]]
    BY DEF Spawn
  <1>2. PICK n : n = [NoCon EXCEPT !.st = "asked", !.for = for, !.watch = IF d.hb THEN "touched" ELSE "none"]
    OBVIOUS
  <1>3. n \in ConState /\ n.for = for
    BY <1>2, NoConIsCon DEF ConState, Watches
  <1>4. con' \in [Ids -> ConState] /\ con'[x] = n /\ \A c \in Ids \ {x} : con'[c] = con[c]
    BY <1>1, <1>2, <1>3 DEF OwnInv, DockerTypes
  <1>5. PICK r : r = [Off EXCEPT !.pc = pc, !.con = x]
    OBVIOUS
  <1>6. r \in ThreadState /\ r.con = x /\ r.pc = pc
    BY <1>5 DEF Off, ThreadState, Pcs
  <1>7. t \in Threads
    BY DEF Threads
  <1>8. th' \in [Threads -> ThreadState] /\ th'[t] = r /\ \A u \in Threads \ {t} : th'[u] = th[u]
    BY <1>1, <1>5, <1>6, <1>7 DEF With, OwnInv, DockerTypes
  <1>9. x # d.def /\ (\A s \in Subs : x # d.sess[s]) /\ (\A u \in Threads : x # th[u].con)
    BY <1>1 DEF Free
  <1>10. DockerTypes'
    BY <1>4, <1>6, <1>8 DEF OwnInv, DockerTypes
  <1>11. DefaultIsFree'
    BY <1>4, <1>9 DEF OwnInv, Owned, DefaultIsFree, SessionsAreOwned, HeldAreOwned, SessionsAreUsed
  <1>12. SessionsAreOwned'
    BY <1>4, <1>9 DEF OwnInv, Owned, DefaultIsFree, SessionsAreOwned, HeldAreOwned, SessionsAreUsed
  <1>13. HeldAreOwned'
    <2> SUFFICES ASSUME NEW c \in Ids, NEW u \in Threads, c = th'[u].con
                 PROVE  con'[c].for \in {None, u} /\ (th'[u].pc = "spawn" => con'[c].for = None)
      BY DEF HeldAreOwned
    <2>1. CASE u = t
      BY <1>3, <1>4, <1>6, <1>8, <2>1
    <2>2. CASE u # t
      <3>1. th'[u] = th[u] /\ c # x /\ con'[c] = con[c]
        BY <1>4, <1>8, <1>9, <2>2
      <3> QED
        BY <3>1 DEF OwnInv, Owned, DefaultIsFree, SessionsAreOwned, HeldAreOwned, SessionsAreUsed
    <2> QED
      BY <2>1, <2>2
  <1>14. SessionsAreUsed'
    <2> SUFFICES ASSUME NEW u \in Subs
                 PROVE  /\ th'[u].pc = "spawn" => d'.sess[u] = None
                        /\ th'[u].pc = "exec" /\ th'[u].con \in Ids /\ d'.sess[u] # None => th'[u].con = d'.sess[u]
      BY DEF SessionsAreUsed
    <2>1. CASE u = t
      BY <1>6, <1>8, <2>1
    <2>2. CASE u # t
      <3>1. th'[u] = th[u]
        BY <1>8, <2>2 DEF Threads, Runners
      <3> QED
        BY <3>1 DEF OwnInv, Owned, DefaultIsFree, SessionsAreOwned, HeldAreOwned, SessionsAreUsed
    <2> QED
      BY <2>1, <2>2
  <1>15. Owned'
    BY <1>11, <1>12, <1>13, <1>14 DEF Owned
  <1> QED
    BY <1>10, <1>15 DEF OwnInv

\* A command that is sent to a container: the session's, or the default.
LEMMA CommandIsSent ==
    ASSUME OwnInv, NEW t \in Runners, NEW x \in Ids, With(t, "exec", x), Gone(con, con'),
           d' \in DockerState, d'.sess = d.sess, d'.def \in {d.def, x}, con'[x].for \in {None, t},
           d'.def = x /\ d.def # x => con'[x].for = None,
           t \in Subs => d.sess[t] \in {None, x}
    PROVE  OwnInv'
  <1>5. PICK r : r = [Off EXCEPT !.pc = "exec", !.con = x]
    OBVIOUS
  <1>6. r \in ThreadState /\ r.con = x /\ r.pc = "exec"
    BY <1>5 DEF Off, ThreadState, Pcs
  <1>7. t \in Threads
    BY DEF Threads
  <1>8. th' \in [Threads -> ThreadState] /\ th'[t] = r /\ \A u \in Threads \ {t} : th'[u] = th[u]
    BY <1>5, <1>6, <1>7 DEF With, OwnInv, DockerTypes
  <1>10. DockerTypes'
    BY <1>6, <1>8 DEF OwnInv, DockerTypes, Gone
  <1>11. DefaultIsFree'
    BY DEF OwnInv, Owned, DefaultIsFree, SessionsAreOwned, HeldAreOwned, SessionsAreUsed, Gone
  <1>12. SessionsAreOwned'
    BY DEF OwnInv, Owned, DefaultIsFree, SessionsAreOwned, HeldAreOwned, SessionsAreUsed, Gone
  <1>13. HeldAreOwned'
    <2> SUFFICES ASSUME NEW c \in Ids, NEW u \in Threads, c = th'[u].con
                 PROVE  con'[c].for \in {None, u} /\ (th'[u].pc = "spawn" => con'[c].for = None)
      BY DEF HeldAreOwned
    <2>1. CASE u = t
      BY <1>6, <1>8, <2>1
    <2>2. CASE u # t
      <3>1. th'[u] = th[u]
        BY <1>8, <2>2
      <3> QED
        BY <3>1 DEF OwnInv, Owned, DefaultIsFree, SessionsAreOwned, HeldAreOwned, SessionsAreUsed, Gone
    <2> QED
      BY <2>1, <2>2
  <1>14. SessionsAreUsed'
    <2> SUFFICES ASSUME NEW u \in Subs
                 PROVE  /\ th'[u].pc = "spawn" => d'.sess[u] = None
                        /\ th'[u].pc = "exec" /\ th'[u].con \in Ids /\ d'.sess[u] # None => th'[u].con = d'.sess[u]
      BY DEF SessionsAreUsed
    <2>1. CASE u = t
      BY <1>6, <1>8, <2>1
    <2>2. CASE u # t
      <3>1. th'[u] = th[u]
        BY <1>8, <2>2 DEF Threads, Runners
      <3> QED
        BY <3>1 DEF OwnInv, Owned, DefaultIsFree, SessionsAreOwned, HeldAreOwned, SessionsAreUsed
    <2> QED
      BY <2>1, <2>2
  <1>15. Owned'
    BY <1>11, <1>12, <1>13, <1>14 DEF Owned
  <1> QED
    BY <1>10, <1>15 DEF OwnInv

\* Each step of the model, by what it does to the containers and their names.
LEMMA Kept ==
    ASSUME OwnInv, d' = d
    PROVE  /\ d' \in DockerState /\ d'.def \in {d.def, None} /\ d'.sess = d.sess
           /\ \A s \in Subs : d'.sess[s] \in {d.sess[s], None}
  BY DEF OwnInv, DockerTypes

\* Containers that stay, and containers that are removed, go.
LEMMA SameCons ==
    ASSUME OwnInv, con' = con
    PROVE  Gone(con, con')
  BY DEF OwnInv, DockerTypes, Gone

LEMMA RmGoes ==
    ASSUME OwnInv, NEW cs, Rm(cs)
    PROVE  Gone(con, con')
  BY RemovedGo DEF OwnInv, DockerTypes, Rm

\* A history of the containers changes.
LEMMA MarksGo ==
    ASSUME OwnInv, NEW b, con' = [c \in Ids |-> [con[c] EXCEPT !.early = (con[c].st = "runs" /\ b)]]
    PROVE  Gone(con, con')
  <1>1. \A c \in Ids : con[c] \in ConState
    BY DEF OwnInv, DockerTypes
  <1> QED
    BY <1>1 DEF Gone, ConState

LEMMA NewDIsD == NewD \in DockerState /\ NewD.def = None /\ \A s \in Subs : NewD.sess[s] = None
  BY ExecutorAssumption DEF NewD, DockerState

LEMMA BasesAre == \A t \in Threads : Base(t) \in Pcs \ {"spawn", "imaging"}
  BY DEF Base, Pcs

\* The process starts, sweeps, cleans up.
LEMMA StartOwns ==
    ASSUME OwnInv, Start
    PROVE  OwnInv'
  <1>1. Gone(con, con')
    <2>1. CASE con' = con
      BY <2>1, SameCons
    <2>2. CASE con' = [c \in Ids |-> [con[c] EXCEPT !.early = (con[c].st = "runs")]]
      <3>1. \A c \in Ids : con[c] \in ConState
        BY DEF OwnInv, DockerTypes
      <3> QED
        BY <2>2, <3>1 DEF Gone, ConState
    <2> QED
      BY <2>1, <2>2 DEF Start
  <1> QED
    BY <1>1, NewDIsD, ContainersGo DEF Start

LEMMA SweepOwns ==
    ASSUME OwnInv, Sweep
    PROVE  OwnInv'
  <1>1. Gone(con, con')
    <2>1. CASE Rm(Running)
      BY <2>1, RmGoes
    <2>2. CASE con' = [c \in Ids |-> [con[c] EXCEPT !.early = FALSE]]
      <3>1. \A c \in Ids : con[c] \in ConState
        BY DEF OwnInv, DockerTypes
      <3> QED
        BY <2>2, <3>1 DEF Gone, ConState
    <2> QED
      BY <2>1, <2>2 DEF Sweep
  <1> QED
    BY <1>1, Kept, ContainersGo DEF Sweep

LEMMA CleanupOwns ==
    ASSUME OwnInv, Cleanup
    PROVE  OwnInv'
  <1>1. CASE kind # "docker"
    <2>1. d' = d /\ con' = con /\ th' = th
      BY <1>1 DEF Cleanup
    <2> QED
      BY <2>1, Kept, SameCons, ContainersGo
  <1>2. CASE kind = "docker"
    <2>1. d' = [d EXCEPT !.def = None, !.sess = [s \in Subs |-> None], !.relay = FALSE, !.hb = FALSE, !.ready = FALSE]
      BY <1>2 DEF Cleanup
    <2>2. d' \in DockerState /\ d'.def = None /\ \A s \in Subs : d'.sess[s] = None
      BY <2>1 DEF OwnInv, DockerTypes, DockerState
    <2>3. PICK mine, cons : /\ con' = Removed(cons, mine)
                            /\ cons = [c \in Ids |-> IF con[c].st = "gone" THEN con[c]
                                         ELSE [con[c] EXCEPT !.watch = Turned(@, "removed"), !.early = (con[c].st = "runs")]]
      BY <1>2 DEF Cleanup
    <2>4. \A c \in Ids : con[c] \in ConState
      BY DEF OwnInv, DockerTypes
    <2>5. cons \in [Ids -> ConState] /\ \A c \in Ids : cons[c].for = con[c].for
      <3> SUFFICES ASSUME NEW c \in Ids
                   PROVE  cons[c] \in ConState /\ cons[c].for = con[c].for
        BY <2>3
      <3>1. con[c] \in ConState
        BY <2>4
      <3>2. PICK w : w = Turned(con[c].watch, "removed")
        OBVIOUS
      <3>3. w \in Watches
        BY <3>1, <3>2 DEF Turned, Watches, ConState
      <3>4. cons[c] = con[c] \/ cons[c] = [con[c] EXCEPT !.watch = w, !.early = (con[c].st = "runs")]
        BY <2>3, <3>2
      <3> QED
        BY <3>1, <3>3, <3>4 DEF ConState
    <2>6. Gone(con, con')
      <3>1. Gone(cons, Removed(cons, mine))
        BY <2>5, RemovedGo
      <3> QED
        BY <2>3, <2>5, <3>1 DEF Gone
    <2>7. th' = th
      BY DEF Cleanup
    <2> QED
      BY <2>2, <2>6, <2>7, ContainersGo
  <1> QED
    BY <1>1, <1>2

\* Nobody holds anything in a new life.
LEMMA DownOwns ==
    ASSUME OwnInv, Down
    PROVE  OwnInv'
  <1>1. \A c \in Ids : con[c] \in ConState
    BY DEF OwnInv, DockerTypes
  <1>2. con' \in [Ids -> ConState]
    BY <1>1, NoConIsCon DEF Down, ConState, Watches, Left, Turned, NoCon
  <1>3. th' \in [Threads -> ThreadState] /\ \A t \in Threads : th'[t].con = None /\ th'[t].pc = "idle"
    BY OffIs DEF Down
  <1>4. d' = NewD
    BY DEF Down
  <1>5. DockerTypes'
    BY <1>2, <1>3, <1>4, NewDIsD DEF DockerTypes
  <1>6. Subs \subseteq Threads
    BY DEF Threads, Runners
  <1>7. DefaultIsFree' /\ SessionsAreOwned' /\ HeldAreOwned' /\ SessionsAreUsed'
    BY <1>3, <1>4, <1>6, NewDIsD, NotIds DEF DefaultIsFree, SessionsAreOwned, HeldAreOwned, SessionsAreUsed
  <1> QED
    BY <1>5, <1>7 DEF OwnInv, Owned

\* The daemon: a run ends, a container dies.
LEMMA DockerOwns ==
    ASSUME OwnInv, NEW c \in Ids, Arrive(c) \/ Watchdog(c) \/ Dies(c)
    PROVE  OwnInv'
  <1>1. d' = d /\ th' = th
    BY DEF Arrive, Watchdog, Dies
  <1>2. Gone(con, con')
    <2>1. CASE Arrive(c)
      <3>1. \A b \in Ids : con[b] \in ConState
        BY DEF OwnInv, DockerTypes
      <3>2. CASE con' = [con EXCEPT ![c].st = "runs"]
        BY <3>1, <3>2 DEF OwnInv, DockerTypes, ConState, Gone
      <3>3. PICK n : n = IF Awaited(c) THEN [NoCon EXCEPT !.st = "failed"] ELSE NoCon
        OBVIOUS
      <3>4. n \in ConState /\ n.for = None
        BY <3>3, NoConIsCon DEF ConState
      <3>5. CASE con' = [con EXCEPT ![c] = n]
        BY <3>1, <3>4, <3>5 DEF OwnInv, DockerTypes, Gone
      <3> QED
        BY <2>1, <3>2, <3>3, <3>5 DEF Arrive
    <2>2. CASE Watchdog(c) \/ Dies(c)
      BY <2>2, RmGoes DEF Watchdog, Dies
    <2> QED
      BY <2>1, <2>2
  <1> QED
    BY <1>1, <1>2, Kept, ContainersGo

\* The set-up: no container changes.
LEMMA RelayStarts ==
    ASSUME OwnInv, NEW t \in Threads, RelayRm(t), d' \in DockerState, d'.def = d.def, d'.sess = d.sess, con' = con
    PROVE  OwnInv'
  <1>1. PICK b \in BOOLEAN : th' = [th EXCEPT ![t] = [Off EXCEPT !.pc = "relay", !.port = b]]
    BY DEF RelayRm
  <1>2. PICK r : r = [Off EXCEPT !.pc = "relay", !.port = b]
    OBVIOUS
  <1>3. r \in ThreadState /\ r.con \notin Ids /\ r.pc = "relay"
    BY <1>2, RelayIs, NotIds
  <1> QED
    BY <1>1, <1>2, <1>3, SameCons, ThreadMoves

\* ensureInfra, startProxyRelay and AllowPort.
LEMMA InfraOwns ==
    ASSUME OwnInv, NEW t \in Runners, Infra(t)
    PROVE  OwnInv'
  <1>1. t \in Threads /\ con' = con /\ Gone(con, con') /\ d \in DockerState
    BY SameCons DEF Threads, Infra, OwnInv, DockerTypes
  <1>2. CASE d' = d /\ Go(t, "look")
    BY <1>1, <1>2, Kept, ThreadGoes DEF Pcs
  <1>3. CASE d' = [d EXCEPT !.retries = Retries + 1] /\ Go(t, Base(t))
    <2>1. d' \in DockerState /\ d'.def = d.def /\ d'.sess = d.sess
      BY <1>1, <1>3, ExecutorAssumption DEF DockerState
    <2> QED
      BY <1>1, <1>3, <2>1, BasesAre, ThreadGoes
  <1>4. ASSUME ~d.ready, d.err => d.retries < Retries, NEW hb \in BOOLEAN, NEW dd,
               dd = [d EXCEPT !.retries = IF d.err THEN @ + 1 ELSE @, !.err = FALSE, !.hb = hb, !.named = TRUE],
               SetUp(t, dd)
        PROVE  OwnInv'
    <2>1. dd \in DockerState /\ dd.def = d.def /\ dd.sess = d.sess
      <3>1. PICK n : n = IF d.err THEN d.retries + 1 ELSE d.retries
        OBVIOUS
      <3>2. n \in 0..Retries + 1
        BY <1>1, <1>4, <3>1, ExecutorAssumption DEF DockerState
      <3>3. dd = [d EXCEPT !.retries = n, !.err = FALSE, !.hb = hb, !.named = TRUE]
        BY <1>4, <3>1
      <3> QED
        BY <1>1, <3>2, <3>3 DEF DockerState
    <2>2. CASE RelayRm(t) /\ d' = dd
      BY <1>1, <2>1, <2>2, RelayStarts
    <2>3. CASE Failed(t, dd)
      <3>1. d' \in DockerState /\ d'.def = d.def /\ d'.sess = d.sess
        BY <2>1, <2>3 DEF Failed, DockerState
      <3> QED
        BY <1>1, <2>3, <3>1, BasesAre, ThreadGoes DEF Failed
    <2> QED
      BY <1>4, <2>2, <2>3 DEF SetUp
  <1>5. \A hb \in {TRUE, d.hb} : hb \in BOOLEAN
    BY <1>1 DEF DockerState
  <1> QED
    BY <1>2, <1>3, <1>4, <1>5 DEF Infra

LEMMA RelayOwns ==
    ASSUME OwnInv, NEW t \in Threads, RelayRun(t)
    PROVE  OwnInv'
  <1>1. con' = con /\ Gone(con, con') /\ d \in DockerState
    BY SameCons DEF RelayRun, OwnInv, DockerTypes
  <1>2. PICK pc \in Pcs \ {"spawn", "imaging"} : Go(t, pc)
    <2>1. "over" \in Pcs \ {"spawn", "imaging"} /\ "look" \in Pcs \ {"spawn", "imaging"}
      BY DEF Pcs
    <2> QED
      BY <2>1, BasesAre DEF RelayRun, Failed
  <1>3. d' \in DockerState /\ d'.def = d.def /\ d'.sess = d.sess
    <2>1. CASE d' = [d EXCEPT !.relay = TRUE, !.ready = (t # Server \/ @)]
      BY <1>1, <2>1 DEF DockerState
    <2>2. ASSUME NEW ran \in BOOLEAN, NEW e, e = [d EXCEPT !.relay = ran \/ @], d' = e \/ d' = [e EXCEPT !.err = TRUE]
          PROVE  d' \in DockerState /\ d'.def = d.def /\ d'.sess = d.sess
      <3>1. e \in DockerState /\ e.def = d.def /\ e.sess = d.sess
        BY <1>1, <2>2 DEF DockerState
      <3> QED
        BY <2>2, <3>1 DEF DockerState
    <2> QED
      BY <2>1, <2>2 DEF RelayRun, Failed
  <1> QED
    BY <1>1, <1>2, <1>3, ThreadGoes

LEMMA PortOwns ==
    ASSUME OwnInv, AllowPort
    PROVE  OwnInv'
  <1>1. Server \in Threads /\ con' = con /\ Gone(con, con') /\ d' = d /\ "over" \in Pcs \ {"spawn", "imaging"}
    BY SameCons DEF Threads, AllowPort, Pcs
  <1>2. CASE RelayRm(Server)
    BY <1>1, <1>2, Kept, RelayStarts
  <1>3. CASE Go(Server, "over")
    BY <1>1, <1>3, Kept, ThreadGoes
  <1> QED
    BY <1>2, <1>3 DEF AllowPort

\* Commands: the session's container, or the default, or a new one.
LEMMA LookOwns ==
    ASSUME OwnInv, NEW t \in Runners, Look(t)
    PROVE  OwnInv'
  <1>1. t \in Threads /\ d' = d
    BY DEF Threads, Look
  <1>2. ASSUME NEW x \in Ids, With(t, "exec", x), con' = con, x = d.def \/ (t \in Subs /\ x = d.sess[t]),
               t \in Subs => d.sess[t] \in {None, x}
        PROVE  OwnInv'
    <2>1. con[x].for \in {None, t}
      BY <1>2 DEF OwnInv, Owned, DefaultIsFree, SessionsAreOwned
    <2>2. Gone(con, con') /\ d' \in DockerState
      BY <1>1, <1>2, SameCons, Kept
    <2> QED
      BY <1>1, <1>2, <2>1, <2>2, CommandIsSent
  <1>3. CASE Session(t) # None
    <2>1. t \in Subs /\ Session(t) = d.sess[t] /\ d.sess[t] \in Ids
      BY <1>3 DEF Session, OwnInv, DockerTypes, DockerState
    <2>2. With(t, "exec", d.sess[t]) /\ con' = con
      BY <1>3, <2>1 DEF Look
    <2> QED
      BY <1>2, <2>1, <2>2
  <1>4. CASE Session(t) = None
    <2>1. t \in Subs => d.sess[t] = None
      BY <1>4 DEF Session
    <2>2. Default(t)
      BY <1>4 DEF Look
    <2>3. CASE d.def = None
      <3>1. Spawn(t, None, "spawn")
        BY <2>2, <2>3 DEF Default
      <3> QED
        BY <1>1, <2>1, <3>1, ContainerSpawns
    <2>4. CASE d.def # None
      <3>1. d.def \in Ids /\ With(t, "exec", d.def) /\ con' = con
        BY <2>2, <2>4 DEF Default, OwnInv, DockerTypes, DockerState
      <3> QED
        BY <1>2, <2>1, <3>1
    <2> QED
      BY <2>3, <2>4
  <1> QED
    BY <1>3, <1>4

\* The run that a thread waited for has ended: there is a default, or an error.
LEMMA RefusedGo ==
    ASSUME OwnInv, NEW t, Refused(t)
    PROVE  Gone(con, con')
  BY NoConIsCon DEF OwnInv, DockerTypes, Refused, Gone

LEMMA SpawnedOwns ==
    ASSUME OwnInv, NEW t \in Runners, Spawned(t)
    PROVE  OwnInv'
  <1>1. t \in Threads /\ Gone(con, con') /\ th[t].pc = "spawn" /\ th[t].con \in Ids /\ d \in DockerState
    BY RefusedGo DEF Threads, Spawned, At, OwnInv, DockerTypes
  <1>2. CASE Go(t, Base(t)) /\ d' = d
    BY <1>1, <1>2, Kept, BasesAre, ThreadGoes
  <1>3. CASE d' = [d EXCEPT !.def = th[t].con] /\ With(t, "exec", th[t].con)
    <2>1. PICK x \in Ids : x = th[t].con
      BY <1>1
    <2>2. con[x].for = None /\ (t \in Subs => d.sess[t] = None)
      BY <1>1, <2>1 DEF OwnInv, Owned, HeldAreOwned, SessionsAreUsed
    <2>3. con'[x].for = None
      BY <1>1, <2>2 DEF Gone
    <2>4. d' \in DockerState /\ d'.sess = d.sess /\ d'.def = x /\ With(t, "exec", x)
      BY <1>1, <1>3, <2>1 DEF DockerState
    <2> QED
      BY <1>1, <2>2, <2>3, <2>4, CommandIsSent
  <1> QED
    BY <1>2, <1>3 DEF Spawned

\* What a thread does elsewhere: the host, the person who is asked, the image.
LEMMA OthersOwn ==
    ASSUME OwnInv, NEW t \in Threads, d' = d, con' = con,
           \/ \E pc \in {"infra", "ask", "image", "agent", "over"} : Go(t, pc)
           \/ Go(t, Base(t))
    PROVE  OwnInv'
  <1>1. PICK pc \in Pcs \ {"spawn", "imaging"} : Go(t, pc)
    BY BasesAre DEF Pcs
  <1> QED
    BY <1>1, SameCons, Kept, ThreadGoes

\* Each step of a command.
LEMMA CommandOwns ==
    ASSUME OwnInv, NEW t \in Runners, Command(t) \/ Call(t) \/ SetImage(t)
    PROVE  OwnInv'
  <1>1. t \in Threads
    BY DEF Threads
  <1>2. CASE Look(t) \/ Spawned(t)
    BY <1>2, LookOwns, SpawnedOwns
  <1>3. CASE GuardLocal(t)
    <2>1. CASE With(t, "exec", Host)
      <3>1. PICK r : r = [Off EXCEPT !.pc = "exec", !.con = Host]
        OBVIOUS
      <3>2. r \in ThreadState /\ r.con \notin Ids /\ r.pc = "exec"
        BY <3>1, NotIds DEF Off, ThreadState, Pcs
      <3>3. th' = [th EXCEPT ![t] = r] /\ d' = d /\ con' = con
        BY <1>3, <2>1, <3>1 DEF With, GuardLocal
      <3> QED
        BY <1>1, <3>2, <3>3, SameCons, Kept, ThreadMoves
    <2>2. CASE Go(t, Base(t))
      BY <1>1, <1>3, <2>2, OthersOwn DEF GuardLocal
    <2> QED
      BY <1>3, <2>1, <2>2 DEF GuardLocal
  <1>4. CASE Run(t) \/ Popen(t)
    BY <1>1, <1>4, OthersOwn DEF Run, Popen
  <1>5. CASE Call(t)
    BY <1>1, <1>5, OthersOwn DEF Call
  <1>6. CASE SetImage(t)
    <2>1. d' = [d EXCEPT !.def = None] /\ th' = th /\ Gone(con, con')
      BY <1>6, RmGoes DEF SetImage
    <2>2. d' \in DockerState /\ d'.def = None /\ d'.sess = d.sess
      BY <2>1 DEF OwnInv, DockerTypes, DockerState
    <2> QED
      BY <2>1, <2>2, ContainersGo
  <1> QED
    BY <1>2, <1>3, <1>4, <1>5, <1>6 DEF Command

\* A sub-agent gets a container of its own, and leaves it.
LEMMA ImageSetOwns ==
    ASSUME OwnInv, NEW t \in Subs, SessionImageSet(t)
    PROVE  OwnInv'
  <1>1. t \in Threads /\ Gone(con, con') /\ th[t].pc = "imaging" /\ th[t].con \in Ids /\ d \in DockerState
    BY RefusedGo DEF Threads, Runners, SessionImageSet, At, OwnInv, DockerTypes
  <1>2. Go(t, "agent") /\ "agent" \in Pcs \ {"spawn", "imaging"}
    BY DEF SessionImageSet, Pcs
  <1>3. CASE d' = d
    BY <1>1, <1>2, <1>3, Kept, ThreadGoes
  <1>4. CASE d' = [d EXCEPT !.sess[t] = th[t].con]
    <2>1. PICK x \in Ids : x = th[t].con
      BY <1>1
    <2>2. /\ d' \in DockerState /\ d'.def = d.def /\ d'.sess[t] = x
          /\ \A s \in Subs \ {t} : d'.sess[s] = d.sess[s]
      BY <1>1, <1>4, <2>1 DEF DockerState
    <2>3. con[x].for \in {None, t}
      BY <1>1, <2>1 DEF OwnInv, Owned, HeldAreOwned
    <2>4. PICK r : r = [Off EXCEPT !.pc = "agent"]
      OBVIOUS
    <2>5. r \in ThreadState /\ r.con = None /\ r.pc = "agent"
      BY <1>2, <2>4, GoIs
    <2>6. th' \in [Threads -> ThreadState] /\ th'[t] = r /\ \A u \in Threads \ {t} : th'[u] = th[u]
      BY <1>1, <1>2, <2>4, <2>5 DEF Go, OwnInv, DockerTypes
    <2>7. DockerTypes'
      BY <1>1, <2>2, <2>5, <2>6 DEF OwnInv, DockerTypes, Gone
    <2>8. DefaultIsFree'
      BY <1>1, <2>2 DEF OwnInv, Owned, Gone, DefaultIsFree
    <2>9. SessionsAreOwned'
      BY <1>1, <2>2, <2>3 DEF OwnInv, Owned, Gone, SessionsAreOwned
    <2>10. HeldAreOwned'
      <3> SUFFICES ASSUME NEW c \in Ids, NEW u \in Threads, c = th'[u].con
                   PROVE  con'[c].for \in {None, u} /\ (th'[u].pc = "spawn" => con'[c].for = None)
        BY DEF HeldAreOwned
      <3>1. u # t /\ th'[u] = th[u]
        BY <2>5, <2>6, NotIds
      <3> QED
        BY <1>1, <3>1 DEF OwnInv, Owned, Gone, HeldAreOwned
    <2>11. SessionsAreUsed'
      <3> SUFFICES ASSUME NEW u \in Subs
                   PROVE  /\ th'[u].pc = "spawn" => d'.sess[u] = None
                          /\ th'[u].pc = "exec" /\ th'[u].con \in Ids /\ d'.sess[u] # None => th'[u].con = d'.sess[u]
        BY DEF SessionsAreUsed
      <3>1. CASE u = t
        BY <2>5, <2>6, <3>1
      <3>2. CASE u # t
        <4>1. th'[u] = th[u] /\ d'.sess[u] = d.sess[u]
          BY <2>2, <2>6, <3>2 DEF Threads, Runners
        <4> QED
          BY <4>1 DEF OwnInv, Owned, SessionsAreUsed
      <3> QED
        BY <3>1, <3>2
    <2> QED
      BY <2>7, <2>8, <2>9, <2>10, <2>11 DEF OwnInv, Owned
  <1> QED
    BY <1>3, <1>4 DEF SessionImageSet

\* CleanupSession: the session forgets its container, its thread goes on holding it.
LEMMA EndOwns ==
    ASSUME OwnInv, NEW t \in Subs, EndSub(t)
    PROVE  OwnInv'
  <1>1. t \in Threads /\ con' = con /\ Gone(con, con') /\ d \in DockerState
    BY SameCons DEF Threads, Runners, EndSub, OwnInv, DockerTypes
  <1>2. /\ d' \in DockerState /\ d'.def = d.def /\ d'.sess[t] = None
        /\ \A s \in Subs \ {t} : d'.sess[s] = d.sess[s]
    BY <1>1 DEF EndSub, DockerState
  <1>3. PICK pc \in {"over", "stop"} : With(t, pc, d.sess[t])
    BY DEF EndSub
  <1>4. PICK x \in Ids \cup {None} : x = d.sess[t]
    BY <1>1 DEF DockerState
  <1>5. PICK r : r = [Off EXCEPT !.pc = pc, !.con = x]
    OBVIOUS
  <1>6. r \in ThreadState /\ r.con = x /\ r.pc = pc
    BY <1>5 DEF Off, ThreadState, Pcs
  <1>7. th' \in [Threads -> ThreadState] /\ th'[t] = r /\ \A u \in Threads \ {t} : th'[u] = th[u]
    BY <1>1, <1>3, <1>4, <1>5, <1>6 DEF With, OwnInv, DockerTypes
  <1>8. DockerTypes'
    BY <1>1, <1>2, <1>6, <1>7 DEF OwnInv, DockerTypes, Gone
  <1>9. DefaultIsFree'
    BY <1>1, <1>2 DEF OwnInv, Owned, Gone, DefaultIsFree
  <1>10. SessionsAreOwned'
    BY <1>1, <1>2, NotIds DEF OwnInv, Owned, Gone, SessionsAreOwned
  <1>11. HeldAreOwned'
    <2> SUFFICES ASSUME NEW c \in Ids, NEW u \in Threads, c = th'[u].con
                 PROVE  con'[c].for \in {None, u} /\ (th'[u].pc = "spawn" => con'[c].for = None)
      BY DEF HeldAreOwned
    <2>1. CASE u = t
      <3>1. c = d.sess[t] /\ th'[u].pc # "spawn"
        BY <1>4, <1>6, <1>7, <2>1
      <3> QED
        BY <1>1, <2>1, <3>1 DEF OwnInv, Owned, SessionsAreOwned
    <2>2. CASE u # t
      <3>1. th'[u] = th[u]
        BY <1>7, <2>2
      <3> QED
        BY <1>1, <3>1 DEF OwnInv, Owned, HeldAreOwned
    <2> QED
      BY <2>1, <2>2
  <1>12. SessionsAreUsed'
    <2> SUFFICES ASSUME NEW u \in Subs
                 PROVE  /\ th'[u].pc = "spawn" => d'.sess[u] = None
                        /\ th'[u].pc = "exec" /\ th'[u].con \in Ids /\ d'.sess[u] # None => th'[u].con = d'.sess[u]
      BY DEF SessionsAreUsed
    <2>1. CASE u = t
      BY <1>2, <1>6, <1>7, <2>1
    <2>2. CASE u # t
      <3>1. th'[u] = th[u] /\ d'.sess[u] = d.sess[u]
        BY <1>2, <1>7, <2>2 DEF Threads, Runners
      <3> QED
        BY <3>1 DEF OwnInv, Owned, SessionsAreUsed
    <2> QED
      BY <2>1, <2>2
  <1> QED
    BY <1>8, <1>9, <1>10, <1>11, <1>12 DEF OwnInv, Owned

LEMMA SubAgentOwns ==
    ASSUME OwnInv, NEW t \in Subs, Delegate(t) \/ Again(t) \/ EndSub(t) \/ SubAgent(t)
    PROVE  OwnInv'
  <1>1. t \in Threads /\ t \in Runners
    BY DEF Threads, Runners
  <1>2. CASE Delegate(t) \/ Again(t)
    BY <1>1, <1>2, OthersOwn DEF Delegate, Again
  <1>3. CASE SetSessionImage(t)
    <2>1. d' = d
      BY <1>3 DEF SetSessionImage
    <2>2. CASE Spawn(t, t, "imaging")
      BY <1>1, <2>1, <2>2, ContainerSpawns
    <2>3. CASE Go(t, "agent") /\ con' = con
      BY <1>1, <2>1, <2>3, OthersOwn
    <2> QED
      BY <1>3, <2>2, <2>3 DEF SetSessionImage
  <1>4. CASE StopSession(t)
    <2>1. d' = d /\ Gone(con, con') /\ Go(t, "over") /\ "over" \in Pcs \ {"spawn", "imaging"}
      BY <1>4, RmGoes DEF StopSession, Pcs
    <2> QED
      BY <1>1, <2>1, Kept, ThreadGoes
  <1> QED
    BY <1>2, <1>3, <1>4, EndOwns, ImageSetOwns DEF SubAgent

\* Every step.
LEMMA OwnStep ==
    ASSUME OwnInv, [ExecutorNext]_executorVars
    PROVE  OwnInv'
  <1>1. CASE UNCHANGED <<d, con, th>>
    BY <1>1, Kept, SameCons, ContainersGo
  <1>2. CASE RelayDies \/ \E h \in Handles : WriteLine(h) \/ Exit(h) \/ Terminate(h) \/ Scan(h) \/ ScanEnd(h) \/ ReadLine(h)
    BY <1>1, <1>2 DEF RelayDies, WriteLine, Exit, Terminate, Scan, ScanEnd, ReadLine, Piped
  <1> QED
    BY <1>1, <1>2, StartOwns, SweepOwns, CleanupOwns, DownOwns, DockerOwns, PortOwns, InfraOwns, RelayOwns,
       CommandOwns, SubAgentOwns DEF ExecutorNext, executorVars

LEMMA OwnStart ==
    ASSUME ExecutorInit
    PROVE  OwnInv
  <1>1. d = NewD /\ con = [c \in Ids |-> NoCon] /\ th = [t \in Threads |-> Off]
    BY DEF ExecutorInit
  <1>2. DockerTypes
    BY <1>1, NewDIsD, NoConIsCon, OffIs DEF DockerTypes
  <1>3. Subs \subseteq Threads
    BY DEF Threads, Runners
  <1>4. DefaultIsFree /\ SessionsAreOwned /\ HeldAreOwned /\ SessionsAreUsed
    BY <1>1, <1>3, NewDIsD, NoConIsCon, OffIs, NotIds DEF DefaultIsFree, SessionsAreOwned, HeldAreOwned, SessionsAreUsed
  <1> QED
    BY <1>2, <1>4 DEF OwnInv, Owned

\* A command runs in its session's container while the session has one, and never in that
\* of another session (docker.go, containerForSession).
THEOREM CommandsStayAtHome == ExecutorSpec => []InOwnContainer
  <1>1. ExecutorInit => OwnInv
    BY OwnStart
  <1>2. OwnInv /\ [ExecutorNext]_executorVars => OwnInv'
    BY OwnStep
  <1>3. OwnInv => InOwnContainer
    BY DEF OwnInv, Owned, HeldAreOwned, SessionsAreUsed, InOwnContainer, Threads
  <1> QED
    BY <1>1, <1>2, <1>3, PTL DEF ExecutorSpec

-----------------------------------------------------------------------------
\* A container is marked by a sweep that is going on, and runs.
Marked == \A c \in Ids : con[c].early => con[c].st = "runs" /\ phase \in {"stale", "clean"}

\* No container is marked, unless it was and runs as it did.
Unmarked == \A c \in Ids : con'[c].early => con[c].early /\ con'[c].st = "runs"

\* What removes containers, begins them or reads that they failed marks none.
LEMMA RmUnmarks ==
    ASSUME OwnInv, Marked, NEW cs, Rm(cs)
    PROVE  Unmarked
  BY RemovedGo, NoConIsCon DEF OwnInv, DockerTypes, Rm, Marked, Unmarked

LEMMA SpawnUnmarks ==
    ASSUME OwnInv, Marked, NEW t, NEW for \in Subs \cup {None}, NEW pc, Spawn(t, for, pc)
    PROVE  Unmarked
  <1>1. PICK x \in Ids : con' = [con EXCEPT ![x] = [NoCon EXCEPT !.st = "asked", !.for = for,
                                                      !.watch = IF d.hb THEN "touched" ELSE "none"]]
    BY DEF Spawn
  <1>2. PICK n : n = [NoCon EXCEPT !.st = "asked", !.for = for, !.watch = IF d.hb THEN "touched" ELSE "none"]
    OBVIOUS
  <1>3. n.early = FALSE
    BY <1>2 DEF NoCon
  <1>4. \A c \in Ids : con'[c] = n \/ con'[c] = con[c]
    BY <1>1, <1>2 DEF OwnInv, DockerTypes
  <1> QED
    BY <1>3, <1>4 DEF Marked, Unmarked

LEMMA RefusedUnmarks ==
    ASSUME OwnInv, Marked, NEW t, Refused(t)
    PROVE  Unmarked
  BY NoConIsCon DEF Marked, Unmarked, Refused

\* A sweep marks what runs when it begins, and when it ends nothing that is marked runs.
LEMMA MarkedStep ==
    ASSUME OwnInv, Marked, [ExecutorNext]_executorVars
    PROVE  Marked'
  <1>1. \A c \in Ids : con[c] \in ConState
    BY DEF OwnInv, DockerTypes
  <1>2. CASE Unmarked /\ phase' = phase
    BY <1>2 DEF Marked, Unmarked
  <1>3. CASE con' = con /\ phase' = phase
    BY <1>3 DEF Marked
  <1>4. CASE Start
    <2>1. CASE phase' = "stale" /\ con' = [c \in Ids |-> [con[c] EXCEPT !.early = (con[c].st = "runs")]]
      BY <1>1, <2>1 DEF Marked, ConState
    <2>2. CASE con' = con /\ phase = "down"
      BY <2>2 DEF Marked
    <2> QED
      BY <1>4, <2>1, <2>2 DEF Start
  <1>5. CASE Sweep
    <2>1. CASE Rm(Running)
      <3>1. \A c \in Ids : con'[c] = NoCon \/ (con'[c] = con[c] /\ con[c].st # "runs")
        BY <2>1 DEF Rm, Removed, Running
      <3> QED
        BY <3>1, NoConIsCon DEF Marked
    <2>2. CASE con' = [c \in Ids |-> [con[c] EXCEPT !.early = FALSE]]
      BY <1>1, <2>2 DEF Marked, ConState
    <2> QED
      BY <1>5, <2>1, <2>2 DEF Sweep
  <1>6. CASE Cleanup
    <2>1. CASE kind # "docker"
      <3>1. con' = con /\ phase = "run"
        BY <1>6, <2>1 DEF Cleanup
      <3> QED
        BY <3>1 DEF Marked
    <2>2. CASE kind = "docker"
      <3>1. PICK mine, cons : /\ con' = Removed(cons, mine)
                              /\ cons = [c \in Ids |-> IF con[c].st = "gone" THEN con[c]
                                           ELSE [con[c] EXCEPT !.watch = Turned(@, "removed"), !.early = (con[c].st = "runs")]]
        BY <1>6, <2>2 DEF Cleanup
      <3>2. phase = "run" /\ phase' = "clean"
        BY <1>6, <2>2 DEF Cleanup
      <3>3. \A c \in Ids : cons[c].early => cons[c].st = "runs"
        BY <1>1, <3>1, <3>2 DEF Marked, ConState
      <3>4. \A c \in Ids : con'[c] = NoCon \/ con'[c] = cons[c]
        BY <3>1 DEF Removed
      <3> QED
        BY <3>2, <3>3, <3>4, NoConIsCon DEF Marked
    <2> QED
      BY <2>1, <2>2
  <1>7. CASE Down
    <2>1. \A c \in Ids : con'[c].early = FALSE
      <3> SUFFICES ASSUME NEW c \in Ids
                   PROVE  con'[c].early = FALSE
        OBVIOUS
      <3>1. CASE con[c].st = "gone"
        <4>1. con'[c] = con[c]
          BY <1>7, <3>1 DEF Down
        <4> QED
          BY <1>1, <3>1, <4>1 DEF Marked, ConState
      <3>2. CASE con[c].st = "failed"
        BY <1>7, <3>2, NoConIsCon DEF Down
      <3>3. CASE con[c].st \notin {"gone", "failed"}
        <4>1. con'[c] = [NoCon EXCEPT !.st = con[c].st, !.watch = Left(con[c].watch)]
          BY <1>7, <3>3 DEF Down
        <4> QED
          BY <4>1 DEF NoCon
      <3> QED
        BY <3>1, <3>2, <3>3
    <2> QED
      BY <2>1 DEF Marked
  <1>8. ASSUME NEW c \in Ids, Arrive(c)
        PROVE  Marked'
    <2>1. phase' = phase
      BY <1>8 DEF Arrive
    <2>2. CASE con' = [con EXCEPT ![c].st = "runs"]
      BY <1>1, <2>1, <2>2 DEF Marked, ConState, OwnInv, DockerTypes
    <2>3. PICK n : n = IF Awaited(c) THEN [NoCon EXCEPT !.st = "failed"] ELSE NoCon
      OBVIOUS
    <2>4. n.early = FALSE
      BY <2>3 DEF NoCon
    <2>5. CASE con' = [con EXCEPT ![c] = n]
      BY <2>1, <2>4, <2>5 DEF Marked, OwnInv, DockerTypes
    <2> QED
      BY <1>8, <2>2, <2>3, <2>5 DEF Arrive
  <1>9. ASSUME NEW c \in Ids, Watchdog(c) \/ Dies(c)
        PROVE  Marked'
    BY <1>2, <1>9, RmUnmarks DEF Watchdog, Dies
  <1>10. ASSUME NEW t \in Runners, Command(t) \/ Call(t) \/ SetImage(t) \/ Infra(t)
         PROVE  Marked'
    <2>1. phase' = phase
      BY <1>10 DEF Command, Look, Spawned, GuardLocal, Run, Popen, Call, SetImage, Infra
    <2>2. CASE Look(t)
      <3>1. con' = con \/ Spawn(t, None, "spawn")
        BY <2>2 DEF Look, Default
      <3> QED
        BY <1>2, <1>3, <2>1, <3>1, SpawnUnmarks
    <2>3. CASE Spawned(t)
      BY <1>2, <2>1, <2>3, RefusedUnmarks DEF Spawned
    <2>4. CASE SetImage(t)
      BY <1>2, <2>1, <2>4, RmUnmarks DEF SetImage
    <2>5. CASE GuardLocal(t) \/ Run(t) \/ Popen(t) \/ Call(t) \/ Infra(t)
      BY <1>3, <2>1, <2>5 DEF GuardLocal, Run, Popen, Call, Infra
    <2> QED
      BY <1>10, <2>2, <2>3, <2>4, <2>5 DEF Command
  <1>11. ASSUME NEW t \in Subs, Delegate(t) \/ Again(t) \/ EndSub(t) \/ SubAgent(t)
         PROVE  Marked'
    <2>1. phase' = phase
      BY <1>11 DEF SubAgent, Delegate, Again, EndSub, SetSessionImage, SessionImageSet, StopSession
    <2>2. CASE SetSessionImage(t)
      <3>1. con' = con \/ Spawn(t, t, "imaging")
        BY <2>2 DEF SetSessionImage
      <3> QED
        BY <1>2, <1>3, <2>1, <3>1, SpawnUnmarks
    <2>3. CASE SessionImageSet(t)
      BY <1>2, <2>1, <2>3, RefusedUnmarks DEF SessionImageSet
    <2>4. CASE StopSession(t)
      BY <1>2, <2>1, <2>4, RmUnmarks DEF StopSession
    <2>5. CASE Delegate(t) \/ Again(t) \/ EndSub(t)
      BY <1>3, <2>1, <2>5 DEF Delegate, Again, EndSub
    <2> QED
      BY <1>11, <2>2, <2>3, <2>4, <2>5 DEF SubAgent
  <1>12. CASE \/ RelayDies \/ AllowPort \/ (\E t \in Threads : RelayRun(t)) \/ UNCHANGED executorVars
              \/ \E h \in Handles : WriteLine(h) \/ Exit(h) \/ Terminate(h) \/ Scan(h) \/ ScanEnd(h) \/ ReadLine(h)
    BY <1>3, <1>12 DEF RelayDies, AllowPort, RelayRun, executorVars,
       WriteLine, Exit, Terminate, Scan, ScanEnd, ReadLine, Piped
  <1> QED
    BY <1>4, <1>5, <1>6, <1>7, <1>8, <1>9, <1>10, <1>11, <1>12 DEF ExecutorNext

\* What ran when NewDocker or Cleanup began does not run when it has ended, be it named by a
\* field or not (docker.go, cleanupStale).
THEOREM SweptContainersAreGone == ExecutorSpec => []SweepsTakeAll
  <1> DEFINE Inv == OwnInv /\ Marked
  <1>1. ExecutorInit => Inv
    BY OwnStart, NoConIsCon DEF ExecutorInit, Marked
  <1>2. Inv /\ [ExecutorNext]_executorVars => Inv'
    BY OwnStep, MarkedStep
  <1>3. Inv => SweepsTakeAll
    BY DEF Marked, SweepsTakeAll, Running
  <1> QED
    BY <1>1, <1>2, <1>3, PTL DEF ExecutorSpec

-----------------------------------------------------------------------------
\* A set-up that failed is paid for with a retry, but for the last; who sets up holds infraMu
\* and has forgotten the last error.
FailuresCount ==
    /\ failures \in Nat
    /\ ~d.err => d.retries <= Retries /\ failures <= d.retries
    /\ d.err => failures <= Retries + 1 /\ (d.retries <= Retries => failures <= d.retries + 1)
OneSetsUp == \A t \in Runners : th[t].pc = "relay" => ~d.err /\ \A u \in Runners \ {t} : th[u].pc # "relay"
Counted == FailuresCount /\ OneSetsUp

\* Nobody begins to set up, and the counts stay.
NoSetUp ==
    /\ failures' = failures /\ d'.err = d.err /\ d'.retries = d.retries
    /\ \A t \in Runners : th'[t].pc = "relay" => th[t].pc = "relay"

LEMMA NoSetUpCounts == Counted /\ NoSetUp => Counted'
  BY DEF Counted, FailuresCount, OneSetsUp, NoSetUp

\* A thread goes on, but not to the relay.
Moves(t, pc) == Go(t, pc) \/ \E x : With(t, pc, x)

LEMMA GoSetsNothing ==
    ASSUME OwnInv, NEW t \in Threads, NEW pc \in Pcs \ {"relay"}, Moves(t, pc)
    PROVE  /\ \A u \in Runners : th'[u].pc = "relay" => th[u].pc = "relay"
           /\ t \in Runners => th'[t].pc # "relay"
           /\ \A u \in Runners \ {t} : th'[u] = th[u]
  <1>1. PICK r : th' = [th EXCEPT ![t] = r] /\ (r = [Off EXCEPT !.pc = pc] \/ \E x : r = [Off EXCEPT !.pc = pc, !.con = x])
    BY DEF Moves, Go, With
  <1>2. r.pc = pc
    BY <1>1 DEF Off
  <1>3. t \in Runners => th'[t] = r
    BY <1>1 DEF OwnInv, DockerTypes
  <1>4. \A u \in Runners \ {t} : th'[u] = th[u]
    BY <1>1 DEF OwnInv, DockerTypes, Threads
  <1> QED
    BY <1>2, <1>3, <1>4

\* A set-up is one thread's.
LEMMA RelaySets ==
    ASSUME OwnInv, NEW t \in Threads, RelayRm(t)
    PROVE  \A u \in Runners \ {t} : th'[u] = th[u]
  BY DEF RelayRm, OwnInv, DockerTypes, Threads

LEMMA BaseIsFree == \A t \in Threads : Base(t) \in Pcs \ {"relay"}
  BY DEF Base, Pcs

\* A set-up fails: the retry was counted when it began.
LEMMA FailureCounts ==
    ASSUME OwnInv, NEW t \in Runners, NEW dd, Failed(t, dd), dd.retries \in Nat, dd.retries <= Retries,
           failures \in Nat, failures <= dd.retries, d' = [dd EXCEPT !.err = TRUE], d'.retries = dd.retries, d'.err = TRUE,
           \A u \in Runners \ {t} : th[u].pc # "relay"
    PROVE  Counted'
  <1>1. t \in Threads
    BY DEF Threads
  <1>2. failures' = failures + 1 /\ Go(t, Base(t))
    BY DEF Failed
  <1>3. \A u \in Runners : th'[u].pc # "relay"
    BY <1>1, <1>2, BaseIsFree, GoSetsNothing DEF Moves
  <1> QED
    BY <1>2, <1>3, ExecutorAssumption DEF Counted, FailuresCount, OneSetsUp

\* ensureInfra: what it begins it has counted, if it is a retry.
LEMMA InfraCounts ==
    ASSUME OwnInv, Counted, NEW t \in Runners, Infra(t)
    PROVE  Counted'
  <1>1. t \in Threads /\ d \in DockerState /\ \A u \in Runners : th[u].pc # "relay"
    BY DEF Threads, OwnInv, DockerTypes, Infra, InfraFree
  <1>2. CASE d' = d /\ Go(t, "look") /\ failures' = failures
    <2>1. NoSetUp
      BY <1>1, <1>2, GoSetsNothing DEF Moves, NoSetUp, Pcs
    <2> QED
      BY <2>1, NoSetUpCounts
  <1>3. CASE d.err /\ d' = [d EXCEPT !.retries = Retries + 1] /\ Go(t, Base(t)) /\ failures' = failures
    <2>1. \A u \in Runners : th'[u].pc # "relay"
      BY <1>1, <1>3, BaseIsFree, GoSetsNothing DEF Moves
    <2>2. d'.err = d.err /\ d'.retries = Retries + 1
      BY <1>1, <1>3 DEF DockerState
    <2> QED
      BY <1>3, <2>1, <2>2, ExecutorAssumption DEF Counted, FailuresCount, OneSetsUp
  <1>4. ASSUME d.err => d.retries < Retries, NEW hb \in BOOLEAN, NEW dd,
               dd = [d EXCEPT !.retries = IF d.err THEN @ + 1 ELSE @, !.err = FALSE, !.hb = hb, !.named = TRUE],
               SetUp(t, dd)
        PROVE  Counted'
    <2>1. PICK n : n = IF d.err THEN d.retries + 1 ELSE d.retries
      OBVIOUS
    <2>2. n \in Nat /\ n <= Retries /\ failures \in Nat /\ failures <= n
      BY <1>1, <1>4, <2>1, ExecutorAssumption DEF DockerState, Counted, FailuresCount
    <2>3. dd = [d EXCEPT !.retries = n, !.err = FALSE, !.hb = hb, !.named = TRUE]
      BY <1>4, <2>1
    <2>4. dd \in DockerState /\ dd.retries = n /\ dd.err = FALSE
      <3>1. n \in 0..Retries + 1
        BY <2>2, ExecutorAssumption
      <3> QED
        BY <1>1, <2>3, <3>1 DEF DockerState
    <2>5. CASE RelayRm(t) /\ d' = dd /\ failures' = failures
      <3>1. \A u \in Runners \ {t} : th'[u].pc # "relay"
        BY <1>1, <2>5, RelaySets
      <3> QED
        BY <2>2, <2>4, <2>5, <3>1 DEF Counted, FailuresCount, OneSetsUp
    <2>6. CASE Failed(t, dd)
      <3>1. d' = [dd EXCEPT !.err = TRUE] /\ d'.retries = dd.retries /\ d'.err = TRUE
        BY <2>4, <2>6 DEF Failed, DockerState
      <3> QED
        BY <1>1, <2>2, <2>4, <2>6, <3>1, FailureCounts
    <2> QED
      BY <1>4, <2>5, <2>6 DEF SetUp
  <1>5. \A hb \in {TRUE, d.hb} : hb \in BOOLEAN
    BY <1>1 DEF DockerState
  <1> QED
    BY <1>2, <1>3, <1>4, <1>5 DEF Infra

\* The relay comes up, or the set-up fails.
LEMMA RelayCounts ==
    ASSUME OwnInv, Counted, NEW t \in Threads, RelayRun(t)
    PROVE  Counted'
  <1>1. d \in DockerState /\ th[t].pc = "relay"
    BY DEF OwnInv, DockerTypes, RelayRun, At
  <1>2. CASE d' = [d EXCEPT !.relay = TRUE, !.ready = (t # Server \/ @)] /\ failures' = failures
             /\ Go(t, IF t = Server THEN "over" ELSE "look")
    <2>1. PICK pc \in Pcs \ {"relay"} : Go(t, pc)
      BY <1>2 DEF Pcs
    <2>2. d'.err = d.err /\ d'.retries = d.retries
      BY <1>1, <1>2 DEF DockerState
    <2>3. NoSetUp
      BY <1>2, <2>1, <2>2, GoSetsNothing DEF Moves, NoSetUp
    <2> QED
      BY <2>3, NoSetUpCounts
  <1>3. ASSUME NEW ran \in BOOLEAN, NEW e, e = [d EXCEPT !.relay = ran \/ @],
               IF t = Server THEN d' = e /\ Go(t, "over") /\ failures' = failures ELSE Failed(t, e)
        PROVE  Counted'
    <2>1. e \in DockerState /\ e.err = d.err /\ e.retries = d.retries
      BY <1>1, <1>3 DEF DockerState
    <2>2. CASE t = Server
      <3>1. NoSetUp
        BY <1>3, <2>1, <2>2, GoSetsNothing DEF Moves, NoSetUp, Pcs
      <3> QED
        BY <3>1, NoSetUpCounts
    <2>3. CASE t # Server
      <3>1. t \in Runners /\ Failed(t, e)
        BY <1>3, <2>3 DEF Threads
      <3>2. ~d.err /\ \A u \in Runners \ {t} : th[u].pc # "relay"
        BY <1>1, <3>1 DEF Counted, OneSetsUp
      <3>3. e.retries \in Nat /\ e.retries <= Retries /\ failures \in Nat /\ failures <= e.retries
        BY <1>1, <2>1, <3>2, ExecutorAssumption DEF DockerState, Counted, FailuresCount
      <3>4. d' = [e EXCEPT !.err = TRUE] /\ d'.retries = e.retries /\ d'.err = TRUE
        BY <2>1, <3>1 DEF Failed, DockerState
      <3> QED
        BY <3>1, <3>2, <3>3, <3>4, FailureCounts
    <2> QED
      BY <2>2, <2>3
  <1> QED
    BY <1>2, <1>3 DEF RelayRun

\* What begins no set-up.
LEMMA CommandCounts ==
    ASSUME OwnInv, Counted, NEW t \in Runners, Command(t) \/ Call(t) \/ SetImage(t)
    PROVE  Counted'
  <1>1. t \in Threads /\ d \in DockerState
    BY DEF Threads, OwnInv, DockerTypes
  <1>2. CASE SetImage(t)
    <2>1. failures' = failures /\ d'.err = d.err /\ d'.retries = d.retries /\ th' = th
      BY <1>1, <1>2 DEF SetImage, DockerState
    <2> QED
      BY <2>1, NoSetUpCounts DEF NoSetUp
  <1>3. CASE Command(t) \/ Call(t)
    <2>1. PICK pc \in Pcs \ {"relay"} : Moves(t, pc)
      <3>1. {"infra", "ask", "exec", "spawn"} \subseteq Pcs \ {"relay"} /\ Base(t) \in Pcs \ {"relay"}
        BY <1>1, BaseIsFree DEF Pcs
      <3>2. CASE Look(t)
        BY <3>1, <3>2 DEF Moves, Look, Default, Spawn
      <3>3. CASE Call(t)
        BY <3>1, <3>3 DEF Moves, Call
      <3>4. CASE Spawned(t)
        BY <3>1, <3>4 DEF Moves, Spawned
      <3>5. CASE GuardLocal(t) \/ Run(t) \/ Popen(t)
        BY <3>1, <3>5 DEF Moves, GuardLocal, Run, Popen
      <3> QED
        BY <1>3, <3>2, <3>3, <3>4, <3>5 DEF Command
    <2>2. failures' = failures /\ (d' = d \/ d' = [d EXCEPT !.def = th[t].con])
      BY <1>3 DEF Command, Call, Look, Spawned, GuardLocal, Run, Popen
    <2>3. d'.err = d.err /\ d'.retries = d.retries
      BY <1>1, <2>2 DEF DockerState
    <2>4. NoSetUp
      BY <1>1, <2>1, <2>2, <2>3, GoSetsNothing DEF Moves, NoSetUp
    <2> QED
      BY <2>4, NoSetUpCounts
  <1> QED
    BY <1>2, <1>3

LEMMA SubAgentCounts ==
    ASSUME OwnInv, Counted, NEW t \in Subs, Delegate(t) \/ Again(t) \/ EndSub(t) \/ SubAgent(t)
    PROVE  Counted'
  <1>1. t \in Threads /\ d \in DockerState
    BY DEF Threads, Runners, OwnInv, DockerTypes
  <1>2. {"image", "agent", "over", "stop", "imaging"} \subseteq Pcs \ {"relay"}
    BY DEF Pcs
  <1>3. PICK pc \in Pcs \ {"relay"} : Moves(t, pc)
    BY <1>2 DEF Moves, Delegate, Again, EndSub, SubAgent, SetSessionImage, Spawn, SessionImageSet, StopSession
  <1>4. failures' = failures /\ (d' = d \/ \E s : d' = [d EXCEPT !.sess = s])
    <2>1. CASE EndSub(t)
      BY <1>1, <2>1 DEF EndSub, DockerState
    <2>2. CASE SessionImageSet(t)
      BY <1>1, <2>2 DEF SessionImageSet, DockerState
    <2>3. CASE Delegate(t) \/ Again(t) \/ SetSessionImage(t) \/ StopSession(t)
      BY <2>3 DEF Delegate, Again, SetSessionImage, StopSession
    <2> QED
      BY <2>1, <2>2, <2>3 DEF SubAgent
  <1>5. d'.err = d.err /\ d'.retries = d.retries
    BY <1>1, <1>4 DEF DockerState
  <1>6. NoSetUp
    BY <1>1, <1>3, <1>4, <1>5, GoSetsNothing DEF Moves, NoSetUp
  <1> QED
    BY <1>6, NoSetUpCounts

LEMMA NewDCounts == NewD.err = FALSE /\ NewD.retries = 0
  BY DEF NewD

\* Every step.
LEMMA CountedStep ==
    ASSUME OwnInv, Counted, [ExecutorNext]_executorVars
    PROVE  Counted'
  <1>1. d \in DockerState
    BY DEF OwnInv, DockerTypes
  <1>2. CASE NoSetUp
    BY <1>2, NoSetUpCounts
  <1>3. CASE d' = d /\ th' = th /\ failures' = failures
    BY <1>2, <1>3 DEF NoSetUp
  <1>4. CASE Start
    BY <1>4, ExecutorAssumption DEF Start, NewD, Counted, FailuresCount, OneSetsUp
  <1>5. CASE Cleanup
    <2>1. d'.err = d.err /\ d'.retries = d.retries /\ th' = th /\ failures' = failures
      BY <1>1, <1>5 DEF Cleanup, DockerState
    <2> QED
      BY <1>2, <2>1 DEF NoSetUp
  <1>6. CASE Down
    <2>1. \A t \in Runners : th'[t].pc = "idle"
      BY <1>6, OffIs DEF Down, Threads
    <2>2. d' = NewD /\ failures' = 0
      BY <1>6 DEF Down
    <2> QED
      BY <2>1, <2>2, NewDCounts, ExecutorAssumption DEF Counted, FailuresCount, OneSetsUp
  <1>7. CASE AllowPort
    <2>1. failures' = failures /\ d' = d /\ Server \in Threads /\ Server \notin Runners
      BY <1>7, ExecutorAssumption DEF AllowPort, Threads
    <2>2. \A u \in Runners : th'[u] = th[u]
      BY <1>7, <2>1, RelaySets, GoSetsNothing DEF Moves, AllowPort, Pcs
    <2> QED
      BY <1>2, <2>1, <2>2 DEF NoSetUp
  <1>8. CASE Sweep \/ RelayDies \/ (\E c \in Ids : Arrive(c) \/ Watchdog(c) \/ Dies(c)) \/ UNCHANGED executorVars
             \/ \E h \in Handles : WriteLine(h) \/ Exit(h) \/ Terminate(h) \/ Scan(h) \/ ScanEnd(h) \/ ReadLine(h)
    BY <1>3, <1>8 DEF Sweep, RelayDies, Arrive, Watchdog, Dies, executorVars,
       WriteLine, Exit, Terminate, Scan, ScanEnd, ReadLine, Piped
  <1> QED
    BY <1>4, <1>5, <1>6, <1>7, <1>8, InfraCounts, RelayCounts, CommandCounts, SubAgentCounts DEF ExecutorNext

\* No more set-ups fail in one life than the retries allow (docker.go, ensureInfra).
THEOREM SetupsEnd == ExecutorSpec => []SetupsAreBounded
  <1> DEFINE Inv == OwnInv /\ Counted
  <1>1. ExecutorInit => Inv
    <2>1. SUFFICES ASSUME ExecutorInit PROVE Counted
      BY OwnStart
    <2>2. \A t \in Runners : th[t].pc = "idle"
      BY <2>1, OffIs DEF ExecutorInit, Threads
    <2> QED
      BY <2>1, <2>2, ExecutorAssumption DEF ExecutorInit, NewD, Counted, FailuresCount, OneSetsUp
  <1>2. Inv /\ [ExecutorNext]_executorVars => Inv'
    BY OwnStep, CountedStep
  <1>3. Inv => SetupsAreBounded
    BY ExecutorAssumption DEF OwnInv, DockerTypes, DockerState, Counted, FailuresCount, SetupsAreBounded
  <1> QED
    BY <1>1, <1>2, <1>3, PTL DEF ExecutorSpec
=============================================================================
