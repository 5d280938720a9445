------------------------------ MODULE Browser ------------------------------
(***************************************************************************)
(* The browser bridge (internal/bridge/browser.go): the Chrome processes a *)
(* script's engine opens, with a temporary profile or one that it keeps,   *)
(* the proxy they go through, the cleanup that Run calls when a block's    *)
(* deadline fires or its context is cancelled, and Cleanup when the engine *)
(* is done, the pages' operations and the listener of a page's requests.   *)
(*                                                                         *)
(* An engine outlives its blocks, and its deadline's timer may call the    *)
(* cleanup late: stopping a timer does not wait for it.  A call into       *)
(* Chrome cannot be interrupted: it ends when Chrome answers or is gone.   *)
(* Chrome is not tied to the process (Leakless(false)) and is external.    *)
(***************************************************************************)
EXTENDS Naturals, Sequences, FiniteSets

CONSTANTS
    Engines,
    Browsers,    \* processes that may be started, each once: numbers, in that order
    Temp,        \* a profile in a temporary directory of its own
    Profiles,    \* directories of the workspace given as dataPath
    Requests,    \* ids of the requests that pages make
    NoBrowser,
    MaxBrowsers, \* maxBrowsers: 3 in the code
    MaxBlocks,   \* bound: blocks in all
    MaxFaults,   \* bound: failures of Chrome and crashes of the process
    MaxEvents    \* bound: events a listener is sent

ASSUME BrowserAssumption ==
    /\ Browsers \subseteq Nat /\ NoBrowser \notin Browsers \cup Engines /\ Temp \notin Profiles
    /\ MaxBrowsers \in Nat \ {0} /\ MaxBlocks \in Nat /\ MaxFaults \in Nat /\ MaxEvents \in Nat

VARIABLES
    eng,     \* each engine: its block, its proxy, its timer's late cleanup
    op,      \* the native call its block is in
    chrome,  \* each process
    net,     \* the listener of a page
    faults, blocks \* what the bounds count

vars == <<eng, op, chrome, net, faults, blocks>>

Unused == [block |-> "unused", proxy |-> TRUE, late |-> FALSE]
NoOp == [pc |-> "none", b |-> NoBrowser]
NoChrome == [st |-> "none", owner |-> NoBrowser, profile |-> Temp, dir |-> FALSE,
             active |-> FALSE, page |-> FALSE]
NoNet == [page |-> NoBrowser, done |-> FALSE, live |-> FALSE, order |-> <<>>, events |-> 0, after |-> 0]

TypeOK ==
    /\ eng \in [Engines -> [block : {"unused", "idle", "run", "stopping", "lost"},
                            proxy : BOOLEAN, late : BOOLEAN]]
    /\ op \in [Engines -> [pc : {"none", "launch", "kill", "relaunch", "connect", "register",
                                 "navigate", "wait"},
                           b : Browsers \cup {NoBrowser}]]
    /\ chrome \in [Browsers -> [st : {"none", "up", "dead"}, owner : Engines \cup {NoBrowser},
                                profile : Profiles \cup {Temp}, dir : BOOLEAN,
                                active : BOOLEAN, page : BOOLEAN]]
    /\ net \in [page : Browsers \cup {NoBrowser}, done : BOOLEAN, live : BOOLEAN,
                order : Seq(Requests), events : 0..MaxEvents, after : 0..MaxEvents]
    /\ faults \in 0..MaxFaults /\ blocks \in 0..MaxBlocks

Init ==
    /\ eng = [e \in Engines |-> Unused] /\ op = [e \in Engines |-> NoOp]
    /\ chrome = [b \in Browsers |-> NoChrome] /\ net = NoNet /\ faults = 0 /\ blocks = 0

Fault == faults < MaxFaults /\ faults' = faults + 1

Active(e) == {b \in Browsers : chrome[b].owner = e /\ chrome[b].active}
Sharing(b) == {c \in Browsers \ {b} : chrome[c].st = "up" /\ chrome[b].profile # Temp
                                      /\ chrome[c].profile = chrome[b].profile}

\* Kill, or Cleanup of a launcher whose directory is temporary.
Dead(r) == [r EXCEPT !.st = "dead", !.dir = FALSE]
DeadIn(S, r, b) == IF b \in S THEN Dead(r) ELSE r
----------------------------------------------------------------------------
(* Blocks, and what ends them.                                             *)

\* RegisterBrowser starts the proxy when the engine is made.  Nothing keeps a turn
\* from running blocks with an engine that was cleaned up.
BlockStarts(e) ==
    /\ eng[e].block \in {"unused", "idle"} /\ blocks < MaxBlocks /\ blocks' = blocks + 1
    /\ eng' = [eng EXCEPT ![e].block = "run"]
    /\ UNCHANGED <<op, chrome, net, faults>>

\* The VM unwinds between two calls: the block is done or was interrupted.
BlockEnds(e) ==
    /\ eng[e].block \in {"run", "stopping"} /\ op[e].pc = "none"
    /\ eng' = [eng EXCEPT ![e].block = "idle"]
    /\ UNCHANGED <<op, chrome, net, faults, blocks>>

\* Stop or the deadline: the VM is interrupted, the browsers are closed next.
Stop(e) ==
    /\ eng[e].block = "run" /\ ~eng[e].late
    /\ eng' = [eng EXCEPT ![e].block = "stopping", ![e].late = TRUE]
    /\ UNCHANGED <<op, chrome, net, faults, blocks>>

\* What the cleanup does: all browsers it knows, and the proxy for good.
Cleaned(e) == chrome' = [b \in Browsers |->
                            IF b \in Active(e) THEN [Dead(chrome[b]) EXCEPT !.active = FALSE]
                            ELSE chrome[b]]

CleanUp(e) ==
    /\ eng[e].late /\ eng[e].block # "lost"
    /\ Cleaned(e)
    /\ eng' = [eng EXCEPT ![e].late = FALSE, ![e].proxy = FALSE]
    /\ UNCHANGED <<op, net, faults, blocks>>

\* Engine.Cleanup, by whoever made the engine: also while a block of it runs, which
\* nothing interrupts, as when the parent of a task or the terminal replaces it.
EngineEnds(e) ==
    /\ eng[e].block \notin {"unused", "lost"}
    /\ Cleaned(e)
    /\ eng' = [eng EXCEPT ![e].proxy = FALSE]
    /\ UNCHANGED <<op, net, faults, blocks>>

\* The process dies; Chrome does not.
ProcessDies ==
    /\ Fault
    /\ eng' = [e \in Engines |-> IF eng[e].block = "unused" THEN eng[e]
                                 ELSE [eng[e] EXCEPT !.block = "lost", !.late = FALSE]]
    /\ op' = [e \in Engines |-> NoOp]
    /\ net' = [net EXCEPT !.live = FALSE]
    /\ UNCHANGED <<chrome, blocks>>
----------------------------------------------------------------------------
(* browser.open.                                                           *)

InCall(e, pc) == op[e].pc = pc
To(e, pc) == op' = [op EXCEPT ![e].pc = pc]
Return(e) == op' = [op EXCEPT ![e] = NoOp]

\* The limit is read, the profile made, a kept one's locks are taken away.
Open(e) ==
    /\ eng[e].block = "run" /\ InCall(e, "none")
    /\ Cardinality(Active(e)) < MaxBrowsers
    /\ \E b \in Browsers, p \in Profiles \cup {Temp} :
          /\ \A c \in Browsers : chrome[c].owner = NoBrowser <=> c >= b
          /\ chrome' = [chrome EXCEPT ![b].owner = e, ![b].profile = p, ![b].dir = p = Temp]
          /\ op' = [op EXCEPT ![e] = [pc |-> "launch", b |-> b]]
    /\ UNCHANGED <<eng, net, faults, blocks>>

\* While another Chrome has the profile, this one starts beside it (its lock
\* is gone) or says so; then it is killed and the start tried again.
Launch(e) ==
    LET b == op[e].b IN
    /\ InCall(e, "launch") \/ InCall(e, "relaunch")
    /\ \/ chrome' = [chrome EXCEPT ![b].st = "up"] /\ To(e, "connect")
       \/ InCall(e, "launch") /\ Sharing(b) # {} /\ To(e, "kill") /\ UNCHANGED chrome
    /\ UNCHANGED <<eng, net, faults, blocks>>

KillForProfile(e) ==
    /\ InCall(e, "kill") /\ To(e, "relaunch")
    /\ chrome' = [c \in Browsers |-> DeadIn(Sharing(op[e].b), chrome[c], c)]
    /\ UNCHANGED <<eng, net, faults, blocks>>

\* No browser: a temporary profile is removed.
LaunchFails(e) ==
    /\ InCall(e, "launch") \/ InCall(e, "relaunch")
    /\ Fault /\ chrome' = [chrome EXCEPT ![op[e].b] = Dead(@)] /\ Return(e)
    /\ UNCHANGED <<eng, net, blocks>>

Connect(e) ==
    /\ InCall(e, "connect") /\ chrome[op[e].b].st = "up" /\ To(e, "register")
    /\ UNCHANGED <<eng, chrome, net, faults, blocks>>

ConnectFails(e) ==
    /\ InCall(e, "connect")
    /\ IF chrome[op[e].b].st = "up" THEN Fault ELSE UNCHANGED faults
    /\ chrome' = [chrome EXCEPT ![op[e].b] = Dead(@)] /\ Return(e)
    /\ UNCHANGED <<eng, net, blocks>>

RegisterPages(e) ==
    /\ InCall(e, "register") /\ To(e, "navigate")
    /\ chrome' = [chrome EXCEPT ![op[e].b].active = chrome[op[e].b].profile = Temp]
    /\ UNCHANGED <<eng, net, faults, blocks>>

Register(e) ==
    /\ InCall(e, "register") /\ To(e, "navigate")
    /\ chrome' = [chrome EXCEPT ![op[e].b].active = TRUE]
    /\ UNCHANGED <<eng, net, faults, blocks>>

\* The page, its first URL through the proxy, and the wait, which is timed.
Navigate(e) ==
    /\ InCall(e, "navigate") /\ chrome[op[e].b].st = "up" /\ eng[e].proxy
    /\ chrome' = [chrome EXCEPT ![op[e].b].page = TRUE] /\ Return(e)
    /\ UNCHANGED <<eng, net, faults, blocks>>

NavigateFailsUnlisted(e) ==
    /\ InCall(e, "navigate")
    /\ IF chrome[op[e].b].st = "up" /\ eng[e].proxy THEN Fault ELSE UNCHANGED faults
    /\ Return(e) /\ chrome' = [chrome EXCEPT ![op[e].b].active = FALSE]
    /\ UNCHANGED <<eng, net, blocks>>
\* Otherwise it throws: the browser stays, and nobody has a page to close.
NavigateFails(e) ==
    /\ InCall(e, "navigate")
    /\ IF chrome[op[e].b].st = "up" /\ eng[e].proxy THEN Fault ELSE UNCHANGED faults
    /\ Return(e)
    /\ UNCHANGED <<eng, chrome, net, blocks>>

----------------------------------------------------------------------------
(* Pages.                                                                  *)

Page(e, b) == eng[e].block = "run" /\ InCall(e, "none") /\ chrome[b].owner = e /\ chrome[b].page

\* page.navigate, back, forward and click have no time limit of their own.
Wait(e) ==
    /\ \E b \in Browsers : Page(e, b) /\ op' = [op EXCEPT ![e] = [pc |-> "wait", b |-> b]]
    /\ UNCHANGED <<eng, chrome, net, faults, blocks>>

WaitIsOver(e) ==
    /\ InCall(e, "wait") /\ chrome[op[e].b].st = "up" /\ Return(e)
    /\ UNCHANGED <<eng, chrome, net, faults, blocks>>

WaitThrows(e) ==
    /\ InCall(e, "wait") /\ chrome[op[e].b].st = "dead" /\ Return(e)
    /\ UNCHANGED <<eng, chrome, net, faults, blocks>>

\* page.close: the process and a temporary profile go, the place in
\* activeBrowsers stays taken.
Close(e) ==
    /\ \E b \in Browsers : Page(e, b) /\ chrome' = [chrome EXCEPT ![b] = Dead(@)]
    /\ UNCHANGED <<eng, op, net, faults, blocks>>

ChromeCrashes ==
    /\ Fault
    /\ \E b \in Browsers :
          chrome[b].st = "up" /\ chrome' = [chrome EXCEPT ![b].st = "dead"]
    /\ UNCHANGED <<eng, op, net, blocks>>
----------------------------------------------------------------------------
(* page.listen: a goroutine that gets the page's events until it is told   *)
(* to stop, which it looks for after it has handled one.                   *)

Listen(e) ==
    /\ ~net.live /\ net.page = NoBrowser
    /\ \E b \in Browsers : Page(e, b) /\ chrome[b].st = "up"
                           /\ net' = [NoNet EXCEPT !.page = b, !.live = TRUE]
    /\ UNCHANGED <<eng, op, chrome, faults, blocks>>

\* Taken off the page's events once the handler has seen stop.
Recorded(n) == [n EXCEPT !.live = ~net.done, !.events = @ + 1,
                         !.after = IF net.done THEN @ + 1 ELSE @]

\* One that the filter does not take is not recorded; a redirect is announced
\* again, under the id its request has.
OnRequest(r) ==
    /\ net.live /\ chrome[net.page].st = "up" /\ net.events < MaxEvents
    /\ \E order \in {net.order, Append(net.order, r)} : net' = Recorded([net EXCEPT !.order = order])
    /\ UNCHANGED <<eng, op, chrome, faults, blocks>>

\* It completes what is recorded of its request, if anything is.
OnResponse ==
    /\ net.live /\ chrome[net.page].st = "up" /\ net.events < MaxEvents
    /\ net' = Recorded(net)
    /\ UNCHANGED <<eng, op, chrome, faults, blocks>>

\* handle.stop: closes done and returns what is recorded.
StopListening(e) ==
    /\ net.page # NoBrowser /\ ~net.done /\ Page(e, net.page)
    /\ net' = [net EXCEPT !.done = TRUE]
    /\ UNCHANGED <<eng, op, chrome, faults, blocks>>

\* The events end with the page's connection.
PageIsGone ==
    /\ net.live /\ chrome[net.page].st = "dead" /\ net' = [net EXCEPT !.live = FALSE]
    /\ UNCHANGED <<eng, op, chrome, faults, blocks>>

Next ==
    \/ \E e \in Engines :
          \/ BlockStarts(e) \/ BlockEnds(e) \/ Stop(e) \/ CleanUp(e) \/ EngineEnds(e)
          \/ Open(e) \/ Launch(e) \/ KillForProfile(e) \/ LaunchFails(e)
          \/ Connect(e) \/ ConnectFails(e) \/ Register(e) \/ Navigate(e) \/ NavigateFails(e)
          \/ Wait(e) \/ WaitIsOver(e) \/ WaitThrows(e) \/ Close(e)
          \/ Listen(e) \/ StopListening(e)
    \/ \E r \in Requests : OnRequest(r)
    \/ OnResponse \/ PageIsGone \/ ChromeCrashes \/ ProcessDies

Spec == Init /\ [][Next]_vars

\* The steps of open are timed or answered, an interrupted VM unwinds when
\* its call returns, the cleanup of a stop runs; that Chrome answers a call
\* on a page, or a script ends, is not assumed.
Fairness ==
    \A e \in Engines :
       /\ WF_vars(CleanUp(e)) /\ WF_vars(eng[e].block = "stopping" /\ BlockEnds(e))
       /\ WF_vars(Launch(e) \/ LaunchFails(e) \/ KillForProfile(e) \/ Connect(e)
                  \/ ConnectFails(e) \/ Register(e) \/ Navigate(e) \/ NavigateFails(e))
       /\ WF_vars(WaitThrows(e))
FairSpec == Spec /\ Fairness
----------------------------------------------------------------------------
(* Properties.                                                             *)

(* Whatever fails in open, and whenever the cleanup of a stop comes, every *)
(* Chrome of a living engine is on its list or in the hands of its open:   *)
(* a later cleanup finds it.                                               *)
NoneIsForgotten ==
    \A b \in Browsers :
       LET e == chrome[b].owner IN
       chrome[b].st = "up" /\ eng[e].block # "lost" => chrome[b].active \/ op[e].b = b

(* The cleanup of an engine that comes when no block of it is at work      *)
(* leaves no process and no temporary profile of it, whatever failed in    *)
(* its opens and whenever the cleanups of its stops came.                  *)
NothingLeft ==
    [][\A e \in Engines : EngineEnds(e) /\ eng[e].block = "idle" => \A b \in Browsers :
           chrome[b].owner = e => chrome'[b].st # "up" /\ ~chrome'[b].dir]_vars

(* A block that is stopped while it waits for a page ends, because the     *)
(* stop closes the browser it waits for.                                   *)
StoppedEnds == \A e \in Engines : eng[e].block = "stopping" ~> eng[e].block # "stopping"

(* After stop, a listener handles one event at most, and only as its last. *)
StopsWithinOneEvent == net.after <= 1
----------------------------------------------------------------------------
(* What comments promise and the code does not always keep.                *)

(* "Cleanup releases engine-level resources." (engine.go:817): not those   *)
(* of a block that is in open, which registers its Chrome after that.      *)
CleanupReleases ==
    [][\A e \in Engines : EngineEnds(e) => \A b \in Browsers :
           chrome[b].owner = e => chrome'[b].st # "up"]_vars

(* The cleanup "must be called when the engine shuts down" (browser.go:190) *)
(* and closes the proxy for good: it is called at every stop, and a later  *)
(* block of the engine opens no page any more.                             *)
OpensAfterStop == \A e \in Engines : eng[e].block = "run" => eng[e].proxy

(* "close existing pages first" (browser.go:242): that frees no place.     *)
ClosingFreesPlaces ==
    \A e \in Engines : (\A b \in Active(e) : chrome[b].st = "dead")
                          => Cardinality(Active(e)) < MaxBrowsers

(* Browsers that open failed to show are open too, and nobody can close    *)
(* them (browser.go:242).                                                  *)
ListedHavePages ==
    \A b \in Browsers : LET e == chrome[b].owner IN
       chrome[b].active /\ chrome[b].st = "up" => chrome[b].page \/ op[e].b = b

(* "concurrent agents never collide on the same profile lock"              *)
(* (browser.go:187), but with a dataPath.                                  *)
OneChromePerProfile == \A b \in Browsers : chrome[b].st = "up" => Sharing(b) = {}

(* "We have our own cleanup" (browser.go:327): not of a process that dies. *)
NoOrphans == \A b \in Browsers : chrome[b].st = "up" => eng[chrome[b].owner].block # "lost"

(* The deadline of a block closes the browsers of that block: its timer    *)
(* may be late (engine.go:774).                                            *)
CleansOwnBlock == \A e \in Engines : eng[e].late => eng[e].block = "stopping"

(* requests() lists requests in insertion order (browser.go:1138): one     *)
(* that was redirected is listed as often as it was.                       *)
ListedOnce == \A i, j \in DOMAIN net.order : net.order[i] = net.order[j] => i = j

(* A temporary profile is removed with its browser (browser.go:896), but   *)
(* stays until a cleanup when Chrome crashes.                              *)
DirsFollow == \A b \in Browsers : chrome[b].dir => chrome[b].st # "dead"

=============================================================================
