------------------------------ MODULE Executor ------------------------------
(***************************************************************************)
(* The execution backends (internal/executor, bridge/sys.go): the Docker   *)
(* executor with its containers, its network, its proxy relay and the      *)
(* heartbeat its containers watch; the local executor, which runs on the   *)
(* host; the interactive processes of sys.popen, which both have in the    *)
(* same words; and the process that shares one executor between all its    *)
(* turns, sub-agents and scripts, cleans it up, crashes and starts again.  *)
(*                                                                         *)
(* Docker.mu guards the default container and the sessions, but the        *)
(* default is also read without it; infraMu guards the set-up, but not     *)
(* AllowPort, which restarts the relay.  A step is what happens under a    *)
(* lock or one call of the docker CLI.                                     *)
(***************************************************************************)
EXTENDS Naturals, FiniteSets

CONSTANTS
    Mains,    \* turns and scripts that run commands without a session
    Subs,     \* sub-agents: each is its own session
    Server,   \* the goroutine of the web server, which allows its port
    Ids,      \* bound: containers at a time, 1, 2, ...
    Host, None,
    Handles,  \* bound: interactive processes
    MaxLines, \* bound: lines an interactive process writes
    Cap,      \* the lines channel: 64 in the code
    Retries   \* set-ups that may be retried: 3 in the code

Runners == Mains \cup Subs
Threads == Runners \cup {Server}

ASSUME ExecutorAssumption ==
    /\ Server \notin Runners /\ Mains \cap Subs = {} /\ {Host, None} \cap Ids = {}
    /\ Host # None /\ Ids \subseteq Nat
    /\ MaxLines \in Nat /\ Cap \in Nat \ {0} /\ Retries \in Nat

VARIABLES
    phase,    \* the process: "down", "stale" in NewDocker, "run", "clean"
              \* at the end of Cleanup, "cleaned"
    kind,     \* AppConfig.Executor: "docker" or "local"
    d,        \* the fields of Docker
    con,      \* docker: the containers
    relay,    \* docker: the container named <prefix>-relay: "gone", "runs", or
              \* "open" when it lets the server's port through
    netUp,    \* docker: the network exists
    th,       \* what each thread is doing
    proc,     \* the interactive processes and their pipes
    failures  \* history: set-ups that failed in this life

executorVars == <<phase, kind, d, con, relay, netUp, th, proc, failures>>

\* The fields of Docker.  hb: heartbeatDir is set; named: networkName is; relay:
\* proxyRelay is.
NewD == [def |-> None, sess |-> [s \in Subs |-> None], hb |-> FALSE, named |-> FALSE,
         relay |-> FALSE, ready |-> FALSE, err |-> FALSE, retries |-> 0]
\* A container.  watch: the heartbeat directory mounted in it is the one touched
\* now, left by a process that ended, or removed; "none" and "never": there was
\* none, in this life or in one before; early, a history: it ran when the last
\* sweep began.
NoCon == [st |-> "gone", for |-> None, watch |-> "none", early |-> FALSE]
Off == [pc |-> "idle", con |-> None, port |-> FALSE]
NoProc == [st |-> "none", out |-> 0, sent |-> 0, read |-> 0,
           done |-> FALSE, err |-> FALSE, listed |-> FALSE, told |-> "nothing"]

Watches == {"none", "never", "touched", "left", "removed"}
Pcs == {"idle", "agent", "image", "imaging", "ask", "infra", "relay", "look", "spawn", "exec",
        "stop", "over"}

ExecutorTypeOK ==
    /\ phase \in {"down", "stale", "run", "clean", "cleaned"}
    /\ kind \in {"docker", "local"} /\ netUp \in BOOLEAN
    /\ d \in [def : Ids \cup {None}, sess : [Subs -> Ids \cup {None}], hb : BOOLEAN,
              named : BOOLEAN, relay : BOOLEAN, ready : BOOLEAN, err : BOOLEAN,
              retries : 0..Retries + 1]
    /\ con \in [Ids -> [st : {"asked", "runs", "failed", "gone"}, for : Subs \cup {None},
                        watch : Watches, early : BOOLEAN]]
    /\ relay \in {"gone", "runs", "open"}
    /\ th \in [Threads -> [pc : Pcs, con : Ids \cup {Host, None}, port : BOOLEAN]]
    /\ proc \in [Handles -> [st : {"none", "open", "dead"}, out : 0..MaxLines, sent : 0..MaxLines, read : 0..MaxLines,
                             done : BOOLEAN, err : BOOLEAN, listed : BOOLEAN,
                             told : {"nothing", "exited", "error"}]]
    /\ failures \in Nat

ExecutorInit ==
    /\ phase = "down" /\ kind \in {"docker", "local"} /\ d = NewD
    /\ con = [c \in Ids |-> NoCon] /\ relay = "gone" /\ netUp = FALSE
    /\ th = [t \in Threads |-> Off] /\ proc = [h \in Handles |-> NoProc]
    /\ failures = 0

Up == phase # "down"
Serving == phase \in {"run", "clean", "cleaned"}
At(t, pc) == Serving /\ th[t].pc = pc
Go(t, pc) == th' = [th EXCEPT ![t] = [Off EXCEPT !.pc = pc]]
With(t, pc, c) == th' = [th EXCEPT ![t] = [Off EXCEPT !.pc = pc, !.con = c]]
Base(t) == IF t \in Subs THEN "agent" ELSE IF t = Server THEN "over" ELSE "idle"
\* Bound: what a thread begins, it begins before Cleanup.
Begins(t) == phase = "run" /\ th[t].pc = Base(t)
Running == {c \in Ids : con[c].st = "runs"}
\* docker rm -f of some containers; the commands in them see their pipes close.
Removed(cons, cs) == [c \in Ids |-> IF c \in cs /\ cons[c].st = "runs" THEN NoCon ELSE cons[c]]
Rm(cs) == con' = Removed(con, cs)
\* The heartbeat directory changes under the containers that have it mounted.
Turned(w, to) == IF w = "touched" THEN to ELSE w
Left(w) == IF w = "none" THEN "never" ELSE Turned(w, "left")

-----------------------------------------------------------------------------
(* The process.                                                            *)

\* buildExecutor; NewDocker goes on to clean up what an earlier life left.
Start ==
    /\ phase = "down"
    /\ \/ kind = "docker" /\ phase' = "stale"
          /\ con' = [c \in Ids |-> [con[c] EXCEPT !.early = (con[c].st = "runs")]]
       \/ kind = "local" /\ phase' = "run" /\ UNCHANGED con
    /\ d' = NewD /\ failures' = 0
    /\ UNCHANGED <<kind, relay, netUp, th, proc>>

\* cleanupStale: docker ps by prefix, then docker rm of each.  Nothing is done
\* when ps fails.
Swept == phase' = (IF phase = "stale" THEN "run" ELSE "cleaned")
Sweep ==
    /\ phase \in {"stale", "clean"} /\ Swept
    /\ \/ Rm(Running) /\ relay' = "gone"
       \/ con' = [c \in Ids |-> [con[c] EXCEPT !.early = FALSE]] /\ UNCHANGED relay
    /\ UNCHANGED <<kind, d, netUp, th, proc, failures>>

Kill(p) == IF p.st = "open" THEN [p EXCEPT !.st = "dead"] ELSE p

\* Cleanup up to the last cleanupStale, which Docker does under mu.
Cleanup ==
    /\ phase = "run"
    /\ phase' = (IF kind = "docker" THEN "clean" ELSE "cleaned")
    /\ proc' = [h \in Handles |-> [Kill(proc[h]) EXCEPT !.listed = FALSE]]
    /\ IF kind = "docker"
       THEN LET mine == ({d.def} \cup {d.sess[s] : s \in Subs}) \cap Ids
            IN /\ con' = Removed([c \in Ids |->
                     IF con[c].st = "gone" THEN con[c] ELSE [con[c] EXCEPT !.watch = Turned(@, "removed"),
                                    !.early = (con[c].st = "runs")]], mine)
               /\ relay' = IF d.relay THEN "gone" ELSE relay
               /\ netUp' = (netUp /\ (~d.named \/ Running \ mine # {}))
               /\ d' = [d EXCEPT !.def = None, !.sess = [s \in Subs |-> None],
                                 !.relay = FALSE, !.hb = FALSE, !.ready = FALSE]
       ELSE UNCHANGED <<d, con, relay, netUp>>
    /\ UNCHANGED <<kind, th, failures>>

\* The process ends, after Cleanup or without it, and nobody touches its
\* heartbeat again.  A docker run it had begun goes on in the daemon.
Down ==
    /\ Up /\ phase' = "down"
    /\ d' = NewD /\ th' = [t \in Threads |-> Off]
    /\ proc' = [h \in Handles |-> NoProc]
    /\ con' = [c \in Ids |-> IF con[c].st = "failed" THEN NoCon
                 ELSE IF con[c].st = "gone" THEN con[c]
                 ELSE [NoCon EXCEPT !.st = con[c].st, !.watch = Left(con[c].watch)]]
    /\ failures' = 0
    /\ UNCHANGED <<kind, relay, netUp>>

-----------------------------------------------------------------------------
(* Docker: what the daemon and the containers do.                          *)

\* A docker run comes to its end.
Awaited(c) == \E t \in Threads : th[t].pc \in {"spawn", "imaging"} /\ th[t].con = c
Arrive(c) ==
    /\ con[c].st = "asked"
    /\ \/ netUp /\ con' = [con EXCEPT ![c].st = "runs"]
       \/ con' = [con EXCEPT ![c] = IF Awaited(c) THEN [NoCon EXCEPT !.st = "failed"]
                                                  ELSE NoCon]
    /\ UNCHANGED <<phase, kind, d, relay, netUp, th, proc, failures>>

\* The loop a container runs: the heartbeat file is missing, or nobody has
\* touched it for containerIdleTimeout.
WatchdogMissing(c) ==
    /\ con[c].st = "runs" /\ con[c].watch = "removed" /\ Rm({c})
    /\ UNCHANGED <<phase, kind, d, relay, netUp, th, proc, failures>>
Watchdog(c) ==
    /\ con[c].st = "runs" /\ con[c].watch \in {"removed", "left"} /\ Rm({c})
    /\ UNCHANGED <<phase, kind, d, relay, netUp, th, proc, failures>>
RelayDies ==
    /\ relay # "gone" /\ relay' = "gone"
    /\ UNCHANGED <<phase, kind, d, con, netUp, th, proc, failures>>

\* A container dies otherwise; none is restarted.
Dies(c) ==
    /\ con[c].st = "runs" /\ Rm({c})
    /\ UNCHANGED <<phase, kind, d, relay, netUp, th, proc, failures>>

\* spawnContainer: docker run with what the fields hold now.  An identifier is
\* used again when nothing names it.
Free(c) ==
    /\ con[c].st = "gone" /\ c # d.def /\ \A s \in Subs : c # d.sess[s]
    /\ \A t \in Threads : c # th[t].con
Spawn(t, for, pc) ==
    \E c \in Ids :
        /\ Free(c) /\ \A b \in Ids : Free(b) => c <= b
        /\ con' = [con EXCEPT ![c] =
               [NoCon EXCEPT !.st = "asked", !.for = for,
                             !.watch = IF d.hb THEN "touched" ELSE "none"]]
        /\ With(t, pc, c)

-----------------------------------------------------------------------------
(* ensureInfra.                                                            *)

InfraFree == \A t \in Runners : th[t].pc # "relay"
Failed(t, dd) == d' = [dd EXCEPT !.err = TRUE] /\ failures' = failures + 1 /\ Go(t, Base(t))

\* setupNetwork: network rm, which containers on it prevent, and create.
Attached == Running # {} \/ relay # "gone"
\* startProxyRelay begins: the old relay is removed, the ports are copied.
RelayRm(t) ==
    /\ relay' = "gone"
    /\ th' = [th EXCEPT ![t] = [Off EXCEPT !.pc = "relay",
                                !.port = (t = Server \/ th[Server].pc # "idle")]]
SetUp(t, dd) ==
    \/ ~Attached /\ netUp' = TRUE /\ RelayRm(t) /\ d' = dd /\ UNCHANGED failures
    \/ netUp' = (netUp /\ Attached) /\ Failed(t, dd) /\ UNCHANGED relay

\* A retry that is not counted.
\* Under infraMu: it is ready, or given up, or set up by this thread.  The
\* heartbeat directory is made first, if it can be.
Infra(t) ==
    /\ At(t, "infra") /\ InfraFree
    /\ \/ d.ready /\ Go(t, "look") /\ UNCHANGED <<d, netUp, relay, failures>>
       \/ /\ ~d.ready /\ d.err /\ d.retries >= Retries
          /\ d' = [d EXCEPT !.retries = Retries + 1] /\ Go(t, Base(t))
          /\ UNCHANGED <<netUp, relay, failures>>
       \/ /\ ~d.ready /\ (d.err => d.retries < Retries)
          /\ \E hb \in {TRUE, d.hb} :
               SetUp(t, [d EXCEPT !.retries = IF d.err THEN @ + 1 ELSE @, !.err = FALSE,
                                  !.hb = hb, !.named = TRUE])
    /\ UNCHANGED <<phase, kind, con, proc>>

\* The rest of startProxyRelay: docker run, whose name may be taken, network
\* connect and the address.  If it fails, ensureInfra removes the network, and
\* AllowPort only logs it.
RelayRun(t) ==
    /\ At(t, "relay")
    /\ \/ /\ relay = "gone" /\ netUp
          /\ relay' = IF th[t].port THEN "open" ELSE "runs"
          /\ d' = [d EXCEPT !.relay = TRUE, !.ready = (t # Server \/ @)]
          /\ Go(t, IF t = Server THEN "over" ELSE "look")
          /\ UNCHANGED <<netUp, failures>>
       \/ \E ran \in BOOLEAN :
            /\ relay' = IF ran THEN "gone" ELSE relay
            /\ IF t = Server
               THEN d' = [d EXCEPT !.relay = ran \/ @] /\ Go(t, "over") /\ UNCHANGED <<netUp, failures>>
               ELSE netUp' = (netUp /\ Running # {}) /\ Failed(t, [d EXCEPT !.relay = ran \/ @])
    /\ UNCHANGED <<phase, kind, con, proc>>

\* AllowPort: the relay is restarted if one has been started, without infraMu.
AllowPort ==
    /\ At(Server, "idle") /\ kind = "docker"
    /\ IF d.relay THEN RelayRm(Server) ELSE Go(Server, "over") /\ UNCHANGED relay
    /\ UNCHANGED <<phase, kind, d, con, netUp, proc, failures>>

-----------------------------------------------------------------------------
(* Commands.                                                               *)

\* sys.call, spawn, popen or info.
Call(t) ==
    /\ t \in Runners /\ Begins(t)
    /\ Go(t, IF kind = "docker" THEN "infra" ELSE "ask")
    /\ UNCHANGED <<phase, kind, d, con, relay, netUp, proc, failures>>
\* On the host a person decides, or the white list does.
GuardLocal(t) ==
    /\ At(t, "ask") /\ (With(t, "exec", Host) \/ Go(t, Base(t)))
    /\ UNCHANGED <<phase, kind, d, con, relay, netUp, proc, failures>>

\* containerForSession: the session's own container, or the default's.
Session(t) == IF t \in Subs THEN d.sess[t] ELSE None
\* The default is read without mu, and may have been cleared or replaced by the
\* time it is used: docker exec fails then.
Default(t) == IF d.def = None THEN Spawn(t, None, "spawn")
                              ELSE With(t, "exec", d.def) /\ UNCHANGED con
Look(t) ==
    /\ At(t, "look")
    /\ IF Session(t) # None THEN With(t, "exec", Session(t)) /\ UNCHANGED con
                            ELSE Default(t)
    /\ UNCHANGED <<phase, kind, d, relay, netUp, proc, failures>>
\* The error of a docker run has been read.
Refused(t) == con' = [c \in Ids |-> IF c = th[t].con /\ con[c].st = "failed"
                                    THEN NoCon ELSE con[c]]
Spawned(t) ==
    /\ At(t, "spawn") /\ con[th[t].con].st # "asked"
    /\ IF con[th[t].con].st = "failed"
       THEN Go(t, Base(t)) /\ UNCHANGED d
       ELSE d' = [d EXCEPT !.def = th[t].con] /\ With(t, "exec", th[t].con)
    /\ Refused(t)
    /\ UNCHANGED <<phase, kind, relay, netUp, proc, failures>>

\* docker exec, or the command itself: it ends.
Run(t) ==
    /\ At(t, "exec") /\ Go(t, Base(t))
    /\ UNCHANGED <<phase, kind, d, con, relay, netUp, proc, failures>>
\* Popen leaves it running.  Bound: on the host only; docker exec -i has the same
\* pipes.
Popen(t) ==
    /\ At(t, "exec") /\ Go(t, Base(t)) /\ kind = "local"
    /\ \E h \in Handles :
          /\ proc[h].st = "none"
          /\ proc' = [proc EXCEPT ![h] = [NoProc EXCEPT !.st = "open", !.listed = TRUE]]
    /\ UNCHANGED <<phase, kind, d, con, relay, netUp, failures>>

\* SetImage without a session: the default is stopped and forgotten, under mu.
SetImage(t) ==
    /\ t \in Mains /\ Begins(t) /\ kind = "docker"
    /\ Rm({d.def}) /\ d' = [d EXCEPT !.def = None]
    /\ UNCHANGED <<phase, kind, relay, netUp, th, proc, failures>>

-----------------------------------------------------------------------------
(* A sub-agent: runSubAgentInternal.                                       *)

\* Its provider has an image of its own, or not.
Delegate(t) ==
    /\ t \in Subs /\ phase = "run" /\ th[t].pc = "idle"
    /\ Go(t, "image") \/ Go(t, "agent")
    /\ UNCHANGED <<phase, kind, d, con, relay, netUp, proc, failures>>
\* sys.setImage by its script.
Again(t) ==
    /\ t \in Subs /\ Begins(t) /\ Go(t, "image")
    /\ UNCHANGED <<phase, kind, d, con, relay, netUp, proc, failures>>
\* SetImage for a session: does not wait for ensureInfra.  The build may fail.
SetSessionImage(t) ==
    /\ At(t, "image")
    /\ \/ kind = "docker" /\ d.named /\ Spawn(t, t, "imaging")
       \/ Go(t, "agent") /\ UNCHANGED con
    /\ UNCHANGED <<phase, kind, d, relay, netUp, proc, failures>>
SessionImageSet(t) ==
    /\ At(t, "imaging") /\ con[th[t].con].st # "asked"
    /\ d' = IF con[th[t].con].st = "failed" THEN d ELSE [d EXCEPT !.sess[t] = th[t].con]
    /\ Refused(t) /\ Go(t, "agent")
    /\ UNCHANGED <<phase, kind, relay, netUp, proc, failures>>
\* CleanupSession: forgotten under mu, stopped after it.
EndSub(t) ==
    /\ t \in Subs /\ At(t, "agent")
    /\ With(t, IF d.sess[t] = None THEN "over" ELSE "stop", d.sess[t])
    /\ d' = [d EXCEPT !.sess[t] = None]
    /\ UNCHANGED <<phase, kind, con, relay, netUp, proc, failures>>
StopSession(t) ==
    /\ At(t, "stop") /\ Rm({th[t].con})
    /\ Go(t, "over")
    /\ UNCHANGED <<phase, kind, d, relay, netUp, proc, failures>>

-----------------------------------------------------------------------------
(* Interactive processes.                                                  *)

Piped(h) == UNCHANGED <<phase, kind, d, con, relay, netUp, th, failures>>
Put(h, p) == proc' = [proc EXCEPT ![h] = p]

WriteLine(h) ==
    /\ proc[h].st = "open" /\ proc[h].out < MaxLines
    /\ Put(h, [proc[h] EXCEPT !.out = @ + 1]) /\ Piped(h)
\* Terminate kills it and leaves it listed.
Terminate(h) == Serving /\ proc[h].listed /\ Put(h, Kill(proc[h])) /\ Piped(h)
Exit(h) == proc[h].st = "open" /\ Put(h, Kill(proc[h])) /\ Piped(h)
\* Popen's goroutine: a line into the channel; or a line too long for the
\* scanner; or the end.
Scan(h) ==
    /\ ~proc[h].done /\ proc[h].sent < proc[h].out
    /\ \/ proc[h].sent - proc[h].read < Cap /\ Put(h, [proc[h] EXCEPT !.sent = @ + 1])
       \/ Put(h, [proc[h] EXCEPT !.done = TRUE, !.err = TRUE])
    /\ Piped(h)
ScanEnd(h) ==
    /\ proc[h].st = "dead" /\ ~proc[h].done /\ proc[h].sent = proc[h].out
    /\ Put(h, [proc[h] EXCEPT !.done = TRUE]) /\ Piped(h)
\* The end as soon as the goroutine is.
ReadLineUndrained(h) ==
    /\ Serving /\ proc[h].listed
    /\ \/ proc[h].sent > proc[h].read /\ Put(h, [proc[h] EXCEPT !.read = @ + 1])
       \/ /\ proc[h].done
          /\ Put(h, [proc[h] EXCEPT !.told = IF proc[h].err THEN "error" ELSE "exited"])
    /\ Piped(h)
\* ReadLine: a line, or the end once no line is left.  A timeout changes nothing.
ReadLine(h) ==
    /\ Serving /\ proc[h].listed
    /\ \/ /\ proc[h].sent > proc[h].read
          /\ Put(h, [proc[h] EXCEPT !.read = @ + 1])
       \/ /\ proc[h].done /\ proc[h].sent = proc[h].read
          /\ Put(h, [proc[h] EXCEPT !.told = IF proc[h].err THEN "error" ELSE "exited"])
    /\ Piped(h)

-----------------------------------------------------------------------------
Command(t) == Look(t) \/ Spawned(t) \/ GuardLocal(t) \/ Run(t) \/ Popen(t)
SubAgent(t) == SetSessionImage(t) \/ SessionImageSet(t) \/ StopSession(t)
ExecutorNext ==
    \/ Start \/ Sweep \/ Cleanup \/ Down \/ RelayDies \/ AllowPort
    \/ \E c \in Ids : Arrive(c) \/ Watchdog(c) \/ Dies(c)
    \/ \E t \in Threads : RelayRun(t)
    \/ \E t \in Runners : Infra(t) \/ Command(t) \/ Call(t) \/ SetImage(t)
    \/ \E t \in Subs : Delegate(t) \/ Again(t) \/ EndSub(t) \/ SubAgent(t)
    \/ \E h \in Handles : WriteLine(h) \/ Exit(h) \/ Terminate(h) \/ Scan(h) \/ ScanEnd(h) \/ ReadLine(h)

ExecutorSpec == ExecutorInit /\ [][ExecutorNext]_executorVars
\* What docker does for itself: a run ends, a container's loop goes round.
ExecutorFairSpec ==
    /\ ExecutorSpec
    /\ \A c \in Ids : WF_executorVars(Arrive(c)) /\ WF_executorVars(Watchdog(c))

-----------------------------------------------------------------------------
(* Properties.                                                             *)

\* "Containers ... self-terminate when it goes stale (survives hard kills)":
\* a container that watches a heartbeat ends after the process that asked for
\* it, be it after a crash in the middle of docker run.
Orphan(c) ==
    con[c].st \in {"asked", "runs"} /\ con[c].watch \in {"left", "removed"}
NoneOutlives == \A c \in Ids : Orphan(c) ~> ~Orphan(c)

\* cleanupStale, "in case any containers were missed": what ran when NewDocker
\* or Cleanup began does not run when it has ended, also the containers no
\* field names any more.
SweepsTakeAll == phase \in {"run", "cleaned"} => \A c \in Running : ~con[c].early

\* ensureInfra, "retry (max 3 total)": no more set-ups fail in one life,
\* whoever asks for them and whatever AllowPort and Cleanup do in between.
SetupsAreBounded == failures <= Retries + 1

\* A command runs in its session's container while the session has one, and
\* never in that of another session.
InOwnContainer ==
    \A t \in Runners : th[t].pc = "exec" /\ th[t].con \in Ids =>
        /\ con[th[t].con].for \in {None, t}
        /\ (t \in Subs /\ d.sess[t] # None) => th[t].con = d.sess[t]

\* readLine says that the process exited only when it has and every line it
\* wrote was read.
ExitedMeansAllRead ==
    \A h \in Handles : proc[h].told = "exited" =>
        proc[h].st = "dead" /\ proc[h].read = proc[h].out

-----------------------------------------------------------------------------
(* What comments promise and the code does not always keep.                *)

\* executor.go:76, "CleanupSession removes a session-specific container": none
\* of them runs when the sub-agent is over.
Mine(c) == con[c].watch \in {"none", "touched"}
SessionsAreFreed ==
    \A t \in Subs : phase = "run" /\ th[t].pc = "over" =>
        \A c \in Running : Mine(c) => con[c].for # t

\* docker.go:50, "main agent's container": there is one.
OneDefault ==
    Cardinality({c \in Running : con[c].for = None /\ Mine(c)}) <= 1

\* docker.go:250, "whitelists a host port in the proxy relay".
PortIsAllowed ==
    th[Server].pc = "over" /\ InfraFree /\ relay # "gone" => relay = "open"

\* docker.go:207, "App containers use the proxy relay sidecar": each is told
\* its address, which the set-up finds out.
AllProxied ==
    [][\A c \in Ids : con[c].st = "gone" /\ con'[c].st = "asked" => d.ready]_executorVars

\* docker.go:131, a container "self-terminates when it goes stale": also when no
\* heartbeat directory was made.
NothingOutlives == \A c \in Ids :
    (con[c].st = "runs" /\ ~Up) ~> (con[c].st # "runs" \/ Up)
=============================================================================
