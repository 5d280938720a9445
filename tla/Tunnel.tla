------------------------------- MODULE Tunnel -------------------------------
(***************************************************************************)
(* The tunnel to the hub (web/api_tunnel.go, internal/tunnel/client.go)    *)
(* and the profile it brings (internal/config/profile.go): the requests    *)
(* and confirmed actions that connect, disconnect, pair and unpair, the    *)
(* goroutine that discovers the relay, registers, serves and reconnects,   *)
(* the reporter of statistics each connection starts, the workspace row    *)
(* that brings the tunnel back after a restart, and the values of the hub  *)
(* that are merged into the workspace in memory.                           *)
(*                                                                         *)
(* tunnelState.mu guards ts, Store.mu the cached workspace.  A tunnel is   *)
(* one client with its context: startTunnel sets ts.client and ts.cancel   *)
(* together, so one field stands for both.  The addresses and the token,   *)
(* which decide nothing here, are left out.                                *)
(***************************************************************************)
EXTENDS Naturals, FiniteSets

CONSTANTS
    Tunnels,   \* clients that may be made; each once
    NoTunnel,
    Profiled,  \* those the hub answers with a profile
    Callers,   \* requests and confirmed actions under way at a time
    Main,      \* Start, which reconnects before the server listens
    MaxLives,  \* bound: how often the process starts
    MaxFaults, \* bound: failures of the hub and the network in all
    MaxAsked   \* bound: requests in one life of the process

ASSUME TunnelAssumption ==
    /\ NoTunnel \notin Tunnels /\ Profiled \subseteq Tunnels /\ Main \notin Callers
    /\ MaxLives \in Nat /\ MaxFaults \in Nat /\ MaxAsked \in Nat

VARIABLES
    up,        \* the process runs
    lives,
    ts,        \* tunnelState: the tunnel it can cancel, and the status shown
    mu,        \* the caller inside ts.mu between two steps, or NoTunnel
    stopCh,    \* ts.statsReportStop: a channel, or 0
    reporters, \* the reporters whose channel is open
    ws,        \* the cached workspace; loaded is FALSE while there is none
    row,       \* its row
    profile,   \* Store.profileData is there
    tunnel,    \* each client's goroutine
    call,      \* what each caller is doing
    faults, asked, \* what the bounds count
    overlap    \* history: two starts were under way at once

tunnelVars == <<up, lives, ts, mu, stopCh, reporters, ws, row, profile, tunnel, call,
          faults, asked, overlap>>
counts == <<faults, asked>>
process == <<up, lives>>
store == <<ws, row, profile>>
reports == <<stopCh, reporters>>

\* profile: the hub sent one that is not applied yet.
Unused == [pc |-> "unused", cancelled |-> FALSE, session |-> "none", profile |-> FALSE]
TunnelPcs == {"unused", "top", "discover", "dial", "register", "onConnect", "saveHost",
              "apply", "report", "serve", "onDisconnect", "sleep", "ended"}
CallPcs == {"idle", "discover", "set", "persist", "drop", "load", "save", "patch"}
Fields == [mode : BOOLEAN, merged : BOOLEAN]

TunnelTypeOK ==
    /\ up \in BOOLEAN /\ lives \in 0..MaxLives
    /\ ts \in [tunnel : Tunnels \cup {NoTunnel},
               status : {"disconnected", "connecting", "connected"}]
    /\ mu \in Callers \cup {NoTunnel}
    /\ stopCh \in 0..2 /\ reporters \subseteq 1..2
    /\ ws \in [loaded : BOOLEAN, mode : BOOLEAN, merged : BOOLEAN]
    /\ row \in Fields /\ profile \in BOOLEAN
    /\ tunnel \in [Tunnels -> [pc : TunnelPcs, cancelled : BOOLEAN,
                               session : {"none", "open", "closed"}, profile : BOOLEAN]]
    /\ call \in [Callers \cup {Main} -> CallPcs]
    /\ faults \in 0..MaxFaults /\ asked \in 0..MaxAsked /\ overlap \in BOOLEAN

Gone == [loaded |-> FALSE, mode |-> FALSE, merged |-> FALSE]
Loaded == [loaded |-> TRUE, mode |-> row.mode, merged |-> row.merged]
Offline == [tunnel |-> NoTunnel, status |-> "disconnected"]

TunnelInit ==
    /\ up = FALSE /\ lives = 0
    /\ ts = Offline /\ mu = NoTunnel /\ stopCh = 0 /\ reporters = {}
    /\ ws = Gone /\ row = [mode |-> FALSE, merged |-> FALSE] /\ profile = FALSE
    /\ tunnel = [t \in Tunnels |-> Unused]
    /\ call = [k \in Callers \cup {Main} |-> "idle"]
    /\ faults = 0 /\ asked = 0 /\ overlap = FALSE

\* SaveWorkspace: the cached fields are changed and all of them written.
Save(mode) ==
    IF ws.loaded THEN /\ ws' = [ws EXCEPT !.mode = mode]
                      /\ row' = [mode |-> mode, merged |-> ws.merged]
    ELSE UNCHANGED <<ws, row>>

Fault == faults < MaxFaults /\ faults' = faults + 1 /\ UNCHANGED asked
Listening == up /\ call[Main] = "idle"
Ask == Listening /\ asked < MaxAsked /\ asked' = asked + 1 /\ UNCHANGED faults
At(k, pc) == up /\ call[k] = pc
Then(k, pc) == call' = [call EXCEPT ![k] = pc]
Left == {t \in Tunnels : tunnel[t].pc = "unused"}
Starting == {k \in Callers \cup {Main} : call[k] \in {"discover", "set"}}

-----------------------------------------------------------------------------
(* The process.                                                            *)

\* Start: autoReconnectTunnel tries once, before anyone can ask for anything.
Start ==
    /\ ~up /\ lives < MaxLives /\ up' = TRUE /\ lives' = lives + 1
    /\ row.mode => Left # {}
    /\ ws' = Loaded
    /\ call' = [call EXCEPT ![Main] = IF row.mode THEN "discover" ELSE "idle"]
    /\ asked' = 0
    /\ UNCHANGED <<ts, mu, reports, row, profile, tunnel, faults, overlap>>

\* The process ends, wherever it is: only the row is left.
Down ==
    /\ up /\ up' = FALSE
    /\ ts' = Offline /\ mu' = NoTunnel /\ stopCh' = 0 /\ reporters' = {}
    /\ ws' = Gone /\ profile' = FALSE
    /\ tunnel' = [t \in Tunnels |-> IF tunnel[t].pc = "unused" THEN Unused
                                    ELSE [Unused EXCEPT !.pc = "ended"]]
    /\ call' = [k \in Callers \cup {Main} |-> "idle"]
    /\ UNCHANGED <<lives, row, counts, overlap>>

-----------------------------------------------------------------------------
(* Connecting.                                                             *)

\* TunnelConnect, of the API and of ui.confirm: refused while a tunnel shows.
\* Nothing is held while the hub is asked.
TunnelConnect(k) ==
    /\ Ask /\ At(k, "idle") /\ mu = NoTunnel
    /\ ts.status = "disconnected"
    /\ Cardinality(Left) > Cardinality(Starting)
    /\ Then(k, "discover")
    /\ overlap' = (overlap \/ Starting # {})
    /\ UNCHANGED <<process, ts, mu, reports, store, tunnel>>

\* discoverRelay, which may fail and end the request.
Discover(k) ==
    /\ At(k, "discover")
    /\ \/ Then(k, "set") /\ UNCHANGED counts
       \/ Fault /\ Then(k, "idle")
    /\ UNCHANGED <<process, ts, mu, reports, store, tunnel, overlap>>

\* The rest of startTunnel: the client replaces whatever ts held.
SetTunnel(k) ==
    /\ At(k, "set") /\ mu = NoTunnel
    /\ \E t \in Tunnels :
         /\ tunnel[t].pc = "unused"
         /\ ts' = [tunnel |-> t, status |-> "connecting"]
         /\ tunnel' = [tunnel EXCEPT ![t] = [Unused EXCEPT !.pc = "top", !.profile = t \in Profiled]]
    /\ Then(k, IF k = Main THEN "idle" ELSE "persist")
    /\ UNCHANGED <<process, mu, reports, store, counts, overlap>>

\* TunnelMode = "active".
Persist(k) ==
    /\ At(k, "persist") /\ Then(k, "idle")
    /\ Save(TRUE)
    /\ UNCHANGED <<process, ts, mu, reports, profile, tunnel, counts, overlap>>

-----------------------------------------------------------------------------
(* Disconnecting and pairing.                                              *)

CutSessionOnly(tuns) ==
    IF ts.tunnel = NoTunnel THEN tuns
    ELSE [tuns EXCEPT ![ts.tunnel].session = IF @ = "open" THEN "closed" ELSE @]
\* Cancel the tunnel ts holds and close its session, if it has one.
Cut(tuns) ==
    IF ts.tunnel = NoTunnel THEN tuns
    ELSE [tuns EXCEPT ![ts.tunnel].cancelled = TRUE,
                      ![ts.tunnel].session = IF @ = "open" THEN "closed" ELSE @]

StopReporter == stopCh' = 0 /\ reporters' = reporters \ {stopCh}

\* TunnelDisconnect of the API: ts.mu is held to the end.  SetProfile(nil)
\* drops the profile and what is cached, and reads the workspace again.
TunnelDisconnect(k) ==
    /\ Ask /\ At(k, "idle") /\ mu = NoTunnel
    /\ mu' = k /\ Then(k, "drop")
    /\ tunnel' = Cut(tunnel) /\ ts' = Offline /\ StopReporter
    /\ profile' = FALSE
    /\ UNCHANGED <<process, ws, row, overlap>>
Drop(k) ==
    /\ At(k, "drop") /\ Then(k, "load") /\ ws' = Gone
    /\ UNCHANGED <<process, ts, mu, reports, row, profile, tunnel, counts, overlap>>
Load(k) ==
    /\ At(k, "load") /\ Then(k, "save") /\ ws' = Loaded
    /\ UNCHANGED <<process, ts, mu, reports, row, profile, tunnel, counts, overlap>>
\* TunnelMode = "", and the lock is released.
ClearMode(k) ==
    /\ At(k, "save") /\ Then(k, "idle") /\ mu' = NoTunnel
    /\ Save(FALSE)
    /\ UNCHANGED <<process, ts, reports, profile, tunnel, counts, overlap>>

\* TunnelDisconnect of ui.confirm: neither the reporter nor the profile ends.
ConfirmedDisconnect(k) ==
    /\ Ask /\ At(k, "idle") /\ mu = NoTunnel
    /\ mu' = k /\ Then(k, "save")
    /\ tunnel' = Cut(tunnel) /\ ts' = Offline
    /\ UNCHANGED <<process, reports, store, overlap>>

\* TunnelUnpair of ui.confirm unlocks before it clears the row.
ConfirmedUnpair(k) ==
    /\ Ask /\ At(k, "idle") /\ mu = NoTunnel
    /\ Then(k, "patch")
    /\ tunnel' = Cut(tunnel) /\ ts' = Offline
    /\ UNCHANGED <<process, mu, reports, store, overlap>>
ClearRow(k) ==
    /\ At(k, "patch") /\ Then(k, "idle")
    /\ Save(FALSE)
    /\ UNCHANGED <<process, ts, mu, reports, profile, tunnel, counts, overlap>>

\* TunnelUnpair of the API clears the row and leaves the tunnel; TunnelPair, in
\* both forms, writes only what is left out here.
TunnelUnpair ==
    /\ Listening /\ Save(FALSE)
    /\ UNCHANGED <<process, ts, mu, reports, profile, tunnel, call, counts, overlap>>
TunnelPair ==
    /\ Listening /\ Save(ws.mode)
    /\ UNCHANGED <<process, ts, mu, reports, profile, tunnel, call, counts, overlap>>

-----------------------------------------------------------------------------
(* The client's goroutine: RunWithReconnect.                               *)

On(t, pc) == up /\ tunnel[t].pc = pc
Go(t, pc) == tunnel' = [tunnel EXCEPT ![t].pc = pc]
\* After an error: the goroutine ends if it was cancelled.
Retry(t) == IF tunnel[t].cancelled THEN "ended" ELSE "onDisconnect"

Top(t) ==
    /\ On(t, "top") /\ Go(t, IF tunnel[t].cancelled THEN "ended" ELSE "discover")
    /\ UNCHANGED <<process, ts, mu, reports, store, call, counts, overlap>>

AuthorizeOnce(t) ==
    /\ On(t, "discover")
    /\ \/ Go(t, "dial") /\ UNCHANGED counts
       \/ Fault /\ Go(t, "ended")
    /\ UNCHANGED <<process, ts, mu, reports, store, call, overlap>>
\* discoverFn does not know the context.
Authorize(t) ==
    /\ On(t, "discover")
    /\ \/ Go(t, "dial") /\ UNCHANGED counts
       \/ Fault /\ Go(t, Retry(t))
    /\ UNCHANGED <<process, ts, mu, reports, store, call, overlap>>

\* Connect: the dial knows the context, the registration does not.
Dial(t) ==
    /\ On(t, "dial")
    /\ \/ ~tunnel[t].cancelled /\ Go(t, "register") /\ UNCHANGED counts
       \/ tunnel[t].cancelled /\ Go(t, "ended") /\ UNCHANGED counts
       \/ Fault /\ Go(t, Retry(t))
    /\ UNCHANGED <<process, ts, mu, reports, store, call, overlap>>
Register(t) ==
    /\ On(t, "register")
    /\ \/ /\ tunnel' = [tunnel EXCEPT ![t].pc = "onConnect", ![t].session = "open"]
          /\ UNCHANGED counts
       \/ Fault /\ Go(t, Retry(t))
    /\ UNCHANGED <<process, ts, mu, reports, store, call, overlap>>

\* onConnect: nothing asks whether the tunnel was cancelled meanwhile.
Connected(t) ==
    /\ On(t, "onConnect") /\ mu = NoTunnel
    /\ ts' = [ts EXCEPT !.status = "connected"]
    /\ Go(t, "saveHost")
    /\ UNCHANGED <<process, mu, reports, store, call, counts, overlap>>
SaveHost(t) ==
    /\ On(t, "saveHost") /\ Save(ws.mode)
    /\ Go(t, IF tunnel[t].profile THEN "apply" ELSE "report")
    /\ UNCHANGED <<process, ts, mu, reports, profile, call, counts, overlap>>
\* ApplyProfile, once for a client: the cached workspace takes the hub's values.
ApplyProfile(t) ==
    /\ On(t, "apply") /\ profile' = TRUE
    /\ ws' = [ws EXCEPT !.merged = @ \/ ws.loaded]
    /\ tunnel' = [tunnel EXCEPT ![t].pc = "report", ![t].profile = FALSE]
    /\ UNCHANGED <<process, ts, mu, reports, row, call, counts, overlap>>
\* Channels are named in turn: two names tell them apart while one is open.
Fresh == IF stopCh = 1 THEN 2 ELSE 1
NewReporter(t) ==
    /\ On(t, "report") /\ mu = NoTunnel
    /\ stopCh' = Fresh /\ reporters' = (reporters \ {stopCh}) \cup {Fresh}
    /\ Go(t, "serve")
    /\ UNCHANGED <<process, ts, mu, store, call, counts, overlap>>

\* The hub or the network drops the session.
SessionDies(t) ==
    /\ up /\ tunnel[t].session = "open" /\ Fault
    /\ tunnel' = [tunnel EXCEPT ![t].session = "closed"]
    /\ UNCHANGED <<process, ts, mu, reports, store, call, overlap>>
\* Run returns: the context is done and its watcher closes the session, or the
\* session died and Close is called.
Serve(t) ==
    /\ On(t, "serve") /\ (tunnel[t].cancelled \/ tunnel[t].session = "closed")
    /\ tunnel' = [tunnel EXCEPT ![t].pc = Retry(t), ![t].session = "closed"]
    /\ UNCHANGED <<process, ts, mu, reports, store, call, counts, overlap>>

Disconnected(t) ==
    /\ On(t, "onDisconnect") /\ mu = NoTunnel
    /\ ts' = [ts EXCEPT !.status = IF @ # "disconnected" THEN "connecting" ELSE @]
    /\ Go(t, "sleep")
    /\ UNCHANGED <<process, mu, reports, store, call, counts, overlap>>
Slept(t) ==
    /\ On(t, "sleep") /\ Go(t, "top")
    /\ UNCHANGED <<process, ts, mu, reports, store, call, counts, overlap>>

-----------------------------------------------------------------------------
Caller(k) ==
    \/ Discover(k) \/ SetTunnel(k) \/ Persist(k)
    \/ Drop(k) \/ Load(k) \/ ClearMode(k) \/ ClearRow(k)
Request(k) ==
    \/ TunnelConnect(k) \/ TunnelDisconnect(k) \/ ConfirmedDisconnect(k)
    \/ ConfirmedUnpair(k)
Client(t) ==
    \/ Top(t) \/ Authorize(t) \/ Dial(t) \/ Register(t)
    \/ Connected(t) \/ SaveHost(t) \/ ApplyProfile(t) \/ NewReporter(t)
    \/ Serve(t) \/ Disconnected(t) \/ Slept(t)

TunnelNext ==
    \/ Start \/ Down \/ TunnelUnpair \/ TunnelPair
    \/ \E k \in Callers : Request(k)
    \/ \E k \in Callers \cup {Main} : Caller(k)
    \/ \E t \in Tunnels : Client(t) \/ SessionDies(t)

TunnelSpec == TunnelInit /\ [][TunnelNext]_tunnelVars

\* Goroutines run, locks are released, and a request to the hub or a dial has a
\* timeout.  A hub that has accepted may leave the registration unanswered: its
\* reading has no deadline, and no context.
TunnelFairSpec ==
    /\ TunnelSpec
    /\ \A k \in Callers \cup {Main} : WF_tunnelVars(Caller(k))
    /\ \A t \in Tunnels : WF_tunnelVars(~On(t, "register") /\ Client(t))

-----------------------------------------------------------------------------
(* Properties.                                                             *)

\* However connections, reconnections and both kinds of disconnect interleave,
\* one reporter of statistics runs at most, ts can stop it, and no channel is
\* closed twice, which would end the process.
OneReporter == reporters = {stopCh} \ {0}

\* As long as no two starts of a tunnel were under way at once, the tunnel that
\* runs is the one ts holds, so that it can be disconnected.
Live == {t \in Tunnels : tunnel[t].pc \notin {"unused", "ended"} /\ ~tunnel[t].cancelled}
OneTunnel == overlap \/ Live \subseteq {ts.tunnel}

\* The hub never answers the registration.
Unanswered(t) == []On(t, "register")

\* A cancelled tunnel ends, wherever in its reconnecting it is, and its session
\* does not stay open, if the hub answers it.
CancelledEnds ==
    \A t \in Tunnels : tunnel[t].cancelled ~>
        (Unanswered(t) \/ (tunnel[t].pc = "ended" /\ tunnel[t].session # "open"))

\* A tunnel nobody cancels comes to serve again after every failure, as long as
\* the process runs and the hub answers the registrations.
KeepsTrying ==
    \A t \in Tunnels : t \in Live ~>
        (~up \/ tunnel[t].cancelled \/ Unanswered(t)
         \/ (tunnel[t].pc = "serve" /\ tunnel[t].session = "open"))

-----------------------------------------------------------------------------
(* What comments promise and the code does not always keep.                *)

\* "Clear profile data - providers and secrets are only valid while tunneled"
\* (web/api_tunnel.go:296): onConnect may apply the profile after Disconnect,
\* and the confirmed disconnect does not clear it.
ProfileWhileTunneled == profile => Live # {}

\* "nothing is written to SQLite" (internal/config/profile.go:97): the merged
\* values are in the workspace every later save writes.
NothingWritten == ~row.merged

\* "RunWithReconnect runs the tunnel with automatic reconnection"
\* (internal/tunnel/client.go:200): not while a hub that accepted it stays silent.
RetriesAlways ==
    \A t \in Tunnels : On(t, "register") ~> ~On(t, "register")

\* Two starts that overlap leave a tunnel no request can end.
EveryTunnelIsHeld == Live \subseteq {ts.tunnel}

\* A status of "connected" is of a tunnel: onConnect of a cancelled one leaves
\* it for ever, and TunnelConnect refuses to connect while it shows.
ConnectedHasTunnel ==
    (up /\ ts.status = "connected" /\ Live = {}) ~>
        (~up \/ ts.status # "connected" \/ Live # {})

\* The row brings a tunnel back after a restart exactly if it was not ended: a
\* disconnect between the start and the saving of the mode is forgotten.
ModeIsTrue ==
    (up /\ (\A k \in Callers \cup {Main} : call[k] = "idle") /\ Live = {}) => ~row.mode
=============================================================================
