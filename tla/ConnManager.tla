---------------------------- MODULE ConnManager ----------------------------
(***************************************************************************)
(* Persistent connections (internal/connmgr/connmgr.go): the table of      *)
(* connections and the rows behind it, the goroutine that dials, reads and *)
(* reconnects each of them, the warm VM its handler script runs in, the    *)
(* reaper of idle VMs, the scripts that open and close connections through *)
(* the conn bridge, and the process around them, which stops or crashes    *)
(* and starts again from the rows.                                         *)
(*                                                                         *)
(* Manager.mu guards the table and connEntry.mu the engine, the protocol   *)
(* and userClosed.  A step is what happens under one of them, or between   *)
(* two waits; cancel is set and read without either.                       *)
(***************************************************************************)
EXTENDS Naturals, FiniteSets

CONSTANTS
    Conns,    \* rows that may be added; each once
    Urls,     \* what Add compares: url, type, handler and headers together
    NoUrl,
    NoConn,
    Lasting,  \* the connections added with reconnect, the default
    Sse,      \* those of type sse, whose driver drops the context it is given
    Clients,  \* scripts that call conn.open and conn.close
    MaxConns, \* bound: how many connections are added
    MaxLives, \* bound: how often the process starts
    MaxRetries\* bound: reconnects of a connection in one life

ASSUME ConnAssumption ==
    /\ Lasting \subseteq Conns /\ Sse \subseteq Conns
    /\ NoUrl \notin Urls /\ NoConn \notin Conns
    /\ MaxConns \in Nat /\ MaxLives \in Nat /\ MaxRetries \in Nat

VARIABLES
    up,       \* the process runs
    lives,    \* how often it has started
    stop,     \* Stop: "no", "closing" once stopCh is closed, "done"
    rows,     \* the store
    listed,   \* the keys of Manager.entries
    url,      \* what each connection was added for
    runner,   \* runConn's goroutine for each connection
    entry,    \* the fields of each connEntry
    client,   \* what each client is doing
    used,     \* history: connections that were added
    removed,  \* history: those a client has removed, and was told so
    why       \* history: what justifies that a connection ends for good

connVars == <<up, lives, stop, rows, listed, url, runner, entry, client, used, removed, why>>
hist == <<used, removed, why>>

Pcs == {"none", "start", "top", "dial", "dialed", "warm", "dispatch", "handle", "read",
        "reading", "drop", "flags", "wait", "cleanMap", "cleanEng", "cleanRow", "done"}
Events == {"connect", "message", "close", "error"}
\* err: the reading ended with an error; retry: shouldRetry; tries: reconnects.
NoRunner == [pc |-> "none", event |-> "connect", err |-> FALSE, retry |-> FALSE,
             tries |-> 0]
\* proto: entry.proto; sock: the driver's connection, which the goroutine holds
\* before it is stored; recent: lastActive is less than ten minutes ago; fresh,
\* a history: the VM was made or used less than ten minutes ago.
NoEntry == [cancel |-> "unset", proto |-> FALSE, sock |-> "none", eng |-> FALSE,
            userClosed |-> FALSE, recent |-> FALSE, fresh |-> FALSE]
Idle == [pc |-> "idle", conn |-> NoConn]

ConnTypeOK ==
    /\ up \in BOOLEAN /\ lives \in 0..MaxLives /\ stop \in {"no", "closing", "done"}
    /\ rows \subseteq Conns /\ listed \subseteq Conns /\ used \subseteq Conns
    /\ removed \subseteq Conns
    /\ url \in [Conns -> Urls \cup {NoUrl}]
    /\ runner \in [Conns -> [pc : Pcs, event : Events, err : BOOLEAN, retry : BOOLEAN,
                             tries : 0..MaxRetries]]
    /\ entry \in [Conns -> [cancel : {"unset", "set", "called"}, proto : BOOLEAN,
                            sock : {"none", "open", "closed"}, eng : BOOLEAN,
                            userClosed : BOOLEAN, recent : BOOLEAN, fresh : BOOLEAN]]
    /\ client \in [Clients -> [pc : {"idle", "save", "insert", "cancel", "close", "row"},
                               conn : Conns \cup {NoConn}]]
    /\ why \in [Conns -> BOOLEAN]

ConnInit ==
    /\ up = FALSE /\ lives = 0 /\ stop = "no"
    /\ rows = {} /\ listed = {} /\ url = [c \in Conns |-> NoUrl]
    /\ runner = [c \in Conns |-> NoRunner] /\ entry = [c \in Conns |-> NoEntry]
    /\ client = [k \in Clients |-> Idle]
    /\ used = {} /\ removed = {} /\ why = [c \in Conns |-> FALSE]

At(c, pc) == up /\ runner[c].pc = pc
Go(c, pc) == runner' = [runner EXCEPT ![c].pc = pc]
Cancelled(c) == entry[c].cancel = "called"
Stopped == stop # "no"

\* The goroutine waits for the VM, which loads the handler's module or runs the
\* handler; thirty seconds interrupt either, but not a native call it is in.
InVM(c) == runner[c].pc \in {"warm", "handle"}

-----------------------------------------------------------------------------
(* The process.                                                            *)

\* New: an entry and a goroutine for every row.
Start ==
    /\ ~up /\ lives < MaxLives
    /\ up' = TRUE /\ lives' = lives + 1 /\ stop' = "no"
    /\ listed' = rows
    /\ runner' = [c \in Conns |-> IF c \in rows THEN [NoRunner EXCEPT !.pc = "start"]
                                                ELSE NoRunner]
    /\ entry' = [c \in Conns |-> NoEntry]
    /\ UNCHANGED <<rows, url, client, hist>>

\* The process ends, by a crash or at the end of main: the rows are left.
Down ==
    /\ up /\ up' = FALSE /\ stop' = "no"
    /\ listed' = {}
    /\ runner' = [c \in Conns |-> NoRunner] /\ entry' = [c \in Conns |-> NoEntry]
    /\ client' = [k \in Clients |-> Idle]
    /\ UNCHANGED <<lives, rows, url, hist>>

\* What a holder of entry.mu does to end a connection from outside.
Shut(e) == [e EXCEPT !.sock = IF e.proto THEN "closed" ELSE e.sock, !.eng = FALSE]
CallCancel(e) == [e EXCEPT !.cancel = IF e.cancel = "set" THEN "called" ELSE e.cancel]

StopBegin ==
    /\ up /\ stop = "no" /\ stop' = "closing"
    /\ UNCHANGED <<up, lives, rows, listed, url, runner, entry, client, hist>>
StopEntries ==
    /\ up /\ stop = "closing" /\ stop' = "done"
    /\ entry' = [c \in Conns |-> IF c \in listed THEN Shut(CallCancel(entry[c]))
                                                 ELSE entry[c]]
    /\ UNCHANGED <<up, lives, rows, listed, url, runner, client, hist>>

-----------------------------------------------------------------------------
(* conn.open and conn.close.                                               *)

ClientAt(k, pc) == up /\ client[k].pc = pc
ClientGo(k, pc, c) == client' = [client EXCEPT ![k] = [pc |-> pc, conn |-> c]]
Known(u) == \E c \in listed : url[c] = u

\* Add looks for a connection to the same end under the lock, which it releases
\* before it saves the row.  A known one is returned, which changes nothing.
AddCheck(k, u, c) ==
    /\ ClientAt(k, "idle") /\ ~Known(u)
    /\ c \notin used /\ \A j \in Clients : client[j].conn # c
    /\ Cardinality((used \cup {client[j].conn : j \in Clients}) \ {NoConn}) < MaxConns
    /\ url' = [url EXCEPT ![c] = u]
    /\ ClientGo(k, "save", c)
    /\ UNCHANGED <<up, lives, stop, rows, listed, runner, entry, hist>>

AddSave(k) ==
    LET c == client[k].conn IN
    /\ ClientAt(k, "save")
    /\ rows' = rows \cup {c} /\ used' = used \cup {c}
    /\ ClientGo(k, "insert", c)
    /\ UNCHANGED <<up, lives, stop, listed, url, runner, entry, removed, why>>

AddInsert(k) ==
    LET c == client[k].conn IN
    /\ ClientAt(k, "insert")
    /\ listed' = listed \cup {c}
    /\ Go(c, "start")
    /\ ClientGo(k, "idle", NoConn)
    /\ UNCHANGED <<up, lives, stop, rows, url, entry, hist>>

Remove(k, c) ==
    /\ ClientAt(k, "idle") /\ c \in listed
    /\ listed' = listed \ {c}
    /\ why' = [why EXCEPT ![c] = TRUE]
    /\ ClientGo(k, "cancel", c)
    /\ UNCHANGED <<up, lives, stop, rows, url, runner, entry, used, removed>>

\* A goroutine that has not run yet has stored no cancel function.
RemoveCancel(k) ==
    LET c == client[k].conn IN
    /\ ClientAt(k, "cancel")
    /\ entry' = [entry EXCEPT ![c] = CallCancel(@)]
    /\ ClientGo(k, "close", c)
    /\ UNCHANGED <<up, lives, stop, rows, listed, url, runner, hist>>

RemoveClose(k) ==
    LET c == client[k].conn IN
    /\ ClientAt(k, "close")
    /\ entry' = [entry EXCEPT ![c] = Shut(@)]
    /\ ClientGo(k, "row", c)
    /\ UNCHANGED <<up, lives, stop, rows, listed, url, runner, hist>>

RemoveRow(k) ==
    LET c == client[k].conn IN
    /\ ClientAt(k, "row")
    /\ rows' = rows \ {c} /\ removed' = removed \cup {c}
    /\ ClientGo(k, "idle", NoConn)
    /\ UNCHANGED <<up, lives, stop, listed, url, runner, entry, used, why>>

Client(k) ==
    \/ \E u \in Urls, c \in Conns : AddCheck(k, u, c)
    \/ AddSave(k) \/ AddInsert(k)
    \/ \E c \in Conns : Remove(k, c)
    \/ RemoveCancel(k) \/ RemoveClose(k) \/ RemoveRow(k)

-----------------------------------------------------------------------------
(* runConn.                                                                *)

othersOfRunner == <<up, lives, stop, rows, listed, url, client, used, removed>>

Begin(c) ==
    /\ At(c, "start") /\ Go(c, "top")
    /\ entry' = [entry EXCEPT ![c].cancel = "set"]
    /\ UNCHANGED <<othersOfRunner, why>>

Top(c) ==
    /\ At(c, "top")
    /\ Go(c, IF Stopped \/ Cancelled(c) THEN "done" ELSE "dial")
    /\ UNCHANGED <<othersOfRunner, entry, why>>

DialOk(c) ==
    /\ At(c, "dial") /\ Go(c, "dialed")
    /\ entry' = [entry EXCEPT ![c].sock = "open"]
    /\ UNCHANGED <<othersOfRunner, why>>

\* A dial that fails, for a passing reason or for good.  The handler is asked in
\* the VM that an earlier connection may have left.
DialFail(c, passing) ==
    /\ At(c, "dial") /\ runner[c].tries < MaxRetries
    /\ runner' = [runner EXCEPT ![c].pc = "dispatch", ![c].event = "error",
                                ![c].err = TRUE, ![c].retry = c \in Lasting /\ passing]
    /\ why' = [why EXCEPT ![c] = @ \/ ~passing]
    /\ UNCHANGED <<othersOfRunner, entry>>

Connected(c) ==
    /\ At(c, "dialed")
    /\ runner' = [runner EXCEPT ![c].pc = "warm", ![c].event = "connect"]
    /\ entry' = [entry EXCEPT ![c].proto = TRUE]
    /\ UNCHANGED <<othersOfRunner, why>>

\* ensureWarmVM: one that is there is kept; the handler's module may not load.
Warm(c, loads) ==
    /\ At(c, "warm") /\ Go(c, "dispatch")
    /\ entry' = [entry EXCEPT ![c].eng = @ \/ loads, ![c].fresh = entry[c].eng \/ loads]
    /\ UNCHANGED <<othersOfRunner, why>>

\* Where runConn goes on after an event.  After an error it retries or gives up.
After(c, retry) ==
    CASE runner[c].event \in {"connect", "message"} -> "read"
      [] runner[c].event = "close" -> "flags"
      [] runner[c].event = "error" -> IF retry THEN "wait" ELSE "cleanMap"

\* dispatch takes the VM under the lock, and runs it after.
Dispatch(c) ==
    /\ At(c, "dispatch")
    /\ Go(c, IF entry[c].eng THEN "handle" ELSE After(c, runner[c].retry))
    /\ UNCHANGED <<othersOfRunner, entry, why>>

\* The handler's function returns; that of onError may overrule the choice.
Handled(c, retry) ==
    /\ At(c, "handle")
    /\ retry = runner[c].retry \/ runner[c].event = "error"
    /\ runner' = [runner EXCEPT ![c].pc = After(c, retry), ![c].retry = retry]
    /\ why' = [why EXCEPT ![c] = @ \/ (runner[c].event = "error" /\ ~retry)]
    /\ entry' = [entry EXCEPT ![c].fresh = @ /\ entry[c].eng]
    /\ UNCHANGED othersOfRunner

\* conn.close in a handler.
HandlerCloses(c) ==
    /\ At(c, "handle")
    /\ ~entry[c].userClosed \/ entry[c].sock = "open"
    /\ entry' = [entry EXCEPT ![c].userClosed = TRUE,
                              ![c].sock = IF entry[c].proto THEN "closed" ELSE @]
    /\ why' = [why EXCEPT ![c] = TRUE]
    /\ UNCHANGED <<othersOfRunner, runner>>

LoseWith(c, err, passing) ==
    /\ runner' = [runner EXCEPT ![c].pc = "drop", ![c].err = err,
                                ![c].retry = c \in Lasting /\ passing]
    /\ why' = [why EXCEPT ![c] = @ \/ ~passing]

\* The top of readLoop.  The variant looks at stopCh only.
ReadTopUntold(c) ==
    /\ At(c, "read")
    /\ \/ Stopped /\ LoseWith(c, FALSE, TRUE)
       \/ ~Stopped /\ Go(c, "reading") /\ UNCHANGED why
    /\ UNCHANGED <<othersOfRunner, entry>>
ReadTop(c) ==
    /\ At(c, "read")
    /\ \/ Cancelled(c) /\ LoseWith(c, TRUE, TRUE)
       \/ Stopped /\ LoseWith(c, FALSE, TRUE)
       \/ ~Cancelled(c) /\ ~Stopped /\ Go(c, "reading") /\ UNCHANGED why
    /\ UNCHANGED <<othersOfRunner, entry>>

Message(c) ==
    /\ At(c, "reading") /\ entry[c].sock = "open"
    /\ runner' = [runner EXCEPT ![c].pc = "warm", ![c].event = "message"]
    /\ entry' = [entry EXCEPT ![c].recent = TRUE]
    /\ UNCHANGED <<othersOfRunner, why>>

\* Read returns because this side closed the connection, or, in a driver that
\* heeds it, cancelled the context.
ReadEnds(c) ==
    /\ At(c, "reading")
    /\ entry[c].sock = "closed" \/ (Cancelled(c) /\ c \notin Sse)
    /\ LoseWith(c, TRUE, TRUE)
    /\ UNCHANGED <<othersOfRunner, entry>>

\* The other side or the network ends it.
PeerEnds(c, passing) ==
    /\ At(c, "reading") /\ runner[c].tries < MaxRetries
    /\ LoseWith(c, TRUE, passing)
    /\ UNCHANGED <<othersOfRunner, entry>>

Drop(c) ==
    /\ At(c, "drop")
    /\ runner' = [runner EXCEPT ![c].pc = IF runner[c].err THEN "dispatch" ELSE "flags",
                                ![c].event = "close"]
    /\ entry' = [entry EXCEPT ![c].proto = FALSE, ![c].sock = "none"]
    /\ UNCHANGED <<othersOfRunner, why>>

\* conn.close overrules the flag; the handler's onError is asked after that.
Flags(c) ==
    LET retry == runner[c].retry /\ ~entry[c].userClosed IN
    /\ At(c, "flags")
    /\ runner' = [runner EXCEPT ![c].retry = retry, ![c].event = "error",
                                ![c].pc = IF runner[c].err THEN "dispatch"
                                          ELSE IF retry THEN "wait" ELSE "cleanMap"]
    /\ UNCHANGED <<othersOfRunner, entry, why>>

\* The back-off, which stopCh and cancel cut short.
Wait(c) ==
    /\ At(c, "wait")
    /\ \/ runner' = [runner EXCEPT ![c].pc = "top",
                                   ![c].tries = IF @ < MaxRetries THEN @ + 1 ELSE @]
       \/ (Stopped \/ Cancelled(c)) /\ Go(c, "done")
    /\ UNCHANGED <<othersOfRunner, entry, why>>

\* cleanupEntry.  The variant leaves the entry in the table.
CleanMapKeeps(c) ==
    /\ At(c, "cleanMap") /\ Go(c, "cleanEng")
    /\ UNCHANGED <<up, lives, stop, rows, listed, url, client, entry, hist>>
CleanMap(c) ==
    /\ At(c, "cleanMap") /\ Go(c, "cleanEng")
    /\ listed' = listed \ {c}
    /\ UNCHANGED <<up, lives, stop, rows, url, client, entry, hist>>
CleanEng(c) ==
    /\ At(c, "cleanEng") /\ Go(c, "cleanRow")
    /\ entry' = [entry EXCEPT ![c].eng = FALSE]
    /\ UNCHANGED <<othersOfRunner, why>>
CleanRow(c) ==
    /\ At(c, "cleanRow") /\ Go(c, "done")
    /\ rows' = rows \ {c}
    /\ UNCHANGED <<up, lives, stop, listed, url, client, entry, hist>>

Runner(c) ==
    \/ Begin(c) \/ Top(c) \/ DialOk(c) \/ \E p \in BOOLEAN : DialFail(c, p)
    \/ Connected(c) \/ \E ok \in BOOLEAN : Warm(c, ok)
    \/ Dispatch(c) \/ \E r \in BOOLEAN : Handled(c, r)
    \/ HandlerCloses(c)
    \/ ReadTop(c) \/ Message(c) \/ ReadEnds(c) \/ \E p \in BOOLEAN : PeerEnds(c, p)
    \/ Drop(c) \/ Flags(c) \/ Wait(c) \/ CleanMap(c) \/ CleanEng(c) \/ CleanRow(c)

-----------------------------------------------------------------------------
(* The reaper of idle VMs.                                                 *)

\* Ten minutes without a message.  A dial is shorter, and so is a handler or the
\* loading of its module, unless it waits in a native call.
TenMinutes(c) ==
    /\ up
    /\ runner[c].pc \in {"reading", "wait"} \/ InVM(c)
    /\ entry[c].recent \/ entry[c].fresh
    /\ entry' = [entry EXCEPT ![c].recent = FALSE, ![c].fresh = FALSE]
    /\ UNCHANGED <<othersOfRunner, runner, why>>

Reap(c) ==
    /\ up /\ ~Stopped /\ c \in listed
    /\ entry[c].eng /\ ~entry[c].recent
    /\ entry' = [entry EXCEPT ![c].eng = FALSE]
    /\ UNCHANGED <<othersOfRunner, runner, why>>

-----------------------------------------------------------------------------
ConnNext ==
    \/ Start \/ Down \/ StopBegin \/ StopEntries
    \/ \E k \in Clients : Client(k)
    \/ \E c \in Conns : Runner(c) \/ TenMinutes(c) \/ Reap(c)

ConnSpec == ConnInit /\ [][ConnNext]_connVars

\* Goroutines and clients run; a dial ends within thirty seconds where the driver
\* heeds the context; nothing makes a peer speak, nor ends a native call.
RunnerStep(c) ==
    \/ Begin(c) \/ Top(c) \/ Connected(c)
    \/ (c \notin Sse /\ (DialOk(c) \/ \E p \in BOOLEAN : DialFail(c, p)))
    \/ Dispatch(c) \/ ReadTop(c) \/ ReadEnds(c)
    \/ Drop(c) \/ Flags(c) \/ Wait(c) \/ CleanMap(c) \/ CleanEng(c) \/ CleanRow(c)
ClientStep(k) == AddSave(k) \/ AddInsert(k) \/ RemoveCancel(k) \/ RemoveClose(k) \/ RemoveRow(k)
ConnFairness ==
    /\ \A c \in Conns : WF_connVars(RunnerStep(c))
    /\ \A k \in Clients : WF_connVars(ClientStep(k))
    /\ WF_connVars(StopEntries)
ConnFairSpec == ConnSpec /\ ConnFairness

-----------------------------------------------------------------------------
(* Properties.                                                             *)

\* What the table lists is in the store, so that a restart brings it back, and has
\* a goroutine that has not ended, unless the manager is stopped: through adding,
\* removing and giving up in any order, none is listed that nobody serves.
ListedIsServed ==
    \A c \in listed : /\ c \in rows
                      /\ runner[c].pc = "done" => Stopped
                      /\ runner[c].pc # "none"

\* A row goes only because a script closed the connection, its handler did or
\* said so, it failed for good, or it was not to be kept: neither a crash nor an
\* orderly stop, at whatever point of a dial or a read, loses a lasting one.
RowsAreKept ==
    \A c \in Lasting \cap used : why[c] \/ c \in rows

\* The handler of a message works in a VM that is not cleaned up under it within ten
\* minutes of the message, if the connection is listed and the manager not stopped.
HandlerKeepsVM ==
    \A c \in listed :
        At(c, "handle") /\ runner[c].event = "message" /\ entry[c].recent /\ ~Stopped
            => entry[c].eng

\* A goroutine whose context is cancelled ends, wherever it is, but for a dial
\* whose driver does not heed it, and unless its VM never comes back.
CancelledEnds ==
    \A c \in Conns :
        (Cancelled(c) /\ ~(c \in Sse /\ runner[c].pc = "dial"))
            ~> (runner[c].pc \in {"none", "done"} \/ []InVM(c))

-----------------------------------------------------------------------------
(* What comments promise and the code does not always keep.                *)

\* "Remove closes and removes a connection": before its goroutine has begun there
\* is nothing to cancel, and it runs on, in no table.
RemovedEnds == \A c \in Conns : (c \in removed) ~> (runner[c].pc \in {"none", "done"})
\* "if an existing connection matches url+type+handler+headers, return it".
OnePerUrl == \A c, d \in listed : url[c] = url[d] => c = d
\* "User-initiated close (conn.close() from JS) - never reconnect".
ClosedStaysClosed ==
    [][\A c \in Conns : Top(c) => ~entry[c].userClosed \/ Stopped \/ Cancelled(c)]_connVars
\* "tears down warm VMs that have been idle for more than 10 minutes": also one that
\* an event other than a message used, or whose handler has not come back.
ReapsIdleOnes == [][\A c \in Conns : Reap(c) => ~entry[c].fresh /\ ~InVM(c)]_connVars
\* "Run with a per-message timeout (30s default)": a native call outlasts it.
HandlersEnd == \A c \in Conns : (runner[c].pc = "handle") ~> (runner[c].pc # "handle")
\* A connection that is gone has left no VM behind.
NoVMLeft == \A c \in Conns \ listed : At(c, "done") => ~entry[c].eng

=============================================================================
