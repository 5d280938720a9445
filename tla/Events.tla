------------------------------- MODULE Events -------------------------------
(***************************************************************************)
(* How the server tells its user what happens (web/events.go, web/push.go, *)
(* web/server.go, and the subscriptions of web/api_config.go): an event    *)
(* goes to every connected page through a queue of its own, and what asks  *)
(* for the user is also pushed to the browsers that subscribed, when no    *)
(* page is connected.  A sender is an execution of a chat, the file watcher *)
(* or the tunnel's: it sends one event after another.                      *)
(***************************************************************************)
EXTENDS Settings, SequencesExt

CONSTANTS
    Pages,      \* connections to /api/events
    Senders,
    Depth,      \* of a page's queue, 1024 in the code
    Endpoints,  \* of browsers, at a push service
    MaxEvents, MaxAsks, MaxRows  \* bounds

ASSUME EventsAssumption == Depth \in Nat \ {0} /\ {MaxEvents, MaxAsks, MaxRows} \subseteq Nat

VARIABLES
    subscribers, \* EventHub.subscribers
    queue,       \* sub.ch of each page: events, as <<sender, number>>
    written,     \* what went out to it
    sender,      \* what each sender is doing
    number,      \* how many events it began to send
    rows,        \* the PushSubscriptions, as <<endpoint, id>>
    gone,        \* the endpoints that the push service no longer knows
    subscribing, \* who is between the deletion and the new row
    since,       \* history: the counts when the page subscribed
    dropped      \* history: the events its full queue did not take

eventVars == <<subscribers, queue, written, sender, number, rows, gone, subscribing, since, dropped>>

Quiet == [pc |-> "idle", todo |-> {}, asks |-> FALSE]

InitEvents ==
    /\ subscribers = {} /\ queue = [w \in Pages |-> <<>>] /\ written = queue
    /\ sender = [s \in Senders |-> Quiet] /\ number = [s \in Senders |-> 0]
    /\ rows = {} /\ gone = {} /\ subscribing = {}
    /\ since = [w \in Pages |-> number] /\ dropped = [w \in Pages |-> {}]

pushVars == <<rows, gone, subscribing>>
hubVars == <<subscribers, queue, written, number, since, dropped>>

-----------------------------------------------------------------------------
(* The hub.                                                                *)

\* BroadcastRaw holds the read lock over all its sends; the pages come and go
\* under the lock.
Unlocked == \A s \in Senders : sender[s].pc # "send"

Subscribe(w) ==
    /\ w \notin subscribers /\ Unlocked
    /\ subscribers' = subscribers \cup {w}
    /\ queue' = [queue EXCEPT ![w] = <<>>] /\ written' = [written EXCEPT ![w] = <<>>]
    /\ since' = [since EXCEPT ![w] = number] /\ dropped' = [dropped EXCEPT ![w] = {}]
    /\ UNCHANGED <<sender, number, pushVars>>

\* The page has closed its connection: what is queued is lost.
Unsubscribe(w) ==
    /\ w \in subscribers /\ Unlocked
    /\ subscribers' = subscribers \ {w}
    /\ queue' = [queue EXCEPT ![w] = <<>>] /\ written' = [written EXCEPT ![w] = <<>>]
    /\ since' = [since EXCEPT ![w] = [s \in Senders |-> 0]] /\ dropped' = [dropped EXCEPT ![w] = {}]
    /\ UNCHANGED <<sender, number, pushVars>>

\* The loop of Events writes what is in the queue.
WriteEvent(w) ==
    /\ queue[w] # <<>>
    /\ written' = [written EXCEPT ![w] = Append(@, Head(queue[w]))]
    /\ queue' = [queue EXCEPT ![w] = Tail(@)]
    /\ UNCHANGED <<subscribers, sender, number, since, dropped, pushVars>>

Broadcast(s, asks) ==
    /\ sender[s].pc = "idle"
    /\ number' = [number EXCEPT ![s] = @ + 1]
    /\ sender' = [sender EXCEPT ![s] = [pc |-> "send", todo |-> subscribers, asks |-> asks]]
    /\ UNCHANGED <<subscribers, queue, written, since, dropped, pushVars>>

\* In no order; a page whose queue is full does not get the event.
SendDropsOldest(s, w) ==
    /\ sender[s].pc = "send" /\ w \in sender[s].todo
    /\ sender' = [sender EXCEPT ![s].todo = @ \ {w}]
    /\ queue' = [queue EXCEPT ![w] = Append(IF Len(@) < Depth THEN @ ELSE Tail(@), <<s, number[s]>>)]
    /\ UNCHANGED <<subscribers, written, number, since, dropped, pushVars>>

Send(s, w) ==
    LET event == <<s, number[s]>>
    IN  /\ sender[s].pc = "send" /\ w \in sender[s].todo
        /\ sender' = [sender EXCEPT ![s].todo = @ \ {w}]
        /\ IF Len(queue[w]) < Depth
           THEN queue' = [queue EXCEPT ![w] = Append(@, event)] /\ UNCHANGED dropped
           ELSE dropped' = [dropped EXCEPT ![w] = @ \cup {event}] /\ UNCHANGED queue
        /\ UNCHANGED <<subscribers, written, number, since, pushVars>>

\* All have it.  What asks for the user, an answer included, goes on to maybePush.
Sent(s) ==
    /\ sender[s].pc = "send" /\ sender[s].todo = {}
    /\ sender' = [sender EXCEPT ![s] = IF sender[s].asks THEN [@ EXCEPT !.pc = "check"] ELSE Quiet]
    /\ UNCHANGED <<hubVars, pushVars>>

-----------------------------------------------------------------------------
(* Pushing.                                                                *)

\* HasListeners; SendPush then lists the subscriptions ...
MaybePush(s) ==
    /\ sender[s].pc = "check"
    /\ sender' = [sender EXCEPT ![s] =
                    IF subscribers # {} THEN Quiet ELSE [@ EXCEPT !.pc = "push", !.todo = rows]]
    /\ UNCHANGED <<hubVars, pushVars>>

\* ... and sends to them at once.  The service takes it, fails, or knows of no such
\* endpoint: then all rows of the endpoint are deleted.
PushTo(s, r) ==
    /\ sender[s].pc = "push" /\ r \in sender[s].todo
    /\ sender' = [sender EXCEPT ![s].todo = @ \ {r}]
    /\ IF r[1] \in gone
       THEN rows' = {q \in rows : q[1] # r[1]}
       ELSE UNCHANGED rows
    /\ UNCHANGED <<hubVars, gone, subscribing>>

Pushed(s) ==
    /\ sender[s].pc = "push" /\ sender[s].todo = {}
    /\ sender' = [sender EXCEPT ![s] = Quiet]
    /\ UNCHANGED <<hubVars, pushVars>>

\* PushSubscribe deletes the rows of its endpoint and then adds one, or fails to.
PushSubscribe(e, tab) ==
    /\ e \notin gone /\ <<e, tab>> \notin subscribing
    /\ rows' = {q \in rows : q[1] # e}
    /\ subscribing' = subscribing \cup {<<e, tab>>}
    /\ UNCHANGED <<hubVars, sender, gone>>

SavePushSubscription(e, tab) ==
    /\ <<e, tab>> \in subscribing
    /\ subscribing' = subscribing \ {<<e, tab>>}
    /\ rows' \in {rows, rows \cup {<<e, tab>>}}
    /\ UNCHANGED <<hubVars, sender, gone>>

\* The page tells the server and then the service; or only the service (a browser
\* whose data are cleared).
PushUnsubscribe(e) ==
    /\ e \notin gone
    /\ rows' \in {rows, {q \in rows : q[1] # e}}
    /\ gone' = gone \cup {e}
    /\ UNCHANGED <<hubVars, sender, subscribing>>

PushStep ==
    \/ \E s \in Senders : MaybePush(s) \/ Pushed(s)
    \/ \E s \in Senders, r \in Endpoints \X (1..MaxRows) : PushTo(s, r)
    \/ \E e \in Endpoints, tab \in 1..MaxRows : PushSubscribe(e, tab) \/ SavePushSubscription(e, tab)
    \/ \E e \in Endpoints : PushUnsubscribe(e)

EventsNext ==
    \/ \E w \in Pages : Subscribe(w) \/ Unsubscribe(w) \/ WriteEvent(w)
    \/ \E s \in Senders : \/ "push" \notin uses /\ number[s] < MaxEvents /\ Broadcast(s, FALSE)
                          \/ "push" \in uses /\ number[s] < MaxAsks /\ Broadcast(s, TRUE)
                          \/ \E w \in Pages : Send(s, w)
                          \/ Sent(s)
    \/ "push" \in uses /\ PushStep

EventsStep == "events" \in uses /\ EventsNext /\ UNCHANGED settingsVars

-----------------------------------------------------------------------------
(* Properties.                                                             *)

\* What has come to the page, or is about to.
Line(w) == written[w] \o queue[w]
Reached(s, w) == IF sender[s].pc = "send" /\ w \in sender[s].todo THEN number[s] - 1 ELSE number[s]

\* A connected page gets of every sender, in its order and once each, all events
\* that were sent since it connected, but for those its full queue did not take:
\* pages come and go while others send, and the loop over them has no order.
Fed ==
    \A w \in subscribers, s \in Senders :
      /\ \A i, j \in DOMAIN Line(w) :
            i < j /\ Line(w)[i][1] = s /\ Line(w)[j][1] = s => Line(w)[i][2] < Line(w)[j][2]
      /\ {event \in ToSet(Line(w)) : event[1] = s}
           = {<<s, n>> : n \in (since[w][s] + 1)..Reached(s, w)} \ dropped[w]

-----------------------------------------------------------------------------
(* What comments promise and the code does not always keep.                *)

\* server.go:77 "so the user knows action is needed": not when the page that was
\* connected had a full queue, or went before it got the event.
UserIsTold ==
    [][\A s \in Senders :
         sender[s].pc = "check" /\ sender'[s].pc = "idle"
           => \E w \in Pages : <<s, number[s]>> \in ToSet(written[w] \o queue[w])]_eventVars

\* api_config.go:219 "Remove existing subscription with the same endpoint (upsert)":
\* two tabs of a browser that subscribe at once leave two, and each notifies.
OnePerEndpoint == \A q, r \in rows : q[1] = r[1] => q = r

\* push.go:22 "Invalid/expired subscriptions are auto-removed": one that was saved
\* after the browser had given it up stays until something is pushed.
GoneIsRemoved == \A r \in rows : r[1] \notin gone \/ \E s \in Senders : sender[s].pc = "push"
=============================================================================
