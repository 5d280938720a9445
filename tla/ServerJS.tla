------------------------------ MODULE ServerJS ------------------------------
(***************************************************************************)
(* The public site (web/server.go, internal/serverjs): how a request's     *)
(* path is resolved to a .server.js script through a tree of names with    *)
(* [param] and [...rest] entries, the cache of resolved routes that all    *)
(* requests share, and the life of a request that a script answers: an     *)
(* engine of its own, the handler on a goroutine, the timeout that         *)
(* interrupts it, the readers of its body, the answer and the cleanup.     *)
(*                                                                         *)
(* A script is the sequence of its directories and its name; "[p]" stands  *)
(* for a [param] entry, "[...]" for a catch-all and "index" for            *)
(* index.server.js.  Values of params, headers and bodies are left out     *)
(* but for the number of segments each parameter takes; a parameter is     *)
(* told by its entry of the tree.                                          *)
(***************************************************************************)
EXTENDS Naturals, FiniteSets, SequencesExt

CONSTANTS
    Clients,     \* each has at most one request at a time
    Segments,    \* the segments of paths, and the names in the site
    Paths,       \* the paths that are asked for: sequences of segments
    Scripts,     \* the scripts that may exist
    Edited,      \* those that are written or deleted while it runs
    Sites,       \* the sets of scripts a site may start with
    Outside,     \* those that are links to files outside the public directory
    Absent,
    CacheMax,    \* routeCacheMax: 64 in the code
    CacheTTL,    \* routeCacheTTL: a minute
    MaxClock, MaxRequests, MaxEdits  \* bounds

ASSUME ServerJSAssumption ==
    /\ {"[p]", "[...]", "index"} \subseteq Segments
    /\ Paths \subseteq Seq(Segments) \ {<<>>} /\ Scripts \subseteq Seq(Segments) \ {<<>>}
    /\ Outside \cup Edited \subseteq Scripts /\ Sites \subseteq SUBSET Scripts /\ Absent \notin Scripts
    /\ {CacheMax, CacheTTL} \subseteq Nat \ {0} /\ {MaxClock, MaxRequests, MaxEdits} \subseteq Nat

VARIABLES
    tree,    \* the scripts in the public directory
    past,    \* history: the trees it had, each with the time it came
    entries, \* the cache: path -> the route, when it was put and when it expires
    order,   \* its keys, oldest use first
    req,     \* the request of each client
    now, requested, edits \* a clock and what the bounds count

vars == <<tree, past, entries, order, req, now, requested, edits>>

NoRoute == [script |-> Absent, params |-> {}]
NoRequest == [pc |-> "idle", path |-> <<>>, route |-> NoRoute, since |-> 0, put |-> 0,
              vm |-> "none", over |-> FALSE, flag |-> FALSE, body |-> "unread", result |-> "none", resp |-> "none"]

\* What a handler returns: nothing, a file to send, or a Response, a redirect or a
\* bare value, which are all written as they are.
Results == {"undefined", "file", "value", "throw"}

TypeOK ==
    /\ tree \subseteq Scripts
    /\ DOMAIN entries \subseteq Paths /\ Range(order) \subseteq Paths
    /\ \A k \in DOMAIN entries :
         entries[k].route.script \in Scripts \cup {Absent} /\ entries[k].expires \in Nat
    /\ \A c \in Clients :
         /\ req[c].pc \in {"idle", "lookup", "walk", "put", "file", "require", "run",
                           "extract", "cleanup"}
         /\ req[c].vm \in {"none", "js", "over"}
         /\ req[c].result \in Results \cup {"none"}
         /\ req[c].body \in {"unread", "cached", "multipart", "lost"}

Init ==
    /\ tree \in Sites /\ past = << [tree |-> tree, from |-> 0] >>
    /\ entries = << >> /\ order = << >>
    /\ req = [c \in Clients |-> NoRequest]
    /\ now = 0 /\ requested = 0 /\ edits = 0

Set(c, r) == req' = [req EXCEPT ![c] = r]
Only(c, r) == Set(c, r) /\ UNCHANGED <<tree, past, entries, order, now, requested, edits>>

-----------------------------------------------------------------------------
(* Resolving a path.                                                       *)

IsDir(files, d) == \E f \in files : Len(f) > Len(d) /\ SubSeq(f, 1, Len(d)) = d

Found(files, f) == IF f \in files THEN [script |-> f, params |-> {}] ELSE NoRoute

\* A slip that leaves the parameter of a branch that led nowhere.
TakingKept(e, n, route) == [route EXCEPT !.params = @ \cup {<<e, n>>}]

\* The parameter e takes n segments, unless what is below it leads nowhere.
Taking(e, n, route) ==
    [route EXCEPT !.params = IF route.script = Absent THEN @ ELSE @ \cup {<<e, n>>}]

\* The first that leads to a script, with whatever those before it left in the
\* map of parameters, which they all share.
FirstOf(routes) ==
    LET Hits == {i \in DOMAIN routes : routes[i].script # Absent}
        Set_(I) == UNION {routes[i].params : i \in I}
        first == CHOOSE i \in Hits : \A j \in Hits : i <= j
    IN  IF Hits = {} THEN [NoRoute EXCEPT !.params = Set_(DOMAIN routes)]
        ELSE [routes[first] EXCEPT !.params = Set_(1..first)]

\* What a directory has for the segments that are left, walk being what its
\* subdirectories have: in the order of their priorities.
Candidates(files, path, d, walk) ==
    LET n == Len(path)
        i == Len(d) + 1
        Sub(name) == IF IsDir(files, Append(d, name)) THEN walk[Append(d, name)] ELSE NoRoute
        OfLast(f) == IF i = n THEN Found(files, f) ELSE NoRoute
    IN  << OfLast(Append(d, path[i])),
           Sub(path[i]),
           Taking(Append(d, "[p]"), 1, Sub("[p]")),
           Taking(Append(d, "[p]"), 1, OfLast(Append(d, "[p]"))),
           Taking(Append(d, "[...]"), n - i + 1, Found(files, Append(d, "[...]"))) >>

\* resolveSegments: below a directory that has taken as many segments of the
\* path as it has names, the first candidate that leads to a script; one that
\* does not is given up together with the parameter it had set.
Resolved(files, path, d, walk) ==
    IF Len(d) = Len(path) THEN Found(files, Append(d, "index"))
    ELSE FirstOf(Candidates(files, path, d, walk))

Dirs(files, path) ==
    {d \in {<<>>} \cup UNION {{SubSeq(f, 1, k) : k \in 1..(Len(f) - 1)} : f \in files} :
       Len(d) <= Len(path)}

Walks(files, path) ==
    LET Walk[d \in Dirs(files, path)] == Resolved(files, path, d, Walk) IN Walk

\* A slip that commits to an exact directory once it exists.
ResolveCommitted(files, path) ==
    IF Len(path) = 2 /\ IsDir(files, <<path[1]>>) THEN Walks(files, path)[<<path[1]>>]
    ELSE Walks(files, path)[<<>>]

Resolve(files, path) == Walks(files, path)[<<>>]

-----------------------------------------------------------------------------
(* The cache of routes.                                                    *)

\* touch: the first occurrence of the key goes to the end.
Touched(k) ==
    LET i == CHOOSE j \in DOMAIN order : order[j] = k /\ \A l \in 1..(j - 1) : order[l] # k
    IN  IF k \in Range(order) THEN Append(RemoveAt(order, i), k) ELSE order

Without(k) == [x \in DOMAIN entries \ {k} |-> entries[x]]
With(m, k, e) == [x \in DOMAIN m \cup {k} |-> IF x = k THEN e ELSE m[x]]

\* get: an expired entry leaves the map, but its key stays in the order.
GetHit(k) == k \in DOMAIN entries /\ now <= entries[k].expires

Get(k) ==
    IF GetHit(k) THEN order' = Touched(k) /\ UNCHANGED entries
    ELSE entries' = Without(k) /\ UNCHANGED order

\* put: keys are taken from the front of the order until there is room.  The
\* least number of them that makes room, or all there are.
Evicted ==
    LET Left(n) == DOMAIN entries \ {order[j] : j \in 1..n}
        Room == {n \in 0..Len(order) : Cardinality(Left(n)) < CacheMax}
    IN  IF Room = {} THEN Len(order) ELSE CHOOSE n \in Room : \A m \in Room : n <= m

Put(k, route, since) ==
    LET e == [route |-> route, since |-> since, put |-> now, expires |-> now + CacheTTL]
        gone == {order[j] : j \in 1..Evicted}
        kept == [x \in DOMAIN entries \ gone |-> entries[x]]
    IN  IF k \in DOMAIN entries
        THEN order' = Touched(k) /\ entries' = With(entries, k, e)
        ELSE /\ order' = Append(SubSeq(order, Evicted + 1, Len(order)), k)
             /\ entries' = With(kept, k, e)

-----------------------------------------------------------------------------
(* servePublic and ResolveRoute.                                           *)

\* The whitelist may refuse the client, the path may name a source; a path that
\* exists, be it as a directory of scripts, is served as a file.
Accept(c, p) ==
    LET r == [NoRequest EXCEPT !.path = p]
    IN  /\ req[c].pc = "idle" /\ requested < MaxRequests
        /\ requested' = requested + 1
        /\ \/ Set(c, NoRequest)
           \/ IsDir(tree, p) /\ Set(c, [r EXCEPT !.pc = "idle"])
           \/ ~IsDir(tree, p) /\ Set(c, [r EXCEPT !.pc = "lookup"])
        /\ UNCHANGED <<tree, past, entries, order, now, edits>>

\* What servePublic does with a route: without one, or with one that leads
\* outside, the path is served as a file.
Routed(r, route, since, put) ==
    [r EXCEPT !.pc = IF route.script = Absent \/ route.script \in Outside THEN "file" ELSE "require",
              !.route = route, !.since = since, !.put = put]

Lookup(c) ==
    LET r == req[c]
        e == entries[r.path]
    IN  /\ r.pc = "lookup"
        /\ Get(r.path)
        /\ Set(c, IF GetHit(r.path) THEN Routed(r, e.route, e.since, e.put)
                  ELSE [r EXCEPT !.pc = "walk", !.since = now])
        /\ UNCHANGED <<tree, past, now, requested, edits>>

WalkTree(c) ==
    /\ req[c].pc = "walk"
    /\ Only(c, [req[c] EXCEPT !.pc = "put", !.route = Resolve(tree, req[c].path)])

PutRoute(c) ==
    LET r == req[c]
    IN  /\ r.pc = "put"
        /\ Put(r.path, r.route, r.since)
        /\ Set(c, Routed(r, r.route, r.since, now))
        /\ UNCHANGED <<tree, past, now, requested, edits>>

ServeFile(c) == req[c].pc = "file" /\ Only(c, NoRequest)

-----------------------------------------------------------------------------
(* ServeHTTP: the script's engine, its handler and its answer.             *)

\* The engine is made and the module required.  Its own code runs
\* before there is anyone to interrupt it.
Require(c) ==
    LET r == req[c]
    IN  /\ r.pc = "require"
        /\ \/ /\ r.route.script \in tree
              /\ Only(c, [NoRequest EXCEPT !.pc = "run", !.vm = "js", !.over = r.over])
           \/ Only(c, [NoRequest EXCEPT !.pc = "cleanup", !.resp = "500"])

\* The handler's goroutine ends.
Over(r, x) == [r EXCEPT !.vm = "over", !.result = x, !.body = "unread"]

\* req.text, json, bytes and the form of a url-encoded request read the body once
\* for all of them: nothing is left of it after a multipart form was parsed.
ReadBody(c) ==
    /\ req[c].vm = "js" /\ req[c].body \in {"unread", "multipart"}
    /\ Only(c, [req[c] EXCEPT !.body = IF @ = "unread" THEN "cached" ELSE "lost"])

\* req.form of a multipart request; it throws when the body was read before.
ReadForm(c) ==
    /\ req[c].vm = "js" /\ req[c].body = "unread"
    /\ Only(c, [req[c] EXCEPT !.body = "multipart"])

Return(c) ==
    /\ req[c].vm = "js"
    /\ \E x \in Results : Only(c, Over(req[c], x))

Interrupted(c) ==
    /\ req[c].vm = "js" /\ req[c].flag
    /\ Only(c, Over(req[c], "throw"))

\* The handler's time is over, or its client is gone.
Expire(c) ==
    /\ req[c].pc \in {"require", "run", "extract"} /\ ~req[c].over
    /\ Only(c, [req[c] EXCEPT !.over = TRUE])

\* The goroutine that waits for it; it starts with the handler's.
Interrupts(c) == req[c].pc \in {"run", "extract"} /\ req[c].over /\ ~req[c].flag

Interrupt(c) == Interrupts(c) /\ Only(c, [req[c] EXCEPT !.flag = TRUE])

ReceivesOrExpires(r) == r.vm = "over" \/ r.over

\* result := <-ch
Receives(r) == r.vm = "over"

Receive(c) ==
    LET r == req[c]
    IN  /\ r.pc = "run" /\ Receives(r)
        /\ Only(c, IF r.result = "throw"
                   THEN [NoRequest EXCEPT !.pc = "cleanup", !.resp = "500", !.vm = r.vm]
                   ELSE [r EXCEPT !.pc = "extract"])

\* extractResponse and what is written.  Reading a value may run code of the
\* script, which a flag that was set too late stops: the panic ends the request.
Extract(c) ==
    LET r == req[c]
    IN  /\ r.pc = "extract"
        /\ \E resp \in {"written"} \cup (IF r.result = "file" THEN {"500"} ELSE {})
                    \cup (IF r.flag /\ r.result # "undefined" THEN {"aborted"} ELSE {}) :
             Only(c, [NoRequest EXCEPT !.pc = "cleanup", !.resp = resp, !.vm = r.vm])

\* The deferred calls: the engine is cleaned up, and the context cancelled.
Cleanup(c) == req[c].pc = "cleanup" /\ Only(c, NoRequest)

-----------------------------------------------------------------------------
\* A script is written or deleted.
Edit(s) ==
    /\ edits < MaxEdits /\ edits' = edits + 1
    /\ tree' = IF s \in tree THEN tree \ {s} ELSE tree \cup {s}
    /\ past' = Append(past, [tree |-> tree', from |-> now])
    /\ UNCHANGED <<entries, order, req, now, requested>>

Tick ==
    /\ now < MaxClock /\ now' = now + 1
    /\ UNCHANGED <<tree, past, entries, order, req, requested, edits>>

Next ==
    \/ \E c \in Clients, p \in Paths : Accept(c, p)
    \/ \E c \in Clients : Lookup(c) \/ WalkTree(c) \/ PutRoute(c) \/ ServeFile(c) \/ Require(c)
    \/ \E c \in Clients : ReadBody(c) \/ ReadForm(c) \/ Return(c)
    \/ \E c \in Clients : Interrupted(c) \/ Expire(c) \/ Interrupt(c)
    \/ \E c \in Clients : Receive(c) \/ Extract(c) \/ Cleanup(c)
    \/ \E s \in Edited : Edit(s)
    \/ Tick

Spec == Init /\ [][Next]_vars

\* The server goes on and timeouts expire; nothing is assumed of a handler, which
\* may be in a call into Go that no interrupt ends, nor of a module being loaded.
Fairness ==
    \A c \in Clients :
        /\ WF_vars(Expire(c)) /\ WF_vars(Interrupt(c)) /\ WF_vars(Receive(c))
        /\ WF_vars(Extract(c)) /\ WF_vars(Cleanup(c))

FairSpec == Spec /\ Fairness

-----------------------------------------------------------------------------
(* Properties.                                                             *)

\* A script fits a path when each of its names takes the segment at its place,
\* or, as a catch-all, all that are left; where it takes one, its rank there:
\* exact name or directory, parameter, catch-all.
Fits(f, p) ==
    LET n == Len(f)
        Along(k) == \A i \in 1..k : f[i] \in {p[i], "[p]"}
    IN  \/ f[n] = "[...]" /\ n <= Len(p) /\ Along(n - 1)
        \/ f[n] = "index" /\ n = Len(p) + 1 /\ Along(n - 1)
        \/ n = Len(p) /\ Along(n)

Rank(f, i) ==
    IF f[i] = "[...]" THEN 4
    ELSE IF f[i] = "[p]" THEN IF i = Len(f) THEN 3 ELSE 2
    ELSE IF i = Len(f) THEN 0 ELSE 1

Precedes(f, g) ==
    f # g => \E i \in DOMAIN f \cap DOMAIN g :
               Rank(f, i) < Rank(g, i) /\ \A j \in 1..(i - 1) : Rank(f, j) = Rank(g, j)

Params(f) == {i \in DOMAIN f : f[i] \in {"[p]", "[...]"}}
Plain(p) == Params(p) = {}

\* "exact match > dynamic [param] > catch-all", at the first place where two
\* scripts that fit differ: the route leads to the script that comes first among
\* all that fit the path, however deep the walk had to go before it gave up
\* another, and to none only if none fits; its parameters are those of that
\* script, and none of a branch that was given up.
Best(files, p, route) ==
    LET fit == {f \in files : Fits(f, p)}
        f == route.script
        Takes(i) == IF f[i] = "[...]" THEN Len(p) - i + 1 ELSE 1
    IN  /\ (f = Absent) = (fit = {})
        /\ f # Absent =>
             /\ f \in fit /\ \A g \in fit : Precedes(f, g)
             /\ route.params = {<<SubSeq(f, 1, i), Takes(i)>> : i \in Params(f)}

\* The k-th tree was the site's at some time from one to another.
WasSite(k, since, put) ==
    past[k].from <= put /\ (k + 1 \in DOMAIN past => since <= past[k + 1].from)

\* What answers a request, be it by the cache, was the best for its path: at
\* some time while the request that walked for it did, which put it into the
\* cache no longer ago than the cache keeps it, however often it was used in
\* between and whatever was edited.  (Of a path that spells out a name in
\* brackets the exact match takes nothing.)
RouteIsBest ==
    [][\A c \in Clients :
         req[c].pc \in {"lookup", "put"} /\ req'[c].pc \in {"require", "file"} =>
           LET r == req'[c]
           IN  /\ r.path = req[c].path /\ r.since <= r.put
               /\ r.put <= now /\ now <= r.put + CacheTTL
               /\ Plain(r.path) => \E k \in DOMAIN past :
                     WasSite(k, r.since, r.put) /\ Best(past[k].tree, r.path, r.route)]_vars

\* However hits, expiries and evictions interleave, the cache keeps its bound:
\* a key that left the order without its entry could never be evicted.
CacheIsBounded ==
    /\ Cardinality(DOMAIN entries) <= CacheMax
    /\ DOMAIN entries \subseteq Range(order)

\* The engine of a request is used by one goroutine at a time: its answer is
\* read and it is cleaned up when the handler is over, also one that timed out.
VmIsSerial == \A c \in Clients : req[c].vm = "js" => req[c].pc = "run"

-----------------------------------------------------------------------------
(* What comments promise and the code does not always keep.                *)

\* server.md:11 "Index: public/api/index.server.js -> matches /api": but the
\* directory exists, so the path is served as a file (server.go:321).
IndexIsServed ==
    [][\A c \in Clients : requested' # requested /\ req'[c].pc = "idle" /\ req'[c].path # <<>>
                            => Append(req'[c].path, "index") \notin tree]_vars

\* serverjs.go:67 "a simple bounded LRU cache": the order grows, as keys of expired
\* entries stay in it (serverjs.go:82), and then evict entries used after others.
OrderIsBounded == Len(order) <= CacheMax

\* serverjs.go:140 "Results are cached with a 1-minute TTL": an edit may stay unseen
\* for longer, as the minute begins when the route is put, not when it is walked for.
EditsAreSeen ==
    [][\A c \in Clients :
         req[c].pc = "lookup" /\ req'[c].pc \in {"require", "file"}
           => \/ Best(tree, req[c].path, req'[c].route)
              \/ now <= past[Len(past)].from + CacheTTL]_vars

\* serverjs.go:622 "Call handler(req) with timeout enforcement": the request waits for a
\* handler that is in a call into Go (serverjs.go:655).
HandlersEnd == \A c \in Clients : req[c].pc = "run" ~> req[c].pc = "idle"

\* Nor is there a time-out while the module itself is loaded (serverjs.go:603).
RequestsEnd == \A c \in Clients : req[c].pc = "require" ~> req[c].pc = "idle"

\* serverjs.go:736 "Body bytes are read once on first access and cached": not those
\* of a multipart form.
BodyIsKept == \A c \in Clients : req[c].body # "lost"

\* serverjs.go:629 "Set up timeout": it may hit the reading of a finished answer.
FinishedIsAnswered == \A c \in Clients : req[c].resp # "aborted"
=============================================================================
