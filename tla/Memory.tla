------------------------------- MODULE Memory -------------------------------
(***************************************************************************)
(* What the agent remembers (the Memory rows of internal/config/store.go,  *)
(* mem.* of bridge/mem.go, web/api_memory.go, and the daily expiry of      *)
(* cmd/altclaw/main.go).  An entry is changed by reading it and putting it *)
(* back; the expiry lists the entries and then deletes those that were due. *)
(***************************************************************************)
EXTENDS Settings, SequencesExt

CONSTANTS
    Ids,                   \* of entries (a bound)
    NoteDays, LearnedDays, \* after which those kinds expire
    RecentDays,            \* for which an entry is recent
    Room,                  \* for the prompt, 2000 characters; a line is 1
    MaxDays                \* bound on the clock

ASSUME MemoryAssumption ==
    /\ Ids \subseteq Nat \ {0}
    /\ {NoteDays, LearnedDays, RecentDays, Room, MaxDays} \subseteq Nat

VARIABLES
    memory,   \* the entries of each scope, by id
    day,
    getter,   \* what each client has read to change it
    sweeper   \* the expiry: whether it runs, and what it still is to delete

memVars == <<memory, day, getter, sweeper>>

Kinds == {"core", "learned", "note"}
NoEntry == [kind |-> "none", born |-> 0]
NoEntries == [i \in Ids |-> NoEntry]
NoPrompt == [core |-> {}, recent |-> {}, older |-> 0, len |-> 0]
NoGet == [pc |-> "idle", scope |-> "user", id |-> 0, entry |-> NoEntry, list |-> NoEntries,
          prompt |-> NoPrompt]

InitMemory ==
    /\ memory = [s \in Scopes |-> NoEntries]
    /\ day = 0
    /\ getter = [c \in Clients |-> NoGet]
    /\ sweeper = [pc |-> "new", todo |-> {}]

Due(e) == \/ e.kind = "learned" /\ day - e.born > LearnedDays
          \/ e.kind = "note" /\ day - e.born > NoteDays

Ready(c) == getter[c].pc = "idle" /\ Called("memory")

\* mem.add, and a new entry of the web page.
AddMemory(c, s, i, k) ==
    /\ Ready(c)
    /\ \A r \in Scopes : memory[r][i] = NoEntry
    /\ memory' = [memory EXCEPT ![s][i] = [kind |-> k, born |-> day]]
    /\ UNCHANGED <<restVars, faults, day, getter, sweeper>>

\* mem.promote and the page's editing read the entry ...
GetMemory(c, s, i, k) ==
    /\ Ready(c)
    /\ memory[s][i] # NoEntry
    /\ getter' = [getter EXCEPT ![c] = [NoGet EXCEPT !.pc = "put", !.scope = s, !.id = i,
                                                 !.entry = [memory[s][i] EXCEPT !.kind = k]]]
    /\ UNCHANGED <<restVars, faults, memory, day, sweeper>>

\* ... and put it back changed, whatever became of it.
PutMemory(c) ==
    LET g == getter[c]
    IN  /\ g.pc = "put"
        /\ memory' = [memory EXCEPT ![g.scope][g.id] = g.entry]
        /\ getter' = [getter EXCEPT ![c] = NoGet]
        /\ UNCHANGED <<settingsVars, day, sweeper>>

\* mem.rm; the store does not tell whether there was such an entry in that scope.
DeleteMemory(c, s, i) ==
    /\ Ready(c)
    /\ memory' = [memory EXCEPT ![s][i] = NoEntry]
    /\ UNCHANGED <<restVars, faults, day, getter, sweeper>>

\* What a turn's prompt says of the entries, the workspace's first: every core one,
\* the recent ones that have room, and how many others there are.
Lines(s, list) ==
    [n \in 1..Cardinality({i \in Ids : list[i] # NoEntry}) |->
       LET i == SetToSortSeq({j \in Ids : list[j] # NoEntry}, <)[n] IN [key |-> <<s, i>>, entry |-> list[i]]]

Prompt(workspace, user) ==
    LET Core(p, key) == [p EXCEPT !.core = @ \cup {key}, !.len = @ + 1]
        Recent(p, key) == [p EXCEPT !.recent = @ \cup {key}, !.len = @ + 1]
        Put(p, line) ==
          IF line.entry.kind = "core" THEN Core(p, line.key)
          ELSE IF day - line.entry.born < RecentDays /\ p.len < Room THEN Recent(p, line.key)
          ELSE [p EXCEPT !.older = @ + 1]
    IN  FoldLeft(Put, NoPrompt, Lines("workspace", workspace) \o Lines("user", user))

\* BuildMemoryPrompt lists the user's entries, and then the workspace's.
ListMemory(c) ==
    /\ Ready(c)
    /\ getter' = [getter EXCEPT ![c] = [NoGet EXCEPT !.pc = "list", !.list = memory["user"]]]
    /\ UNCHANGED <<restVars, faults, memory, day, sweeper>>

BuildMemoryPrompt(c) ==
    /\ getter[c].pc = "list"
    /\ getter' = [getter EXCEPT ![c] = [NoGet EXCEPT !.pc = "prompt",
                                                    !.prompt = Prompt(memory["workspace"], getter[c].list)]]
    /\ UNCHANGED <<settingsVars, memory, day, sweeper>>

Prompts(c) ==
    /\ getter[c].pc = "prompt"
    /\ getter' = [getter EXCEPT ![c] = NoGet]
    /\ UNCHANGED <<settingsVars, memory, day, sweeper>>

\* When the program starts and then every day: those of the workspace that are due ...
ExpireAtStart ==
    /\ "memory" \in uses /\ sweeper.pc = "new"
    /\ sweeper' = [pc |-> "sweep", todo |-> {i \in Ids : Due(memory["workspace"][i])}]
    /\ UNCHANGED <<settingsVars, memory, day, getter>>

Expire ==
    /\ "memory" \in uses /\ sweeper.pc # "sweep"
    /\ sweeper' = [pc |-> "sweep", todo |-> {i \in Ids : Due(memory["workspace"][i])}]
    /\ UNCHANGED <<settingsVars, memory, day, getter>>

\* ... are deleted one by one, by their id; a failure is passed over.
ExpireEntry ==
    /\ sweeper.pc = "sweep" /\ sweeper.todo # {}
    /\ \E i \in sweeper.todo :
         /\ sweeper' = [sweeper EXCEPT !.todo = @ \ {i}]
         /\ \/ memory' = [memory EXCEPT !["workspace"][i] = NoEntry] /\ UNCHANGED faults
            \/ Faulty /\ UNCHANGED memory
    /\ UNCHANGED <<restVars, calls, day, getter>>

Expired ==
    /\ sweeper.pc = "sweep" /\ sweeper.todo = {}
    /\ sweeper' = [sweeper EXCEPT !.pc = "wait"]
    /\ UNCHANGED <<settingsVars, memory, day, getter>>

NextDay ==
    /\ "memory" \in uses /\ day < MaxDays
    /\ day' = day + 1
    /\ UNCHANGED <<settingsVars, memory, getter, sweeper>>

MemoryStep ==
    \/ \E c \in Clients, s \in Scopes, i \in Ids, k \in Kinds : AddMemory(c, s, i, k) \/ GetMemory(c, s, i, k)
    \/ \E c \in Clients : PutMemory(c) \/ ListMemory(c) \/ BuildMemoryPrompt(c) \/ Prompts(c)
    \/ \E c \in Clients, s \in Scopes, i \in Ids : DeleteMemory(c, s, i)
    \/ Expire \/ ExpireEntry \/ Expired \/ NextDay

\* A restart forgets who was changing what, and begins with an expiry.
MemoryRestarts ==
    IF lives' # lives
    THEN /\ getter' = [c \in Clients |-> NoGet] /\ sweeper' = [pc |-> "new", todo |-> {}]
         /\ UNCHANGED <<memory, day>>
    ELSE UNCHANGED memVars

\* The expiry has a goroutine and a ticker of its own.
MemoryFairness ==
    LET A == Expire \/ ExpireEntry \/ Expired IN WF_<<settingsVars, memVars>>(A)

-----------------------------------------------------------------------------
(* Properties.                                                             *)

\* models.go:325: an entry of the workspace that is due goes (or has become another
\* kind), although deletions may fail, expiries are cut short by a stop of the
\* program, and whoever had read it may put it back.
DueIsForgotten ==
    \A i \in Ids : Due(memory["workspace"][i]) ~> ~Due(memory["workspace"][i])

-----------------------------------------------------------------------------
(* What comments promise and the code does not always keep.                *)

\* models.go:325 "core (permanent)": an entry promoted after the expiry listed it
\* is deleted by it (store.go:590).
CoreIsKept ==
    [][\A i \in Ids : memory["workspace"][i].kind = "core" /\ sweeper'.todo # sweeper.todo
         => memory'["workspace"][i].kind = "core"]_<<settingsVars, memVars>>

\* store.go:627 maxPromptChars: the core entries come in without regard to it.
PromptFits == \A c \in Clients : getter[c].prompt.len <= Room

\* store.go:684 "%d older entries not shown": recent ones that had no room are among them.
OlderAreOlder ==
    \A c \in Clients : getter[c].pc = "prompt" /\ getter[c].prompt.older > 0
        => \E s \in Scopes, i \in Ids : memory[s][i] # NoEntry /\ day - memory[s][i].born >= RecentDays

\* main.go:207 "Deletes learned entries older than 30 days": of the workspace only.
UserScopeExpires ==
    \A i \in Ids : Due(memory["user"][i]) ~> ~Due(memory["user"][i])

\* mem.go:99: a removed entry comes back with a promotion or an edit that had read it.
RemovedStaysRemoved ==
    [][\A s \in Scopes, i \in Ids : memory[s][i] = NoEntry /\ memory'[s][i] # NoEntry
         => \A c \in Clients : getter[c].pc = "idle"]_<<settingsVars, memVars>>
=============================================================================
