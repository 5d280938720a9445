------------------------------- MODULE Usage -------------------------------
(***************************************************************************)
(* What the use of providers is limited by (the beginning of Agent.Send,   *)
(* util/ratelimit.go, and the TokenUsage rows of internal/config/store.go): *)
(* a turn begins when the workspace had fewer turns than the limit in the  *)
(* last minute and the day's counts are below their caps; every call to    *)
(* the provider in the turn is then added to the workspace's count and to  *)
(* the provider's.  The counts are cached, and the cache is written after  *)
(* the row, apart from it.  A call counts one; the day does not end.       *)
(***************************************************************************)
EXTENDS Settings, Sequences

CONSTANTS
    Rates,     \* the limits in force: the workspace's, a provider's own
    Minute,    \* its length, in ticks of the clock
    Cap,       \* the daily cap of each count, 0 for a provider without one
    MaxTurns, MaxClock  \* bounds

Counted == {"workspace", "provider"}

ASSUME UsageAssumption ==
    /\ Rates \subseteq Nat \ {0} /\ Minute \in Nat \ {0}
    /\ Cap \in [Counted -> Nat] /\ Cap["workspace"] > 0
    /\ {MaxTurns, MaxClock} \subseteq Nat

VARIABLES
    usage,    \* the day's row of each count
    cached,   \* Store.tokenCounts: None where there is no entry
    today,    \* Store.tokenToday is the day: some row was written in it
    rowMu,    \* who holds the row's mutex
    caller,   \* what each turn, and each reader of the counts, is doing
    stamps,   \* the limiter's timestamps of the workspace
    now,      \* the time
    begun,    \* history: the turns admitted in this life, each with its time and limit
    counted   \* history: the calls counted since a row could not be read

None == 99
usageVars == <<usage, cached, today, rowMu, caller, stamps, now, begun, counted>>

NoTurn == [pc |-> "idle", l |-> "workspace", n |-> 0, fresh |-> FALSE, turn |-> FALSE]
Nowhere == [l \in Counted |-> None]
Unheld == [l \in Counted |-> Nobody]

InitUsage ==
    /\ usage = [l \in Counted |-> 0] /\ counted = usage
    /\ cached = Nowhere /\ today = FALSE /\ rowMu = Unheld
    /\ caller = [c \in Clients |-> NoTurn]
    /\ stamps = <<>> /\ begun = <<>> /\ now = 0

Turns(c, r) == caller' = [caller EXCEPT ![c] = r]
TurnEnds(c) == Turns(c, NoTurn)

-----------------------------------------------------------------------------
(* The beginning of a turn.                                                *)

Allow(c, limit) ==
    LET valid == SelectSeq(stamps, LAMBDA t : t + Minute > now)
    IN  /\ "turns" \in uses /\ caller[c].pc = "idle" /\ Len(begun) < MaxTurns
        /\ IF Len(valid) >= limit THEN stamps' = valid /\ UNCHANGED <<caller, begun>>
           ELSE /\ stamps' = Append(valid, now)
                /\ begun' = Append(begun, [at |-> now, limit |-> limit])
                /\ Turns(c, [NoTurn EXCEPT !.pc = "check", !.turn = TRUE])
        /\ UNCHANGED <<settingsVars, usage, cached, today, rowMu, now, counted>>

\* With a count known: the turn is refused, checks the next or goes on.  A
\* reader has what it wanted.
Knows(c, n) ==
    LET r == caller[c]
        next == IF r.l = "workspace" /\ Cap["provider"] > 0
                THEN [NoTurn EXCEPT !.pc = "check", !.l = "provider", !.turn = TRUE]
                ELSE [NoTurn EXCEPT !.pc = "run", !.turn = TRUE]
    IN  Turns(c, IF ~r.turn \/ n >= Cap[r.l] THEN NoTurn ELSE next)

\* TodayTokenUsage: from the cache; or from the row (one that cannot be read
\* counts as none) ...
TodayTokenUsage(c) ==
    LET r == caller[c]
    IN  /\ r.pc = "check"
        /\ \/ cached[r.l] # None /\ Knows(c, cached[r.l]) /\ UNCHANGED faults
           \/ /\ cached[r.l] = None
              /\ Turns(c, [r EXCEPT !.pc = "warm", !.n = usage[r.l]])
              /\ UNCHANGED faults
           \/ cached[r.l] = None /\ Faulty /\ Knows(c, 0)
        /\ UNCHANGED <<restVars, calls, usage, cached, today, rowMu, stamps, now, begun, counted>>

\* ... which then goes into a cache that is of the day.
WarmCache(c) ==
    /\ caller[c].pc = "warm"
    /\ cached' = IF today THEN [cached EXCEPT ![caller[c].l] = caller[c].n] ELSE cached
    /\ Knows(c, caller[c].n)
    /\ UNCHANGED <<settingsVars, usage, today, rowMu, stamps, now, begun, counted>>

\* The pages that show the day's use.
TokenUsage(c, l) ==
    /\ caller[c].pc = "idle" /\ Called("calls")
    /\ Turns(c, [NoTurn EXCEPT !.pc = "check", !.l = l])
    /\ UNCHANGED <<restVars, faults, usage, cached, today, rowMu, stamps, now, begun, counted>>

-----------------------------------------------------------------------------
(* Its calls to the provider, each counted by IncrementTokenUsage.         *)

CallProvider(c) ==
    /\ caller[c].pc = "run" /\ Called("calls")
    /\ Turns(c, [caller[c] EXCEPT !.pc = "get", !.l = "workspace"])
    /\ UNCHANGED <<restVars, faults, usage, cached, today, rowMu, stamps, now, begun, counted>>

EndTurn(c) ==
    /\ caller[c].pc = "run"
    /\ TurnEnds(c)
    /\ UNCHANGED <<settingsVars, usage, cached, today, rowMu, stamps, now, begun, counted>>

\* upsertTokenRow: the row is read under a mutex of its own; one that cannot be
\* read counts as none ...
RowIsFreeAlways(l) == TRUE
RowIsFree(l) == rowMu[l] = Nobody

GetRow(c) ==
    LET r == caller[c]
    IN  /\ r.pc = "get" /\ RowIsFree(r.l)
        /\ rowMu' = [rowMu EXCEPT ![r.l] = c]
        /\ \/ Turns(c, [r EXCEPT !.pc = "put", !.n = usage[r.l] + 1]) /\ UNCHANGED faults
           \/ Faulty /\ Turns(c, [r EXCEPT !.pc = "put", !.n = 1, !.fresh = TRUE])
        /\ UNCHANGED <<restVars, calls, usage, cached, today, stamps, now, begun, counted>>

\* ... put, and its mutex released; when the Put fails neither the cache nor
\* the provider's row is written ...
PutRow(c) ==
    LET r == caller[c]
    IN  /\ r.pc = "put"
        /\ \/ /\ usage' = [usage EXCEPT ![r.l] = r.n]
              /\ counted' = [counted EXCEPT ![r.l] = IF r.fresh THEN 1 ELSE @ + 1]
              /\ Turns(c, [r EXCEPT !.pc = "cache"]) /\ UNCHANGED faults
           \/ /\ Faulty
              /\ Turns(c, [NoTurn EXCEPT !.pc = "run", !.turn = TRUE])
              /\ UNCHANGED <<usage, counted>>
        /\ rowMu' = [rowMu EXCEPT ![r.l] = Nobody]
        /\ UNCHANGED <<restVars, calls, cached, today, stamps, now, begun>>

\* ... and the cache is updated, which begins anew with the day.
CacheRow(c) ==
    LET r == caller[c]
    IN  /\ r.pc = "cache"
        /\ cached' = [IF today THEN cached ELSE Nowhere EXCEPT ![r.l] = r.n]
        /\ today' = TRUE
        /\ Turns(c, IF r.l = "workspace" THEN [NoTurn EXCEPT !.pc = "get", !.l = "provider", !.turn = TRUE]
                    ELSE [NoTurn EXCEPT !.pc = "run", !.turn = TRUE])
        /\ UNCHANGED <<settingsVars, usage, rowMu, stamps, now, begun, counted>>

Tick ==
    /\ "clock" \in uses /\ now < MaxClock
    /\ now' = now + 1
    /\ UNCHANGED <<settingsVars, usage, cached, today, rowMu, caller, stamps, begun, counted>>

UsageStep ==
    \/ \E c \in Clients : \/ \E limit \in Rates : Allow(c, limit)
                          \/ TodayTokenUsage(c) \/ WarmCache(c)
                          \/ \E l \in Counted : TokenUsage(c, l)
                          \/ CallProvider(c) \/ EndTurn(c) \/ GetRow(c) \/ PutRow(c) \/ CacheRow(c)
    \/ Tick

\* Of a restart only the rows are left.
UsageRestarts ==
    IF lives' # lives
    THEN /\ cached' = Nowhere /\ today' = FALSE /\ rowMu' = Unheld
         /\ caller' = [c \in Clients |-> NoTurn] /\ stamps' = <<>> /\ begun' = <<>>
         /\ UNCHANGED <<usage, now, counted>>
    ELSE UNCHANGED usageVars

-----------------------------------------------------------------------------
(* Properties.                                                             *)

\* Calls that end at the same time are all counted in the day's rows, since they
\* last could not be read (see UsageNeverFalls).
UsageIsExact == \A l \in Counted : usage[l] = counted[l]

\* A turn that was let in under a limit was one of at most that many in the minute
\* that ends with it, although providers with limits of their own share the
\* workspace's timestamps; but for a restart, which forgets them.
RateHolds ==
    \A i \in DOMAIN begun :
      Cardinality({j \in 1..i : begun[j].at + Minute > begun[i].at}) <= begun[i].limit

-----------------------------------------------------------------------------
(* What comments promise and the code does not always keep.                *)

\* models.go:83 "Max input tokens per day": checked when a turn begins, not before
\* its calls, and against a cache that may lag behind the row (store.go:742).
CapHolds == \A l \in Counted : Cap[l] > 0 => usage[l] <= Cap[l]

\* The same of turns: none begins with its caps used up, and no call being counted.
CapStopsTurns ==
    [][\A c \in Clients :
         /\ caller[c].pc \in {"check", "warm"} /\ caller'[c].pc = "run"
         /\ \A d \in Clients : caller[d].pc \notin {"put", "cache"}
         => \A l \in Counted : Cap[l] > 0 => usage[l] < Cap[l]]_<<settingsVars, usageVars>>

\* store.go:698 "atomically adds prompt/completion counts": to the workspace's row
\* and not to the provider's when that fails.
CountsAgree ==
    (\A c \in Clients : caller[c].pc \notin {"get", "put", "cache"})
        => usage["workspace"] = usage["provider"]

\* store.go:721 "atomically increments a single token usage row": from zero when it
\* cannot be read.
UsageNeverFalls == [][\A l \in Counted : usage'[l] >= usage[l]]_<<settingsVars, usageVars>>

\* store.go:722 "and updates the in-memory cache": not always to the row's latest.
CacheFollows ==
    (\A c \in Clients : caller[c].pc = "idle") => \A l \in Counted : cached[l] \in {usage[l], None}
=============================================================================
