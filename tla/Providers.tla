------------------------------ MODULE Providers ------------------------------
(***************************************************************************)
(* The limits on requests to AI providers (internal/provider/provider.go): *)
(* a rate per endpoint and a semaphore per endpoint, both global, and both *)
(* set again whenever an agent is built (cmd/altclaw/main.go), also while  *)
(* requests wait and are in flight.                                        *)
(***************************************************************************)
EXTENDS Naturals, Sequences, FiniteSets

CONSTANTS
    Requests,  \* calls of ChatStream
    Bases,     \* the endpoints, as the requests name them
    Unnamed,   \* those whose provider was configured without a URL
    Widths,    \* provider_concurrency; 0 is unlimited
    RPMs,      \* the rates of endpoints
    MaxBuilds  \* bound

ASSUME ProvidersAssumption ==
    /\ Unnamed \subseteq Bases /\ Widths \subseteq Nat /\ RPMs \subseteq Nat \ {0}
    /\ MaxBuilds \in Nat \ {0} /\ IsFiniteSet(Requests)

VARIABLES
    sizes,    \* semSize, and those before it
    held,     \* the channels' lengths; a reset of semMap begins new channels
    rpmOf,    \* provRPMMap, 0 where it has no entry: unlimited
    recent,   \* the endpoint's timestamps of the last minute
    request   \* what each request is doing, and its semaphore

providerVars == <<sizes, held, rpmOf, recent, request>>

Channels == (1..MaxBuilds) \X Bases
Unlimited == <<0, 0>>
NoRequest == [pc |-> "idle", base |-> Unlimited, sem |-> Unlimited]

InitProviders ==
    /\ sizes = <<>>
    /\ held = [ch \in Channels |-> 0]
    /\ rpmOf = [e \in Bases |-> 0] /\ recent = rpmOf
    /\ request = [r \in Requests |-> NoRequest]

\* The key under which an agent's rate is set is the configured URL, or else the
\* type of the provider: then no request looks it up.
Keys(e) == {e} \ Unnamed

BuildAgent(e, n, rpm) ==
    /\ Len(sizes) < MaxBuilds
    /\ sizes' = Append(sizes, n)
    /\ rpmOf' = [k \in Bases |-> IF k \in Keys(e) THEN rpm ELSE rpmOf[k]]
    /\ UNCHANGED <<held, recent, request>>

\* checkProviderRPM, for an agent: refused, or one more in this minute.
CheckProviderRPM(r, e) ==
    /\ request[r].pc = "idle" /\ sizes # <<>>
    /\ \/ rpmOf[e] > 0 /\ recent[e] >= rpmOf[e] /\ UNCHANGED <<recent, request>>
       \/ /\ rpmOf[e] = 0 \/ recent[e] < rpmOf[e]
          /\ recent' = [recent EXCEPT ![e] = IF rpmOf[e] = 0 THEN @ ELSE @ + 1]
          /\ request' = [request EXCEPT ![r] = [NoRequest EXCEPT !.pc = "find", !.base = e]]
    /\ UNCHANGED <<sizes, held, rpmOf>>

MinuteEnds(e) ==
    /\ recent[e] > 0
    /\ recent' = [recent EXCEPT ![e] = @ - 1]
    /\ UNCHANGED <<sizes, held, rpmOf, request>>

\* acquireSem, under semMu: the endpoint's channel of now ...
FindSem(r) ==
    /\ request[r].pc = "find"
    /\ request' = [request EXCEPT ![r] =
         IF sizes[Len(sizes)] = 0 THEN [@ EXCEPT !.pc = "flight"]
         ELSE [@ EXCEPT !.pc = "wait", !.sem = <<Len(sizes), request[r].base>>]]
    /\ UNCHANGED <<sizes, held, rpmOf, recent>>

\* ... then, without it, a place in that, unless the call is cancelled before.
AcquireSem(r) ==
    LET sem == request[r].sem
    IN  /\ request[r].pc = "wait" /\ held[sem] < sizes[sem[1]]
        /\ held' = [held EXCEPT ![sem] = @ + 1]
        /\ request' = [request EXCEPT ![r].pc = "flight"]
        /\ UNCHANGED <<sizes, rpmOf, recent>>

AcquireCancelled(r) ==
    /\ request[r].pc = "wait"
    /\ request' = [request EXCEPT ![r] = NoRequest]
    /\ UNCHANGED <<sizes, held, rpmOf, recent>>

\* The release function receives from the channel that acquireSem had found.
SemNow(r) == <<Len(sizes), request[r].base>>
SemOf(r) == request[r].sem

Release(r) ==
    /\ request[r].pc = "flight"
    /\ IF request[r].sem = Unlimited THEN UNCHANGED held
       ELSE held[SemOf(r)] > 0 /\ held' = [held EXCEPT ![SemOf(r)] = @ - 1]
    /\ request' = [request EXCEPT ![r] = NoRequest]
    /\ UNCHANGED <<sizes, rpmOf, recent>>

ProvidersNext ==
    \/ \E e \in Bases, n \in Widths, rpm \in RPMs : BuildAgent(e, n, rpm)
    \/ \E r \in Requests, e \in Bases : CheckProviderRPM(r, e)
    \/ \E e \in Bases : MinuteEnds(e)
    \/ \E r \in Requests : FindSem(r) \/ AcquireSem(r) \/ AcquireCancelled(r) \/ Release(r)

-----------------------------------------------------------------------------
(* Properties.                                                             *)

InFlight(sem) == {r \in Requests : request[r].pc = "flight" /\ request[r].sem = sem}

\* However often the limit is set again while requests wait and are in flight,
\* every place is taken by a request and given back by it: no semaphore lets more
\* in than its size, and no request waits to give back what others did.
SlotsHold ==
    \A sem \in Channels :
      held[sem] = Cardinality(InFlight(sem)) /\ (held[sem] > 0 => held[sem] <= sizes[sem[1]])

-----------------------------------------------------------------------------
(* What comments promise and the code does not always keep.                *)

\* provider.go:22 "the maximum number of concurrent in-flight requests allowed per
\* provider endpoint": those that got in before a reset are not counted.
InFlightIsBounded ==
    sizes # <<>> => \A e \in Bases :
        LET all == {r \in Requests : request[r].pc = "flight" /\ request[r].base = e}
        IN  \E i \in DOMAIN sizes : sizes[i] = 0 \/ Cardinality(all) <= sizes[i]

\* main.go:256 "Rate limit per endpoint: provider override": not where the provider
\* has no URL of its own.
RateIsSet == [][\A e \in Bases, n \in Widths, rpm \in RPMs : BuildAgent(e, n, rpm) => rpmOf'[e] = rpm]_providerVars
=============================================================================
