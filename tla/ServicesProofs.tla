--------------------------- MODULE ServicesProofs ---------------------------
(***************************************************************************)
(* Proofs about the services of one process, while all of them run.  First *)
(* what outlives it: the settings and their rows, the counts of usage, and *)
(* the folders of the modules, for any number of clients, calls, faults    *)
(* and restarts.  Then the limits of the providers, the log, the terminal, *)
(* the watched files and the events, for any number of requests, records,  *)
(* chats, directories, pages and senders.                                  *)
(***************************************************************************)
EXTENDS Services, FiniteSetTheorems, TLAPS

-----------------------------------------------------------------------------
(* The settings.                                                           *)

Values == [Fields -> BOOLEAN]
Calls == [pc : {"idle", "ask", "take", "encode", "write", "init", "set", "save"},
          via : {"web", "ui"}, scope : Scopes, f : Fields, val : BOOLEAN, gen : Nat, snap : Values, n : Nat]

SettingsTypeOK ==
    /\ live \in [Scopes -> Values] /\ disk \in [Scopes -> Values] /\ old \in [Scopes -> Values]
    /\ cl \in [Clients -> Calls]
    /\ resets \in Nat

\* Who saves the workspace: from the change in memory to the row.
Saves(c) == cl[c].pc \in {"encode", "write"} /\ cl[c].scope = "workspace"

\* It holds the lock, which keeps the object in its place; what it is about to
\* write is what memory says, but for a profile.
SaversHoldTheLock ==
    \A c \in Clients : Saves(c) =>
      /\ mu = c
      /\ cl[c].pc = "encode" => cl[c].gen = resets
      /\ cl[c].pc = "write" => behind \/ cl[c].snap = live["workspace"]

\* The switch that was saved as on is on in memory and in the row, and nobody is
\* about to write that it is off; one who saves it as on will, unless a profile
\* has turned it off, and there is one as long as the lock is held.
SwitchIsKept ==
    /\ "workspace" \in promised => live["workspace"]["gate"] /\ disk["workspace"]["gate"]
    /\ \A c \in Clients : Saves(c) =>
         /\ cl[c].pc = "write" /\ "workspace" \in promised => cl[c].snap["gate"]
         /\ cl[c].f = "gate" /\ cl[c].val =>
              \/ ~live["workspace"]["gate"] /\ prof # 0
              \/ cl[c].pc = "encode" /\ live["workspace"]["gate"]
              \/ cl[c].pc = "write" /\ cl[c].snap["gate"]

WorkspaceInv == SettingsTypeOK /\ SaversHoldTheLock /\ WorkspaceIsSaved /\ SwitchIsKept

\* A client without a call.
LEMMA NoCallIsCall == NoCall \in Calls /\ NoCall.pc = "idle"
  BY DEF NoCall, Calls, Values, Scopes, Fields

\* Init: memory and rows agree, nobody holds the lock.
LEMMA WorkspaceInit == Init => WorkspaceInv
  <1> SUFFICES ASSUME Init PROVE WorkspaceInv
    OBVIOUS
  <1>1. Defaults \in Values /\ \A g \in Fields : ~Defaults[g]
    BY DEF Defaults, Values
  <1>3. SettingsTypeOK
    BY <1>1, NoCallIsCall DEF Init, SettingsTypeOK
  <1>4. \A c \in Clients : ~Saves(c)
    BY DEF Init, Saves, NoCall
  <1>5. disk = live /\ promised = {}
    BY DEF Init
  <1> QED
    BY <1>3, <1>4, <1>5 DEF WorkspaceInv, SaversHoldTheLock, WorkspaceIsSaved, SwitchIsKept

\* What only counts calls or faults leaves the settings as they are.
LEMMA WorkspaceStutter == WorkspaceInv /\ UNCHANGED restVars => WorkspaceInv'
  BY DEF restVars, setVars, provVars, WorkspaceInv, SettingsTypeOK, SaversHoldTheLock, WorkspaceIsSaved,
         SwitchIsKept, Saves

\* What a step of one call leaves of the others.
LEMMA OneCall ==
    ASSUME SettingsTypeOK, NEW c \in Clients, NEW r \in Calls, cl' = [cl EXCEPT ![c] = r]
    PROVE  /\ cl' \in [Clients -> Calls] /\ cl'[c] = r
           /\ \A d \in Clients : d # c => cl'[d] = cl[d] /\ (Saves(d)' <=> Saves(d))
           /\ (Saves(c)' <=> r.pc \in {"encode", "write"} /\ r.scope = "workspace")
  BY DEF SettingsTypeOK, Saves

\* A step of a call that does not save the workspace, and does not come to.
LEMMA OtherCalls ==
    ASSUME WorkspaceInv, NEW c \in Clients, NEW r \in Calls, cl' = [cl EXCEPT ![c] = r],
           ~Saves(c), r.pc \notin {"encode", "write"},
           UNCHANGED <<live, old, disk, reset, mu, resets, behind, promised>>,
           prof' = prof \/ (prof # 0 /\ prof' # 0)
    PROVE  WorkspaceInv'
  <1>1. /\ cl' \in [Clients -> Calls] /\ ~Saves(c)'
        /\ \A d \in Clients : d # c => cl'[d] = cl[d] /\ (Saves(d)' <=> Saves(d))
    BY OneCall DEF WorkspaceInv
  <1>2. SettingsTypeOK'
    BY <1>1 DEF WorkspaceInv, SettingsTypeOK
  <1>3. SaversHoldTheLock'
    BY <1>1 DEF WorkspaceInv, SaversHoldTheLock
  <1>4. \A d \in Clients : (Saves(d)' <=> Saves(d))
    BY <1>1
  <1>5. WorkspaceIsSaved'
    BY <1>4 DEF WorkspaceInv, WorkspaceIsSaved, Saves
  <1>6. SwitchIsKept'
    BY <1>1 DEF WorkspaceInv, SwitchIsKept
  <1> QED
    BY <1>2, <1>3, <1>5, <1>6 DEF WorkspaceInv

\* Take changes memory under the lock, or replaces the object first.
LEMMA TakeStep == ASSUME WorkspaceInv, NEW c \in Clients, Take(c) PROVE WorkspaceInv'
  <1> DEFINE r == cl[c]
  <1>0. /\ r \in Calls /\ r.pc = "take" /\ ~Saves(c) /\ NoCall \in Calls
        /\ UNCHANGED <<old, disk, locked, reset, prof, resets>>
    BY NoCallIsCall DEF WorkspaceInv, SettingsTypeOK, Take, Saves, provVars
  <1>1. r.scope \in Scopes /\ r.f \in Fields /\ r.val \in BOOLEAN
    BY <1>0 DEF Calls
  \* Without the lock only the user's settings are changed.
  <1>2. r.scope = "workspace" => mu = Nobody /\ \A d \in Clients : ~Saves(d)
    BY SettingsAssumption DEF Take, Locks, WorkspaceInv, SaversHoldTheLock
  <1>3. live' = [live EXCEPT ![r.scope][r.f] = r.val]
          => /\ live' \in [Scopes -> Values] /\ live'[r.scope][r.f] = r.val
             /\ \A g \in Fields : g # r.f => live'[r.scope][g] = live[r.scope][g]
             /\ \A s \in Scopes : s # r.scope => live'[s] = live[s]
    BY <1>1 DEF WorkspaceInv, SettingsTypeOK, Values
  <1>4. CASE Loaded(r.scope) /\ live' = [live EXCEPT ![r.scope][r.f] = r.val]
             /\ mu' = (IF Locks(c) THEN c ELSE mu)
             /\ Go(c, [r EXCEPT !.pc = "encode", !.gen = resets, !.via = "web"])
             /\ promised' = Kept(r.scope, r.f, r.val) /\ UNCHANGED behind
    <2> DEFINE q == [r EXCEPT !.pc = "encode", !.gen = resets, !.via = "web"]
    <2>1. q \in Calls /\ q.pc = "encode" /\ q.gen = resets /\ q.scope = r.scope /\ q.f = r.f /\ q.val = r.val
      BY <1>0 DEF Calls, WorkspaceInv, SettingsTypeOK
    <2>2. cl' = [cl EXCEPT ![c] = q]
      BY <1>4 DEF Go
    <2> HIDE DEF q
    <2>3. /\ cl' \in [Clients -> Calls] /\ cl'[c] = q
          /\ \A d \in Clients : d # c => cl'[d] = cl[d] /\ (Saves(d)' <=> Saves(d))
          /\ (Saves(c)' <=> r.scope = "workspace")
      BY <2>1, <2>2, OneCall DEF WorkspaceInv
    <2>4. SettingsTypeOK'
      BY <1>0, <1>3, <1>4, <2>3 DEF WorkspaceInv, SettingsTypeOK
    <2>5. CASE r.scope = "workspace"
      <3>1. \A d \in Clients : Saves(d)' => d = c
        BY <1>2, <2>3, <2>5
      <3>2. Saves(c)' /\ mu' = c
        BY <1>4, <2>3, <2>5 DEF Locks
      <3>3. SaversHoldTheLock'
        BY <1>0, <2>1, <2>3, <3>1, <3>2 DEF SaversHoldTheLock
      <3>4. WorkspaceIsSaved'
        BY <3>2 DEF WorkspaceIsSaved, Saves
      <3>5. "workspace" \in promised' => live'["workspace"]["gate"] /\ disk'["workspace"]["gate"]
        BY <1>0, <1>1, <1>3, <1>4, <2>5 DEF WorkspaceInv, SwitchIsKept, Fields, Kept
      <3>6. SwitchIsKept'
        BY <1>1, <1>3, <1>4, <2>1, <2>3, <2>5, <3>1, <3>5 DEF SwitchIsKept
      <3> QED
        BY <2>4, <3>3, <3>4, <3>6 DEF WorkspaceInv
    <2>6. CASE r.scope # "workspace"
      <3>1. ~Saves(c)' /\ live'["workspace"] = live["workspace"] /\ ("workspace" \in promised' <=> "workspace" \in promised)
        BY <1>3, <1>4, <2>3, <2>6 DEF Scopes, Kept
      <3>2. \A d \in Clients : Saves(d) => mu' = mu
        BY <1>4, SettingsAssumption DEF Take, WorkspaceInv, SaversHoldTheLock
      <3>3. SaversHoldTheLock'
        BY <1>0, <1>4, <2>3, <3>1, <3>2 DEF WorkspaceInv, SaversHoldTheLock
      <3>4. \A d \in Clients : (Saves(d)' <=> Saves(d))
        BY <1>0, <2>3, <3>1
      <3>5. WorkspaceIsSaved'
        BY <1>0, <1>4, <3>1, <3>4 DEF WorkspaceInv, WorkspaceIsSaved, Saves
      <3>6. SwitchIsKept'
        BY <1>0, <2>3, <3>1 DEF WorkspaceInv, SwitchIsKept
      <3> QED
        BY <2>4, <3>3, <3>5, <3>6 DEF WorkspaceInv
    <2> QED
      BY <2>5, <2>6
  <1>5. CASE /\ live' = [live EXCEPT ![r.scope][r.f] = r.val] \/ UNCHANGED live
             /\ behind' = (behind \/ (r.scope = "workspace" /\ live' # live))
             /\ promised' = Kept(r.scope, r.f, r.val)
             /\ End(c) /\ UNCHANGED mu
    <2>1. /\ cl' \in [Clients -> Calls] /\ ~Saves(c)'
          /\ \A d \in Clients : d # c => cl'[d] = cl[d] /\ (Saves(d)' <=> Saves(d))
      <3>1. cl' = [cl EXCEPT ![c] = NoCall] /\ NoCall.pc = "idle"
        BY <1>5 DEF End, Go, NoCall
      <3> QED
        BY <1>0, <3>1, OneCall DEF WorkspaceInv
    <2>2. SettingsTypeOK'
      BY <1>0, <1>3, <1>5, <2>1 DEF WorkspaceInv, SettingsTypeOK
    <2>3. \A d \in Clients : (Saves(d)' <=> Saves(d))
      BY <1>0, <2>1
    <2>4. \/ \A d \in Clients : ~Saves(d)
          \/ live'["workspace"] = live["workspace"] /\ ("workspace" \in promised' <=> "workspace" \in promised)
      BY <1>2, <1>3, <1>5 DEF Scopes, Kept
    <2>5. (behind => behind') /\ (behind' \/ live'["workspace"] = live["workspace"])
      BY <1>1, <1>3, <1>5 DEF Scopes
    <2>6. SaversHoldTheLock'
      BY <1>0, <1>5, <2>1, <2>3, <2>4, <2>5 DEF WorkspaceInv, SaversHoldTheLock
    <2>7. WorkspaceIsSaved'
      BY <1>0, <2>3, <2>5 DEF WorkspaceInv, WorkspaceIsSaved, Saves
    <2>8. "workspace" \in promised' => live'["workspace"]["gate"] /\ disk'["workspace"]["gate"]
      BY <1>0, <1>1, <1>3, <1>5 DEF WorkspaceInv, SwitchIsKept, Scopes, Fields, Kept
    <2>9. SwitchIsKept'
      BY <1>0, <2>1, <2>3, <2>4, <2>8 DEF WorkspaceInv, SwitchIsKept
    <2> QED
      BY <2>2, <2>6, <2>7, <2>9 DEF WorkspaceInv
  <1>6. CASE End(c) /\ UNCHANGED <<live, mu, promised, behind>>
    <2>1. cl' = [cl EXCEPT ![c] = NoCall] /\ NoCall.pc = "idle"
      BY <1>6 DEF End, Go, NoCall
    <2> QED
      BY <1>0, <1>6, <2>1, OtherCalls
  <1> QED
    BY <1>4, <1>5, <1>6 DEF Take

\* Encode takes what memory says for the row.
LEMMA EncodeStep == ASSUME WorkspaceInv, NEW c \in Clients, Encode(c) PROVE WorkspaceInv'
  <1> DEFINE r == cl[c]
             q == [r EXCEPT !.pc = "write", !.gen = 0, !.snap = Object(c)]
  <1>0. /\ r \in Calls /\ r.pc = "encode"
        /\ UNCHANGED <<live, old, disk, reset, mu, prof, resets, behind, promised>>
    BY DEF WorkspaceInv, SettingsTypeOK, Encode, provVars
  <1>1. Object(c) \in Values
    BY <1>0 DEF Object, WorkspaceInv, SettingsTypeOK, Calls
  <1>2. /\ q \in Calls /\ q.pc = "write" /\ q.snap = Object(c) /\ q.scope = r.scope /\ q.f = r.f /\ q.val = r.val
        /\ cl' = [cl EXCEPT ![c] = q]
    BY <1>0, <1>1 DEF Encode, Go, Calls
  <1> HIDE DEF q
  <1>3. /\ cl' \in [Clients -> Calls] /\ cl'[c] = q
        /\ \A d \in Clients : d # c => cl'[d] = cl[d] /\ (Saves(d)' <=> Saves(d))
        /\ (Saves(c)' <=> Saves(c))
    BY <1>0, <1>2, OneCall DEF WorkspaceInv, Saves
  <1>4. Saves(c) => Object(c) = live["workspace"]
    BY <1>0 DEF Saves, Object, WorkspaceInv, SaversHoldTheLock
  <1>5. SettingsTypeOK'
    BY <1>0, <1>3 DEF WorkspaceInv, SettingsTypeOK
  <1>6. SaversHoldTheLock'
    BY <1>0, <1>2, <1>3, <1>4 DEF WorkspaceInv, SaversHoldTheLock
  <1>7. \A d \in Clients : (Saves(d)' <=> Saves(d))
    BY <1>3
  <1>8. WorkspaceIsSaved'
    BY <1>0, <1>7 DEF WorkspaceInv, WorkspaceIsSaved, Saves
  <1>9. SwitchIsKept'
    BY <1>0, <1>2, <1>3, <1>4 DEF WorkspaceInv, SwitchIsKept
  <1> QED
    BY <1>5, <1>6, <1>8, <1>9 DEF WorkspaceInv

\* Write puts it in the row, or fails and reports so.
LEMMA WriteStep == ASSUME WorkspaceInv, NEW c \in Clients, Write(c) PROVE WorkspaceInv'
  <1> DEFINE r == cl[c]
  <1>0. /\ r \in Calls /\ r.pc = "write" /\ NoCall \in Calls /\ NoCall.pc = "idle"
        /\ UNCHANGED <<live, old, reset, prof, resets>>
        /\ mu' = (IF mu = c THEN Nobody ELSE mu)
    BY NoCallIsCall DEF WorkspaceInv, SettingsTypeOK, Write, provVars
  <1>1. r.scope \in Scopes /\ r.snap \in Values
    BY <1>0 DEF Calls
  <1>2. PICK q \in Calls : q.pc \in {"idle", "init"} /\ cl' = [cl EXCEPT ![c] = q]
    <2>1. [r EXCEPT !.pc = "init"] \in Calls /\ [r EXCEPT !.pc = "init"].pc = "init"
      BY <1>0 DEF Calls
    <2>2. To(c, "init") \/ End(c)
      BY DEF Write
    <2> QED
      BY <1>0, <2>1, <2>2 DEF To, End, Go
  <1>3. /\ cl' \in [Clients -> Calls] /\ ~Saves(c)'
        /\ \A d \in Clients : d # c => cl'[d] = cl[d] /\ (Saves(d)' <=> Saves(d))
    BY <1>2, OneCall DEF WorkspaceInv
  <1>4. CASE Saves(c)
    <2>1. mu = c /\ r.scope = "workspace" /\ (behind \/ r.snap = live["workspace"])
      BY <1>0, <1>4 DEF Saves, WorkspaceInv, SaversHoldTheLock
    <2>2. \A d \in Clients : ~Saves(d)'
      BY <1>3, <2>1 DEF WorkspaceInv, SaversHoldTheLock
    <2>3. SaversHoldTheLock'
      BY <2>2 DEF SaversHoldTheLock
    <2>4. CASE /\ disk' = [disk EXCEPT !["workspace"] = r.snap]
               /\ behind' = (behind /\ live["workspace"] # r.snap)
               /\ promised' = Acked(c)
      <3>1. disk' \in [Scopes -> Values] /\ disk'["workspace"] = r.snap
        BY <1>1, <2>4 DEF WorkspaceInv, SettingsTypeOK, Scopes
      <3>2. SettingsTypeOK'
        BY <1>0, <1>3, <3>1 DEF WorkspaceInv, SettingsTypeOK
      <3>3. WorkspaceIsSaved'
        BY <1>0, <2>1, <2>4, <3>1 DEF WorkspaceIsSaved
      <3>4. "workspace" \in promised' => live["workspace"]["gate"] /\ r.snap["gate"]
        BY <1>0, <1>4, <2>4 DEF Acked, WorkspaceInv, SwitchIsKept
      <3>5. SwitchIsKept'
        BY <1>0, <2>2, <3>1, <3>4 DEF SwitchIsKept
      <3> QED
        BY <2>3, <3>2, <3>3, <3>5 DEF WorkspaceInv
    <2>5. CASE behind' = TRUE /\ UNCHANGED <<disk, promised>>
      <3>1. SettingsTypeOK'
        BY <1>0, <1>3, <2>5 DEF WorkspaceInv, SettingsTypeOK
      <3>2. WorkspaceIsSaved'
        BY <2>5 DEF WorkspaceIsSaved
      <3>3. SwitchIsKept'
        BY <1>0, <2>2, <2>5 DEF WorkspaceInv, SwitchIsKept
      <3> QED
        BY <2>3, <3>1, <3>2, <3>3 DEF WorkspaceInv
    <2> QED
      BY <2>1, <2>4, <2>5 DEF Write
  <1>5. CASE ~Saves(c)
    <2>1. r.scope # "workspace"
      BY <1>0, <1>5 DEF Saves
    <2>2. /\ disk' = [disk EXCEPT ![r.scope] = r.snap] \/ UNCHANGED disk
          /\ (behind' <=> behind) /\ ("workspace" \in promised' <=> "workspace" \in promised)
      <3>1. "workspace" \in Acked(c) <=> "workspace" \in promised
        BY <2>1 DEF Acked
      <3>2. behind' <=> behind
        BY <2>1 DEF Write
      <3>3. promised' = Acked(c) \/ promised' = promised
        BY DEF Write
      <3> QED
        BY <3>1, <3>2, <3>3 DEF Write
    <2>3. disk' \in [Scopes -> Values] /\ disk'["workspace"] = disk["workspace"]
      BY <1>1, <2>1, <2>2 DEF WorkspaceInv, SettingsTypeOK, Scopes
    <2>4. SettingsTypeOK'
      BY <1>0, <1>3, <2>3 DEF WorkspaceInv, SettingsTypeOK
    <2>5. \A d \in Clients : Saves(d) => mu' = mu
      BY <1>0, <1>5 DEF WorkspaceInv, SaversHoldTheLock
    <2>6. SaversHoldTheLock'
      BY <1>0, <1>3, <2>2, <2>5 DEF WorkspaceInv, SaversHoldTheLock
    <2>7. \A d \in Clients : (Saves(d)' <=> Saves(d))
      BY <1>3, <1>5
    <2>8. WorkspaceIsSaved'
      BY <1>0, <2>2, <2>3, <2>7 DEF WorkspaceInv, WorkspaceIsSaved, Saves
    <2>9. SwitchIsKept'
      BY <1>0, <1>3, <2>2, <2>3 DEF WorkspaceInv, SwitchIsKept
    <2> QED
      BY <2>4, <2>6, <2>8, <2>9 DEF WorkspaceInv
  <1> QED
    BY <1>4, <1>5

\* A profile, or the end of one.
LEMMA ProfileSteps ==
    ASSUME WorkspaceInv, (\E p \in Profiles : ApplyProfile(p)) \/ DropSettings \/ \E s \in Scopes : Reload(s)
    PROVE  WorkspaceInv'
  <1>1. ASSUME NEW p \in Profiles, ApplyProfile(p) PROVE WorkspaceInv'
    <2>1. p.s \in Scopes /\ p.f \in Fields /\ p.v \in BOOLEAN
      BY SettingsAssumption
    <2>2. /\ UNCHANGED <<old, disk, reset, mu, cl, resets>> /\ prof' = 1
          /\ live' = [live EXCEPT ![p.s][p.f] = p.v]
          /\ behind' = (behind \/ p.s = "workspace")
          /\ promised' = Kept(p.s, p.f, p.v)
          /\ prof = 0
      BY <1>1 DEF ApplyProfile
    <2>3. /\ live' \in [Scopes -> Values] /\ live'[p.s][p.f] = p.v
          /\ \A g \in Fields : g # p.f => live'[p.s][g] = live[p.s][g]
          /\ \A s \in Scopes : s # p.s => live'[s] = live[s]
      BY <2>1, <2>2 DEF WorkspaceInv, SettingsTypeOK, Values
    <2>4. \A d \in Clients : (Saves(d)' <=> Saves(d))
      BY <2>2 DEF Saves
    <2>5. behind' \/ ((behind' <=> behind) /\ live'["workspace"] = live["workspace"])
      BY <2>1, <2>2, <2>3 DEF Scopes
    <2>6. SettingsTypeOK'
      BY <2>2, <2>3 DEF WorkspaceInv, SettingsTypeOK
    <2>7. SaversHoldTheLock'
      BY <2>2, <2>4, <2>5 DEF WorkspaceInv, SaversHoldTheLock
    <2>8. WorkspaceIsSaved'
      BY <2>2, <2>4, <2>5 DEF WorkspaceInv, WorkspaceIsSaved, Saves
    <2>9. SwitchIsKept'
      <3>1. "workspace" \in promised' => live'["workspace"]["gate"] /\ disk'["workspace"]["gate"]
        BY <2>1, <2>2, <2>3 DEF WorkspaceInv, SwitchIsKept, Scopes, Fields, Kept
      <3>2. "workspace" \in promised' => "workspace" \in promised
        BY <2>2 DEF Kept
      <3> QED
        BY <2>2, <2>4, <3>1, <3>2 DEF WorkspaceInv, SwitchIsKept
    <2> QED
      BY <2>6, <2>7, <2>8, <2>9 DEF WorkspaceInv
  <1>2. ASSUME mu = Nobody PROVE \A c \in Clients : ~Saves(c)
    BY <1>2, SettingsAssumption DEF WorkspaceInv, SaversHoldTheLock
  <1>3. CASE DropSettings
    <2>1. /\ UNCHANGED <<live, disk, mu, cl, behind, promised>> /\ mu = Nobody
          /\ old' = live /\ reset' = "nil" /\ resets' = resets + 1
      BY <1>3 DEF DropSettings
    <2>2. \A c \in Clients : ~Saves(c)'
      BY <1>2, <2>1 DEF Saves
    <2>3. SettingsTypeOK'
      BY <2>1 DEF WorkspaceInv, SettingsTypeOK
    <2> QED
      BY <2>1, <2>2, <2>3 DEF WorkspaceInv, SaversHoldTheLock, WorkspaceIsSaved, SwitchIsKept
  <1>4. ASSUME NEW s \in Scopes, Reload(s) PROVE WorkspaceInv'
    <2>1. /\ UNCHANGED <<old, disk, mu, cl, resets, promised>> /\ mu = Nobody
          /\ live' = [live EXCEPT ![s] = disk[s]]
          /\ reset' = (IF s = "user" THEN "cfg" ELSE "no")
      BY <1>4 DEF Reload
    <2>2. \A c \in Clients : ~Saves(c)'
      BY <1>2, <2>1 DEF Saves
    <2>3. live' \in [Scopes -> Values] /\ \A q \in Scopes : live'[q] = IF q = s THEN disk[q] ELSE live[q]
      BY <2>1 DEF WorkspaceInv, SettingsTypeOK
    <2>4. SettingsTypeOK'
      BY <2>1, <2>3 DEF WorkspaceInv, SettingsTypeOK
    <2>5. WorkspaceIsSaved'
      BY <2>1, <2>3 DEF WorkspaceIsSaved, Scopes
    <2>6. SwitchIsKept'
      BY <2>1, <2>2, <2>3 DEF WorkspaceInv, SwitchIsKept, Scopes
    <2> QED
      BY <2>2, <2>4, <2>5, <2>6 DEF WorkspaceInv, SaversHoldTheLock
  <1> QED
    BY <1>1, <1>3, <1>4

\* The steps of a call that touch neither the settings nor their rows.
LEMMA CallSteps ==
    ASSUME WorkspaceInv, NEW c \in Clients,
           \/ \E via \in {"web", "ui"}, s \in Scopes, f \in Fields, v \in BOOLEAN : Save(c, via, s, f, v)
           \/ Answered(c) \/ InitRead(c) \/ InitSet(c)
           \/ \E v \in 1..2 : UpdateProvider(c, v)
           \/ SaveProvider(c) \/ AddProvider(c) \/ DeleteProvider(c)
    PROVE  WorkspaceInv'
  <1>0. cl[c] \in Calls /\ NoCall \in Calls /\ NoCall.pc = "idle"
    BY NoCallIsCall DEF WorkspaceInv, SettingsTypeOK
  <1>1. cl' = cl => cl' = [cl EXCEPT ![c] = cl[c]]
    BY DEF WorkspaceInv, SettingsTypeOK
  <1>2. ASSUME NEW via \in {"web", "ui"}, NEW s \in Scopes, NEW f \in Fields, NEW v \in BOOLEAN, Save(c, via, s, f, v)
        PROVE  WorkspaceInv'
    <2> DEFINE r == [NoCall EXCEPT !.via = via, !.scope = s, !.f = f, !.val = v]
    <2>1. r \in Calls /\ [r EXCEPT !.pc = "ask"] \in Calls /\ [r EXCEPT !.pc = "take"] \in Calls
          /\ [r EXCEPT !.pc = "ask"].pc = "ask" /\ [r EXCEPT !.pc = "take"].pc = "take"
      BY <1>0 DEF Calls
    <2>2. /\ cl[c].pc = "idle" /\ UNCHANGED <<live, old, disk, reset, mu, resets, behind, promised, prof>>
          /\ \/ cl' = [cl EXCEPT ![c] = [r EXCEPT !.pc = "ask"]]
             \/ cl' = [cl EXCEPT ![c] = [r EXCEPT !.pc = "take"]]
             \/ cl' = cl
      BY <1>2 DEF Save, Go, setVars, provVars
    <2>3. ~Saves(c)
      BY <2>2 DEF Saves
    <2> HIDE DEF r
    <2>4. CASE cl' = [cl EXCEPT ![c] = [r EXCEPT !.pc = "ask"]]
      BY <2>1, <2>2, <2>3, <2>4, OtherCalls
    <2>5. CASE cl' = [cl EXCEPT ![c] = [r EXCEPT !.pc = "take"]]
      BY <2>1, <2>2, <2>3, <2>5, OtherCalls
    <2>6. CASE cl' = cl
      BY <1>0, <1>1, <2>2, <2>3, <2>6, OtherCalls
    <2> QED
      BY <2>2, <2>4, <2>5, <2>6
  <1>3. CASE Answered(c)
    <2>1. PICK pc \in {"take", "idle"} : cl' = [cl EXCEPT ![c] = [cl[c] EXCEPT !.pc = pc]]
      BY <1>3 DEF Answered, To, Go
    <2>2. [cl[c] EXCEPT !.pc = pc] \in Calls /\ [cl[c] EXCEPT !.pc = pc].pc = pc
      BY <1>0 DEF Calls
    <2>3. ~Saves(c) /\ UNCHANGED <<live, old, disk, reset, mu, resets, behind, promised, prof>>
      BY <1>3 DEF Answered, Saves, setVars, provVars
    <2> QED
      BY <2>1, <2>2, <2>3, OtherCalls
  <1>4. CASE InitRead(c)
    <2> DEFINE q == [NoCall EXCEPT !.pc = "set", !.val = Resolved("hosts")]
    <2>1. Resolved("hosts") \in BOOLEAN
      BY DEF Resolved
    <2>2. q \in Calls /\ q.pc = "set"
      BY <1>0, <2>1 DEF Calls
    <2>3. ~Saves(c) /\ cl' = [cl EXCEPT ![c] = q] /\ UNCHANGED <<live, old, disk, reset, mu, resets, behind, promised, prof>>
      BY <1>4 DEF InitRead, Go, Saves, setVars, provVars
    <2> HIDE DEF q
    <2> QED
      BY <2>2, <2>3, OtherCalls
  <1>5. CASE InitSet(c) \/ SaveProvider(c)
    <2>1. /\ ~Saves(c) /\ cl' = [cl EXCEPT ![c] = NoCall]
          /\ UNCHANGED <<live, old, disk, reset, mu, resets, behind, promised, prof>>
      BY <1>5 DEF InitSet, SaveProvider, End, Go, Saves, setVars, provVars
    <2> QED
      BY <1>0, <2>1, OtherCalls
  <1>6. ASSUME NEW v \in 1..2, UpdateProvider(c, v) PROVE WorkspaceInv'
    <2> DEFINE q == [NoCall EXCEPT !.pc = "save", !.n = v]
    <2>1. q \in Calls /\ q.pc = "save"
      <3>1. v \in Nat
        OBVIOUS
      <3> QED
        BY <1>0, <3>1 DEF Calls
    <2>2. /\ ~Saves(c) /\ cl[c].pc = "idle" /\ UNCHANGED <<live, old, disk, reset, mu, resets, behind, promised>>
          /\ prof' = prof \/ (prof # 0 /\ prof' # 0)
          /\ cl' = cl \/ cl' = [cl EXCEPT ![c] = q]
      BY <1>6 DEF UpdateProvider, Go, Saves, setVars, provVars
    <2> HIDE DEF q
    <2>3. CASE cl' = cl
      BY <1>0, <1>1, <2>2, <2>3, OtherCalls
    <2>4. CASE cl' = [cl EXCEPT ![c] = q]
      BY <2>1, <2>2, <2>4, OtherCalls
    <2> QED
      BY <2>2, <2>3, <2>4
  <1>7. CASE AddProvider(c) \/ DeleteProvider(c)
    <2>1. /\ ~Saves(c) /\ cl[c].pc = "idle" /\ cl' = cl
          /\ UNCHANGED <<live, old, disk, reset, mu, resets, behind, promised, prof>>
      BY <1>7 DEF AddProvider, DeleteProvider, Saves, setVars, provVars
    <2> QED
      BY <1>0, <1>1, <2>1, OtherCalls
  <1> QED
    BY <1>2, <1>3, <1>4, <1>5, <1>6, <1>7

\* A restart loads the rows.
LEMMA RestartStep == WorkspaceInv /\ Restarted => WorkspaceInv'
  <1> SUFFICES ASSUME WorkspaceInv, Restarted PROVE WorkspaceInv'
    OBVIOUS
  <1>1. /\ live' = disk /\ old' = disk /\ disk' = disk /\ resets' = resets /\ promised' = promised
        /\ cl' = [c \in Clients |-> NoCall]
    BY DEF Restarted
  <1>2. SettingsTypeOK'
    BY <1>1, NoCallIsCall DEF WorkspaceInv, SettingsTypeOK
  <1>3. \A c \in Clients : ~Saves(c)'
    BY <1>1 DEF Saves, NoCall
  <1> QED
    BY <1>1, <1>2, <1>3 DEF WorkspaceInv, SaversHoldTheLock, WorkspaceIsSaved, SwitchIsKept

\* Every step of the settings keeps their invariant.
LEMMA WorkspaceKeeps == WorkspaceInv /\ SettingsNext => WorkspaceInv'
  BY TakeStep, EncodeStep, WriteStep, ProfileSteps, CallSteps, RestartStep DEF SettingsNext

\* The user's switch, too, is on in memory and in the row once it is promised, and
\* none who saves the user's settings holds them with it off, though not all of
\* them hold the lock.
UserSwitchIsKept ==
    /\ promised \subseteq Scopes
    /\ "user" \in promised => /\ live["user"]["gate"] /\ disk["user"]["gate"]
                              /\ \A c \in Clients : ~Overtakes(c)

SettingsInv == WorkspaceInv /\ UserSwitchIsKept

LEMMA SettingsInit == Init => SettingsInv
  <1>1. Init => UserSwitchIsKept
    BY DEF Init, UserSwitchIsKept
  <1> QED
    BY <1>1, WorkspaceInit DEF SettingsInv

LEMMA SettingsStutter == SettingsInv /\ UNCHANGED restVars => SettingsInv'
  <1>1. UserSwitchIsKept /\ UNCHANGED restVars => UserSwitchIsKept'
    BY DEF restVars, setVars, provVars, UserSwitchIsKept, Overtakes, Object
  <1> QED
    BY <1>1, WorkspaceStutter DEF SettingsInv

\* A step of one call, after which it holds no user's settings without the switch.
LEMMA UserCall ==
    ASSUME SettingsInv, NEW c \in Clients, NEW r, cl' = [cl EXCEPT ![c] = r],
           UNCHANGED <<old, resets>>, promised' \subseteq Scopes,
           "user" \in promised' => /\ "user" \in promised
                                   /\ live'["user"]["gate"] /\ disk'["user"]["gate"]
                                   /\ ~Overtakes(c)'
    PROVE  UserSwitchIsKept'
  <1>1. ASSUME NEW d \in Clients, d # c, "user" \in promised' PROVE ~Overtakes(d)'
    <2>1. cl'[d] = cl[d] /\ ~Overtakes(d)
      BY <1>1 DEF SettingsInv, WorkspaceInv, SettingsTypeOK, UserSwitchIsKept
    <2> QED
      BY <1>1, <2>1 DEF Overtakes, Object
  <1> QED
    BY <1>1 DEF UserSwitchIsKept

\* Take: whoever turns it off withdraws the promise.
LEMMA UserTake == ASSUME SettingsInv, NEW c \in Clients, Take(c) PROVE UserSwitchIsKept'
  <1> DEFINE r == cl[c]
  <1>1. /\ r \in Calls /\ r.scope \in Scopes /\ r.f \in Fields /\ r.val \in BOOLEAN
        /\ UNCHANGED <<old, disk, resets>>
    BY DEF SettingsInv, WorkspaceInv, SettingsTypeOK, Calls, Take
  <1>2. PICK q : /\ cl' = [cl EXCEPT ![c] = q]
                 /\ q.pc = "idle" \/ (q.pc = "encode" /\ q.gen = resets /\ live' = [live EXCEPT ![r.scope][r.f] = r.val])
    <2>1. NoCall.pc = "idle"
      BY DEF NoCall
    <2>2. CASE Go(c, [r EXCEPT !.pc = "encode", !.gen = resets, !.via = "web"])
               /\ live' = [live EXCEPT ![r.scope][r.f] = r.val]
      <3>1. [r EXCEPT !.pc = "encode", !.gen = resets, !.via = "web"].pc = "encode"
            /\ [r EXCEPT !.pc = "encode", !.gen = resets, !.via = "web"].gen = resets
        BY <1>1 DEF Calls
      <3> QED
        BY <2>2, <3>1 DEF Go
    <2>3. CASE End(c)
      BY <2>1, <2>3 DEF End, Go
    <2> QED
      BY <2>2, <2>3 DEF Take
  <1>3. /\ live' = [live EXCEPT ![r.scope][r.f] = r.val] \/ live' = live
        /\ promised' = Kept(r.scope, r.f, r.val) \/ (promised' = promised /\ live' = live)
    BY DEF Take
  <1>4. promised' \subseteq promised
    BY <1>3 DEF Kept
  <1>5. ASSUME "user" \in promised' PROVE live'["user"]["gate"] /\ disk'["user"]["gate"]
    <2>1. live["user"]["gate"] /\ disk["user"]["gate"] /\ live \in [Scopes -> Values]
      BY <1>4, <1>5 DEF SettingsInv, WorkspaceInv, SettingsTypeOK, UserSwitchIsKept
    <2>2. live' # live => ~(r.scope = "user" /\ r.f = "gate" /\ ~r.val)
      BY <1>3, <1>5 DEF Kept
    <2>3. CASE live' = [live EXCEPT ![r.scope][r.f] = r.val] /\ live' # live
      <3>1. /\ live'[r.scope][r.f] = r.val
            /\ \A g \in Fields : g # r.f => live'[r.scope][g] = live[r.scope][g]
            /\ \A s \in Scopes : s # r.scope => live'[s] = live[s]
        BY <1>1, <2>1, <2>3 DEF Values
      <3> QED
        BY <1>1, <2>1, <2>2, <2>3, <3>1 DEF Scopes, Fields
    <2> QED
      BY <1>1, <1>3, <2>1, <2>3
  <1>6. "user" \in promised' => ~Overtakes(c)'
    <2>1. cl'[c] = q
      BY <1>2 DEF SettingsInv, WorkspaceInv, SettingsTypeOK
    <2>2. cl'[c].pc = "encode" /\ cl'[c].scope = "user" => Object(c)' = live'["user"]
      BY <1>1, <1>2, <2>1 DEF Object
    <2> QED
      BY <1>2, <1>5, <2>1, <2>2 DEF Overtakes
  <1>7. promised' \subseteq Scopes
    BY <1>4 DEF SettingsInv, UserSwitchIsKept
  <1> QED
    BY <1>1, <1>2, <1>4, <1>5, <1>6, <1>7, UserCall

\* Encode takes over what the object says, and Write puts it in the row.
LEMMA UserEncode == ASSUME SettingsInv, NEW c \in Clients, Encode(c) PROVE UserSwitchIsKept'
  <1>1. /\ cl[c] \in Calls /\ cl[c].pc = "encode" /\ UNCHANGED <<live, old, disk, resets, promised>>
        /\ cl' = [cl EXCEPT ![c] = [cl[c] EXCEPT !.pc = "write", !.gen = 0, !.snap = Object(c)]]
    BY DEF SettingsInv, WorkspaceInv, SettingsTypeOK, Encode, Go
  <1>2. cl'[c].pc = "write" /\ cl'[c].snap = Object(c) /\ cl'[c].scope = cl[c].scope
    BY <1>1 DEF Calls, SettingsInv, WorkspaceInv, SettingsTypeOK
  <1>3. Overtakes(c)' => Overtakes(c)
    BY <1>1, <1>2 DEF Overtakes
  <1> QED
    BY <1>1, <1>3, UserCall DEF SettingsInv, UserSwitchIsKept

LEMMA UserWrite == ASSUME SettingsInv, NEW c \in Clients, Write(c) PROVE UserSwitchIsKept'
  <1> DEFINE r == cl[c]
  <1>1. /\ r \in Calls /\ r.pc = "write" /\ r.scope \in Scopes /\ r.snap \in Values
        /\ UNCHANGED <<live, old, resets>>
    BY DEF SettingsInv, WorkspaceInv, SettingsTypeOK, Calls, Write
  <1>2. PICK q : cl' = [cl EXCEPT ![c] = q] /\ q.pc \in {"idle", "init"}
    <2>1. NoCall.pc = "idle" /\ [r EXCEPT !.pc = "init"].pc = "init"
      BY <1>1 DEF NoCall, Calls
    <2>2. To(c, "init") \/ End(c)
      BY DEF Write
    <2> QED
      BY <2>1, <2>2 DEF To, End, Go
  <1>3. cl'[c].pc \in {"idle", "init"} /\ \A d \in Clients : d # c => cl'[d] = cl[d]
    BY <1>2 DEF SettingsInv, WorkspaceInv, SettingsTypeOK
  <1>4. ASSUME NEW d \in Clients, ~Overtakes(d) PROVE ~Overtakes(d)'
    BY <1>1, <1>3, <1>4 DEF Overtakes, Object
  <1>5. /\ promised' = promised \/ promised' = Acked(c)
        /\ disk' = disk \/ disk' = [disk EXCEPT ![r.scope] = r.snap]
        /\ disk' = disk => promised' = promised \/ disk = [disk EXCEPT ![r.scope] = r.snap]
    BY DEF Write
  <1>6. promised' \subseteq Scopes
    BY <1>1, <1>5 DEF Acked, SettingsInv, UserSwitchIsKept
  <1>7. ASSUME "user" \in promised'
        PROVE  live["user"]["gate"] /\ disk'["user"]["gate"] /\ \A d \in Clients : ~Overtakes(d)
    <2>1. CASE "user" \in promised
      <3>1. live["user"]["gate"] /\ disk["user"]["gate"] /\ \A d \in Clients : ~Overtakes(d)
        BY <2>1 DEF SettingsInv, UserSwitchIsKept
      <3>2. r.scope = "user" => r.snap["gate"]
        BY <1>1, <3>1 DEF Overtakes
      <3> QED
        BY <1>1, <1>5, <3>1, <3>2 DEF SettingsInv, WorkspaceInv, SettingsTypeOK, Scopes
    <2>2. CASE "user" \notin promised
      <3>1. promised' = Acked(c) /\ promised' # promised
        BY <1>5, <1>7, <2>2
      <3>2. r.scope = "user" /\ live["user"]["gate"] /\ \A d \in Clients : ~Overtakes(d)
        BY <1>7, <2>2, <3>1 DEF Acked
      <3>3. r.snap["gate"] /\ disk' = [disk EXCEPT !["user"] = r.snap]
        BY <1>1, <1>5, <3>1, <3>2 DEF Overtakes
      <3> QED
        BY <3>2, <3>3 DEF SettingsInv, WorkspaceInv, SettingsTypeOK, Scopes
    <2> QED
      BY <2>1, <2>2
  <1> QED
    BY <1>1, <1>4, <1>6, <1>7 DEF UserSwitchIsKept

\* A profile, or the end of one.
LEMMA UserProfile ==
    ASSUME SettingsInv, (\E p \in Profiles : ApplyProfile(p)) \/ DropSettings \/ \E s \in Scopes : Reload(s)
    PROVE  UserSwitchIsKept'
  <1>1. live \in [Scopes -> Values] /\ promised \subseteq Scopes
    BY DEF SettingsInv, WorkspaceInv, SettingsTypeOK, UserSwitchIsKept
  <1>2. CASE "user" \notin promised'
    BY <1>1, <1>2 DEF UserSwitchIsKept, ApplyProfile, DropSettings, Reload, Kept
  <1>3. CASE "user" \in promised'
    <2>1. "user" \in promised /\ promised' \subseteq promised /\ disk' = disk /\ cl' = cl
      BY <1>3 DEF ApplyProfile, DropSettings, Reload, Kept
    <2>2. live["user"]["gate"] /\ disk["user"]["gate"] /\ \A d \in Clients : ~Overtakes(d)
      BY <2>1 DEF SettingsInv, UserSwitchIsKept
    <2>3. live'["user"]["gate"]
      <3>1. ASSUME NEW p \in Profiles, ApplyProfile(p) PROVE live'["user"]["gate"]
        <4>1. p.s \in Scopes /\ p.f \in Fields /\ p.v \in BOOLEAN
          BY SettingsAssumption
        <4>2. ~(p.s = "user" /\ p.f = "gate" /\ ~p.v) /\ live' = [live EXCEPT ![p.s][p.f] = p.v]
          BY <1>3, <3>1 DEF ApplyProfile, Kept
        <4>3. /\ live'[p.s][p.f] = p.v
              /\ \A g \in Fields : g # p.f => live'[p.s][g] = live[p.s][g]
              /\ \A s \in Scopes : s # p.s => live'[s] = live[s]
          BY <1>1, <4>1, <4>2 DEF Values
        <4> QED
          BY <2>2, <4>1, <4>2, <4>3 DEF Scopes, Fields
      <3>2. CASE DropSettings
        BY <2>2, <3>2 DEF DropSettings
      <3>3. ASSUME NEW s \in Scopes, Reload(s) PROVE live'["user"]["gate"]
        BY <1>1, <2>2, <3>3 DEF Reload, Scopes
      <3> QED
        BY <3>1, <3>2, <3>3
    <2>4. \/ UNCHANGED <<old, resets>>
          \/ old' = live /\ live' = live
      BY DEF ApplyProfile, DropSettings, Reload
    <2>5. ASSUME NEW d \in Clients PROVE ~Overtakes(d)'
      <3>1. ~Overtakes(d)
        BY <2>2
      <3> QED
        BY <2>1, <2>2, <2>3, <2>4, <3>1 DEF Overtakes, Object
    <2> QED
      BY <1>1, <2>1, <2>2, <2>3, <2>5 DEF UserSwitchIsKept
  <1> QED
    BY <1>2, <1>3

\* The other steps of a call save nothing.
LEMMA UserOthers ==
    ASSUME SettingsInv, NEW c \in Clients,
           \/ \E via \in {"web", "ui"}, s \in Scopes, f \in Fields, v \in BOOLEAN : Save(c, via, s, f, v)
           \/ Answered(c) \/ InitRead(c) \/ InitSet(c)
           \/ \E v \in 1..2 : UpdateProvider(c, v)
           \/ SaveProvider(c) \/ AddProvider(c) \/ DeleteProvider(c)
    PROVE  UserSwitchIsKept'
  <1>1. UNCHANGED <<live, old, disk, resets, promised>> /\ cl[c] \in Calls /\ cl \in [Clients -> Calls]
    BY DEF Save, Answered, InitRead, InitSet, UpdateProvider, SaveProvider, AddProvider, DeleteProvider,
           setVars, SettingsInv, WorkspaceInv, SettingsTypeOK
  <1>2. cl' = cl \/ \E q : cl' = [cl EXCEPT ![c] = q] /\ q.pc \in {"idle", "ask", "take", "set", "save"}
    <2>1. NoCall.pc = "idle" /\ NoCall \in Calls
      BY NoCallIsCall
    <2>2. ASSUME NEW via \in {"web", "ui"}, NEW s \in Scopes, NEW f \in Fields, NEW v \in BOOLEAN, Save(c, via, s, f, v)
          PROVE  cl' = cl \/ \E q : cl' = [cl EXCEPT ![c] = q] /\ q.pc \in {"ask", "take"}
      <3> DEFINE r == [NoCall EXCEPT !.via = via, !.scope = s, !.f = f, !.val = v]
      <3>1. r \in Calls
        BY <2>1 DEF Calls
      <3>2. \/ cl' = cl
            \/ cl' = [cl EXCEPT ![c] = [r EXCEPT !.pc = "ask"]]
            \/ cl' = [cl EXCEPT ![c] = [r EXCEPT !.pc = "take"]]
        BY <2>2 DEF Save, Go
      <3> HIDE DEF r
      <3>3. [r EXCEPT !.pc = "ask"].pc = "ask" /\ [r EXCEPT !.pc = "take"].pc = "take"
        BY <3>1 DEF Calls
      <3> QED
        BY <3>2, <3>3
    <2>3. CASE Answered(c)
      <3>1. PICK pc \in {"take", "idle"} : cl' = [cl EXCEPT ![c] = [cl[c] EXCEPT !.pc = pc]]
        BY <2>3 DEF Answered, To, Go
      <3>2. [cl[c] EXCEPT !.pc = pc].pc = pc
        BY <1>1 DEF Calls
      <3> QED
        BY <3>1, <3>2
    <2>4. CASE InitRead(c)
      <3>1. cl' = [cl EXCEPT ![c] = [NoCall EXCEPT !.pc = "set", !.val = Resolved("hosts")]]
        BY <2>4 DEF InitRead, Go
      <3>2. [NoCall EXCEPT !.pc = "set", !.val = Resolved("hosts")].pc = "set"
        BY <2>1 DEF Calls
      <3> QED
        BY <3>1, <3>2
    <2>5. CASE InitSet(c) \/ SaveProvider(c)
      BY <2>1, <2>5 DEF InitSet, SaveProvider, End, Go
    <2>6. ASSUME NEW v \in 1..2, UpdateProvider(c, v)
          PROVE  cl' = cl \/ \E q : cl' = [cl EXCEPT ![c] = q] /\ q.pc = "save"
      <3>1. cl' = cl \/ cl' = [cl EXCEPT ![c] = [NoCall EXCEPT !.pc = "save", !.n = v]]
        BY <2>6 DEF UpdateProvider, Go
      <3>2. [NoCall EXCEPT !.pc = "save", !.n = v].pc = "save"
        BY <2>1 DEF Calls
      <3> QED
        BY <3>1, <3>2
    <2>7. CASE AddProvider(c) \/ DeleteProvider(c)
      BY <2>7 DEF AddProvider, DeleteProvider
    <2> QED
      BY <2>2, <2>3, <2>4, <2>5, <2>6, <2>7
  <1>3. CASE cl' = cl
    BY <1>1, <1>3 DEF SettingsInv, UserSwitchIsKept, Overtakes, Object
  <1>4. ASSUME NEW q, cl' = [cl EXCEPT ![c] = q], q.pc \in {"idle", "ask", "take", "set", "save"}
        PROVE  UserSwitchIsKept'
    <2>1. ~Overtakes(c)'
      BY <1>1, <1>4 DEF Overtakes
    <2> QED
      BY <1>1, <1>4, <2>1, UserCall DEF SettingsInv, UserSwitchIsKept
  <1> QED
    BY <1>2, <1>3, <1>4

\* Every step of the settings keeps their invariant.
LEMMA SettingsNextKeeps == SettingsInv /\ SettingsNext => SettingsInv'
  <1> SUFFICES ASSUME SettingsInv, SettingsNext PROVE SettingsInv'
    OBVIOUS
  <1>1. CASE Restarted
    <2>1. live' = disk /\ disk' = disk /\ promised' = promised /\ \A c \in Clients : cl'[c].pc = "idle"
      BY <1>1 DEF Restarted, NoCall
    <2>2. UserSwitchIsKept'
      BY <2>1 DEF SettingsInv, UserSwitchIsKept, Overtakes
    <2> QED
      BY <2>2, WorkspaceKeeps DEF SettingsInv
  <1>2. CASE ~Restarted
    <2>1. UserSwitchIsKept'
      BY <1>2, UserTake, UserEncode, UserWrite, UserProfile, UserOthers DEF SettingsNext
    <2> QED
      BY <2>1, WorkspaceKeeps DEF SettingsInv
  <1> QED
    BY <1>1, <1>2

-----------------------------------------------------------------------------
(* The usage.                                                              *)

Turn == [pc : {"idle", "check", "warm", "run", "get", "put", "cache"}, l : Counted, n : Nat,
         fresh : BOOLEAN, turn : BOOLEAN]

UsageTypeOK ==
    /\ usage \in [Counted -> Nat] /\ rowMu \in [Counted -> Clients \cup {Nobody}]
    /\ DOMAIN counted = Counted
    /\ caller \in [Clients -> Turn]

\* Between reading a row and putting it back its mutex is held, and what is put is
\* one more than what is there, or the first one over a row that could not be read.
PutsHoldTheRow ==
    \A c \in Clients :
      /\ caller[c].fresh => caller[c].pc \in {"put", "cache"}
      /\ caller[c].pc = "put" =>
           /\ rowMu[caller[c].l] = c
           /\ caller[c].n = IF caller[c].fresh THEN 1 ELSE usage[caller[c].l] + 1

UsageInv == UsageTypeOK /\ PutsHoldTheRow /\ UsageIsExact

\* A client without a turn.
LEMMA NoTurnIsTurn == NoTurn \in Turn /\ NoTurn.pc = "idle" /\ ~NoTurn.fresh
  BY DEF NoTurn, Turn, Counted

\* InitUsage: no row is held, nothing is counted.
LEMMA UsageInit == InitUsage => UsageInv
  BY NoTurnIsTurn DEF InitUsage, UsageInv, UsageTypeOK, PutsHoldTheRow, UsageIsExact, Unheld

\* What counts no usage leaves the counts as they are.
LEMMA UsageStutter == UsageInv /\ UNCHANGED usageVars => UsageInv'
  BY DEF usageVars, UsageInv, UsageTypeOK, PutsHoldTheRow, UsageIsExact

\* A restart forgets who held a row and what it had read.
LEMMA UsageRestart == UsageInv /\ UsageRestarts => UsageInv'
  <1> SUFFICES ASSUME UsageInv, UsageRestarts PROVE UsageInv'
    OBVIOUS
  <1>1. CASE lives' = lives
    BY <1>1, UsageStutter DEF UsageRestarts
  <1>2. CASE lives' # lives
    <2>1. /\ rowMu' = Unheld /\ caller' = [c \in Clients |-> NoTurn] /\ UNCHANGED <<usage, counted>>
      BY <1>2 DEF UsageRestarts
    <2> QED
      BY <2>1, NoTurnIsTurn DEF UsageInv, UsageTypeOK, PutsHoldTheRow, UsageIsExact, Unheld
  <1> QED
    BY <1>1, <1>2

\* A step of a caller that neither reads nor puts a row.
LEMMA OtherTurns ==
    ASSUME UsageInv, NEW c \in Clients, NEW r \in Turn, r.pc # "put", r.fresh => r.pc = "cache",
           caller' = [caller EXCEPT ![c] = r], UNCHANGED <<usage, counted, rowMu>>
    PROVE  UsageInv'
  BY DEF UsageInv, UsageTypeOK, PutsHoldTheRow, UsageIsExact

\* What a caller goes on with when it knows a count.
LEMMA KnowsTurn ==
    ASSUME NEW c \in Clients, NEW n, Knows(c, n)
    PROVE  \E r \in Turn : r.pc # "put" /\ ~r.fresh /\ caller' = [caller EXCEPT ![c] = r]
  <1>1. \A pc \in {"check", "run"}, l \in Counted :
           /\ [NoTurn EXCEPT !.pc = pc, !.l = l, !.turn = TRUE] \in Turn
           /\ [NoTurn EXCEPT !.pc = pc, !.l = l, !.turn = TRUE].pc = pc
           /\ ~[NoTurn EXCEPT !.pc = pc, !.l = l, !.turn = TRUE].fresh
    BY NoTurnIsTurn DEF Turn
  <1>2. /\ [NoTurn EXCEPT !.pc = "run", !.turn = TRUE] \in Turn
        /\ [NoTurn EXCEPT !.pc = "run", !.turn = TRUE].pc = "run"
        /\ ~[NoTurn EXCEPT !.pc = "run", !.turn = TRUE].fresh
    BY NoTurnIsTurn DEF Turn
  <1>3. \/ caller' = [caller EXCEPT ![c] = NoTurn]
        \/ caller' = [caller EXCEPT ![c] = [NoTurn EXCEPT !.pc = "check", !.l = "provider", !.turn = TRUE]]
        \/ caller' = [caller EXCEPT ![c] = [NoTurn EXCEPT !.pc = "run", !.turn = TRUE]]
    BY DEF Knows, Turns
  <1>4. CASE caller' = [caller EXCEPT ![c] = NoTurn]
    BY <1>4, NoTurnIsTurn
  <1>5. CASE caller' = [caller EXCEPT ![c] = [NoTurn EXCEPT !.pc = "check", !.l = "provider", !.turn = TRUE]]
    <2>1. "provider" \in Counted
      BY DEF Counted
    <2> QED
      BY <1>1, <1>5, <2>1
  <1>6. CASE caller' = [caller EXCEPT ![c] = [NoTurn EXCEPT !.pc = "run", !.turn = TRUE]]
    BY <1>2, <1>6
  <1> QED
    BY <1>3, <1>4, <1>5, <1>6

\* GetRow takes the row's mutex and reads it.
LEMMA GetRowStep == ASSUME UsageInv, NEW c \in Clients, GetRow(c) PROVE UsageInv'
  <1> DEFINE r == caller[c]
  <1>1. /\ r \in Turn /\ r.pc = "get" /\ ~r.fresh /\ rowMu[r.l] = Nobody /\ r.l \in Counted
        /\ rowMu' = [rowMu EXCEPT ![r.l] = c] /\ UNCHANGED <<usage, counted>>
    BY DEF UsageInv, UsageTypeOK, PutsHoldTheRow, GetRow, RowIsFree, Turn
  <1>2. usage[r.l] + 1 \in Nat
    BY <1>1 DEF UsageInv, UsageTypeOK
  <1>3. PICK q \in Turn : /\ caller' = [caller EXCEPT ![c] = q] /\ q.pc = "put" /\ q.l = r.l
                          /\ q.n = IF q.fresh THEN 1 ELSE usage[r.l] + 1
    <2>1. /\ [r EXCEPT !.pc = "put", !.n = usage[r.l] + 1] \in Turn
          /\ [r EXCEPT !.pc = "put", !.n = usage[r.l] + 1].pc = "put"
          /\ [r EXCEPT !.pc = "put", !.n = usage[r.l] + 1].l = r.l
          /\ [r EXCEPT !.pc = "put", !.n = usage[r.l] + 1].n = usage[r.l] + 1
          /\ ~[r EXCEPT !.pc = "put", !.n = usage[r.l] + 1].fresh
      BY <1>1, <1>2 DEF Turn
    <2>2. /\ [r EXCEPT !.pc = "put", !.n = 1, !.fresh = TRUE] \in Turn
          /\ [r EXCEPT !.pc = "put", !.n = 1, !.fresh = TRUE].pc = "put"
          /\ [r EXCEPT !.pc = "put", !.n = 1, !.fresh = TRUE].l = r.l
          /\ [r EXCEPT !.pc = "put", !.n = 1, !.fresh = TRUE].n = 1
          /\ [r EXCEPT !.pc = "put", !.n = 1, !.fresh = TRUE].fresh
      BY <1>1 DEF Turn
    <2>3. \/ caller' = [caller EXCEPT ![c] = [r EXCEPT !.pc = "put", !.n = usage[r.l] + 1]]
          \/ caller' = [caller EXCEPT ![c] = [r EXCEPT !.pc = "put", !.n = 1, !.fresh = TRUE]]
      BY DEF GetRow, Turns
    <2> QED
      BY <2>1, <2>2, <2>3
  <1>4. UsageTypeOK'
    BY <1>1, <1>3 DEF UsageInv, UsageTypeOK
  <1>5. PutsHoldTheRow'
    <2> SUFFICES ASSUME NEW d \in Clients
                 PROVE  /\ caller'[d].fresh => caller'[d].pc \in {"put", "cache"}
                        /\ caller'[d].pc = "put" =>
                             /\ rowMu'[caller'[d].l] = d
                             /\ caller'[d].n = IF caller'[d].fresh THEN 1 ELSE usage'[caller'[d].l] + 1
      BY DEF PutsHoldTheRow
    <2>1. CASE d = c
      <3>1. caller'[d] = q
        BY <1>3, <2>1 DEF UsageInv, UsageTypeOK
      <3>2. rowMu'[r.l] = c
        BY <1>1 DEF UsageInv, UsageTypeOK
      <3> QED
        BY <1>1, <1>3, <2>1, <3>1, <3>2
    <2>2. CASE d # c
      <3>1. caller'[d] = caller[d]
        BY <1>3, <2>2 DEF UsageInv, UsageTypeOK
      <3>2. caller[d].pc = "put" => caller[d].l # r.l
        BY <1>1, SettingsAssumption DEF UsageInv, PutsHoldTheRow
      <3> QED
        BY <1>1, <3>1, <3>2 DEF UsageInv, UsageTypeOK, PutsHoldTheRow
    <2> QED
      BY <2>1, <2>2
  <1>6. UsageIsExact'
    BY <1>1 DEF UsageInv, UsageIsExact
  <1> QED
    BY <1>4, <1>5, <1>6 DEF UsageInv

\* PutRow writes it, one more, and lets it go.
LEMMA PutRowStep == ASSUME UsageInv, NEW c \in Clients, PutRow(c) PROVE UsageInv'
  <1> DEFINE r == caller[c]
  <1>1. /\ r \in Turn /\ r.pc = "put" /\ r.l \in Counted /\ rowMu[r.l] = c
        /\ r.n = IF r.fresh THEN 1 ELSE usage[r.l] + 1
        /\ rowMu' = [rowMu EXCEPT ![r.l] = Nobody]
    BY DEF UsageInv, UsageTypeOK, PutsHoldTheRow, PutRow, Turn
  <1>2. r.n \in Nat
    BY <1>1 DEF Turn
  <1>3. PICK q \in Turn : /\ caller' = [caller EXCEPT ![c] = q] /\ q.pc # "put"
                          /\ q.fresh => q.pc = "cache"
    <2>1. [r EXCEPT !.pc = "cache"] \in Turn /\ [r EXCEPT !.pc = "cache"].pc = "cache"
      BY <1>1 DEF Turn
    <2>2. /\ [NoTurn EXCEPT !.pc = "run", !.turn = TRUE] \in Turn
          /\ [NoTurn EXCEPT !.pc = "run", !.turn = TRUE].pc = "run"
          /\ ~[NoTurn EXCEPT !.pc = "run", !.turn = TRUE].fresh
      BY NoTurnIsTurn DEF Turn
    <2>3. \/ caller' = [caller EXCEPT ![c] = [r EXCEPT !.pc = "cache"]]
          \/ caller' = [caller EXCEPT ![c] = [NoTurn EXCEPT !.pc = "run", !.turn = TRUE]]
      BY DEF PutRow, Turns
    <2> QED
      BY <2>1, <2>2, <2>3
  <1>4. \/ UNCHANGED <<usage, counted>>
        \/ /\ usage' = [usage EXCEPT ![r.l] = r.n]
           /\ counted' = [counted EXCEPT ![r.l] = IF r.fresh THEN 1 ELSE counted[r.l] + 1]
    BY DEF PutRow
  <1>5. \A l \in Counted : l # r.l => usage'[l] = usage[l] /\ rowMu'[l] = rowMu[l]
    BY <1>1, <1>4 DEF UsageInv, UsageTypeOK
  <1>6. UsageTypeOK'
    BY <1>1, <1>2, <1>3, <1>4 DEF UsageInv, UsageTypeOK
  <1>7. PutsHoldTheRow'
    <2> SUFFICES ASSUME NEW d \in Clients
                 PROVE  /\ caller'[d].fresh => caller'[d].pc \in {"put", "cache"}
                        /\ caller'[d].pc = "put" =>
                             /\ rowMu'[caller'[d].l] = d
                             /\ caller'[d].n = IF caller'[d].fresh THEN 1 ELSE usage'[caller'[d].l] + 1
      BY DEF PutsHoldTheRow
    <2>1. CASE d = c
      <3>1. caller'[d] = q
        BY <1>3, <2>1 DEF UsageInv, UsageTypeOK
      <3> QED
        BY <1>3, <3>1
    <2>2. CASE d # c
      <3>1. caller'[d] = caller[d] /\ caller[d].l \in Counted
        BY <1>3, <2>2 DEF UsageInv, UsageTypeOK, Turn
      <3>2. caller[d].pc = "put" => caller[d].l # r.l
        BY <1>1, <2>2 DEF UsageInv, PutsHoldTheRow
      <3> QED
        BY <1>5, <3>1, <3>2 DEF UsageInv, PutsHoldTheRow
    <2> QED
      BY <2>1, <2>2
  <1>8. UsageIsExact'
    <2>1. CASE UNCHANGED <<usage, counted>>
      BY <2>1 DEF UsageInv, UsageIsExact
    <2>2. CASE /\ usage' = [usage EXCEPT ![r.l] = r.n]
               /\ counted' = [counted EXCEPT ![r.l] = IF r.fresh THEN 1 ELSE counted[r.l] + 1]
      BY <1>1, <2>2 DEF UsageInv, UsageTypeOK, UsageIsExact
    <2> QED
      BY <1>4, <2>1, <2>2
  <1> QED
    BY <1>6, <1>7, <1>8 DEF UsageInv

\* Every step of the usage keeps the counts.
LEMMA UsageStepKeeps == UsageInv /\ UsageStep => UsageInv'
  <1> SUFFICES ASSUME UsageInv, UsageStep PROVE UsageInv'
    OBVIOUS
  <1>0. \A c \in Clients : caller[c] \in Turn /\ (caller[c].fresh => caller[c].pc \in {"put", "cache"})
    BY DEF UsageInv, UsageTypeOK, PutsHoldTheRow
  <1>1. ASSUME NEW c \in Clients, NEW limit \in Rates, Allow(c, limit) PROVE UsageInv'
    <2> DEFINE r == [NoTurn EXCEPT !.pc = "check", !.turn = TRUE]
    <2>1. r \in Turn /\ r.pc = "check" /\ ~r.fresh
      BY NoTurnIsTurn DEF Turn
    <2>2. /\ UNCHANGED <<usage, rowMu, counted>>
          /\ caller' = caller \/ caller' = [caller EXCEPT ![c] = r]
      BY <1>1 DEF Allow, Turns
    <2> HIDE DEF r
    <2>3. CASE caller' = caller
      BY <2>2, <2>3 DEF UsageInv, UsageTypeOK, PutsHoldTheRow, UsageIsExact
    <2> QED
      BY <2>1, <2>2, <2>3, OtherTurns
  <1>2. ASSUME NEW c \in Clients, TodayTokenUsage(c) PROVE UsageInv'
    <2> DEFINE r == [caller[c] EXCEPT !.pc = "warm", !.n = usage[caller[c].l]]
    <2>0. usage[caller[c].l] \in Nat /\ caller[c].pc = "check"
      BY <1>0, <1>2 DEF UsageInv, UsageTypeOK, Turn, TodayTokenUsage
    <2>1. r \in Turn /\ r.pc = "warm" /\ ~r.fresh
      BY <1>0, <2>0 DEF Turn
    <2>2. /\ UNCHANGED <<usage, rowMu, counted>>
          /\ caller' = [caller EXCEPT ![c] = r] \/ \E n : Knows(c, n)
      BY <1>2 DEF TodayTokenUsage, Turns
    <2> HIDE DEF r
    <2>3. CASE caller' = [caller EXCEPT ![c] = r]
      BY <2>1, <2>2, <2>3, OtherTurns
    <2>4. CASE \E n : Knows(c, n)
      BY <2>2, <2>4, KnowsTurn, OtherTurns
    <2> QED
      BY <2>2, <2>3, <2>4
  <1>3. ASSUME NEW c \in Clients, WarmCache(c) PROVE UsageInv'
    BY <1>3, KnowsTurn, OtherTurns DEF WarmCache
  <1>4. ASSUME NEW c \in Clients, NEW l \in Counted, TokenUsage(c, l) PROVE UsageInv'
    <2> DEFINE r == [NoTurn EXCEPT !.pc = "check", !.l = l]
    <2>1. r \in Turn /\ r.pc = "check" /\ ~r.fresh
      BY NoTurnIsTurn DEF Turn
    <2>2. UNCHANGED <<usage, rowMu, counted>> /\ caller' = [caller EXCEPT ![c] = r]
      BY <1>4 DEF TokenUsage, Turns
    <2> HIDE DEF r
    <2> QED
      BY <2>1, <2>2, OtherTurns
  <1>5. ASSUME NEW c \in Clients, CallProvider(c) PROVE UsageInv'
    <2> DEFINE r == [caller[c] EXCEPT !.pc = "get", !.l = "workspace"]
    <2>1. r \in Turn /\ r.pc = "get" /\ ~r.fresh
      BY <1>0, <1>5 DEF Turn, CallProvider, Counted
    <2>2. UNCHANGED <<usage, rowMu, counted>> /\ caller' = [caller EXCEPT ![c] = r]
      BY <1>5 DEF CallProvider, Turns
    <2> HIDE DEF r
    <2> QED
      BY <2>1, <2>2, OtherTurns
  <1>6. ASSUME NEW c \in Clients, EndTurn(c) PROVE UsageInv'
    <2>1. UNCHANGED <<usage, rowMu, counted>> /\ caller' = [caller EXCEPT ![c] = NoTurn]
      BY <1>6 DEF EndTurn, TurnEnds, Turns
    <2> QED
      BY <2>1, NoTurnIsTurn, OtherTurns
  <1>7. ASSUME NEW c \in Clients, CacheRow(c) PROVE UsageInv'
    <2> DEFINE r == IF caller[c].l = "workspace"
                    THEN [NoTurn EXCEPT !.pc = "get", !.l = "provider", !.turn = TRUE]
                    ELSE [NoTurn EXCEPT !.pc = "run", !.turn = TRUE]
    <2>1. r \in Turn /\ r.pc \in {"get", "run"} /\ ~r.fresh
      BY NoTurnIsTurn DEF Turn, Counted
    <2>2. UNCHANGED <<usage, rowMu, counted>> /\ caller' = [caller EXCEPT ![c] = r]
      BY <1>7 DEF CacheRow, Turns
    <2> HIDE DEF r
    <2> QED
      BY <2>1, <2>2, OtherTurns
  <1>8. CASE Tick
    BY <1>8 DEF Tick, UsageInv, UsageTypeOK, PutsHoldTheRow, UsageIsExact
  <1> QED
    BY <1>1, <1>2, <1>3, <1>4, <1>5, <1>6, <1>7, <1>8, GetRowStep, PutRowStep DEF UsageStep

-----------------------------------------------------------------------------
(* The modules.                                                            *)

Contents == Nat \X (Files \cup {"absent", "torn"})
Archives == UNION {[fs -> Contents] : fs \in SUBSET Files}
Call == [pc : {"idle", "ask", "write", "copy", "remove", "lib", "run", "zip"},
         kind : {"install", "folder", "remove", "publish"}, scope : Scopes, zip : Archives, topped : BOOLEAN,
         todo : SUBSET Files, f : Files, v : Nat, alone : BOOLEAN, gated : BOOLEAN, approved : BOOLEAN]

ModulesTypeOK ==
    /\ mdir \in [Scopes -> [Files -> Contents]]
    /\ hub \in [version : Nat, zip : Archives]
    /\ mop \in [Clients -> Call]
    /\ DOMAIN said = Scopes

At(d, s) == AtWork(mop[d]) /\ mop[d].scope = s

\* A call that had the folder for itself since it began has it now.
AloneIsAlone ==
    \A c, d \in Clients : AtWork(mop[c]) /\ mop[c].alone /\ At(d, mop[c].scope) => c = d

\* Where a file of a zip goes, and what may then be there.
Goes(r, e) == StripTopDir(e, r.topped)
May(r, t) == {r.zip[e] : e \in {x \in DOMAIN r.zip : Goes(r, x) = t}}

\* What such a call has installed so far is there, but for the file it is at.
SoFar(r, dir) ==
    /\ r.pc = "copy" => dir[Goes(r, r.f)] = Torn
    /\ \A e \in DOMAIN r.zip \ r.todo :
         \/ r.pc = "copy" /\ Goes(r, e) = Goes(r, r.f)
         \/ dir[Goes(r, e)] \in May(r, Goes(r, e))
Installs(r) == r.pc \in {"write", "copy"} /\ r.alone
InstalledSoFar == \A c \in Clients : Installs(mop[c]) => SoFar(mop[c], mdir[mop[c].scope])

\* A call installs what its zip has; one that is asked about or begins with a removal
\* has all of it still to do.
Whole(r) ==
    /\ r.pc \in {"write", "copy"} => r.kind \in {"install", "folder"} /\ r.todo \subseteq DOMAIN r.zip
    /\ r.pc = "copy" => r.f \in DOMAIN r.zip
    /\ r.pc = "ask" => r.kind # "publish"
    /\ r.pc \in {"ask", "remove"} /\ r.kind # "remove" => r.todo = DOMAIN r.zip
CallsAreWhole == \A c \in Clients : Whole(mop[c])

\* After a report nobody was at work in the folder.
Reported(s) == said[s].by \in {"remove", "install", "folder"}
NobodySince == \A s \in Scopes : Reported(s) => \A d \in Clients : ~At(d, s)

ModulesInv ==
    /\ ModulesTypeOK /\ AloneIsAlone /\ CallsAreWhole /\ InstalledSoFar /\ NobodySince
    /\ SaidIsSo /\ NothingUnapproved

-----------------------------------------------------------------------------
\* The zip of a version.
LEMMA FolderIsZip == \A v \in Versions : Folder(v) \in Archives /\ DOMAIN Folder(v) \subseteq Files
  <1> SUFFICES ASSUME NEW v \in Versions PROVE Folder(v) \in Archives /\ DOMAIN Folder(v) \subseteq Files
    OBVIOUS
  <1>1. v \in Nat
    BY ModulesAssumption
  <1> DEFINE fs == IF v = 1 THEN Files ELSE Files \ {"lib/index.js"}
  <1>2. fs \subseteq Files /\ Folder(v) = [f \in fs |-> <<v, f>>]
    BY DEF Folder
  <1> HIDE DEF fs
  <1>3. \A f \in fs : <<v, f>> \in Contents
    BY <1>1, <1>2 DEF Contents
  <1>4. Folder(v) \in [fs -> Contents]
    BY <1>2, <1>3
  <1> QED
    BY <1>2, <1>4 DEF Archives

\* An empty folder zips to nothing.
LEMMA NoZip == <<>> \in Archives
  <1>1. <<>> \in [{} -> Contents]
    OBVIOUS
  <1>2. {} \in SUBSET Files
    OBVIOUS
  <1> QED
    BY <1>1, <1>2 DEF Archives

\* What a zip has in it.
LEMMA ZipDomain == ASSUME NEW z \in Archives PROVE DOMAIN z \subseteq Files /\ \A f \in DOMAIN z : z[f] \in Contents
  BY DEF Archives

\* A client without a call on the modules.
LEMMA NoOpIsCall == NoOp \in Call /\ NoOp.pc = "idle" /\ ~NoOp.gated /\ ~AtWork(NoOp) /\ Whole(NoOp)
  <1>1. Folder(1) \in Archives
    BY FolderIsZip, ModulesAssumption
  <1> HIDE DEF Archives
  <1>2. NoOp \in Call
    BY <1>1 DEF NoOp, Call, Files, Scopes
  <1> QED
    BY <1>2 DEF NoOp, AtWork, Whole

\* The first file of a folder is one of it.
LEMMA FirstIsOne == ASSUME NEW fs \in SUBSET Files, fs # {} PROVE FirstOf(fs) \in fs
  <1> DEFINE Least(n) == Order[n] \in fs /\ \A m \in 1..(n - 1) : Order[m] \notin fs
  <1>1. Order[1] = "index.js" /\ Order[2] = "lib/index.js" /\ Order[3] = "package.json"
    BY DEF Order
  <1>2. \E n \in 1..3 : Order[n] \in fs
    <2>1. PICK f \in fs : f \in Files
      OBVIOUS
    <2>2. f = "index.js" \/ f = "lib/index.js" \/ f = "package.json"
      BY <2>1 DEF Files
    <2> QED
      BY <1>1, <2>1, <2>2
  <1>3. \E n \in 1..3 : Least(n)
    <2>1. CASE Order[1] \in fs
      BY <2>1
    <2>2. CASE Order[1] \notin fs /\ Order[2] \in fs
      <3>1. Least(2)
        BY <2>2
      <3> QED
        BY <3>1
    <2>3. CASE Order[1] \notin fs /\ Order[2] \notin fs
      <3>1. Order[3] \in fs
        BY <1>2, <2>3
      <3>2. \A m \in 1..(3 - 1) : m = 1 \/ m = 2
        OBVIOUS
      <3>3. Least(3)
        BY <2>3, <3>1, <3>2
      <3> QED
        BY <3>3
    <2> QED
      BY <2>1, <2>2, <2>3
  <1> HIDE DEF Least
  <1>4. Least(CHOOSE n \in 1..3 : Least(n))
    BY <1>3
  <1> QED
    BY <1>4 DEF FirstOf, Least

\* Where a file of a zip goes is a file of the folder.
LEMMA StripIsFile == ASSUME NEW f \in Files, NEW t PROVE StripTopDir(f, t) \in Files
  BY DEF StripTopDir, Files

\* InitModules: no folder, nobody at work.
LEMMA ModulesInit == InitModules => ModulesInv
  <1> SUFFICES ASSUME InitModules PROVE ModulesInv
    OBVIOUS
  <1>1. mop = [c \in Clients |-> NoOp] /\ \A c \in Clients : mop[c] = NoOp
    BY DEF InitModules
  <1>2. Folder(1) \in Archives
    BY FolderIsZip, ModulesAssumption
  <1>3. Empty \in [Files -> Contents]
    BY DEF Empty, Absent, Contents
  <1>4. ModulesTypeOK
    BY <1>1, <1>2, <1>3, NoOpIsCall DEF InitModules, ModulesTypeOK
  <1>5. \A s \in Scopes : said[s].by = "none"
    BY DEF InitModules, Nothing
  <1>6. \A c \in Clients : ~AtWork(mop[c]) /\ ~Installs(mop[c]) /\ Whole(mop[c])
    BY <1>1, NoOpIsCall DEF Installs
  <1> QED
    BY <1>4, <1>5, <1>6 DEF ModulesInv, AloneIsAlone, CallsAreWhole, InstalledSoFar, NobodySince, Reported,
         SaidIsSo, NothingUnapproved

\* What touches no module leaves the invariant as it is.
LEMMA ModulesStutter == ModulesInv /\ UNCHANGED modVars => ModulesInv'
  BY DEF modVars, ModulesInv, ModulesTypeOK, AloneIsAlone, CallsAreWhole, InstalledSoFar, NobodySince, At, Reported,
         SaidIsSo, NothingUnapproved

\* One client's call changes, the others' do not.
LEMMA OneOp ==
    ASSUME ModulesTypeOK, NEW c \in Clients, NEW r \in Call, Does(c, r)
    PROVE  /\ mop' \in [Clients -> Call] /\ mop'[c] = r
           /\ \A d \in Clients : d # c => mop'[d] = mop[d]
  BY DEF ModulesTypeOK, Does

\* A call goes on without being at work in a folder.
LEMMA OffWork ==
    ASSUME ModulesInv, NEW c \in Clients, NEW r \in Call, Does(c, r), ~AtWork(r), Whole(r),
           UNCHANGED <<mdir, said>>, hub' \in [version : Nat, zip : Archives]
    PROVE  ModulesInv'
  <1>1. /\ mop' \in [Clients -> Call] /\ mop'[c] = r
        /\ \A d \in Clients : d # c => mop'[d] = mop[d]
    BY OneOp DEF ModulesInv
  <1>2. ~Installs(r)
    BY DEF Installs, AtWork
  <1>3. ModulesTypeOK'
    BY <1>1 DEF ModulesInv, ModulesTypeOK
  <1>4. \A d \in Clients : \A s : At(d, s)' => At(d, s) /\ d # c
    BY <1>1 DEF At
  <1>5. AloneIsAlone'
    <2> SUFFICES ASSUME NEW d \in Clients, NEW e \in Clients, AtWork(mop'[d]), mop'[d].alone,
                        AtWork(mop'[e]), mop'[e].scope = mop'[d].scope
                 PROVE  d = e
      BY DEF AloneIsAlone, At
    <2>1. d # c /\ mop'[d] = mop[d] /\ At(e, mop[d].scope)
      BY <1>1, <1>4 DEF At
    <2> QED
      BY <2>1 DEF ModulesInv, AloneIsAlone
  <1>6. CallsAreWhole' /\ NothingUnapproved'
    BY <1>1 DEF ModulesInv, CallsAreWhole, NothingUnapproved
  <1>7. InstalledSoFar'
    BY <1>1, <1>2 DEF ModulesInv, InstalledSoFar
  <1>8. NobodySince' /\ SaidIsSo'
    BY <1>4 DEF ModulesInv, NobodySince, Reported, SaidIsSo
  <1> QED
    BY <1>3, <1>5, <1>6, <1>7, <1>8 DEF ModulesInv

\* A call gets to a folder.
LEMMA Entering ==
    ASSUME ModulesInv, NEW c \in Clients, NEW r \in Call, Enters(c, r), ~AtWork(mop[c]),
           r.pc \in {"write", "remove"}, Whole(r), r.pc = "write" => r.todo = DOMAIN r.zip,
           r.gated => r.approved, UNCHANGED <<mdir, hub>>
    PROVE  ModulesInv'
  <1> DEFINE others == {d \in Clients \ {c} : AtWork(mop[d]) /\ mop[d].scope = r.scope}
             q == [r EXCEPT !.alone = others = {}]
  <1>0. \A d \in Clients : mop[d] \in Call
    BY DEF ModulesInv, ModulesTypeOK
  <1>1. /\ mop' = [d \in Clients |-> IF d = c THEN q ELSE [mop[d] EXCEPT !.alone = mop[d].alone /\ d \notin others]]
        /\ said' = [said EXCEPT ![r.scope] = Nothing]
    BY DEF Enters
  <1>2. /\ mop'[c] = q /\ q \in Call /\ q.pc = r.pc /\ q.scope = r.scope /\ q.zip = r.zip /\ q.todo = r.todo
        /\ q.f = r.f /\ q.topped = r.topped /\ q.kind = r.kind /\ (q.gated <=> r.gated) /\ (q.approved <=> r.approved)
        /\ (q.alone <=> others = {})
    BY <1>1 DEF Call
  <1>3. ASSUME NEW d \in Clients, d # c
        PROVE  /\ mop'[d] \in Call /\ mop'[d].pc = mop[d].pc /\ mop'[d].scope = mop[d].scope /\ mop'[d].zip = mop[d].zip
               /\ mop'[d].todo = mop[d].todo /\ mop'[d].f = mop[d].f /\ mop'[d].topped = mop[d].topped
               /\ mop'[d].kind = mop[d].kind /\ (mop'[d].gated <=> mop[d].gated)
               /\ (mop'[d].approved <=> mop[d].approved)
               /\ (mop'[d].alone <=> mop[d].alone /\ d \notin others)
    <2>1. mop'[d] = [mop[d] EXCEPT !.alone = mop[d].alone /\ d \notin others]
      BY <1>1, <1>3
    <2> HIDE DEF others
    <2> QED
      BY <1>0, <2>1 DEF Call
  <1> HIDE DEF q
  <1>4. ModulesTypeOK'
    BY <1>1, <1>2, <1>3 DEF ModulesInv, ModulesTypeOK
  <1>5. \A d \in Clients : \A s : d # c => (At(d, s)' <=> At(d, s))
    BY <1>3 DEF At, AtWork
  <1>6. AloneIsAlone'
    <2> SUFFICES ASSUME NEW d \in Clients, NEW e \in Clients, AtWork(mop'[d]), mop'[d].alone,
                        AtWork(mop'[e]), mop'[e].scope = mop'[d].scope,
                        d # e
                 PROVE  FALSE
      BY DEF AloneIsAlone, At
    <2>1. CASE d = c
      <3>1. e \in others
        BY <1>2, <1>5, <2>1 DEF At
      <3> QED
        BY <1>2, <2>1, <3>1
    <2>2. CASE e = c
      <3>1. d \in others
        BY <1>2, <1>3, <2>2 DEF At, AtWork
      <3> QED
        BY <1>3, <2>2, <3>1
    <2>3. CASE d # c /\ e # c
      <3>1. AtWork(mop[d]) /\ mop[d].alone /\ At(e, mop[d].scope)
        BY <1>3, <1>5, <2>3 DEF At, AtWork
      <3> QED
        BY <3>1 DEF ModulesInv, AloneIsAlone
    <2> QED
      BY <2>1, <2>2, <2>3
  <1>7. CallsAreWhole' /\ NothingUnapproved'
    BY <1>2, <1>3 DEF ModulesInv, CallsAreWhole, Whole, NothingUnapproved, AtWork
  <1>8. InstalledSoFar'
    <2> SUFFICES ASSUME NEW d \in Clients, Installs(mop'[d]) PROVE SoFar(mop'[d], mdir[mop'[d].scope])
      BY DEF InstalledSoFar
    <2>1. CASE d = c
      BY <1>2, <2>1 DEF SoFar, Installs
    <2>2. CASE d # c
      <3>1. SoFar(mop[d], mdir[mop[d].scope])
        BY <1>3, <2>2 DEF ModulesInv, InstalledSoFar, Installs
      <3> QED
        BY <1>3, <2>2, <3>1 DEF SoFar, Goes, May
    <2> QED
      BY <2>1, <2>2
  <1>9. \A s \in Scopes : said'[s] = IF s = r.scope THEN Nothing ELSE said[s]
    BY <1>1 DEF ModulesInv, ModulesTypeOK
  <1>10. NobodySince'
    <2> SUFFICES ASSUME NEW s \in Scopes, Reported(s)', NEW d \in Clients PROVE ~At(d, s)'
      BY DEF NobodySince
    <2>1. s # r.scope /\ Reported(s)
      BY <1>9 DEF Reported, Nothing
    <2> QED
      BY <1>2, <1>5, <2>1 DEF ModulesInv, NobodySince, At
  <1>11. SaidIsSo'
    BY <1>9 DEF ModulesInv, SaidIsSo, Nothing
  <1> QED
    BY <1>4, <1>6, <1>7, <1>8, <1>10, <1>11 DEF ModulesInv

\* A call at work ends and reports what is so, if it was alone.
LEMMA Reporting ==
    ASSUME ModulesInv, NEW c \in Clients, NEW what, AtWork(mop[c]), Reports(c, what), UNCHANGED <<mdir, hub>>,
           mop[c].alone =>
             /\ what.by = "remove" => mdir[mop[c].scope] = Empty
             /\ what.by \in {"install", "folder"}
                  => \A f \in DOMAIN what.want : mdir[mop[c].scope][f] \in what.want[f]
    PROVE  ModulesInv'
  <1> DEFINE s == mop[c].scope
  <1>1. /\ mop' \in [Clients -> Call] /\ mop'[c] = NoOp
        /\ \A d \in Clients : d # c => mop'[d] = mop[d]
    BY NoOpIsCall, OneOp DEF ModulesInv, Reports
  <1>2. /\ \A q \in Scopes : q # s => said'[q] = said[q]
        /\ said'[s] = IF mop[c].alone THEN what ELSE Nothing
        /\ DOMAIN said' = Scopes /\ s \in Scopes
    BY DEF Reports, ModulesInv, ModulesTypeOK, Call
  <1>3. ModulesTypeOK'
    BY <1>1, <1>2 DEF ModulesInv, ModulesTypeOK
  <1>4. \A d \in Clients : \A q : At(d, q)' => At(d, q) /\ d # c
    BY <1>1, NoOpIsCall DEF At
  <1>5. AloneIsAlone'
    <2> SUFFICES ASSUME NEW d \in Clients, NEW e \in Clients, AtWork(mop'[d]), mop'[d].alone,
                        AtWork(mop'[e]), mop'[e].scope = mop'[d].scope
                 PROVE  d = e
      BY DEF AloneIsAlone, At
    <2>1. d # c /\ mop'[d] = mop[d] /\ At(e, mop[d].scope)
      BY <1>1, <1>4 DEF At
    <2> QED
      BY <2>1 DEF ModulesInv, AloneIsAlone
  <1>6. CallsAreWhole' /\ NothingUnapproved'
    BY <1>1, NoOpIsCall DEF ModulesInv, CallsAreWhole, NothingUnapproved
  <1>7. InstalledSoFar'
    BY <1>1, NoOpIsCall DEF ModulesInv, InstalledSoFar, Installs
  <1>8. NobodySince'
    <2> SUFFICES ASSUME NEW q \in Scopes, Reported(q)', NEW d \in Clients, At(d, q)' PROVE FALSE
      BY DEF NobodySince
    <2>1. At(d, q) /\ d # c
      BY <1>4
    <2>2. CASE q = s
      <3>1. mop[c].alone
        BY <1>2, <2>2 DEF Reported, Nothing
      <3> QED
        BY <2>1, <2>2, <3>1 DEF ModulesInv, AloneIsAlone
    <2>3. CASE q # s
      BY <1>2, <2>1, <2>3 DEF ModulesInv, NobodySince, Reported
    <2> QED
      BY <2>2, <2>3
  <1>9. SaidIsSo'
    <2> SUFFICES ASSUME NEW q \in Scopes
                 PROVE  /\ said'[q].by = "remove" => mdir[q] = Empty
                        /\ said'[q].by \in {"install", "folder"}
                             => \A f \in DOMAIN said'[q].want : mdir[q][f] \in said'[q].want[f]
      BY DEF SaidIsSo
    <2>1. CASE q = s
      BY <1>2, <2>1 DEF Nothing
    <2>2. CASE q # s
      BY <1>2, <2>2 DEF ModulesInv, SaidIsSo
    <2> QED
      BY <2>1, <2>2
  <1> QED
    BY <1>3, <1>5, <1>6, <1>7, <1>8, <1>9 DEF ModulesInv

\* A call at work changes a file of its folder: nobody else had it for himself.
LEMMA Working ==
    ASSUME ModulesInv, NEW c \in Clients, NEW r \in Call, AtWork(mop[c]), Does(c, r), AtWork(r),
           r.scope = mop[c].scope, r.alone <=> mop[c].alone, r.gated <=> mop[c].gated,
           r.approved <=> mop[c].approved, Whole(r), UNCHANGED <<said, hub>>,
           mdir' \in [Scopes -> [Files -> Contents]],
           \A s \in Scopes : s # r.scope => mdir'[s] = mdir[s],
           Installs(r) => SoFar(r, mdir'[r.scope])
    PROVE  ModulesInv'
  <1>1. /\ mop' \in [Clients -> Call] /\ mop'[c] = r
        /\ \A d \in Clients : d # c => mop'[d] = mop[d]
    BY OneOp DEF ModulesInv
  <1>2. ModulesTypeOK'
    BY <1>1 DEF ModulesInv, ModulesTypeOK
  <1>3. \A d \in Clients : \A s : At(d, s)' <=> At(d, s)
    BY <1>1 DEF At
  <1>4. AloneIsAlone'
    <2> SUFFICES ASSUME NEW d \in Clients, NEW e \in Clients, AtWork(mop'[d]), mop'[d].alone,
                        AtWork(mop'[e]), mop'[e].scope = mop'[d].scope
                 PROVE  d = e
      BY DEF AloneIsAlone, At
    <2>1. AtWork(mop[d]) /\ mop[d].alone /\ At(e, mop[d].scope)
      BY <1>1, <1>3 DEF At
    <2> QED
      BY <2>1 DEF ModulesInv, AloneIsAlone
  <1>5. CallsAreWhole' /\ NothingUnapproved'
    BY <1>1 DEF ModulesInv, CallsAreWhole, NothingUnapproved
  <1>6. InstalledSoFar'
    <2> SUFFICES ASSUME NEW d \in Clients, Installs(mop'[d]) PROVE SoFar(mop'[d], mdir'[mop'[d].scope])
      BY DEF InstalledSoFar
    <2>1. CASE d = c
      BY <1>1, <2>1
    <2>2. CASE d # c
      <3>1. mop'[d] = mop[d] /\ Installs(mop[d]) /\ mop[d].scope \in Scopes /\ SoFar(mop[d], mdir[mop[d].scope])
        BY <1>1, <2>2 DEF ModulesInv, ModulesTypeOK, InstalledSoFar, Call
      <3>2. mop[d].scope # r.scope
        BY <2>2, <3>1 DEF ModulesInv, AloneIsAlone, At, AtWork, Installs
      <3> QED
        BY <3>1, <3>2
    <2> QED
      BY <2>1, <2>2
  <1>7. NobodySince'
    BY <1>3 DEF ModulesInv, NobodySince, Reported
  <1>8. SaidIsSo'
    <2>1. At(c, r.scope)
      BY DEF At
    <2>2. \A s \in Scopes : Reported(s) => s # r.scope
      BY <2>1 DEF ModulesInv, NobodySince
    <2> QED
      BY <2>2 DEF ModulesInv, SaidIsSo, Reported
  <1> QED
    BY <1>2, <1>4, <1>5, <1>6, <1>7, <1>8 DEF ModulesInv

\* What can be installed is a zip.
LEMMA ZipsAreZips == ASSUME ModulesInv, NEW z \in Zips \cup {Hosted} PROVE z.zip \in Archives /\ z.topped \in BOOLEAN
  <1>1. CASE z \in Zips
    <2>1. PICK v \in Versions, t \in BOOLEAN : z = [zip |-> Folder(v), topped |-> t]
      BY <1>1 DEF Zips
    <2> QED
      BY <2>1, FolderIsZip
  <1>2. CASE z = Hosted
    <2>1. hub.zip \in Archives /\ Folder(1) \in Archives
      BY FolderIsZip, ModulesAssumption DEF ModulesInv, ModulesTypeOK
    <2> QED
      BY <1>2, <2>1 DEF Hosted
  <1> QED
    BY <1>1, <1>2

\* The call that an installation begins with.
LEMMA AskedIsCall ==
    ASSUME NEW s \in Scopes, NEW z, z.zip \in Archives, z.topped \in BOOLEAN, NEW c
    PROVE  /\ Asked(c, s, z) \in Call /\ Asked(c, s, z).pc = "write" /\ Asked(c, s, z).kind = "install"
           /\ Asked(c, s, z).todo = DOMAIN z.zip /\ Asked(c, s, z).zip = z.zip /\ ~Asked(c, s, z).gated
           /\ Asked(c, s, z).scope = s
  <1>1. DOMAIN z.zip \in SUBSET Files
    BY ZipDomain
  <1>2. NoOp \in Call /\ NoOp.kind = "install" /\ ~NoOp.gated
    BY NoOpIsCall DEF NoOp
  <1> DEFINE r == Asked(c, s, z)
  <1>3. r \in Call
    BY <1>1, <1>2 DEF Call, Asked
  <1>4. /\ r.pc = "write" /\ r.kind = "install" /\ r.todo = DOMAIN z.zip /\ r.zip = z.zip /\ ~r.gated
        /\ r.scope = s
    BY <1>1, <1>2 DEF Call, Asked
  <1> QED
    BY <1>3, <1>4

\* InstallModule gets to the folder.
LEMMA BeginsInstall ==
    ASSUME ModulesInv, NEW c \in Clients, NEW s \in Scopes, NEW z \in Zips \cup {Hosted}, InstallModule(c, s, z)
    PROVE  ModulesInv'
  <1>1. z.zip \in Archives /\ z.topped \in BOOLEAN
    BY ZipsAreZips
  <1>2. /\ Enters(c, Asked(c, s, z)) /\ ~AtWork(mop[c]) /\ UNCHANGED <<mdir, hub>>
    BY DEF InstallModule, Idle, AtWork
  <1> DEFINE r == Asked(c, s, z)
  <1>3. r \in Call /\ r.pc = "write" /\ Whole(r) /\ r.todo = DOMAIN r.zip /\ ~r.gated
    BY <1>1, AskedIsCall DEF Whole
  <1> HIDE DEF r
  <1>4. Enters(c, r)
    BY <1>2 DEF r
  <1> QED
    BY <1>2, <1>3, <1>4, Entering

\* InstallFolderAsModule gets to the folder, to empty it first.
LEMMA BeginsFolder ==
    ASSUME ModulesInv, NEW c \in Clients, NEW s \in Scopes, NEW v \in Versions, InstallFolderAsModule(c, s, v)
    PROVE  ModulesInv'
  <1> DEFINE z == [zip |-> Folder(v), topped |-> TRUE]
             a == Asked(c, s, z)
             r == [a EXCEPT !.pc = "remove", !.kind = "folder"]
  <1>1. z.zip \in Archives /\ z.topped \in BOOLEAN
    BY FolderIsZip
  <1>2. /\ Enters(c, r) /\ ~AtWork(mop[c]) /\ UNCHANGED <<mdir, hub>>
    BY DEF InstallFolderAsModule, Idle, AtWork
  <1> HIDE DEF z
  <1>3. a \in Call /\ a.pc = "write" /\ a.todo = DOMAIN a.zip /\ ~a.gated
    BY <1>1, AskedIsCall
  <1> HIDE DEF a
  <1>4. r \in Call /\ r.pc = "remove" /\ Whole(r) /\ ~r.gated
    BY <1>3 DEF Call, Whole
  <1> HIDE DEF r
  <1> QED
    BY <1>2, <1>4, Entering

\* The call that a removal begins with.
LEMMA RemovalIsCall ==
    ASSUME NEW s \in Scopes
    PROVE  LET r == [NoOp EXCEPT !.pc = "remove", !.kind = "remove", !.scope = s]
           IN  r \in Call /\ r.pc = "remove" /\ r.kind = "remove" /\ Whole(r) /\ ~r.gated
  BY NoOpIsCall DEF Call, Whole

\* DeleteModule gets to the folder, or finds none of that name.
LEMMA BeginsRemoval ==
    ASSUME ModulesInv, NEW c \in Clients, NEW s \in Scopes, NEW named, DeleteModule(c, s, named)
    PROVE  ModulesInv'
  <1> DEFINE r == [NoOp EXCEPT !.pc = "remove", !.kind = "remove", !.scope = s]
  <1>1. ~AtWork(mop[c]) /\ UNCHANGED <<mdir, hub>>
    BY DEF DeleteModule, Idle, AtWork
  <1>2. Enters(c, r) \/ (said' = [said EXCEPT ![s] = [by |-> "name"]] /\ UNCHANGED mop)
    BY DEF DeleteModule
  <1>3. r \in Call /\ r.pc = "remove" /\ Whole(r) /\ ~r.gated
    BY RemovalIsCall
  <1> HIDE DEF r
  <1>4. CASE Enters(c, r)
    BY <1>1, <1>3, <1>4, Entering
  <1>5. CASE said' = [said EXCEPT ![s] = [by |-> "name"]] /\ UNCHANGED mop
    <2>1. DOMAIN said' = Scopes /\ \A q \in Scopes : said'[q] = said[q] \/ said'[q].by = "name"
      BY <1>5 DEF ModulesInv, ModulesTypeOK
    <2>2. \A q \in Scopes : Reported(q)' => Reported(q) /\ said'[q] = said[q]
      BY <2>1 DEF Reported
    <2>3. NobodySince'
      BY <1>5, <2>2 DEF ModulesInv, NobodySince, At
    <2>4. SaidIsSo'
      BY <1>1, <2>1 DEF ModulesInv, SaidIsSo
    <2> QED
      BY <1>1, <1>5, <2>1, <2>3, <2>4
      DEF ModulesInv, ModulesTypeOK, AloneIsAlone, CallsAreWhole, InstalledSoFar, NothingUnapproved, At
  <1> QED
    BY <1>2, <1>4, <1>5

\* A script's call: it asks, or the switch is off and the user was not told otherwise.
LEMMA BeginsScript ==
    ASSUME ModulesInv, SettingsInv, NEW c \in Clients, NEW s \in Scopes, ScriptCalls(c, s)
    PROVE  ModulesInv'
  <1> DEFINE z == Hosted
             a == Asked(c, s, z)
             b == [NoOp EXCEPT !.pc = "remove", !.kind = "remove", !.scope = s]
  <1>1. ~AtWork(mop[c]) /\ UNCHANGED <<mdir, hub>>
    BY DEF ScriptCalls, Idle, AtWork
  <1>2. PICK r \in {a} \cup {b} :
          IF NeedsConfirm
          THEN Does(c, [r EXCEPT !.pc = "ask", !.gated = TRUE]) /\ UNCHANGED said
          ELSE Enters(c, [r EXCEPT !.gated = promised # {} /\ reset = "no"])
    BY DEF ScriptCalls
  <1>3. z.zip \in Archives /\ z.topped \in BOOLEAN
    BY ZipsAreZips
  <1> HIDE DEF z
  <1>4. a \in Call /\ a.pc = "write" /\ a.kind = "install" /\ a.todo = DOMAIN a.zip
    BY <1>3, AskedIsCall
  <1>5. b \in Call /\ b.pc = "remove" /\ b.kind = "remove"
    BY RemovalIsCall
  <1> HIDE DEF a, b
  <1>6. /\ r \in Call /\ r.pc \in {"write", "remove"} /\ r.kind \in {"install", "remove"}
        /\ r.pc = "write" => r.kind = "install"
        /\ r.pc = "remove" => r.kind = "remove"
        /\ r.kind = "install" => r.todo = DOMAIN r.zip
    BY <1>2, <1>4, <1>5
  <1>7. CASE NeedsConfirm
    <2> DEFINE q == [r EXCEPT !.pc = "ask", !.gated = TRUE]
    <2>1. q \in Call /\ ~AtWork(q) /\ Whole(q)
      BY <1>6 DEF Call, AtWork, Whole
    <2>2. Does(c, q) /\ UNCHANGED said
      BY <1>2, <1>7
    <2>3. hub' \in [version : Nat, zip : Archives]
      BY <1>1 DEF ModulesInv, ModulesTypeOK
    <2> HIDE DEF q
    <2> QED
      BY <1>1, <2>1, <2>2, <2>3, OffWork
  <1>8. CASE ~NeedsConfirm
    <2> DEFINE on == promised # {} /\ reset = "no"
               q == [r EXCEPT !.gated = on]
    <2>1. ~on
      BY <1>8 DEF NeedsConfirm, Resolved, Setting, Loaded, SettingsInv, WorkspaceInv, SwitchIsKept,
                  UserSwitchIsKept, Scopes
    <2>2. Enters(c, q)
      BY <1>2, <1>8
    <2>3. on \in BOOLEAN
      OBVIOUS
    <2> HIDE DEF on
    <2>4. q \in Call /\ q.pc = r.pc /\ q.kind = r.kind /\ q.todo = r.todo /\ q.zip = r.zip /\ ~q.gated
      BY <1>6, <2>1, <2>3 DEF Call
    <2> HIDE DEF q
    <2>5. Whole(q)
      BY <1>6, <2>4 DEF Whole
    <2> QED
      BY <1>1, <1>6, <2>2, <2>4, <2>5, Entering
  <1> QED
    BY <1>7, <1>8

\* The user answers what a script asked: only an approval gets to the folder.
LEMMA AnswersStep == ASSUME ModulesInv, NEW c \in Clients, Answers(c) PROVE ModulesInv'
  <1> DEFINE r == mop[c]
             q == [r EXCEPT !.approved = TRUE, !.pc = IF r.kind = "remove" THEN "remove" ELSE "write"]
  <1>1. /\ r \in Call /\ Whole(r) /\ r.pc = "ask" /\ UNCHANGED <<mdir, hub>>
        /\ Enters(c, q) \/ (Does(c, NoOp) /\ UNCHANGED said)
        /\ hub' \in [version : Nat, zip : Archives]
    BY DEF Answers, ModulesInv, ModulesTypeOK, CallsAreWhole
  <1>2. q \in Call /\ q.pc \in {"write", "remove"} /\ q.approved /\ Whole(q) /\ (q.pc = "write" => q.todo = DOMAIN q.zip)
    BY <1>1 DEF Call, Whole
  <1>3. ~AtWork(mop[c])
    BY <1>1 DEF AtWork
  <1> HIDE DEF q
  <1>4. CASE Enters(c, q)
    BY <1>1, <1>2, <1>3, <1>4, Entering
  <1>5. CASE Does(c, NoOp) /\ UNCHANGED said
    BY <1>1, <1>5, NoOpIsCall, OffWork
  <1> QED
    BY <1>1, <1>4, <1>5

\* OpenFile empties the file that is to be written.
LEMMA OpenStep == ASSUME ModulesInv, NEW c \in Clients, OpenFile(c) PROVE ModulesInv'
  <1> DEFINE r == mop[c]
             e == FirstOf(r.todo)
             t == StripTopDir(e, r.topped)
             q == [r EXCEPT !.pc = "copy", !.f = e, !.todo = r.todo \ {e}]
  <1>1. /\ r \in Call /\ Whole(r) /\ r.pc = "write" /\ r.todo # {} /\ UNCHANGED <<hub, said>> /\ Does(c, q)
        /\ mdir' = [mdir EXCEPT ![r.scope][t] = Torn] /\ r.scope \in Scopes /\ r.todo \in SUBSET Files
    BY DEF OpenFile, ModulesInv, ModulesTypeOK, CallsAreWhole, Call
  <1>2. e \in r.todo /\ e \in Files /\ t \in Files
    BY <1>1, FirstIsOne, StripIsFile
  <1> HIDE DEF e
  <1>3. /\ q \in Call /\ q.pc = "copy" /\ q.f = e /\ q.todo = r.todo \ {e} /\ q.zip = r.zip /\ q.topped = r.topped
        /\ q.scope = r.scope /\ q.kind = r.kind /\ (q.alone <=> r.alone) /\ (q.gated <=> r.gated)
        /\ (q.approved <=> r.approved)
    BY <1>1, <1>2 DEF Call
  <1> HIDE DEF q
  <1>4. /\ mdir' \in [Scopes -> [Files -> Contents]] /\ mdir'[r.scope][t] = Torn
        /\ \A s \in Scopes : s # r.scope => mdir'[s] = mdir[s]
        /\ \A f \in Files : f # t => mdir'[r.scope][f] = mdir[r.scope][f]
    <2>1. Torn \in Contents
      BY DEF Torn, Contents
    <2> QED
      BY <1>1, <1>2, <2>1 DEF ModulesInv, ModulesTypeOK
  <1>5. Whole(q) /\ AtWork(q) /\ AtWork(r)
    BY <1>1, <1>2, <1>3 DEF Whole, AtWork
  <1>6. Installs(q) => SoFar(q, mdir'[q.scope])
    <2> SUFFICES ASSUME Installs(q) PROVE SoFar(q, mdir'[r.scope])
      BY <1>3
    <2>1. SoFar(r, mdir[r.scope])
      BY <1>1, <1>3 DEF ModulesInv, InstalledSoFar, Installs
    <2>2. \A x \in DOMAIN r.zip : StripTopDir(x, r.topped) \in Files
      BY <1>1, ZipDomain, StripIsFile DEF Call
    <2>3. \A x \in DOMAIN q.zip \ q.todo :
            \/ Goes(q, x) = Goes(q, q.f)
            \/ mdir'[r.scope][Goes(q, x)] \in May(q, Goes(q, x))
      <3> SUFFICES ASSUME NEW x \in DOMAIN q.zip \ q.todo, Goes(q, x) # Goes(q, q.f)
                   PROVE  mdir'[r.scope][Goes(q, x)] \in May(q, Goes(q, x))
        OBVIOUS
      <3>1. x \in DOMAIN r.zip \ r.todo /\ Goes(q, x) = Goes(r, x) /\ Goes(q, q.f) = t /\ Goes(r, x) # t
        BY <1>3 DEF Goes
      <3>2. mdir[r.scope][Goes(r, x)] \in May(r, Goes(r, x))
        BY <1>1, <2>1, <3>1 DEF SoFar
      <3>3. May(q, Goes(q, x)) = May(r, Goes(r, x))
        BY <1>3, <3>1 DEF May, Goes
      <3>4. Goes(r, x) \in Files
        BY <2>2, <3>1 DEF Goes
      <3> QED
        BY <1>4, <3>1, <3>2, <3>3, <3>4
    <2>4. mdir'[r.scope][Goes(q, q.f)] = Torn
      BY <1>3, <1>4 DEF Goes
    <2> QED
      BY <1>3, <2>3, <2>4 DEF SoFar
  <1> HIDE DEF t
  <1> QED
    BY <1>1, <1>3, <1>4, <1>5, <1>6, Working

\* CopyFile fills it.
LEMMA CopyStep == ASSUME ModulesInv, NEW c \in Clients, CopyFile(c) PROVE ModulesInv'
  <1> DEFINE r == mop[c]
             t == StripTopDir(r.f, r.topped)
             q == [r EXCEPT !.pc = "write"]
  <1>1. /\ r \in Call /\ Whole(r) /\ r.pc = "copy" /\ UNCHANGED <<hub, said>> /\ Does(c, q)
        /\ r.scope \in Scopes /\ r.f \in Files
    BY DEF CopyFile, ModulesInv, ModulesTypeOK, CallsAreWhole, Call
  <1>2. PICK is \in CASE mdir[r.scope][t] = Torn -> {r.zip[r.f]} [] mdir[r.scope][t] = Absent -> {Absent}
                      [] OTHER -> {r.zip[r.f], Torn} :
          mdir' = [mdir EXCEPT ![r.scope][t] = is]
    BY DEF CopyFile
  <1>3. t \in Files
    BY <1>1, StripIsFile
  <1>4. /\ q \in Call /\ q.pc = "write" /\ q.f = r.f /\ q.todo = r.todo /\ q.zip = r.zip /\ q.topped = r.topped
        /\ q.scope = r.scope /\ q.kind = r.kind /\ (q.alone <=> r.alone) /\ (q.gated <=> r.gated)
        /\ (q.approved <=> r.approved)
    BY <1>1 DEF Call
  <1> HIDE DEF q
  <1>5. /\ mdir'[r.scope][t] = is
        /\ \A s \in Scopes : s # r.scope => mdir'[s] = mdir[s]
        /\ \A f \in Files : f # t => mdir'[r.scope][f] = mdir[r.scope][f]
    BY <1>1, <1>2, <1>3 DEF ModulesInv, ModulesTypeOK
  <1>6. is \in Contents
    <2>1. Torn \in Contents /\ Absent \in Contents
      BY DEF Torn, Absent, Contents
    <2>2. r.f \in DOMAIN r.zip => r.zip[r.f] \in Contents
      BY <1>1, ZipDomain DEF Call
    <2>3. r.f \in DOMAIN r.zip
      BY <1>1 DEF Whole
    <2> QED
      BY <1>2, <2>1, <2>2, <2>3
  <1>7. mdir' \in [Scopes -> [Files -> Contents]]
    BY <1>1, <1>2, <1>3, <1>6 DEF ModulesInv, ModulesTypeOK
  <1>8. Whole(q) /\ AtWork(q) /\ AtWork(r)
    BY <1>1, <1>4 DEF Whole, AtWork
  <1>9. Installs(q) => SoFar(q, mdir'[q.scope])
    <2> SUFFICES ASSUME Installs(q) PROVE SoFar(q, mdir'[r.scope])
      BY <1>4
    <2>1. SoFar(r, mdir[r.scope])
      BY <1>1, <1>4 DEF ModulesInv, InstalledSoFar, Installs
    <2>2. mdir[r.scope][t] = Torn /\ r.f \in DOMAIN r.zip /\ is = r.zip[r.f]
      <3>1. mdir[r.scope][t] = Torn /\ r.f \in DOMAIN r.zip
        BY <1>1, <2>1 DEF SoFar, Goes, Whole
      <3> DEFINE there == mdir[r.scope][t]
      <3>2. is \in CASE there = Torn -> {r.zip[r.f]} [] there = Absent -> {Absent} [] OTHER -> {r.zip[r.f], Torn}
        BY <1>2
      <3>3. there = Torn
        BY <3>1
      <3> HIDE DEF there
      <3>4. Torn # Absent
        BY DEF Torn, Absent
      <3>5. is \in {r.zip[r.f]}
        BY <3>2, <3>3, <3>4
      <3> QED
        BY <3>1, <3>5
    <2>3. \A x \in DOMAIN r.zip : StripTopDir(x, r.topped) \in Files
      BY <1>1, ZipDomain, StripIsFile DEF Call
    <2>4. \A x \in DOMAIN q.zip \ q.todo : mdir'[r.scope][Goes(q, x)] \in May(q, Goes(q, x))
      <3> SUFFICES ASSUME NEW x \in DOMAIN q.zip \ q.todo PROVE mdir'[r.scope][Goes(q, x)] \in May(q, Goes(q, x))
        OBVIOUS
      <3>1. x \in DOMAIN r.zip \ r.todo /\ Goes(q, x) = Goes(r, x)
        BY <1>4 DEF Goes
      <3>2. May(q, Goes(q, x)) = May(r, Goes(r, x))
        BY <1>4, <3>1 DEF May, Goes
      <3>3. CASE Goes(r, x) = t
        <4>1. is \in May(r, t)
          BY <2>2 DEF May, Goes
        <4> QED
          BY <1>5, <3>1, <3>2, <3>3, <4>1
      <3>4. CASE Goes(r, x) # t
        <4>1. mdir[r.scope][Goes(r, x)] \in May(r, Goes(r, x))
          BY <1>1, <2>1, <3>1, <3>4 DEF SoFar, Goes
        <4>2. Goes(r, x) \in Files
          BY <2>3, <3>1 DEF Goes
        <4> QED
          BY <1>5, <3>1, <3>2, <3>4, <4>1, <4>2
      <3> QED
        BY <3>3, <3>4
    <2> QED
      BY <1>4, <2>4 DEF SoFar
  <1> HIDE DEF t
  <1> QED
    BY <1>1, <1>4, <1>5, <1>7, <1>8, <1>9, Working

\* RemoveFile takes one file away.
LEMMA RemoveFileStep == ASSUME ModulesInv, NEW c \in Clients, RemoveFile(c) PROVE ModulesInv'
  <1> DEFINE r == mop[c]
  <1>1. /\ r \in Call /\ Whole(r) /\ r.pc = "remove" /\ UNCHANGED <<hub, mop, said>> /\ r.scope \in Scopes
    BY DEF RemoveFile, ModulesInv, ModulesTypeOK, CallsAreWhole, Call
  <1>2. PICK f \in Files : mdir' = [mdir EXCEPT ![r.scope][f] = Absent]
    BY DEF RemoveFile, Present
  <1>3. Does(c, r)
    BY <1>1 DEF Does, ModulesInv, ModulesTypeOK
  <1>4. Absent \in Contents
    BY DEF Absent, Contents
  <1>5. mdir' \in [Scopes -> [Files -> Contents]] /\ \A s \in Scopes : s # r.scope => mdir'[s] = mdir[s]
    BY <1>1, <1>2, <1>4 DEF ModulesInv, ModulesTypeOK
  <1>6. AtWork(r) /\ ~Installs(r)
    BY <1>1 DEF AtWork, Installs
  <1> HIDE DEF r
  <1>7. r = mop[c]
    BY DEF r
  <1> QED
    BY <1>1, <1>3, <1>5, <1>6, <1>7, Working

\* When the folder is empty, the removal is reported or the copies begin.
LEMMA RemovedStep == ASSUME ModulesInv, NEW c \in Clients, Removed(c) PROVE ModulesInv'
  <1> DEFINE r == mop[c]
             q == [r EXCEPT !.pc = "write"]
             what == IF Present(r.scope) = {} THEN [by |-> "remove"] ELSE Nothing
  <1>1. /\ r \in Call /\ Whole(r) /\ r.pc = "remove" /\ UNCHANGED <<mdir, hub>> /\ r.scope \in Scopes /\ AtWork(r)
        /\ \/ r.kind = "folder" /\ Does(c, q) /\ UNCHANGED said
           \/ Reports(c, what)
    BY DEF Removed, ModulesInv, ModulesTypeOK, CallsAreWhole, Call, AtWork
  <1>2. CASE r.kind = "folder" /\ Does(c, q) /\ UNCHANGED said
    <2>1. /\ q \in Call /\ q.pc = "write" /\ q.todo = r.todo /\ q.zip = r.zip /\ q.scope = r.scope /\ q.kind = r.kind
          /\ (q.alone <=> r.alone) /\ (q.gated <=> r.gated) /\ (q.approved <=> r.approved)
      BY <1>1 DEF Call
    <2> HIDE DEF q
    <2>2. q.todo = DOMAIN q.zip
      BY <1>1, <1>2, <2>1 DEF Whole
    <2>3. Whole(q) /\ AtWork(q) /\ SoFar(q, mdir'[q.scope])
      BY <1>2, <2>1, <2>2 DEF Whole, AtWork, SoFar
    <2>4. mdir' \in [Scopes -> [Files -> Contents]]
      BY <1>1 DEF ModulesInv, ModulesTypeOK
    <2>5. Does(c, q)
      BY <1>2
    <2> QED
      BY <1>1, <1>2, <2>1, <2>3, <2>4, <2>5, Working
  <1>3. CASE Reports(c, what)
    <2>1. what.by \in {"remove", "none"}
      BY DEF Nothing
    <2>2. what.by = "remove" => mdir[r.scope] = Empty
      <3>1. what.by = "remove" => \A f \in Files : mdir[r.scope][f] = Absent
        BY DEF Nothing, Present
      <3>2. mdir[r.scope] \in [Files -> Contents]
        BY <1>1 DEF ModulesInv, ModulesTypeOK
      <3> QED
        BY <3>1, <3>2 DEF Empty
    <2> HIDE DEF what
    <2> QED
      BY <1>1, <1>3, <2>1, <2>2, Reporting
  <1> QED
    BY <1>1, <1>2, <1>3

\* The last file is written, or one failed: the call reports.
LEMMA InstalledStep == ASSUME ModulesInv, NEW c \in Clients, Installed(c) \/ Fails(c) PROVE ModulesInv'
  <1> DEFINE r == mop[c]
             what == [by |-> r.kind, want |-> Promised(r)]
  <1>1. r \in Call /\ Whole(r) /\ UNCHANGED <<mdir, hub>> /\ AtWork(r)
    BY DEF Installed, Fails, ModulesInv, ModulesTypeOK, CallsAreWhole, AtWork
  <1>2. CASE Installed(c)
    <2>1. r.pc = "write" /\ r.todo = {} /\ Reports(c, what)
      BY <1>2 DEF Installed
    <2>2. what.by \in {"install", "folder"}
      BY <1>1, <2>1 DEF Whole
    <2>3. r.alone => \A f \in DOMAIN what.want : mdir[r.scope][f] \in what.want[f]
      <3> SUFFICES ASSUME r.alone, NEW f \in DOMAIN Promised(r) PROVE mdir[r.scope][f] \in Promised(r)[f]
        OBVIOUS
      <3>1. SoFar(r, mdir[r.scope])
        BY <2>1 DEF ModulesInv, InstalledSoFar, Installs
      <3>2. PICK e \in DOMAIN r.zip : f = Goes(r, e)
        BY DEF Promised, Goes
      <3>3. Promised(r)[f] = May(r, f)
        BY <3>2 DEF Promised, May, Goes
      <3>4. mdir[r.scope][Goes(r, e)] \in May(r, Goes(r, e))
        BY <2>1, <3>1, <3>2 DEF SoFar
      <3> QED
        BY <3>2, <3>3, <3>4
    <2> HIDE DEF what
    <2> QED
      BY <1>1, <2>1, <2>2, <2>3, Reporting
  <1>3. CASE Fails(c)
    <2>1. Reports(c, Nothing) /\ Nothing.by = "none"
      BY <1>3 DEF Fails, Nothing
    <2> QED
      BY <1>1, <2>1, Reporting
  <1> QED
    BY <1>2, <1>3

\* Scripts that load the module change no folder.
LEMMA ReadSteps ==
    ASSUME ModulesInv, NEW c \in Clients, Require(c) \/ RequireLib(c) \/ Runs(c)
    PROVE  ModulesInv'
  <1>1. UNCHANGED <<mdir, hub, said>> /\ hub' \in [version : Nat, zip : Archives] /\ mop[c] \in Call
    BY DEF Require, RequireLib, Runs, ModulesInv, ModulesTypeOK
  <1>2. \A s \in Scopes : mdir[s]["index.js"] \in Contents /\ mdir[s]["lib/index.js"] \in Contents
    BY DEF ModulesInv, ModulesTypeOK, Files
  <1>3. \A f : Taken(f) \in Scopes
    BY DEF Taken, Scopes
  <1>4. CASE Require(c)
    <2> DEFINE s == Taken("index.js")
               q == [NoOp EXCEPT !.pc = "lib", !.scope = s]
    <2>1. s \in Scopes /\ (Does(c, q) \/ Does(c, NoOp))
      BY <1>3, <1>4 DEF Require
    <2> HIDE DEF s
    <2>2. q \in Call /\ ~AtWork(q) /\ Whole(q)
      BY <2>1, NoOpIsCall DEF Call, AtWork, Whole
    <2> HIDE DEF q
    <2>3. CASE Does(c, q)
      BY <1>1, <2>2, <2>3, OffWork
    <2>4. CASE Does(c, NoOp)
      BY <1>1, <2>4, NoOpIsCall, OffWork
    <2> QED
      BY <2>1, <2>3, <2>4
  <1>5. CASE RequireLib(c)
    <2> DEFINE s == Taken("lib/index.js")
               v == mdir[s]["lib/index.js"][1]
               here == s = mop[c].scope
               q == [mop[c] EXCEPT !.pc = "run", !.v = v, !.alone = here]
    <2>1. Does(c, q) \/ Does(c, NoOp)
      BY <1>5 DEF RequireLib
    <2>2. q \in Call /\ ~AtWork(q) /\ Whole(q)
      <3>1. s \in Scopes
        BY <1>3
      <3>2. v \in Nat
        BY <1>2, <3>1 DEF Contents
      <3>3. here \in BOOLEAN
        OBVIOUS
      <3> HIDE DEF v, here
      <3> QED
        BY <1>1, <3>2, <3>3 DEF Call, AtWork, Whole
    <2> HIDE DEF q
    <2>3. CASE Does(c, q)
      BY <1>1, <2>2, <2>3, OffWork
    <2>4. CASE Does(c, NoOp)
      BY <1>1, <2>4, NoOpIsCall, OffWork
    <2> QED
      BY <2>1, <2>3, <2>4
  <1>6. CASE Runs(c)
    BY <1>1, <1>6, NoOpIsCall, OffWork DEF Runs
  <1> QED
    BY <1>4, <1>5, <1>6

\* Publishing reads the folder and writes the hub.
LEMMA PublishSteps ==
    ASSUME ModulesInv, NEW c \in Clients,
           (\E s \in Scopes : PublishModule(c, s)) \/ ZipFile(c) \/ Submits(c) \/ DeleteModuleVersion(c)
    PROVE  ModulesInv'
  <1>0. hub \in [version : Nat, zip : Archives] /\ mop[c] \in Call
    BY DEF ModulesInv, ModulesTypeOK
  <1>1. ASSUME NEW s \in Scopes, PublishModule(c, s) PROVE ModulesInv'
    <2> DEFINE v == mdir[s]["package.json"][1]
               q == [NoOp EXCEPT !.pc = "zip", !.kind = "publish", !.scope = s, !.zip = <<>>,
                                 !.todo = Present(s), !.v = v]
    <2>1. Does(c, q) /\ UNCHANGED <<mdir, hub, said>>
      BY <1>1 DEF PublishModule
    <2>2. v \in Nat
      <3>1. mdir[s]["package.json"] \in Contents
        BY DEF ModulesInv, ModulesTypeOK, Files
      <3> QED
        BY <3>1 DEF Contents
    <2>3. Present(s) \in SUBSET Files
      BY DEF Present
    <2> HIDE DEF v
    <2>4. q \in Call /\ ~AtWork(q) /\ Whole(q)
      BY <2>2, <2>3, NoZip, NoOpIsCall DEF Call, AtWork, Whole
    <2> HIDE DEF q
    <2> QED
      BY <1>0, <2>1, <2>4, OffWork
  <1>2. CASE ZipFile(c)
    <2> DEFINE r == mop[c]
               f == FirstOf(r.todo)
               is == mdir[r.scope][f]
               z == [g \in DOMAIN r.zip \cup {f} |-> IF g = f THEN is ELSE r.zip[g]]
               q == [r EXCEPT !.todo = r.todo \ {f}, !.zip = z]
    <2>1. /\ (Does(c, q) \/ Does(c, NoOp)) /\ UNCHANGED <<mdir, hub, said>> /\ r.pc = "zip" /\ r.todo # {}
          /\ r.zip \in Archives /\ r.scope \in Scopes /\ r.todo \in SUBSET Files
      BY <1>0, <1>2 DEF ZipFile, Call
    <2>2. f \in Files /\ is \in Contents
      BY <2>1, FirstIsOne DEF ModulesInv, ModulesTypeOK
    <2> HIDE DEF f, is
    <2>3. z \in Archives
      <3>1. DOMAIN r.zip \subseteq Files /\ \A g \in DOMAIN r.zip : r.zip[g] \in Contents
        BY <2>1, ZipDomain
      <3>2. z \in [DOMAIN r.zip \cup {f} -> Contents]
        BY <2>2, <3>1
      <3>3. DOMAIN r.zip \cup {f} \in SUBSET Files
        BY <2>2, <3>1
      <3> HIDE DEF z
      <3> QED
        BY <3>2, <3>3 DEF Archives
    <2> HIDE DEF z
    <2>4. q \in Call /\ ~AtWork(q) /\ Whole(q)
      BY <1>0, <2>1, <2>3 DEF Call, AtWork, Whole
    <2> HIDE DEF q
    <2>5. CASE Does(c, q)
      BY <1>0, <2>1, <2>4, <2>5, OffWork
    <2>6. CASE Does(c, NoOp)
      BY <1>0, <2>1, <2>6, NoOpIsCall, OffWork
    <2> QED
      BY <2>1, <2>5, <2>6
  <1>3. CASE Submits(c)
    <2>1. /\ Does(c, NoOp) /\ UNCHANGED <<mdir, said>>
          /\ hub' = [version |-> mop[c].v, zip |-> mop[c].zip] \/ hub' = hub
      BY <1>3 DEF Submits
    <2>2. hub' \in [version : Nat, zip : Archives]
      BY <1>0, <2>1 DEF Call
    <2> QED
      BY <2>1, <2>2, NoOpIsCall, OffWork
  <1>4. CASE DeleteModuleVersion(c)
    <2>1. UNCHANGED <<mdir, mop, said>> /\ hub' \in [version : Nat, zip : Archives]
      BY <1>0, <1>4 DEF DeleteModuleVersion
    <2> QED
      BY <2>1 DEF ModulesInv, ModulesTypeOK, AloneIsAlone, CallsAreWhole, InstalledSoFar, NobodySince, At, Reported,
             SaidIsSo, NothingUnapproved
  <1> QED
    BY <1>1, <1>2, <1>3, <1>4

\* Every step of a call on the modules keeps the invariant.
LEMMA ModulesStepKeeps == ModulesInv /\ SettingsInv /\ ModulesStep => ModulesInv'
  BY BeginsInstall, BeginsFolder, BeginsRemoval, BeginsScript, AnswersStep, OpenStep, CopyStep, RemoveFileStep,
     RemovedStep, InstalledStep, ReadSteps, PublishSteps DEF ModulesStep

\* What settings change leaves the modules alone; a restart ends the calls.
LEMMA ModulesRestart == ModulesInv /\ SettingsStep => ModulesInv'
  <1> SUFFICES ASSUME ModulesInv, SettingsStep PROVE ModulesInv'
    OBVIOUS
  <1>1. UNCHANGED <<mdir, hub, said>> /\ (mop' = mop \/ mop' = [c \in Clients |-> NoOp])
    BY DEF SettingsStep
  <1>2. CASE mop' = mop
    BY <1>1, <1>2, ModulesStutter DEF modVars
  <1>3. CASE mop' = [c \in Clients |-> NoOp]
    <2>1. \A c \in Clients : mop'[c] = NoOp
      BY <1>3
    <2>2. ModulesTypeOK'
      BY <1>1, <1>3, NoOpIsCall DEF ModulesInv, ModulesTypeOK
    <2>3. \A c \in Clients : ~AtWork(mop'[c]) /\ ~Installs(mop'[c]) /\ Whole(mop'[c]) /\ mop'[c].pc # "copy"
      BY <2>1, NoOpIsCall DEF Installs
    <2> QED
      BY <1>1, <2>2, <2>3 DEF ModulesInv, AloneIsAlone, CallsAreWhole, InstalledSoFar, NobodySince, At, Reported,
         SaidIsSo, NothingUnapproved
  <1> QED
    BY <1>1, <1>2, <1>3

-----------------------------------------------------------------------------
(* All of them, with the others.                                           *)

\* Who reads and writes memories, pages and files leaves the settings alone.
LEMMA OthersLeaveSettings ==
    MemoryStep \/ UsageStep \/ ModulesStep \/ EventsStep \/ WatcherStep => UNCHANGED restVars
  <1>1. MemoryStep => UNCHANGED restVars
    BY DEF MemoryStep, AddMemory, GetMemory, PutMemory, DeleteMemory, ListMemory, BuildMemoryPrompt, Prompts, Expire,
           ExpireEntry, Expired, NextDay, settingsVars
  <1>2. UsageStep => UNCHANGED restVars
    BY DEF UsageStep, Allow, TodayTokenUsage, WarmCache, TokenUsage, CallProvider, EndTurn, GetRow, PutRow, CacheRow,
           Tick, Turns, TurnEnds, settingsVars
  <1>3. ModulesStep => UNCHANGED restVars
    BY DEF ModulesStep, InstallModule, InstallFolderAsModule, DeleteModule, ScriptCalls, PublishModule, OpenFile,
           CopyFile, Installed, Fails, RemoveFile, Removed, Answers, Require, RequireLib, Runs, ZipFile, Submits,
           DeleteModuleVersion, settingsVars
  <1> QED
    BY <1>1, <1>2, <1>3 DEF EventsStep, WatcherStep, settingsVars

\* What a step of all the services is to the settings, the usage and the modules.
LEMMA StoreFrame ==
    ASSUME StoreNext
    PROVE  /\ SettingsStep \/ UNCHANGED restVars
           /\ UsageRestarts \/ UsageStep \/ UNCHANGED usageVars
           /\ SettingsStep \/ ModulesStep \/ UNCHANGED modVars
  BY OthersLeaveSettings DEF StoreNext, settingsVars

\* The settings' own steps, as the modules' restarts see them.
LEMMA SettingsStepKeeps == SettingsInv /\ SettingsStep => SettingsInv'
  BY SettingsNextKeeps DEF SettingsStep

\* The store's inductive invariant: the modules' part needs the settings', as what is
\* approved is what the saved switch says.
StoreInv == SettingsInv /\ UsageInv /\ ModulesInv

\* It holds at the start and is kept by every step of every service.
LEMMA StoreInvHolds == StoreSpec => []StoreInv
  <1>1. StoreInit => StoreInv
    BY SettingsInit, UsageInit, ModulesInit DEF StoreInit, StoreInv
  <1>2. StoreInv /\ StoreNext => StoreInv'
    BY StoreFrame, SettingsStepKeeps, SettingsStutter, UsageStepKeeps, UsageRestart, UsageStutter, ModulesStepKeeps,
       ModulesRestart, ModulesStutter DEF StoreInv
  <1>3. StoreInv /\ UNCHANGED vars => StoreInv'
    BY SettingsStutter, UsageStutter, ModulesStutter DEF StoreInv, vars, settingsVars
  <1> QED
    BY <1>1, <1>2, <1>3, PTL DEF StoreSpec

\* store.go:167: "memory is the source of truth".  However saves of any clients
\* interleave, with profiles and restarts, the workspace's row says what memory says.
THEOREM TheWorkspaceIsSaved == StoreSpec => []WorkspaceIsSaved
  <1>1. StoreInv => WorkspaceIsSaved
    BY DEF StoreInv, SettingsInv, WorkspaceInv
  <1> QED
    BY <1>1, StoreInvHolds, PTL

\* store.go:698: no call that reached a provider is lost or counted twice, however
\* turns race for the rows, unless its write failed.
THEOREM TheUsageIsExact == StoreSpec => []UsageIsExact
  <1>1. StoreInv => UsageIsExact
    BY DEF StoreInv, UsageInv
  <1> QED
    BY <1>1, StoreInvHolds, PTL

\* api_modules.go, confirm_ctx.go: what a call that was alone in a module's folder
\* reported of it is so until another call comes.
THEOREM WhatIsReportedIsSo == StoreSpec => []SaidIsSo
  <1>1. StoreInv => SaidIsSo
    BY DEF StoreInv, ModulesInv
  <1> QED
    BY <1>1, StoreInvHolds, PTL

\* confirm_ctx.go: no script gets to a module's folder without the user's approval
\* while the gate was up when it asked.
THEOREM NothingIsUnapproved == StoreSpec => []NothingUnapproved
  <1>1. StoreInv => NothingUnapproved
    BY DEF StoreInv, ModulesInv
  <1> QED
    BY <1>1, StoreInvHolds, PTL

-----------------------------------------------------------------------------
(* The limits of the providers.                                            *)

\* What every request knows: the semaphore it waits for or holds is one that was
\* made with a size, and its places are taken by the requests that hold it.
RequestsBound ==
    \A r \in Requests :
      /\ request[r].pc \in {"idle", "find", "wait", "flight"}
      /\ request[r].pc \in {"find", "wait", "flight"} => request[r].base \in Bases /\ sizes # <<>>
      /\ request[r].pc = "find" => request[r].sem = Unlimited
      /\ request[r].pc \in {"wait", "flight"} =>
           \/ request[r].pc = "flight" /\ request[r].sem = Unlimited
           \/ request[r].sem \in Channels /\ request[r].sem[1] <= Len(sizes)

LimitsTypeOK ==
    /\ sizes \in Seq(Nat) /\ Len(sizes) <= MaxBuilds
    /\ held \in [Channels -> Nat]
    /\ DOMAIN request = Requests
    /\ \A r \in Requests : request[r] = [pc |-> request[r].pc, base |-> request[r].base, sem |-> request[r].sem]

LimitsInv == LimitsTypeOK /\ RequestsBound /\ SlotsHold

\* Unlimited requests hold no channel.
LEMMA UnlimitedIsNoChannel == Unlimited \notin Channels
  BY ProvidersAssumption DEF Unlimited, Channels

\* A semaphore has finitely many requests in flight.
LEMMA InFlightIsFinite ==
    ASSUME NEW sem PROVE IsFiniteSet(InFlight(sem))
  BY ProvidersAssumption, FS_Subset DEF InFlight

\* InitProviders: nobody has called, no place is taken.
LEMMA LimitsInit == InitProviders => LimitsInv
  <1> SUFFICES ASSUME InitProviders PROVE LimitsInv
    OBVIOUS
  <1>1. LimitsTypeOK
    BY ProvidersAssumption DEF InitProviders, LimitsTypeOK, NoRequest
  <1>2. RequestsBound
    BY DEF InitProviders, RequestsBound, NoRequest
  <1>3. SlotsHold
    <2> SUFFICES ASSUME NEW sem \in Channels
                 PROVE  held[sem] = Cardinality(InFlight(sem)) /\ held[sem] = 0
      BY DEF SlotsHold
    <2>1. held[sem] = 0
      BY DEF InitProviders
    <2>2. InFlight(sem) = {}
      BY DEF InFlight, InitProviders, NoRequest
    <2> QED
      BY <2>1, <2>2, FS_EmptySet
  <1> QED
    BY <1>1, <1>2, <1>3 DEF LimitsInv

\* A semaphore that a request waits for or holds is one of a channel that was made.
LEMMA MadeSem ==
    ASSUME LimitsInv, NEW r \in Requests, request[r].pc \in {"wait", "flight"}, request[r].sem # Unlimited
    PROVE  /\ request[r].sem \in Channels /\ request[r].sem[1] \in 1..Len(sizes)
           /\ sizes[request[r].sem[1]] \in Nat
  <1>1. request[r].sem \in Channels /\ request[r].sem[1] <= Len(sizes)
    BY DEF LimitsInv, RequestsBound
  <1>2. request[r].sem[1] \in 1..MaxBuilds
    BY <1>1 DEF Channels
  <1>3. sizes \in Seq(Nat)
    BY DEF LimitsInv, LimitsTypeOK
  <1>4. request[r].sem[1] \in 1..Len(sizes)
    BY <1>1, <1>2, <1>3, ProvidersAssumption
  <1> QED
    BY <1>1, <1>3, <1>4

\* What touches no provider leaves the limits as they are.
LEMMA LimitsStutter == LimitsInv /\ UNCHANGED providerVars => LimitsInv'
  <1> SUFFICES ASSUME LimitsInv, UNCHANGED providerVars PROVE LimitsInv'
    OBVIOUS
  <1>1. UNCHANGED <<sizes, held, request>>
    BY DEF providerVars
  <1>2. \A sem : InFlight(sem)' = InFlight(sem)
    BY <1>1 DEF InFlight
  <1> QED
    BY <1>1, <1>2 DEF LimitsInv, LimitsTypeOK, RequestsBound, SlotsHold

\* The places of a semaphore stay taken while neither a request nor its places change.
LEMMA SlotsKept ==
    ASSUME LimitsInv, held' = held, sizes' = sizes \/ \E n \in Nat : sizes' = Append(sizes, n),
           \A r \in Requests : (request'[r].pc = "flight" /\ request'[r].sem # Unlimited)
                                 <=> (request[r].pc = "flight" /\ request[r].sem # Unlimited),
           \A r \in Requests : request'[r].pc = "flight" => request'[r].sem \in {request[r].sem, Unlimited}
    PROVE  SlotsHold'
  <1> SUFFICES ASSUME NEW sem \in Channels
               PROVE  /\ held'[sem] = Cardinality(InFlight(sem)')
                      /\ held'[sem] > 0 => held'[sem] <= sizes'[sem[1]]
    BY DEF SlotsHold
  <1>1. InFlight(sem)' = InFlight(sem)
    BY UnlimitedIsNoChannel DEF InFlight
  <1>2. held[sem] = Cardinality(InFlight(sem)) /\ (held[sem] > 0 => held[sem] <= sizes[sem[1]])
    BY DEF LimitsInv, SlotsHold
  <1>3. ASSUME held[sem] > 0 PROVE sizes'[sem[1]] = sizes[sem[1]]
    <2>1. ASSUME InFlight(sem) = {} PROVE FALSE
      <3>1. Cardinality(InFlight(sem)) = 0
        BY <2>1, FS_EmptySet
      <3> QED
        BY <1>2, <1>3, <3>1
    <2>2. sem[1] \in 1..Len(sizes)
      <3>1. PICK r \in Requests : request[r].pc = "flight" /\ request[r].sem = sem
        BY <2>1 DEF InFlight
      <3> QED
        BY <3>1, UnlimitedIsNoChannel, MadeSem
    <2>3. sizes \in Seq(Nat)
      BY DEF LimitsInv, LimitsTypeOK
    <2> QED
      BY <2>2, <2>3
  <1> QED
    BY <1>1, <1>2, <1>3

\* Every step of a request or a rebuild keeps the limits.
LEMMA LimitsStep == LimitsInv /\ ProvidersNext => LimitsInv'
  <1> SUFFICES ASSUME LimitsInv, ProvidersNext PROVE LimitsInv'
    OBVIOUS
  <1> USE DEF LimitsInv
  <1>1. ASSUME NEW e \in Bases, NEW n \in Widths, NEW rpm \in RPMs, BuildAgent(e, n, rpm) PROVE LimitsInv'
    <2>0. n \in Nat /\ sizes \in Seq(Nat)
      BY ProvidersAssumption DEF LimitsTypeOK
    <2>1. LimitsTypeOK'
      BY <1>1, <2>0, ProvidersAssumption DEF BuildAgent, LimitsTypeOK
    <2>2. RequestsBound'
      <3>1. sizes' # <<>> /\ Len(sizes') = Len(sizes) + 1 /\ request' = request
        BY <1>1, <2>0 DEF BuildAgent
      <3>2. \A ch \in Channels : ch[1] \in Nat
        BY DEF Channels
      <3>3. Len(sizes) \in Nat
        BY <2>0
      <3> QED
        BY <3>1, <3>2, <3>3 DEF RequestsBound
    <2>3. SlotsHold'
      BY <1>1, <2>0, SlotsKept DEF BuildAgent
    <2> QED
      BY <2>1, <2>2, <2>3
  <1>2. ASSUME NEW r \in Requests, NEW e \in Bases, CheckProviderRPM(r, e) PROVE LimitsInv'
    <2>1. LimitsTypeOK' /\ RequestsBound'
      <3>1. LimitsTypeOK'
        BY <1>2 DEF CheckProviderRPM, LimitsTypeOK, NoRequest
      <3>2. RequestsBound'
        <4>1. PICK x : x = [NoRequest EXCEPT !.pc = "find", !.base = e]
          OBVIOUS
        <4>2. x.pc = "find" /\ x.base = e /\ x.sem = Unlimited
          BY <4>1 DEF NoRequest
        <4>3. request' = request \/ request' = [request EXCEPT ![r] = x]
          BY <1>2, <4>1 DEF CheckProviderRPM
        <4>4. \A q \in Requests : request'[q] = request[q] \/ (q = r /\ request'[q] = x)
          BY <4>3 DEF LimitsTypeOK
        <4>5. sizes # <<>> /\ sizes' = sizes
          BY <1>2 DEF CheckProviderRPM
        <4> QED
          BY <4>2, <4>4, <4>5 DEF RequestsBound
      <3> QED
        BY <3>1, <3>2
    <2>2. SlotsHold'
      <3>1. \A q \in Requests : (request'[q].pc = "flight" <=> request[q].pc = "flight")
                                  /\ (request'[q].pc = "flight" => request'[q].sem = request[q].sem)
        BY <1>2 DEF CheckProviderRPM, LimitsTypeOK, NoRequest
      <3> QED
        BY <1>2, <3>1, SlotsKept DEF CheckProviderRPM
    <2> QED
      BY <2>1, <2>2
  <1>3. ASSUME NEW e \in Bases, MinuteEnds(e) PROVE LimitsInv'
    <2>1. SlotsHold'
      BY <1>3, SlotsKept DEF MinuteEnds
    <2> QED
      BY <1>3, <2>1 DEF MinuteEnds, LimitsTypeOK, RequestsBound
  <1>4. ASSUME NEW r \in Requests, FindSem(r) PROVE LimitsInv'
    <2>0. Len(sizes) \in 1..MaxBuilds /\ request[r].base \in Bases
      <3>1. sizes # <<>> /\ request[r].base \in Bases
        BY <1>4 DEF FindSem, RequestsBound
      <3> QED
        BY <3>1, ProvidersAssumption DEF LimitsTypeOK
    <2>1. <<Len(sizes), request[r].base>> \in Channels
      BY <2>0 DEF Channels
    <2>2. LimitsTypeOK' /\ RequestsBound'
      <3>1. LimitsTypeOK'
        BY <1>4 DEF FindSem, LimitsTypeOK, RequestsBound
      <3>2. CASE sizes[Len(sizes)] = 0
        BY <1>4, <2>0, <3>2 DEF FindSem, LimitsTypeOK, RequestsBound
      <3>3. CASE sizes[Len(sizes)] # 0
        <4>1. /\ request' = [request EXCEPT ![r] = [@ EXCEPT !.pc = "wait", !.sem = <<Len(sizes), request[r].base>>]]
              /\ sizes' = sizes
          BY <1>4, <3>3 DEF FindSem
        <4>2. request'[r].pc = "wait" /\ request'[r].base = request[r].base
              /\ request'[r].sem = <<Len(sizes), request[r].base>>
          BY <4>1 DEF LimitsTypeOK
        <4>3. request'[r].sem \in Channels /\ request'[r].sem[1] = Len(sizes) /\ request[r].base \in Bases /\ sizes # <<>>
          BY <1>4, <2>0, <2>1, <4>2 DEF FindSem, RequestsBound
        <4>4. \A q \in Requests : q # r => request'[q] = request[q]
          BY <4>1 DEF LimitsTypeOK
        <4> QED
          BY <2>0, <3>1, <4>1, <4>2, <4>3, <4>4 DEF RequestsBound
      <3> QED
        BY <3>1, <3>2, <3>3
    <2>3. SlotsHold'
      <3>1. \A q \in Requests :
               /\ (request'[q].pc = "flight" /\ request'[q].sem # Unlimited)
                     <=> (request[q].pc = "flight" /\ request[q].sem # Unlimited)
               /\ request'[q].pc = "flight" => request'[q].sem \in {request[q].sem, Unlimited}
        BY <1>4 DEF FindSem, LimitsTypeOK, RequestsBound
      <3> QED
        BY <1>4, <3>1, SlotsKept DEF FindSem
    <2> QED
      BY <2>2, <2>3
  <1>5. ASSUME NEW r \in Requests, AcquireSem(r) PROVE LimitsInv'
    <2> DEFINE sem == request[r].sem
    <2>0. sem \in Channels /\ sem[1] <= Len(sizes)
      BY <1>5 DEF AcquireSem, RequestsBound
    <2>1. LimitsTypeOK' /\ RequestsBound'
      BY <1>5, <2>0 DEF AcquireSem, LimitsTypeOK, RequestsBound
    <2>2. ASSUME NEW s \in Channels
          PROVE  /\ held'[s] = Cardinality(InFlight(s)')
                 /\ held'[s] > 0 => held'[s] <= sizes'[s[1]]
      <3>1. held[s] = Cardinality(InFlight(s)) /\ (held[s] > 0 => held[s] <= sizes[s[1]]) /\ held[s] \in Nat
        BY <2>2 DEF SlotsHold, LimitsTypeOK
      <3>2. CASE s = sem
        <4>1. InFlight(s)' = InFlight(s) \cup {r} /\ r \notin InFlight(s)
          BY <1>5, <3>2 DEF AcquireSem, InFlight, LimitsTypeOK
        <4>2. Cardinality(InFlight(s)') = Cardinality(InFlight(s)) + 1
          BY <4>1, InFlightIsFinite, FS_AddElement
        <4>3. held'[s] = held[s] + 1 /\ held[s] < sizes[s[1]] /\ sizes' = sizes
          BY <1>5, <3>2 DEF AcquireSem, LimitsTypeOK
        <4>4. sizes[s[1]] \in Nat
          BY <1>5, <2>0, <3>2, MadeSem, UnlimitedIsNoChannel DEF AcquireSem
        <4> QED
          BY <3>1, <4>2, <4>3, <4>4
      <3>3. CASE s # sem
        <4>1. InFlight(s)' = InFlight(s)
          BY <1>5, <3>3 DEF AcquireSem, InFlight, LimitsTypeOK
        <4>2. held'[s] = held[s] /\ sizes' = sizes
          BY <1>5, <3>3 DEF AcquireSem, LimitsTypeOK
        <4> QED
          BY <3>1, <4>1, <4>2
      <3> QED
        BY <3>2, <3>3
    <2> QED
      BY <2>1, <2>2 DEF SlotsHold
  <1>6. ASSUME NEW r \in Requests, AcquireCancelled(r) PROVE LimitsInv'
    <2>1. LimitsTypeOK' /\ RequestsBound'
      BY <1>6 DEF AcquireCancelled, LimitsTypeOK, RequestsBound, NoRequest
    <2>2. SlotsHold'
      <3>1. \A q \in Requests : (request'[q].pc = "flight" <=> request[q].pc = "flight")
                                  /\ (request'[q].pc = "flight" => request'[q].sem = request[q].sem)
        BY <1>6 DEF AcquireCancelled, LimitsTypeOK, NoRequest
      <3> QED
        BY <1>6, <3>1, SlotsKept DEF AcquireCancelled
    <2> QED
      BY <2>1, <2>2
  <1>7. ASSUME NEW r \in Requests, Release(r) PROVE LimitsInv'
    <2> DEFINE sem == request[r].sem
    <2>1. CASE sem = Unlimited
      <3>1. LimitsTypeOK' /\ RequestsBound'
        BY <1>7, <2>1 DEF Release, LimitsTypeOK, RequestsBound, NoRequest
      <3>2. \A q \in Requests :
               /\ (request'[q].pc = "flight" /\ request'[q].sem # Unlimited)
                     <=> (request[q].pc = "flight" /\ request[q].sem # Unlimited)
               /\ request'[q].pc = "flight" => request'[q].sem \in {request[q].sem, Unlimited}
        BY <1>7, <2>1 DEF Release, LimitsTypeOK, NoRequest
      <3>3. SlotsHold'
        BY <1>7, <2>1, <3>2, SlotsKept DEF Release
      <3> QED
        BY <3>1, <3>3
    <2>2. CASE sem # Unlimited
      <3>0. sem \in Channels /\ held[sem] > 0 /\ held[sem] \in Nat /\ held' = [held EXCEPT ![sem] = @ - 1]
            /\ sizes' = sizes /\ request' = [request EXCEPT ![r] = NoRequest] /\ request[r].pc = "flight"
        BY <1>7, <2>2 DEF Release, SemOf, RequestsBound, LimitsTypeOK
      <3>1. LimitsTypeOK' /\ RequestsBound'
        BY <3>0 DEF LimitsTypeOK, RequestsBound, NoRequest
      <3>2. ASSUME NEW s \in Channels
            PROVE  /\ held'[s] = Cardinality(InFlight(s)')
                   /\ held'[s] > 0 => held'[s] <= sizes'[s[1]]
        <4>1. held[s] = Cardinality(InFlight(s)) /\ (held[s] > 0 => held[s] <= sizes[s[1]]) /\ held[s] \in Nat
          BY <3>2 DEF SlotsHold, LimitsTypeOK
        <4>2. CASE s = sem
          <5>1. InFlight(s)' = InFlight(s) \ {r} /\ r \in InFlight(s)
            BY <3>0, <4>2 DEF InFlight, LimitsTypeOK, NoRequest
          <5>2. Cardinality(InFlight(s)') = Cardinality(InFlight(s)) - 1
            BY <5>1, InFlightIsFinite, FS_RemoveElement
          <5>3. held'[s] = held[s] - 1
            BY <3>0, <4>2 DEF LimitsTypeOK
          <5>4. sizes[s[1]] \in Nat
            BY <2>2, <3>0, <4>2, MadeSem
          <5> QED
            BY <3>0, <4>1, <5>2, <5>3, <5>4
        <4>3. CASE s # sem
          <5>1. InFlight(s)' = InFlight(s)
            BY <3>0, <4>3 DEF InFlight, LimitsTypeOK, NoRequest
          <5>2. held'[s] = held[s]
            BY <3>0, <4>3 DEF LimitsTypeOK
          <5> QED
            BY <3>0, <4>1, <5>1, <5>2
        <4> QED
          BY <4>2, <4>3
      <3> QED
        BY <3>1, <3>2 DEF SlotsHold
    <2> QED
      BY <2>1, <2>2
  <1> QED
    BY <1>1, <1>2, <1>3, <1>4, <1>5, <1>6, <1>7 DEF ProvidersNext

-----------------------------------------------------------------------------
(* The log.                                                                *)

\* Going round a ring.
LEMMA Round ==
    ASSUME NEW n \in Nat \ {0}, NEW x \in Int, 0 <= x, x < 2 * n
    PROVE  x % n = IF x < n THEN x ELSE x - n
  BY Z3

\* NewLogBuffer is the empty log.
LEMMA LogInit == NewLogBuffer => LogTypeOK /\ L!Init
  <1> SUFFICES ASSUME NewLogBuffer PROVE LogTypeOK /\ L!Init
    OBVIOUS
  <1>1. LogTypeOK
    BY LogAssumption DEF NewLogBuffer, LogTypeOK
  <1>2. Recent(0) = <<>>
    BY DEF NewLogBuffer, Recent
  <1> QED
    BY <1>1, <1>2 DEF L!Init

\* What is read of the ring has a place in it, none of them the next to be written
\* but the oldest's.
LEMMA RecentPlaces ==
    ASSUME LogTypeOK
    PROVE  /\ Recent(0) = [i \in 1..count |-> entries[(head - i + Size) % Size]]
           /\ Len(Recent(0)) = count /\ DOMAIN Recent(0) = 1..count
  <1>1. count \in Nat /\ count <= Size /\ Size \in Nat
    BY LogAssumption DEF LogTypeOK
  <1>2. Recent(0) = [i \in 1..count |-> entries[(head - i + Size) % Size]]
    BY DEF Recent
  <1> QED
    BY <1>1, <1>2

\* Handle writes over the oldest record: read back, that is the log with one more.
LEMMA LogStep ==
    ASSUME LogTypeOK, NEW r \in Records, Handle(r)
    PROVE  LogTypeOK' /\ L!Log(r)
  <1> USE LogAssumption
  <1>1. /\ head \in 0..(Size - 1) /\ count \in 0..Size /\ Size \in Nat \ {0}
        /\ entries \in [0..(Size - 1) -> Records \cup {Blank}]
    BY DEF LogTypeOK
  <1>2. head' = IF head + 1 < Size THEN head + 1 ELSE 0
    <2> DEFINE x == head + 1
    <2>1. x \in Int /\ 0 <= x /\ x < 2 * Size /\ x - Size = head + 1 - Size
      BY <1>1
    <2>2. x % Size = IF x < Size THEN x ELSE x - Size
      <3> HIDE DEF x
      <3> QED
        BY <1>1, <2>1, Round
    <2> QED
      BY <1>1, <2>1, <2>2 DEF Handle
  <1>3. count' = IF count < Size THEN count + 1 ELSE Size
    BY <1>1 DEF Handle
  <1>4. entries' = [entries EXCEPT ![head] = r]
    BY DEF Handle
  <1>5. LogTypeOK'
    BY <1>1, <1>2, <1>3, <1>4 DEF LogTypeOK
  <1>6. ASSUME NEW i \in 1..count'
        PROVE  entries'[(head' - i + Size) % Size]
                 = IF i = 1 THEN r ELSE entries[(head - (i - 1) + Size) % Size]
    <2>1. i \in Nat /\ i >= 1 /\ i <= Size
      BY <1>1, <1>3
    <2>2. (head' - i + Size) % Size
            = IF head' - i + Size < Size THEN head' - i + Size ELSE head' - i
      <3> DEFINE x == head' - i + Size
      <3>1. x \in Int /\ 0 <= x /\ x < 2 * Size /\ x - Size = head' - i
        BY <1>1, <1>2, <2>1
      <3>2. x % Size = IF x < Size THEN x ELSE x - Size
        <4> HIDE DEF x
        <4> QED
          BY <1>1, <3>1, Round
      <3> QED
        BY <3>1, <3>2
    <2>3. (head - (i - 1) + Size) % Size
            = IF head - (i - 1) + Size < Size THEN head - (i - 1) + Size ELSE head - (i - 1)
      <3> DEFINE x == head - (i - 1) + Size
      <3>1. x \in Int /\ 0 <= x /\ x < 2 * Size /\ x - Size = head - (i - 1)
        BY <1>1, <2>1
      <3>2. x % Size = IF x < Size THEN x ELSE x - Size
        <4> HIDE DEF x
        <4> QED
          BY <1>1, <3>1, Round
      <3> QED
        BY <3>1, <3>2
    <2>4. CASE i = 1
      <3>1. (head' - i + Size) % Size = head
        BY <1>1, <1>2, <2>2, <2>4
      <3> QED
        BY <1>1, <1>4, <2>4, <3>1
    <2>5. CASE i # 1
      <3>1. (head' - i + Size) % Size = (head - (i - 1) + Size) % Size
        BY <1>1, <1>2, <2>1, <2>2, <2>3, <2>5
      <3>2. (head' - i + Size) % Size # head /\ (head' - i + Size) % Size \in 0..(Size - 1)
        BY <1>1, <1>2, <2>1, <2>2, <2>5
      <3> QED
        BY <1>1, <1>4, <2>5, <3>1, <3>2
    <2> QED
      BY <2>4, <2>5
  <1>7. L!Shorter(Len(Recent(0)) + 1) = count'
    BY <1>1, <1>3, RecentPlaces DEF L!Shorter
  <1>8. ASSUME NEW i \in 1..count', i # 1 PROVE Recent(0)[i - 1] = entries[(head - (i - 1) + Size) % Size]
    <2>1. i - 1 \in 1..count
      BY <1>1, <1>3, <1>8
    <2> QED
      BY <2>1, RecentPlaces
  <1>9. Recent(0)' = [i \in 1..count' |-> IF i = 1 THEN r ELSE Recent(0)[i - 1]]
    <2>1. Recent(0)' = [i \in 1..count' |-> entries'[(head' - i + Size) % Size]]
      BY DEF Recent
    <2> QED
      BY <1>6, <1>8, <2>1
  <1> QED
    BY <1>5, <1>7, <1>9 DEF L!Log

-----------------------------------------------------------------------------
(* The terminal.                                                           *)

TerminalTypeOK ==
    /\ tui = [agent |-> tui.agent, chat |-> tui.chat, thinking |-> tui.thinking, prompt |-> tui.prompt]
    /\ tui.agent \in 1..MaxAgents /\ tui.chat \in {0} \cup open /\ tui.thinking \in BOOLEAN
    /\ agents \in [1..MaxAgents -> [chat : 0..MaxChats, wired : BOOLEAN]]
    /\ built \in 1..MaxAgents
    /\ turn = [pc |-> turn.pc, agent |-> turn.agent, text |-> turn.text, n |-> turn.n]
    /\ DOMAIN saved = 1..MaxChats
    /\ open \subseteq 1..made /\ made \in 0..MaxChats
    /\ of \in [Texts -> 0..NotYet]

\* The model's agent is of the model's chat, or of none; and while a turn runs,
\* nothing can be entered that changes the chat, so that the turn's agent, though
\* it may not be the model's any more, is of the text's chat or of none.
TurnInItsChat ==
    /\ agents[tui.agent].chat \in {0, tui.chat}
    /\ ~tui.thinking => turn.pc = "none"
    /\ turn.pc # "none" => turn.text \in Texts /\ of[turn.text] = tui.chat
    /\ turn.pc \notin {"none", "begin"} => turn.agent \in 1..MaxAgents /\ agents[turn.agent].chat \in {0, tui.chat}

\* A chat that was not created or was deleted has no rows.
ClosedIsEmpty == \A c \in 1..MaxChats : c \notin open => saved[c] = {}

TerminalInv ==
    /\ TerminalTypeOK /\ TurnInItsChat /\ ClosedIsEmpty
    /\ \A c \in open : saved[c] \subseteq Texts
    /\ SavedInItsChat

\* InitTerminal: one chat, empty.
LEMMA TerminalInit == InitTerminal => TerminalInv
  <1> SUFFICES ASSUME InitTerminal PROVE TerminalInv
    OBVIOUS
  <1>1. NotYet \in Nat /\ NotYet = MaxChats + 1 /\ MaxChats \in Nat \ {0} /\ MaxAgents \in Nat \ {0}
    BY TerminalAssumption DEF NotYet
  <1>2. TerminalTypeOK
    <2>1. agents \in [1..MaxAgents -> [chat : 0..MaxChats, wired : BOOLEAN]]
      <3>1. \A b \in BOOLEAN : [NewAgent EXCEPT !.wired = b] \in [chat : 0..MaxChats, wired : BOOLEAN]
        BY <1>1 DEF NewAgent
      <3> QED
        BY <3>1 DEF InitTerminal
    <2>2. NotYet \in 0..NotYet /\ 0 \in 0..MaxChats /\ 1 \in 1..MaxAgents
      BY <1>1
    <2> QED
      BY <1>1, <2>1, <2>2 DEF InitTerminal, TerminalTypeOK, Model, NoSend
  <1>3. TurnInItsChat
    BY <1>1 DEF InitTerminal, TurnInItsChat, Model, NewAgent, NoSend
  <1> QED
    BY <1>2, <1>3 DEF InitTerminal, TerminalInv, ClosedIsEmpty, SavedInItsChat

\* What the terminal does not do leaves its invariant as it is.
LEMMA TerminalStutter == TerminalInv /\ UNCHANGED terminalVars => TerminalInv'
  BY DEF terminalVars, TerminalInv, TerminalTypeOK, TurnInItsChat, ClosedIsEmpty, SavedInItsChat

\* What a turn persists goes to the chat in which its text was entered.
LEMMA PersistKeeps ==
    ASSUME TerminalInv, NEW a \in 1..MaxAgents, agents[a].chat \in {0, tui.chat},
           turn.pc # "none", Persist(a, turn.text), open' = open, of' = of
    PROVE  /\ DOMAIN saved' = 1..MaxChats
           /\ ClosedIsEmpty'
           /\ \A c \in open' : saved'[c] \subseteq Texts
           /\ SavedInItsChat'
  <1>1. turn.text \in Texts /\ of[turn.text] = tui.chat
    BY DEF TerminalInv, TurnInItsChat
  <1>2. open \subseteq 1..MaxChats /\ 0 \notin open /\ DOMAIN saved = 1..MaxChats
    BY TerminalAssumption DEF TerminalInv, TerminalTypeOK
  <1>3. CASE agents[a].chat \in open
    <2>1. saved' = [saved EXCEPT ![tui.chat] = @ \cup {turn.text}] /\ tui.chat \in open
      BY <1>2, <1>3 DEF Persist
    <2>2. \A c \in 1..MaxChats : saved'[c] = IF c = tui.chat THEN saved[c] \cup {turn.text} ELSE saved[c]
      BY <1>2, <2>1
    <2> QED
      BY <1>1, <1>2, <2>1, <2>2 DEF TerminalInv, ClosedIsEmpty, SavedInItsChat
  <1>4. CASE agents[a].chat \notin open
    BY <1>2, <1>4 DEF Persist, TerminalInv, ClosedIsEmpty, SavedInItsChat
  <1> QED
    BY <1>3, <1>4

\* Switching an agent's chat.
LEMMA SwitchedAgents ==
    ASSUME TerminalTypeOK, NEW a \in 1..MaxAgents, NEW c \in 0..MaxChats
    PROVE  /\ Switched(a, c) \in [1..MaxAgents -> [chat : 0..MaxChats, wired : BOOLEAN]]
           /\ \A b \in 1..MaxAgents : Switched(a, c)[b].chat = IF b = a THEN c ELSE agents[b].chat
  BY DEF Switched, TerminalTypeOK

\* A step that leaves the rows and the chats alone.
LEMMA RowsKept ==
    ASSUME TerminalInv, UNCHANGED <<saved, open, of>>
    PROVE  ClosedIsEmpty' /\ (\A c \in open' : saved'[c] \subseteq Texts) /\ SavedInItsChat'
  BY DEF TerminalInv, ClosedIsEmpty, SavedInItsChat

\* The steps of the turn and of its callbacks.
LEMMA TurnSteps == TerminalInv /\ TurnStep => TerminalInv'
  <1> SUFFICES ASSUME TerminalInv, TurnStep PROVE TerminalInv'
    OBVIOUS
  <1> USE DEF TerminalInv
  <1>1. CASE SendBegins
    <2>1. Persist(tui.agent, turn.text) /\ UNCHANGED <<tui, agents, built, open, made, of>>
          /\ turn.pc = "begin" /\ \E pc \in {"loop", "over"} : turn' = [turn EXCEPT !.pc = pc, !.agent = tui.agent]
      BY <1>1 DEF SendBegins
    <2>2. /\ DOMAIN saved' = 1..MaxChats /\ ClosedIsEmpty'
          /\ \A c \in open' : saved'[c] \subseteq Texts
          /\ SavedInItsChat'
      BY <2>1, PersistKeeps DEF TerminalTypeOK, TurnInItsChat
    <2>3. TerminalTypeOK' /\ TurnInItsChat'
      BY <2>1, <2>2 DEF TerminalTypeOK, TurnInItsChat
    <2> QED
      BY <2>2, <2>3
  <1>2. CASE Iterate \/ BlockEnds
    <2>1. /\ UNCHANGED <<tui, agents, built, saved, open, made, of>>
          /\ turn.pc \in {"loop", "block"} /\ \E pc \in {"call", "loop"} : turn' = [turn EXCEPT !.pc = pc]
      BY <1>2 DEF Iterate, BlockEnds, storeVars
    <2> QED
      BY <2>1, RowsKept DEF TerminalTypeOK, TurnInItsChat
  <1>3. CASE CallEnds
    <2>1. /\ UNCHANGED <<tui, agents, built, open, made, of>>
          /\ turn.pc = "call"
          /\ \/ turn' = [turn EXCEPT !.pc = "block", !.n = @ + 1] /\ UNCHANGED saved
             \/ turn' = [turn EXCEPT !.pc = "over"] /\ Persist(turn.agent, turn.text)
             \/ turn' = [turn EXCEPT !.pc = "over"] /\ UNCHANGED saved
      BY <1>3 DEF CallEnds
    <2>2. /\ DOMAIN saved' = 1..MaxChats /\ ClosedIsEmpty'
          /\ \A c \in open' : saved'[c] \subseteq Texts
          /\ SavedInItsChat'
      <3>1. CASE UNCHANGED saved
        BY <2>1, <3>1, RowsKept DEF TerminalTypeOK
      <3>2. CASE Persist(turn.agent, turn.text)
        BY <2>1, <3>2, PersistKeeps DEF TurnInItsChat
      <3> QED
        BY <2>1, <3>1, <3>2
    <2>3. TerminalTypeOK' /\ TurnInItsChat'
      BY <2>1, <2>2 DEF TerminalTypeOK, TurnInItsChat
    <2> QED
      BY <2>2, <2>3
  <1>4. CASE HeardAndRebuilds
    <2>1. /\ UNCHANGED <<turn, saved, open, made, of>> /\ built < MaxAgents /\ built' = built + 1
          /\ agents' = [agents EXCEPT ![built + 1] = NewAgent]
          /\ tui' = [tui EXCEPT !.agent = built + 1]
      BY <1>4 DEF HeardAndRebuilds, storeVars
    <2>2. built + 1 \in 1..MaxAgents
      BY <2>1, TerminalAssumption DEF TerminalTypeOK
    <2>3. /\ agents' \in [1..MaxAgents -> [chat : 0..MaxChats, wired : BOOLEAN]]
          /\ \A a \in 1..MaxAgents : agents'[a].chat = IF a = built + 1 THEN 0 ELSE agents[a].chat
      <3>1. NewAgent \in [chat : 0..MaxChats, wired : BOOLEAN] /\ NewAgent.chat = 0
        BY TerminalAssumption DEF NewAgent
      <3> QED
        BY <2>1, <2>2, <3>1 DEF TerminalTypeOK
    <2>4. tui' = [agent |-> built + 1, chat |-> tui.chat, thinking |-> tui.thinking, prompt |-> tui.prompt]
      BY <2>1 DEF TerminalTypeOK
    <2>5. TerminalTypeOK'
      BY <2>1, <2>2, <2>3, <2>4 DEF TerminalTypeOK
    <2>6. TurnInItsChat'
      BY <2>1, <2>2, <2>3, <2>4 DEF TurnInItsChat
    <2> QED
      BY <2>1, <2>5, <2>6, RowsKept
  <1>5. ASSUME NEW s \in Asking, Ask(s) \/ Heard(s) PROVE TerminalInv'
    <2>1. UNCHANGED <<tui, agents, built, turn, saved, open, made, of>>
      BY <1>5 DEF Ask, Heard, storeVars
    <2> QED
      BY <2>1, RowsKept DEF TerminalTypeOK, TurnInItsChat
  <1> QED
    BY <1>1, <1>2, <1>3, <1>4, <1>5 DEF TurnStep

\* What keys do: entering a message, an answer, an interrupt.
LEMMA KeySteps ==
    ASSUME TerminalInv,
           \/ \E s \in Asking : ShowPrompt(s)
           \/ ShowResponse \/ Reply
           \/ \E x \in Texts \cup Commands : Queue(x)
           \/ \E x \in Texts : Submit(x)
    PROVE  TerminalInv'
  <1> USE DEF TerminalInv
  <1>1. CASE (\E s \in Asking : ShowPrompt(s)) \/ Reply
    <2>1. /\ UNCHANGED <<agents, built, turn, saved, open, made, of>>
          /\ \E s : tui' = [tui EXCEPT !.prompt = s]
      BY <1>1 DEF ShowPrompt, Reply, storeVars
    <2> QED
      BY <2>1, RowsKept DEF TerminalTypeOK, TurnInItsChat
  <1>2. CASE ShowResponse
    <2>1. /\ UNCHANGED <<agents, built, saved, open, made, of>>
          /\ turn' = [turn EXCEPT !.pc = "none"] /\ tui' = [tui EXCEPT !.thinking = FALSE]
      BY <1>2 DEF ShowResponse, storeVars
    <2> QED
      BY <2>1, RowsKept DEF TerminalTypeOK, TurnInItsChat
  <1>3. ASSUME NEW x \in Texts \cup Commands, Queue(x) PROVE TerminalInv'
    <2>1. UNCHANGED <<tui, agents, built, turn, saved, open, made>> /\ of' = Entered(x) /\ (x \in Texts => of[x] = NotYet)
      BY <1>3 DEF Queue, Enter, storeVars
    <2>2. tui.chat \in 0..MaxChats /\ MaxChats \in Nat /\ NotYet = MaxChats + 1
      BY TerminalAssumption DEF TerminalTypeOK, NotYet
    <2>3. /\ of' \in [Texts -> 0..NotYet]
          /\ \A y \in Texts : of[y] # NotYet => of'[y] = of[y]
      BY <2>1, <2>2 DEF Entered, TerminalTypeOK
    <2>4. TerminalTypeOK' /\ TurnInItsChat'
      BY <2>1, <2>2, <2>3 DEF TerminalTypeOK, TurnInItsChat
    <2>5. SavedInItsChat'
      <3>1. \A c \in open : c # NotYet
        BY <2>2 DEF TerminalTypeOK
      <3> QED
        BY <2>1, <2>3, <3>1 DEF SavedInItsChat
    <2> QED
      BY <2>1, <2>4, <2>5 DEF ClosedIsEmpty
  <1>4. ASSUME NEW x \in Texts, Submit(x) PROVE TerminalInv'
    <2>1. /\ UNCHANGED <<built, saved>> /\ of[x] = NotYet /\ ~tui.thinking
          /\ turn' = [NoSend EXCEPT !.pc = "begin", !.text = x]
      BY <1>4 DEF Submit, Enter, Queues
    <2>2. tui.chat \in 0..MaxChats /\ MaxChats \in Nat \ {0} /\ NotYet = MaxChats + 1 /\ made \in Nat
      BY TerminalAssumption DEF TerminalTypeOK, NotYet
    <2>3. PICK c \in IF tui.chat = 0 /\ made < MaxChats THEN {0, made + 1} ELSE {tui.chat} :
             /\ tui' = [tui EXCEPT !.thinking = TRUE, !.chat = c]
             /\ of' = [of EXCEPT ![x] = c]
             /\ IF c # tui.chat
                THEN /\ open' = open \cup {c} /\ made' = c
                     /\ agents' = [agents EXCEPT ![tui.agent].chat = c]
                ELSE UNCHANGED <<open, made, agents>>
      BY <1>4 DEF Submit
    <2>4. c \in 0..MaxChats
      BY <2>2, <2>3
    <2>5. /\ of' \in [Texts -> 0..NotYet] /\ of'[x] = c
          /\ \A y \in Texts : of[y] # NotYet => of'[y] = of[y]
      BY <2>1, <2>2, <2>3, <2>4 DEF TerminalTypeOK
    <2>6. CASE c # tui.chat
      <3>1. c = made + 1 /\ made + 1 \in 1..MaxChats /\ c \notin open /\ tui.chat = 0
        BY <2>2, <2>3, <2>6 DEF TerminalTypeOK
      <3>2. open' = open \cup {c} /\ made' = c /\ agents' = [agents EXCEPT ![tui.agent].chat = c]
        BY <2>3, <2>6
      <3>3. saved[c] = {}
        BY <3>1 DEF ClosedIsEmpty
      <3>4. TerminalTypeOK'
        <4>1. agents' = Switched(tui.agent, c) /\ tui.agent \in 1..MaxAgents
          BY <3>2 DEF Switched, TerminalTypeOK
        <4>2. agents' \in [1..MaxAgents -> [chat : 0..MaxChats, wired : BOOLEAN]]
          BY <2>4, <4>1, SwitchedAgents
        <4>3. open' \subseteq 1..made' /\ made' \in 0..MaxChats
          BY <2>2, <3>1, <3>2 DEF TerminalTypeOK
        <4>4. /\ tui' = [agent |-> tui.agent, chat |-> c, thinking |-> TRUE, prompt |-> tui.prompt]
              /\ turn' = [pc |-> "begin", agent |-> 1, text |-> x, n |-> 0]
          BY <2>1, <2>3 DEF TerminalTypeOK, NoSend
        <4> QED
          BY <2>1, <2>5, <3>2, <4>1, <4>2, <4>3, <4>4 DEF TerminalTypeOK
      <3>5. TurnInItsChat'
        BY <2>1, <2>2, <2>3, <2>5, <3>1, <3>2 DEF TerminalTypeOK, TurnInItsChat, NoSend
      <3>6. SavedInItsChat'
        <4>1. \A d \in open : d # NotYet
          BY <2>2 DEF TerminalTypeOK
        <4> QED
          BY <2>1, <2>5, <3>2, <3>3, <4>1 DEF SavedInItsChat
      <3> QED
        BY <2>1, <3>2, <3>3, <3>4, <3>5, <3>6 DEF ClosedIsEmpty
    <2>7. CASE c = tui.chat
      <3>1. UNCHANGED <<open, made, agents>>
        BY <2>3, <2>7
      <3>2. TerminalTypeOK' /\ TurnInItsChat'
        BY <2>1, <2>2, <2>3, <2>5, <2>7, <3>1 DEF TerminalTypeOK, TurnInItsChat, NoSend
      <3>3. SavedInItsChat'
        <4>1. \A d \in open : d # NotYet
          BY <2>2 DEF TerminalTypeOK
        <4> QED
          BY <2>1, <2>5, <3>1, <4>1 DEF SavedInItsChat
      <3> QED
        BY <2>1, <3>1, <3>2, <3>3 DEF ClosedIsEmpty
    <2> QED
      BY <2>6, <2>7
  <1> QED
    BY <1>1, <1>2, <1>3, <1>4

\* What the commands do: new, switch, delete, clear.
LEMMA CommandSteps ==
    ASSUME TerminalInv,
           \/ CommandNew \/ CommandProvider \/ QuitAndResume
           \/ \E c \in 1..MaxChats : CommandOpen(c) \/ CommandDelete(c)
    PROVE  TerminalInv'
  <1> USE DEF TerminalInv
  <1>0. tui.agent \in 1..MaxAgents /\ MaxAgents \in Nat \ {0}
    BY TerminalAssumption DEF TerminalTypeOK
  \* No command is done while a turn runs: the agent's chat follows the model's.
  <1>1. ASSUME NEW c, c \in {0} \cup open, turn.pc = "none",
               UNCHANGED <<built, turn, saved, open, made, of>>,
               tui' = [tui EXCEPT !.chat = c], agents' = Switched(tui.agent, c)
        PROVE  TerminalInv'
    <2>1. c \in 0..MaxChats
      BY <1>1, TerminalAssumption DEF TerminalTypeOK
    <2>2. /\ agents' \in [1..MaxAgents -> [chat : 0..MaxChats, wired : BOOLEAN]]
          /\ agents'[tui.agent].chat = c
      BY <1>0, <1>1, <2>1, SwitchedAgents
    <2>3. tui' = [agent |-> tui.agent, chat |-> c, thinking |-> tui.thinking, prompt |-> tui.prompt]
      BY <1>1 DEF TerminalTypeOK
    <2>4. TerminalTypeOK'
      BY <1>0, <1>1, <2>2, <2>3 DEF TerminalTypeOK
    <2>5. TurnInItsChat'
      BY <1>0, <1>1, <2>2, <2>3 DEF TurnInItsChat
    <2> QED
      BY <1>1, <2>4, <2>5, RowsKept
  <1>2. CASE CommandNew
    <2>1. turn.pc = "none"
      BY <1>2 DEF CommandNew, Commanded, Queues, TurnInItsChat
    <2> QED
      BY <1>1, <1>2, <2>1 DEF CommandNew, storeVars
  <1>3. ASSUME NEW c \in 1..MaxChats, CommandOpen(c) PROVE TerminalInv'
    <2>1. turn.pc = "none" /\ c \in open
      BY <1>3 DEF CommandOpen, Commanded, Queues, TurnInItsChat
    <2> QED
      BY <1>1, <1>3, <2>1 DEF CommandOpen, storeVars
  <1>4. ASSUME NEW c \in 1..MaxChats, CommandDelete(c) PROVE TerminalInv'
    <2>1. /\ turn.pc = "none" /\ c \in open /\ open' = open \ {c} /\ saved' = [saved EXCEPT ![c] = {}]
          /\ UNCHANGED <<built, turn, made, of>>
      BY <1>4 DEF CommandDelete, Commanded, Queues, TurnInItsChat
    <2>2. ClosedIsEmpty' /\ (\A d \in open' : saved'[d] \subseteq Texts) /\ SavedInItsChat'
      BY <2>1 DEF TerminalTypeOK, ClosedIsEmpty, SavedInItsChat
    <2>3. CASE c = tui.chat
      <3>1. tui' = [tui EXCEPT !.chat = 0] /\ agents' = Switched(tui.agent, 0)
        BY <1>4, <2>3 DEF CommandDelete
      <3>2. /\ agents' \in [1..MaxAgents -> [chat : 0..MaxChats, wired : BOOLEAN]]
            /\ agents'[tui.agent].chat = 0
        <4>1. 0 \in 0..MaxChats
          BY TerminalAssumption
        <4>2. /\ Switched(tui.agent, 0) \in [1..MaxAgents -> [chat : 0..MaxChats, wired : BOOLEAN]]
              /\ Switched(tui.agent, 0)[tui.agent].chat = 0
          BY <1>0, <4>1, SwitchedAgents
        <4> QED
          BY <3>1, <4>2
      <3>3. tui' = [agent |-> tui.agent, chat |-> 0, thinking |-> tui.thinking, prompt |-> tui.prompt]
        BY <3>1 DEF TerminalTypeOK
      <3>4. TerminalTypeOK'
        BY <1>0, <2>1, <3>2, <3>3 DEF TerminalTypeOK
      <3>5. TurnInItsChat'
        BY <1>0, <2>1, <3>2, <3>3 DEF TurnInItsChat
      <3> QED
        BY <2>2, <3>4, <3>5
    <2>4. CASE c # tui.chat
      <3>1. UNCHANGED <<tui, agents>>
        BY <1>4, <2>4 DEF CommandDelete
      <3> QED
        BY <2>1, <2>2, <2>4, <3>1 DEF TerminalTypeOK, TurnInItsChat
    <2> QED
      BY <2>3, <2>4
  <1>5. CASE CommandProvider
    <2>1. turn.pc = "none" /\ UNCHANGED <<turn, saved, open, made, of>>
      BY <1>5 DEF CommandProvider, Commanded, Queues, TurnInItsChat, storeVars
    <2>2. CASE UNCHANGED <<tui, built, agents>>
      BY <2>1, <2>2, RowsKept DEF TerminalTypeOK, TurnInItsChat
    <2>3. CASE /\ built < MaxAgents /\ built' = built + 1
               /\ tui' = [tui EXCEPT !.agent = built + 1]
               /\ agents' = Switched(built + 1, tui.chat)
      <3>1. built + 1 \in 1..MaxAgents
        BY <1>0, <2>3 DEF TerminalTypeOK
      <3>2. /\ agents' \in [1..MaxAgents -> [chat : 0..MaxChats, wired : BOOLEAN]]
            /\ agents'[built + 1].chat = tui.chat
        <4>1. tui.chat \in 0..MaxChats
          BY TerminalAssumption DEF TerminalTypeOK
        <4> QED
          BY <2>3, <3>1, <4>1, SwitchedAgents
      <3>3. tui' = [agent |-> built + 1, chat |-> tui.chat, thinking |-> tui.thinking, prompt |-> tui.prompt]
        BY <2>3 DEF TerminalTypeOK
      <3>4. TerminalTypeOK'
        BY <2>1, <2>3, <3>1, <3>2, <3>3 DEF TerminalTypeOK
      <3>5. TurnInItsChat'
        BY <2>1, <3>1, <3>2, <3>3 DEF TurnInItsChat
      <3> QED
        BY <2>1, <3>4, <3>5, RowsKept
    <2> QED
      BY <1>5, <2>2, <2>3 DEF CommandProvider
  <1>6. CASE QuitAndResume
    <2>1. /\ UNCHANGED <<saved, open, made, of>> /\ turn' = NoSend /\ built < MaxAgents /\ built' = built + 1
      BY <1>6 DEF QuitAndResume, storeVars
    <2>2. PICK c \in IF open = {} THEN {0} ELSE open :
            /\ tui' = [Model EXCEPT !.agent = built + 1, !.chat = c]
            /\ agents' = [Switched(built + 1, c) EXCEPT ![built + 1].wired = TRUE]
      BY <1>6 DEF QuitAndResume
    <2>3. built + 1 \in 1..MaxAgents /\ c \in {0} \cup open
      BY <1>0, <2>1, <2>2 DEF TerminalTypeOK
    <2>4. c \in 0..MaxChats
      BY <2>3, TerminalAssumption DEF TerminalTypeOK
    <2>5. /\ agents' \in [1..MaxAgents -> [chat : 0..MaxChats, wired : BOOLEAN]]
          /\ agents'[built + 1].chat = c
      <3>1. /\ Switched(built + 1, c) \in [1..MaxAgents -> [chat : 0..MaxChats, wired : BOOLEAN]]
            /\ Switched(built + 1, c)[built + 1].chat = c
        BY <2>3, <2>4, SwitchedAgents
      <3> QED
        BY <2>2, <2>3, <3>1
    <2>6. TerminalTypeOK'
      <3>1. tui' = [agent |-> built + 1, chat |-> c, thinking |-> FALSE, prompt |-> NoOne]
        BY <2>2 DEF Model
      <3>2. turn' = [pc |-> "none", agent |-> 1, text |-> NoText, n |-> 0]
        BY <2>1 DEF NoSend
      <3> QED
        BY <1>0, <2>1, <2>3, <2>5, <3>1, <3>2 DEF TerminalTypeOK
    <2>7. TurnInItsChat'
      BY <2>1, <2>2, <2>3, <2>5 DEF TurnInItsChat, Model, NoSend
    <2> QED
      BY <2>1, <2>6, <2>7, RowsKept
  <1> QED
    BY <1>2, <1>3, <1>4, <1>5, <1>6

\* Every step of the terminal keeps its invariant.
LEMMA TerminalStep == TerminalInv /\ TerminalNext => TerminalInv'
  BY TurnSteps, KeySteps, CommandSteps DEF TerminalNext

-----------------------------------------------------------------------------
(* The watched files.                                                      *)

Queued == Seq({"create", "remove"} \X Paths)

WatcherTypeOK ==
    /\ tree \subseteq Paths /\ events \in Queued
    /\ walk \in [todo : SUBSET (Paths \cup {<<>>}), list : SUBSET (Paths \cup {<<>>})]

\* The last event about a path is at place i of the queue.
LastAt(p, i) == i \in 1..Len(events) /\ events[i][2] = p /\ \A j \in (i + 1)..Len(events) : events[j][2] # p
Unheard(p) == \A i \in 1..Len(events) : events[i][2] # p

\* What the pages will have been told of a path when the queue is empty is so.
WillBeAnnounced(p) ==
    \/ \E i \in 1..Len(events) : LastAt(p, i) /\ (events[i][1] = "create" <=> p \in tree)
    \/ Unheard(p) /\ (p \in announced <=> p \in tree)

\* A directory of the workspace's own has its watch, or will get it: from the walk,
\* from the listing of the workspace, or from the event of its creation; or it
\* was missed.
WillBeWatched(p) ==
    \/ p \in watched \cup missed \cup walk.todo \/ <<>> \in walk.todo \cup walk.list
    \/ \E i \in 1..Len(events) : events[i] = <<"create", p>>

FollowInv ==
    /\ WatcherTypeOK
    /\ \A p \in tree \cap Own : ShouldSkip(p) \/ WillBeWatched(p)
    /\ \A p \in Paths \ unseen : WillBeAnnounced(p)

\* When nothing is left to handle, that is what the watcher promises.
LEMMA FollowInvHolds == FollowInv => TreeIsFollowed
  <1> SUFFICES ASSUME FollowInv, AtRest PROVE TreeIsFollowed
    BY DEF TreeIsFollowed
  <1>1. Len(events) = 0 /\ walk.todo = {} /\ walk.list = {}
    BY DEF AtRest
  <1>2. \A p : WillBeWatched(p) => p \in watched \cup missed
    BY <1>1 DEF WillBeWatched
  <1>3. \A p : WillBeAnnounced(p) => (p \in announced <=> p \in tree)
    BY <1>1 DEF WillBeAnnounced
  <1> QED
    BY <1>2, <1>3 DEF FollowInv, TreeIsFollowed

\* The paths of the model: the workspace's own directories are in it, and nothing
\* is the workspace.
LEMMA PathFacts ==
    /\ Own \subseteq Paths /\ \A p \in Paths : p # <<>>
    /\ \A p \in Own : IsDir(p) /\ Parent(p) = <<>> /\ \A q \in Paths : p \notin Below(q)
  <1>1. ASSUME NEW d \in Tops PROVE <<d>> # <<>> /\ IsDir(<<d>>) /\ Parent(<<d>>) = <<>>
    <2>1. IsDir(<<d>>)
      BY WatcherAssumption DEF IsDir
    <2>2. Parent(<<d>>) = <<>>
      BY DEF Parent
    <2> QED
      BY <2>1, <2>2
  <1>2. ASSUME NEW d \in Tops, NEW e \in {"sub", "file"} PROVE <<d, e>> # <<>>
    OBVIOUS
  <1>3. \A p \in Paths : p # <<>>
    BY <1>1, <1>2 DEF Paths, Own
  <1>4. \A p \in Own : IsDir(p) /\ Parent(p) = <<>>
    BY <1>1 DEF Own
  <1> QED
    BY <1>3, <1>4 DEF Paths, Below

\* InitWatcher: only the walk is to begin.
LEMMA WatcherInit == InitWatcher => FollowInv
  <1> SUFFICES ASSUME InitWatcher PROVE FollowInv
    OBVIOUS
  <1>1. tree \subseteq Paths /\ events = <<>> /\ announced = tree /\ walk.todo = {<<>>}
    BY DEF InitWatcher, Paths, Own
  <1>2. events \in Queued /\ Len(events) = 0
    BY <1>1 DEF Queued
  <1>3. WatcherTypeOK
    BY <1>1, <1>2 DEF InitWatcher, WatcherTypeOK
  <1> QED
    BY <1>1, <1>2, <1>3 DEF FollowInv, WillBeWatched, WillBeAnnounced, Unheard

\* What touches no watched file leaves the invariant as it is.
LEMMA WatcherStutter == FollowInv /\ UNCHANGED watcherVars => FollowInv'
  <1> SUFFICES ASSUME FollowInv, UNCHANGED watcherVars PROVE FollowInv'
    OBVIOUS
  <1>1. UNCHANGED <<tree, watched, events, walk, announced, unseen, missed>>
    BY DEF watcherVars
  <1> QED
    BY <1>1 DEF FollowInv, WatcherTypeOK, WillBeWatched, WillBeAnnounced, LastAt, Unheard

\* An event at the end of the queue decides what is said of its path, and nothing
\* of another.
LEMMA Appended ==
    ASSUME WatcherTypeOK, NEW what \in {"create", "remove"}, NEW p \in Paths,
           events' = Append(events, <<what, p>>), announced' = announced
    PROVE  /\ events' \in Queued /\ events'[Len(events')] = <<what, p>> /\ LastAt(p, Len(events))'
           /\ Len(events') \in 1..Len(events')
           /\ \A i \in 1..Len(events) : i \in 1..Len(events') /\ events'[i] = events[i]
           /\ \A q : q # p => /\ Unheard(q) => Unheard(q)'
                              /\ \A i \in 1..Len(events) : LastAt(q, i) => LastAt(q, i)'
  <1>1. <<what, p>> \in {"create", "remove"} \X Paths
    OBVIOUS
  <1>2. /\ events' \in Queued /\ Len(events') = Len(events) + 1 /\ events'[Len(events) + 1] = <<what, p>>
        /\ \A i \in 1..Len(events) : events'[i] = events[i]
        /\ Len(events) \in Nat
    BY <1>1 DEF WatcherTypeOK, Queued
  <1>3. LastAt(p, Len(events))'
    <2>1. Len(events') \in 1..Len(events') /\ events'[Len(events')][2] = p
      BY <1>2
    <2>2. \A j \in (Len(events') + 1)..Len(events') : FALSE
      BY <1>2
    <2> QED
      BY <2>1, <2>2 DEF LastAt
  <1>4. ASSUME NEW q, q # p, Unheard(q) PROVE Unheard(q)'
    BY <1>2, <1>4 DEF Unheard
  <1>5. ASSUME NEW q, q # p, NEW i \in 1..Len(events), LastAt(q, i) PROVE LastAt(q, i)'
    BY <1>2, <1>5 DEF LastAt
  <1> QED
    BY <1>2, <1>3, <1>4, <1>5

\* Comes and Leaves: the path changes with what it has, and its event is queued or not.
LEMMA ChangeStep ==
    ASSUME FollowInv, NEW p \in Paths, Comes(p) \/ Leaves(p)
    PROVE  FollowInv'
  <1>1. PICK w \in {"create", "remove"}, B \in SUBSET Below(p) :
             /\ Happens(w, p, B) /\ (w = "create" <=> p \in tree')
             /\ \A q \in Paths \ (B \cup {p}) : (q \in tree' <=> q \in tree)
    <2>1. CASE Comes(p)
      <3>1. PICK B \in SUBSET Below(p) : tree' = tree \cup {p} \cup B /\ Happens("create", p, B)
        BY <2>1 DEF Comes
      <3> QED
        BY <3>1
    <2>2. CASE Leaves(p)
      <3>1. tree' = tree \ ({p} \cup Below(p)) /\ Happens("remove", p, tree \cap Below(p))
        BY <2>2 DEF Leaves
      <3> QED
        BY <3>1
    <2> QED
      BY <2>1, <2>2
  <1>2. /\ walk' = walk /\ announced' = announced /\ tree' \subseteq Paths
        /\ \A q \in Paths \ (Below(p) \cup {p}) : (q \in watched' <=> q \in watched)
    BY DEF FollowInv, WatcherTypeOK, Comes, Leaves, Below
  <1>3. \A q \in Own \ {p} : /\ q \in Paths \ (Below(p) \cup {p})
                             /\ (q \in tree' <=> q \in tree) /\ (q \in watched' <=> q \in watched)
    BY <1>1, <1>2, PathFacts
  <1>4. \A q \in Own \ {p} : (q \in missed' <=> q \in missed)
    BY <1>1 DEF Happens
  <1>5. CASE events' = Append(events, <<w, p>>) /\ unseen' = (unseen \ {p}) \cup B
    <2>2. /\ events' \in Queued /\ events'[Len(events')] = <<w, p>> /\ LastAt(p, Len(events))'
          /\ Len(events') \in 1..Len(events')
          /\ \A i \in 1..Len(events) : i \in 1..Len(events') /\ events'[i] = events[i]
          /\ \A q : q # p => /\ Unheard(q) => Unheard(q)'
                             /\ \A i \in 1..Len(events) : LastAt(q, i) => LastAt(q, i)'
      BY <1>2, <1>5, Appended DEF FollowInv
    <2>3. ASSUME NEW q \in tree' \cap Own, ~ShouldSkip(q) PROVE WillBeWatched(q)'
      <3>1. CASE q = p
        BY <1>1, <2>2, <2>3, <3>1 DEF WillBeWatched
      <3>2. CASE q # p
        <4>1. WillBeWatched(q)
          BY <1>3, <2>3, <3>2 DEF FollowInv
        <4> QED
          BY <1>2, <1>3, <1>4, <2>2, <3>2, <4>1 DEF WillBeWatched
      <3> QED
        BY <3>1, <3>2
    <2>4. ASSUME NEW q \in Paths \ unseen' PROVE WillBeAnnounced(q)'
      <3>1. CASE q = p
        <4>1. events'[Len(events')][1] = w /\ Len(events') \in 1..Len(events')
          BY <2>2
        <4> QED
          BY <1>1, <2>2, <3>1, <4>1 DEF WillBeAnnounced, LastAt
      <3>2. CASE q # p
        <4>1. WillBeAnnounced(q) /\ (q \in tree' <=> q \in tree)
          BY <1>1, <1>5, <2>4, <3>2 DEF FollowInv
        <4>2. ASSUME NEW i \in 1..Len(events), LastAt(q, i), events[i][1] = "create" <=> q \in tree
              PROVE  WillBeAnnounced(q)'
          <5>1. i \in 1..Len(events') /\ LastAt(q, i)' /\ (events'[i][1] = "create" <=> q \in tree')
            BY <2>2, <3>2, <4>1, <4>2
          <5> QED
            BY <5>1 DEF WillBeAnnounced
        <4>3. ASSUME Unheard(q), q \in announced <=> q \in tree PROVE WillBeAnnounced(q)'
          <5>1. Unheard(q)' /\ (q \in announced' <=> q \in tree')
            BY <1>2, <2>2, <3>2, <4>1, <4>3
          <5> QED
            BY <5>1 DEF WillBeAnnounced
        <4> QED
          BY <4>1, <4>2, <4>3 DEF WillBeAnnounced
      <3> QED
        BY <3>1, <3>2
    <2> QED
      BY <1>2, <2>2, <2>3, <2>4 DEF FollowInv, WatcherTypeOK, ShouldSkip
  <1>6. CASE /\ events' = events /\ unseen' = unseen \cup {p} \cup B
             /\ missed' = (IF w = "create" /\ p \in Own /\ <<>> \notin walk.todo \cup walk.list
                           THEN missed \cup {p} ELSE missed \ {p})
    <2>3. ASSUME NEW q \in tree' \cap Own, ~ShouldSkip(q) PROVE WillBeWatched(q)'
      <3>1. CASE q = p
        BY <1>1, <1>2, <1>6, <2>3, <3>1 DEF WillBeWatched
      <3>2. CASE q # p
        <4>1. WillBeWatched(q)
          BY <1>3, <2>3, <3>2 DEF FollowInv
        <4> QED
          BY <1>2, <1>3, <1>4, <1>6, <3>2, <4>1 DEF WillBeWatched
      <3> QED
        BY <3>1, <3>2
    <2>4. ASSUME NEW q \in Paths \ unseen' PROVE WillBeAnnounced(q)'
      <3>1. q # p /\ WillBeAnnounced(q) /\ (q \in tree' <=> q \in tree)
        BY <1>1, <1>6, <2>4 DEF FollowInv
      <3> QED
        BY <1>2, <1>6, <3>1 DEF WillBeAnnounced, LastAt, Unheard
    <2> QED
      BY <1>2, <1>6, <2>3, <2>4 DEF FollowInv, WatcherTypeOK, ShouldSkip
  <1> QED
    BY <1>1, <1>5, <1>6 DEF Happens

\* A watch that is asked for is there, or refused, which the history records.
LEMMA AddsStep ==
    ASSUME NEW p, Adds(p)
    PROVE  /\ watched \subseteq watched' /\ missed \subseteq missed'
           /\ p \in Own => p \in watched' \cup missed'
  BY DEF Adds

\* The first walk, adding a directory or listing it.
LEMMA WalkStep ==
    ASSUME FollowInv, NEW p \in Paths \cup {<<>>}, WalkTo(p) \/ ReadDir(p)
    PROVE  FollowInv'
  <1>1. UNCHANGED <<tree, events, announced, unseen>>
    BY DEF WalkTo, ReadDir
  <1>2. \A q \in Paths \ unseen' : WillBeAnnounced(q)'
    BY <1>1 DEF FollowInv, WillBeAnnounced, LastAt, Unheard
  <1>3. WatcherTypeOK'
    BY <1>1 DEF WalkTo, ReadDir, FollowInv, WatcherTypeOK
  <1>4. ASSUME NEW q \in tree \cap Own, ~ShouldSkip(q) PROVE WillBeWatched(q)'
    <2>1. WillBeWatched(q) /\ q # <<>>
      BY <1>4, PathFacts DEF FollowInv
    <2>2. CASE WalkTo(p) /\ (ShouldSkip(p) \/ p \notin tree \cup {<<>>})
      <3>1. walk'.todo = walk.todo \ {p} /\ walk'.list = walk.list /\ UNCHANGED <<watched, missed>>
        BY <2>2 DEF WalkTo, FollowInv, WatcherTypeOK
      <3>2. p # <<>> /\ q # p
        BY <1>4, <2>2 DEF ShouldSkip
      <3> QED
        BY <1>1, <2>1, <3>1, <3>2 DEF WillBeWatched
    <2>3. CASE WalkTo(p) /\ ~(ShouldSkip(p) \/ p \notin tree \cup {<<>>})
      <3>1. walk'.todo = walk.todo \ {p} /\ walk'.list = walk.list \cup {p} /\ Adds(p)
        BY <2>3 DEF WalkTo
      <3>2. /\ watched \subseteq watched' /\ missed \subseteq missed'
            /\ p \in Own => p \in watched' \cup missed'
        BY <3>1, AddsStep
      <3> QED
        BY <1>1, <1>4, <2>1, <3>1, <3>2 DEF WillBeWatched
    <2>4. CASE ReadDir(p)
      <3>1. /\ walk'.todo = walk.todo \cup {x \in tree : Parent(x) = p /\ IsDir(x)}
            /\ walk'.list = walk.list \ {p} /\ UNCHANGED <<watched, missed>>
        BY <2>4 DEF ReadDir
      <3>2. IsDir(q) /\ Parent(q) = <<>>
        BY <1>4, PathFacts
      <3> QED
        BY <1>1, <1>4, <2>1, <3>1, <3>2 DEF WillBeWatched
    <2> QED
      BY <2>2, <2>3, <2>4
  <1> QED
    BY <1>1, <1>2, <1>3, <1>4 DEF FollowInv, ShouldSkip

\* HandleEvent: the loop takes the oldest event.
LEMMA EventStep == ASSUME FollowInv, HandleEvent PROVE FollowInv'
  <1> DEFINE what == events[1][1]
             p == events[1][2]
  <1>1. /\ events \in Queued /\ events # <<>> /\ events' = Tail(events)
        /\ UNCHANGED <<tree, walk, unseen>>
        /\ announced' = Announced(what, p)
        /\ IF what = "create" /\ IsDir(p) /\ p \in tree /\ ~ShouldSkip(p)
           THEN Adds(p) ELSE UNCHANGED <<watched, missed>>
    <2>1. Head(events) = events[1] /\ events # <<>> /\ events \in Queued
      BY DEF FollowInv, WatcherTypeOK, HandleEvent, Queued
    <2> QED
      BY <2>1 DEF HandleEvent
  <1>2. /\ events' \in Queued /\ Len(events) \in Nat \ {0} /\ Len(events') = Len(events) - 1
        /\ \A i \in 1..Len(events') : events'[i] = events[i + 1] /\ i + 1 \in 1..Len(events)
        /\ \A i \in 1..Len(events) : i = 1 \/ (i - 1 \in 1..Len(events') /\ events'[i - 1] = events[i])
    BY <1>1 DEF Queued
  <1>3. events[1] \in {"create", "remove"} \X Paths /\ 1 \in 1..Len(events)
    BY <1>1, <1>2 DEF Queued
  <1>4. events[1] = <<what, p>> /\ what \in {"create", "remove"} /\ p \in Paths
    BY <1>3
  <1> HIDE DEF what, p
  <1>7. watched \subseteq watched' /\ missed \subseteq missed'
    BY <1>1, AddsStep
  <1>5. ASSUME NEW q \in tree \cap Own, ~ShouldSkip(q) PROVE WillBeWatched(q)'
    <2>1. WillBeWatched(q) /\ IsDir(q)
      BY <1>5, PathFacts DEF FollowInv
    <2>2. ASSUME NEW i \in 1..Len(events), events[i] = <<"create", q>> PROVE WillBeWatched(q)'
      <3>1. CASE i = 1
        <4>1. what = "create" /\ p = q
          BY <1>4, <2>2, <3>1
        <4>2. q \in watched' \cup missed'
          BY <1>1, <1>5, <2>1, <4>1, AddsStep
        <4> QED
          BY <4>2 DEF WillBeWatched
      <3>2. CASE i # 1
        BY <1>2, <2>2, <3>2 DEF WillBeWatched
      <3> QED
        BY <3>1, <3>2
    <2> QED
      BY <1>1, <1>7, <2>1, <2>2 DEF WillBeWatched
  <1>6. ASSUME NEW q \in Paths \ unseen PROVE WillBeAnnounced(q)'
    <2>1. WillBeAnnounced(q)
      BY <1>6 DEF FollowInv
    <2>2. ASSUME NEW i \in 1..Len(events), LastAt(q, i), events[i][1] = "create" <=> q \in tree
          PROVE  WillBeAnnounced(q)'
      <3>1. CASE i = 1
        <4>1. p = q /\ (what = "create" <=> q \in tree)
          BY <1>4, <2>2, <3>1 DEF LastAt
        <4>2. Unheard(q)'
          BY <1>2, <2>2, <3>1 DEF LastAt, Unheard
        <4>3. q \in announced' <=> q \in tree'
          BY <1>1, <4>1 DEF Announced
        <4> QED
          BY <4>2, <4>3 DEF WillBeAnnounced
      <3>2. CASE i # 1
        <4>1. i - 1 \in 1..Len(events') /\ events'[i - 1] = events[i]
          BY <1>2, <3>2
        <4>2. LastAt(q, i - 1)'
          <5>1. events'[i - 1][2] = q
            BY <2>2, <4>1 DEF LastAt
          <5>2. ASSUME NEW j \in ((i - 1) + 1)..Len(events') PROVE events'[j][2] # q
            <6>1. j \in 1..Len(events') /\ j + 1 \in (i + 1)..Len(events)
              BY <1>2, <4>1
            <6> QED
              BY <1>2, <2>2, <6>1 DEF LastAt
          <5> QED
            BY <4>1, <5>1, <5>2 DEF LastAt
        <4> QED
          BY <1>1, <2>2, <4>1, <4>2 DEF WillBeAnnounced
      <3> QED
        BY <3>1, <3>2
    <2>3. ASSUME Unheard(q), q \in announced <=> q \in tree PROVE WillBeAnnounced(q)'
      <3>1. Unheard(q)'
        BY <1>2, <2>3 DEF Unheard
      <3>2. q # p
        BY <1>3, <1>4, <2>3 DEF Unheard
      <3>3. q \in announced' <=> q \in tree'
        BY <1>1, <2>3, <3>2 DEF Announced
      <3> QED
        BY <3>1, <3>3 DEF WillBeAnnounced
    <2> QED
      BY <2>1, <2>2, <2>3 DEF WillBeAnnounced
  <1> QED
    BY <1>1, <1>2, <1>5, <1>6 DEF FollowInv, WatcherTypeOK, ShouldSkip

\* Every step of the tree or its watcher keeps the invariant.
LEMMA WatcherStepKeeps == FollowInv /\ WatcherStep => FollowInv'
  BY ChangeStep, WalkStep, EventStep DEF WatcherStep

-----------------------------------------------------------------------------
(* The events.                                                             *)

SentEvents == Senders \X Nat
PushRows == Endpoints \X (1..MaxRows)

EventsTypeOK ==
    /\ subscribers \subseteq Pages
    /\ queue \in [Pages -> Seq(SentEvents)] /\ written \in [Pages -> Seq(SentEvents)]
    /\ sender \in [Senders -> [pc : {"idle", "send", "check", "push"},
                               todo : SUBSET (Pages \cup PushRows), asks : BOOLEAN]]
    /\ number \in [Senders -> Nat] /\ since \in [Pages -> [Senders -> Nat]]
    /\ dropped \in [Pages -> SUBSET SentEvents]
    /\ rows \subseteq PushRows /\ subscribing \subseteq PushRows

\* Who sends has begun an event, and goes through pages that are still connected.
SendersBound ==
    \A s \in Senders :
      sender[s].pc = "send" => number[s] > 0 /\ sender[s].todo \subseteq subscribers

\* What the page was sent is not older than its connection, and it has neither got
\* nor lost the event that is under way to it.
FedOf(s, w) ==
    /\ since[w][s] <= Reached(s, w)
    /\ \A n \in Nat : <<s, n>> \in dropped[w] => n <= Reached(s, w)
    /\ \A i, j \in DOMAIN Line(w) :
          i < j /\ Line(w)[i][1] = s /\ Line(w)[j][1] = s => Line(w)[i][2] < Line(w)[j][2]
    /\ {event \in ToSet(Line(w)) : event[1] = s}
         = {<<s, n>> : n \in (since[w][s] + 1)..Reached(s, w)} \ dropped[w]

FedInv ==
    /\ EventsTypeOK /\ SendersBound
    /\ \A w \in subscribers, s \in Senders : FedOf(s, w)

\* A page's line is a sequence of events; one more at the end of its queue is one
\* more at the end of the line, and writing the first of the queue moves nothing.
LEMMA LineFacts ==
    ASSUME NEW p \in Seq(SentEvents), NEW q \in Seq(SentEvents)
    PROVE  /\ p \o q \in Seq(SentEvents)
           /\ q # <<>> => Append(p, Head(q)) \o Tail(q) = p \o q
           /\ \A e \in SentEvents : p \o Append(q, e) = Append(p \o q, e)
  <1>1. p \o q \in Seq(SentEvents)
    OBVIOUS
  <1>2. ASSUME q # <<>> PROVE Append(p, Head(q)) \o Tail(q) = p \o q
    <2> DEFINE a == Append(p, Head(q)) \o Tail(q)
               b == p \o q
    <2>1. a \in Seq(SentEvents) /\ b \in Seq(SentEvents)
      BY <1>2
    <2>2. Len(a) = Len(b)
      BY <1>2
    <2>3. \A i \in 1..Len(b) : a[i] = b[i]
      BY <1>2
    <2> HIDE DEF a, b
    <2>4. a = b
      BY <2>1, <2>2, <2>3
    <2> QED
      BY <2>4 DEF a, b
  <1>3. ASSUME NEW e \in SentEvents PROVE p \o Append(q, e) = Append(p \o q, e)
    <2> DEFINE a == p \o Append(q, e)
               b == Append(p \o q, e)
    <2>1. a \in Seq(SentEvents) /\ b \in Seq(SentEvents)
      OBVIOUS
    <2>2. Len(a) = Len(b)
      OBVIOUS
    <2>3. \A i \in 1..Len(b) : a[i] = b[i]
      OBVIOUS
    <2> HIDE DEF a, b
    <2>4. a = b
      BY <2>1, <2>2, <2>3
    <2> QED
      BY <2>4 DEF a, b
  <1> QED
    BY <1>1, <1>2, <1>3

\* One more at the end is one more in the set.
LEMMA OneMore ==
    ASSUME NEW p \in Seq(SentEvents), NEW e \in SentEvents
    PROVE  ToSet(Append(p, e)) = ToSet(p) \cup {e}
  <1> DEFINE q == Append(p, e)
  <1>1. /\ DOMAIN q = 1..(Len(p) + 1) /\ DOMAIN p = 1..Len(p) /\ Len(p) \in Nat
        /\ q[Len(p) + 1] = e /\ \A i \in 1..Len(p) : q[i] = p[i]
    OBVIOUS
  <1> HIDE DEF q
  <1>2. ToSet(q) = ToSet(p) \cup {e}
    BY <1>1 DEF ToSet
  <1> QED
    BY <1>2 DEF q

\* Nobody is connected at first.
LEMMA EventsInit == InitEvents => FedInv
  BY DEF InitEvents, FedInv, EventsTypeOK, SendersBound, Quiet

\* A step that leaves the hub alone and begins no event.
LEMMA HubStutter ==
    ASSUME FedInv, EventsTypeOK', UNCHANGED <<subscribers, queue, written, number, since, dropped>>,
           \A s \in Senders : sender'[s].pc = "send" <=> sender[s].pc = "send",
           \A s \in Senders : sender[s].pc = "send" => sender'[s].todo = sender[s].todo
    PROVE  FedInv'
  <1>1. SendersBound'
    BY DEF FedInv, SendersBound
  <1>2. ASSUME NEW w \in subscribers, NEW s \in Senders PROVE FedOf(s, w)'
    <2>1. FedOf(s, w)
      BY DEF FedInv
    <2>2. Reached(s, w)' = Reached(s, w) /\ Line(w)' = Line(w)
      BY DEF Reached, Line
    <2> QED
      BY <2>1, <2>2 DEF FedOf
  <1> QED
    BY <1>1, <1>2 DEF FedInv

\* The sender goes on to another state: not to or from sending.
LEMMA SenderStep ==
    ASSUME FedInv, NEW s \in Senders,
           NEW r \in [pc : {"idle", "check", "push"}, todo : SUBSET (Pages \cup PushRows), asks : BOOLEAN],
           sender' = [sender EXCEPT ![s] = r], UNCHANGED hubVars,
           rows' \subseteq PushRows, UNCHANGED subscribing,
           sender[s].pc # "send" \/ sender[s].todo = {}
    PROVE  FedInv'
  <1>1. EventsTypeOK'
    BY DEF FedInv, EventsTypeOK, hubVars
  <1>2. SendersBound'
    BY DEF FedInv, EventsTypeOK, SendersBound, hubVars
  <1>3. ASSUME NEW w \in subscribers, NEW x \in Senders PROVE FedOf(x, w)'
    <2>1. FedOf(x, w)
      BY <1>3 DEF FedInv
    <2>2. Reached(x, w)' = Reached(x, w) /\ Line(w)' = Line(w)
      BY DEF Reached, Line, hubVars, FedInv, EventsTypeOK
    <2> QED
      BY <2>1, <2>2 DEF FedOf, hubVars
  <1> QED
    BY <1>1, <1>2, <1>3 DEF FedInv, hubVars

\* Pages come and go while nobody sends.
LEMMA PageStep ==
    ASSUME FedInv, NEW w \in Pages, Subscribe(w) \/ Unsubscribe(w)
    PROVE  FedInv'
  <1>1. /\ \A s \in Senders : sender[s].pc # "send"
        /\ UNCHANGED <<sender, number, pushVars>>
        /\ queue' = [queue EXCEPT ![w] = <<>>] /\ written' = [written EXCEPT ![w] = <<>>]
        /\ dropped' = [dropped EXCEPT ![w] = {}]
    BY DEF Subscribe, Unsubscribe, Unlocked
  <1>2. since' \in [Pages -> [Senders -> Nat]] /\ \A x \in Pages \ {w} : since'[x] = since[x]
    <2>1. since \in [Pages -> [Senders -> Nat]] /\ number \in [Senders -> Nat]
      BY DEF FedInv, EventsTypeOK
    <2>2. PICK f \in [Senders -> Nat] : since' = [since EXCEPT ![w] = f]
      <3>1. [s \in Senders |-> 0] \in [Senders -> Nat]
        OBVIOUS
      <3> QED
        BY <2>1, <3>1 DEF Subscribe, Unsubscribe
    <2> QED
      BY <2>1, <2>2
  <1>3. subscribers' \subseteq Pages
    BY DEF Subscribe, Unsubscribe, FedInv, EventsTypeOK
  <1>4. EventsTypeOK'
    <2>1. <<>> \in Seq(SentEvents)
      OBVIOUS
    <2>2. queue' \in [Pages -> Seq(SentEvents)] /\ written' \in [Pages -> Seq(SentEvents)]
      BY <1>1, <2>1 DEF FedInv, EventsTypeOK
    <2>3. dropped' \in [Pages -> SUBSET SentEvents]
      BY <1>1 DEF FedInv, EventsTypeOK
    <2> QED
      BY <1>1, <1>2, <1>3, <2>2, <2>3 DEF FedInv, EventsTypeOK, pushVars
  <1>5. SendersBound'
    BY <1>1 DEF SendersBound
  <1>6. ASSUME NEW x \in subscribers', NEW s \in Senders PROVE FedOf(s, x)'
    <2>1. CASE x # w
      <3>1. x \in subscribers /\ x \in Pages
        BY <1>3, <1>6, <2>1 DEF Subscribe, Unsubscribe
      <3>2. FedOf(s, x)
        BY <3>1 DEF FedInv
      <3>3. Reached(s, x)' = Reached(s, x) /\ Line(x)' = Line(x)
        BY <1>1, <2>1, <3>1 DEF Reached, Line, FedInv, EventsTypeOK
      <3>4. dropped'[x] = dropped[x] /\ since'[x] = since[x]
        BY <1>1, <1>2, <2>1, <3>1 DEF FedInv, EventsTypeOK
      <3> QED
        BY <3>2, <3>3, <3>4 DEF FedOf
    <2>2. CASE x = w
      <3>1. since'[w] = number
        BY <1>6, <2>2 DEF Subscribe, Unsubscribe, FedInv, EventsTypeOK
      <3>2. written'[w] = <<>> /\ queue'[w] = <<>> /\ dropped'[w] = {}
        BY <1>1 DEF FedInv, EventsTypeOK
      <3>3. Line(w)' = <<>> /\ Reached(s, w)' = number[s] /\ number[s] \in Nat
        BY <1>1, <3>2 DEF Line, Reached, FedInv, EventsTypeOK
      <3>4. (number[s] + 1)..number[s] = {} /\ DOMAIN Line(w)' = {}
        BY <3>3
      <3> QED
        BY <2>2, <3>1, <3>2, <3>3, <3>4 DEF FedOf, ToSet
    <2> QED
      BY <2>1, <2>2
  <1> QED
    BY <1>4, <1>5, <1>6 DEF FedInv

\* What is written moves nothing in the line.
LEMMA LineStep == ASSUME FedInv, NEW w \in Pages, WriteEvent(w) PROVE FedInv'
  <1>1. /\ queue[w] # <<>> /\ UNCHANGED <<subscribers, sender, number, since, dropped, pushVars>>
        /\ written' = [written EXCEPT ![w] = Append(written[w], Head(queue[w]))]
        /\ queue' = [queue EXCEPT ![w] = Tail(queue[w])]
    BY DEF WriteEvent
  <1>2. queue[w] \in Seq(SentEvents) /\ written[w] \in Seq(SentEvents)
    BY DEF FedInv, EventsTypeOK
  <1>3. Append(written[w], Head(queue[w])) \in Seq(SentEvents) /\ Tail(queue[w]) \in Seq(SentEvents)
    BY <1>1, <1>2
  <1>4. EventsTypeOK'
    BY <1>1, <1>3 DEF FedInv, EventsTypeOK, pushVars
  <1>5. ASSUME NEW x \in Pages PROVE Line(x)' = Line(x)
    <2>1. CASE x = w
      <3>1. written'[w] = Append(written[w], Head(queue[w])) /\ queue'[w] = Tail(queue[w])
        BY <1>1 DEF FedInv, EventsTypeOK
      <3>2. Append(written[w], Head(queue[w])) \o Tail(queue[w]) = written[w] \o queue[w]
        BY <1>1, <1>2, LineFacts
      <3> QED
        BY <2>1, <3>1, <3>2 DEF Line
    <2>2. CASE x # w
      BY <1>1, <2>2 DEF Line, FedInv, EventsTypeOK
    <2> QED
      BY <2>1, <2>2
  <1>6. ASSUME NEW x \in subscribers, NEW s \in Senders PROVE FedOf(s, x)'
    <2>1. FedOf(s, x) /\ x \in Pages
      BY DEF FedInv, EventsTypeOK
    <2>2. Reached(s, x)' = Reached(s, x) /\ Line(x)' = Line(x)
      BY <1>1, <1>5, <2>1 DEF Reached
    <2> QED
      BY <1>1, <2>1, <2>2 DEF FedOf
  <1>7. SendersBound'
    BY <1>1 DEF FedInv, SendersBound
  <1> QED
    BY <1>1, <1>4, <1>6, <1>7 DEF FedInv

\* An event begins, with all pages still to reach.
LEMMA BroadcastStep ==
    ASSUME FedInv, NEW s \in Senders, NEW b \in BOOLEAN, Broadcast(s, b) PROVE FedInv'
  <1> DEFINE r == [pc |-> "send", todo |-> subscribers, asks |-> b]
  <1>1. /\ number' = [number EXCEPT ![s] = number[s] + 1] /\ sender[s].pc = "idle"
        /\ sender' = [sender EXCEPT ![s] = r]
        /\ UNCHANGED <<subscribers, queue, written, since, dropped, pushVars>>
    BY DEF Broadcast
  <1>2. r \in [pc : {"idle", "send", "check", "push"}, todo : SUBSET (Pages \cup PushRows), asks : BOOLEAN]
        /\ r.pc = "send" /\ r.todo = subscribers
    BY DEF FedInv, EventsTypeOK
  <1> HIDE DEF r
  <1>3. EventsTypeOK'
    BY <1>1, <1>2 DEF FedInv, EventsTypeOK, pushVars
  <1>4. SendersBound'
    BY <1>1, <1>2 DEF FedInv, EventsTypeOK, SendersBound
  <1>5. ASSUME NEW w \in subscribers, NEW x \in Senders PROVE FedOf(x, w)'
    <2>1. FedOf(x, w)
      BY DEF FedInv
    <2>2. Reached(x, w)' = Reached(x, w)
      BY <1>1, <1>2 DEF Reached, FedInv, EventsTypeOK
    <2>3. Line(w)' = Line(w)
      BY <1>1 DEF Line
    <2> QED
      BY <1>1, <2>1, <2>2, <2>3 DEF FedOf
  <1> QED
    BY <1>1, <1>3, <1>4, <1>5 DEF FedInv

\* The event under way to a page comes to the end of its line, or is dropped.
LEMMA SendStep == ASSUME FedInv, NEW s \in Senders, NEW w \in Pages, Send(s, w) PROVE FedInv'
  <1> DEFINE e == <<s, number[s]>>
             r == [sender[s] EXCEPT !.todo = @ \ {w}]
  <1>1. /\ sender[s].pc = "send" /\ w \in sender[s].todo /\ sender' = [sender EXCEPT ![s] = r]
        /\ \/ queue' = [queue EXCEPT ![w] = Append(queue[w], e)] /\ UNCHANGED dropped
           \/ dropped' = [dropped EXCEPT ![w] = dropped[w] \cup {e}] /\ UNCHANGED queue
        /\ UNCHANGED <<subscribers, written, number, since, pushVars>>
    BY DEF Send
  <1>2. /\ r \in [pc : {"idle", "send", "check", "push"}, todo : SUBSET (Pages \cup PushRows), asks : BOOLEAN]
        /\ r.pc = "send" /\ r.todo = sender[s].todo \ {w}
    BY <1>1 DEF FedInv, EventsTypeOK
  <1>3. e \in SentEvents /\ e[1] = s /\ e[2] = number[s] /\ number[s] \in Nat \ {0}
    BY <1>1 DEF FedInv, EventsTypeOK, SentEvents, SendersBound
  <1>4. w \in subscribers /\ w \in Pages
    BY <1>1 DEF FedInv, SendersBound
  <1> HIDE DEF r, e
  <1>5. queue' \in [Pages -> Seq(SentEvents)] /\ dropped' \in [Pages -> SUBSET SentEvents]
    <2>1. queue \in [Pages -> Seq(SentEvents)] /\ dropped \in [Pages -> SUBSET SentEvents]
      BY DEF FedInv, EventsTypeOK
    <2>2. Append(queue[w], e) \in Seq(SentEvents) /\ dropped[w] \cup {e} \subseteq SentEvents
      BY <1>3, <2>1
    <2> QED
      BY <1>1, <2>1, <2>2
  <1>6. EventsTypeOK'
    BY <1>1, <1>2, <1>5 DEF FedInv, EventsTypeOK, pushVars
  <1>7. SendersBound'
    BY <1>1, <1>2 DEF FedInv, EventsTypeOK, SendersBound
  <1>8. Reached(s, w) = number[s] - 1 /\ Reached(s, w)' = number[s]
    BY <1>1, <1>2 DEF Reached, FedInv, EventsTypeOK
  <1>9. ASSUME NEW x \in subscribers, NEW y \in Senders, <<y, x>> # <<s, w>>
        PROVE  Reached(y, x)' = Reached(y, x)
    BY <1>1, <1>2, <1>9 DEF Reached, FedInv, EventsTypeOK
  <1>10. ASSUME NEW x \in subscribers, NEW y \in Senders, x # w PROVE FedOf(y, x)'
    <2>1. FedOf(y, x) /\ x \in Pages
      BY DEF FedInv, EventsTypeOK
    <2>2. Reached(y, x)' = Reached(y, x)
      BY <1>9, <1>10
    <2>3. Line(x)' = Line(x) /\ dropped'[x] = dropped[x] /\ since' = since
      BY <1>1, <1>10, <2>1 DEF Line, FedInv, EventsTypeOK
    <2> QED
      BY <2>1, <2>2, <2>3 DEF FedOf
  <1>11. Line(w) \in Seq(SentEvents)
    BY <1>4, LineFacts DEF Line, FedInv, EventsTypeOK
  <1>12. CASE queue' = [queue EXCEPT ![w] = Append(queue[w], e)] /\ UNCHANGED dropped
    <2>1. Line(w)' = Append(Line(w), e)
      <3>1. queue'[w] = Append(queue[w], e) /\ written' = written
        BY <1>1, <1>4, <1>12 DEF FedInv, EventsTypeOK
      <3>2. queue[w] \in Seq(SentEvents) /\ written[w] \in Seq(SentEvents)
        BY <1>4 DEF FedInv, EventsTypeOK
      <3>3. written[w] \o Append(queue[w], e) = Append(written[w] \o queue[w], e)
        BY <1>3, <3>2, LineFacts
      <3> QED
        BY <3>1, <3>3 DEF Line
    <2>2. ASSUME NEW y \in Senders PROVE FedOf(y, w)'
      <3> DEFINE l == Line(w)
                 m == Append(l, e)
      <3>1. FedOf(y, w) /\ since[w][y] \in Nat /\ number[y] \in Nat
        BY <1>4 DEF FedInv, EventsTypeOK
      <3>2. l \in Seq(SentEvents)
        BY <1>11
      <3>3. ToSet(m) = ToSet(l) \cup {e}
        BY <1>3, <3>2, OneMore
      <3>4. CASE y # s
        <4>1. Reached(y, w)' = Reached(y, w)
          BY <1>4, <1>9, <3>4
        <4>2. {event \in ToSet(m) : event[1] = y} = {event \in ToSet(l) : event[1] = y}
          BY <1>3, <3>3, <3>4
        <4>3. \A i, j \in DOMAIN m : i < j /\ m[i][1] = y /\ m[j][1] = y => m[i][2] < m[j][2]
          BY <1>3, <3>1, <3>2, <3>4 DEF FedOf
        <4> QED
          BY <1>1, <1>12, <2>1, <3>1, <4>1, <4>2, <4>3 DEF FedOf
      <3>5. CASE y = s
        <4> DEFINE got == (since[w][s] + 1)..(number[s] - 1)
                   will == (since[w][s] + 1)..number[s]
        <4>1. since[w][s] \in Nat /\ since[w][s] <= number[s] - 1 /\ number[s] \in Nat
          BY <1>3, <1>8, <3>1, <3>5 DEF FedOf
        <4>2. will = got \cup {number[s]}
          BY <4>1
        <4>3. e \notin dropped[w]
          BY <1>3, <1>8, <3>1, <3>5 DEF FedOf, e
        <4>4. {event \in ToSet(l) : event[1] = s} = {<<s, n>> : n \in got} \ dropped[w]
          BY <1>8, <3>1, <3>5 DEF FedOf
        <4>5. {<<s, n>> : n \in will} = {<<s, n>> : n \in got} \cup {e}
          BY <4>2 DEF e
        <4>6. {event \in ToSet(m) : event[1] = s} = {<<s, n>> : n \in will} \ dropped[w]
          BY <1>3, <3>3, <4>3, <4>4, <4>5
        <4>7. ASSUME NEW i \in DOMAIN l, l[i][1] = s PROVE l[i][2] < number[s]
          <5>1. l[i] \in {event \in ToSet(l) : event[1] = s}
            BY <4>7 DEF ToSet
          <5>2. PICK n \in got : l[i] = <<s, n>>
            BY <4>4, <5>1
          <5> QED
            BY <4>1, <5>2
        <4>8. \A i, j \in DOMAIN m : i < j /\ m[i][1] = s /\ m[j][1] = s => m[i][2] < m[j][2]
          <5>1. \A i, j \in DOMAIN l : i < j /\ l[i][1] = s /\ l[j][1] = s => l[i][2] < l[j][2]
            BY <3>1, <3>5 DEF FedOf
          <5>2. /\ DOMAIN m = 1..(Len(l) + 1) /\ DOMAIN l = 1..Len(l) /\ Len(l) \in Nat
                /\ m[Len(l) + 1] = e /\ \A i \in 1..Len(l) : m[i] = l[i]
            BY <1>3, <3>2
          <5> HIDE DEF m, l
          <5> QED
            BY <1>3, <4>7, <5>1, <5>2
        <4>9. \A n \in Nat : <<s, n>> \in dropped[w] => n <= number[s]
          BY <1>3, <1>8, <3>1, <3>5 DEF FedOf
        <4> QED
          BY <1>1, <1>8, <1>12, <2>1, <3>5, <4>1, <4>6, <4>8, <4>9 DEF FedOf
      <3> QED
        BY <3>4, <3>5
    <2> QED
      BY <1>1, <1>6, <1>7, <1>10, <2>2 DEF FedInv
  <1>13. CASE dropped' = [dropped EXCEPT ![w] = dropped[w] \cup {e}] /\ UNCHANGED queue
    <2>1. Line(w)' = Line(w)
      BY <1>1, <1>13 DEF Line
    <2>2. dropped'[w] = dropped[w] \cup {e}
      BY <1>4, <1>13 DEF FedInv, EventsTypeOK
    <2>3. ASSUME NEW y \in Senders PROVE FedOf(y, w)'
      <3>1. FedOf(y, w) /\ since[w][y] \in Nat /\ number[y] \in Nat
        BY <1>4 DEF FedInv, EventsTypeOK
      <3>2. CASE y # s
        <4>1. Reached(y, w)' = Reached(y, w)
          BY <1>4, <1>9, <3>2
        <4>2. \A n : <<y, n>> \in dropped'[w] <=> <<y, n>> \in dropped[w]
          BY <2>2, <3>2 DEF e
        <4> QED
          BY <1>1, <2>1, <3>1, <4>1, <4>2 DEF FedOf
      <3>3. CASE y = s
        <4> DEFINE got == (since[w][s] + 1)..(number[s] - 1)
                   will == (since[w][s] + 1)..number[s]
        <4>1. since[w][s] \in Nat /\ since[w][s] <= number[s] - 1 /\ number[s] \in Nat
          BY <1>3, <1>8, <3>1, <3>3 DEF FedOf
        <4>2. will = got \cup {number[s]} /\ number[s] \notin got
          BY <4>1
        <4>3. {event \in ToSet(Line(w)) : event[1] = s} = {<<s, n>> : n \in got} \ dropped[w]
          BY <1>8, <3>1, <3>3 DEF FedOf
        <4>4. {<<s, n>> : n \in will} \ dropped'[w] = {<<s, n>> : n \in got} \ dropped[w]
          <5> HIDE DEF got, will
          <5>1. {<<s, n>> : n \in will} = {<<s, n>> : n \in got} \cup {e} /\ e \notin {<<s, n>> : n \in got}
            BY <4>2 DEF e
          <5> QED
            BY <2>2, <5>1
        <4>5. \A n \in Nat : <<s, n>> \in dropped'[w] => n <= number[s]
          <5> TAKE n \in Nat
          <5>1. <<s, n>> \in dropped[w] => n <= number[s] - 1
            BY <1>8, <3>1, <3>3 DEF FedOf
          <5> QED
            BY <2>2, <4>1, <5>1 DEF e
        <4> QED
          BY <1>1, <1>8, <2>1, <3>1, <3>3, <4>1, <4>3, <4>4, <4>5 DEF FedOf
      <3> QED
        BY <3>2, <3>3
    <2> QED
      BY <1>1, <1>6, <1>7, <1>10, <2>3 DEF FedInv
  <1> QED
    BY <1>1, <1>12, <1>13

\* Pushing has nothing to do with the pages.
LEMMA PushKeeps == ASSUME FedInv, PushStep PROVE FedInv'
  <1>1. ASSUME NEW s \in Senders, MaybePush(s) \/ Pushed(s) PROVE FedInv'
    <2>1. sender[s].pc # "send" /\ UNCHANGED hubVars /\ UNCHANGED pushVars
      BY <1>1 DEF MaybePush, Pushed
    <2>2. PICK r \in [pc : {"idle", "check", "push"}, todo : SUBSET (Pages \cup PushRows), asks : BOOLEAN] :
            sender' = [sender EXCEPT ![s] = r]
      <3>1. sender[s] \in [pc : {"idle", "send", "check", "push"}, todo : SUBSET (Pages \cup PushRows), asks : BOOLEAN]
            /\ rows \subseteq PushRows
        BY DEF FedInv, EventsTypeOK
      <3>2. [sender[s] EXCEPT !.pc = "push", !.todo = rows]
              \in [pc : {"idle", "check", "push"}, todo : SUBSET (Pages \cup PushRows), asks : BOOLEAN]
        BY <3>1
      <3>3. Quiet \in [pc : {"idle", "check", "push"}, todo : SUBSET (Pages \cup PushRows), asks : BOOLEAN]
        BY DEF Quiet
      <3> QED
        BY <1>1, <3>2, <3>3 DEF MaybePush, Pushed
    <2>3. rows' \subseteq PushRows /\ UNCHANGED subscribing
      BY <2>1 DEF pushVars, FedInv, EventsTypeOK
    <2> QED
      BY <2>1, <2>2, <2>3, SenderStep
  <1>2. ASSUME NEW s \in Senders, NEW r \in PushRows, PushTo(s, r) PROVE FedInv'
    <2>1. /\ sender[s].pc = "push" /\ UNCHANGED hubVars /\ UNCHANGED subscribing
          /\ sender' = [sender EXCEPT ![s] = [sender[s] EXCEPT !.todo = sender[s].todo \ {r}]]
      BY <1>2 DEF PushTo
    <2>2. [sender[s] EXCEPT !.todo = sender[s].todo \ {r}]
            \in [pc : {"idle", "check", "push"}, todo : SUBSET (Pages \cup PushRows), asks : BOOLEAN]
      BY <2>1 DEF FedInv, EventsTypeOK
    <2>3. rows' \subseteq PushRows
      BY <1>2 DEF PushTo, FedInv, EventsTypeOK
    <2> QED
      BY <2>1, <2>2, <2>3, SenderStep
  <1>3. ASSUME NEW e \in Endpoints, NEW tab \in 1..MaxRows,
               PushSubscribe(e, tab) \/ SavePushSubscription(e, tab) PROVE FedInv'
    <2>1. UNCHANGED sender /\ UNCHANGED hubVars
      BY <1>3 DEF PushSubscribe, SavePushSubscription
    <2>2. <<e, tab>> \in PushRows /\ rows \subseteq PushRows /\ subscribing \subseteq PushRows
      BY DEF PushRows, FedInv, EventsTypeOK
    <2>3. rows' \subseteq PushRows /\ subscribing' \subseteq PushRows
      BY <1>3, <2>2 DEF PushSubscribe, SavePushSubscription
    <2>4. EventsTypeOK'
      BY <2>1, <2>3 DEF hubVars, FedInv, EventsTypeOK
    <2> QED
      BY <2>1, <2>4, HubStutter DEF hubVars
  <1>4. ASSUME NEW e \in Endpoints, PushUnsubscribe(e) PROVE FedInv'
    <2>1. UNCHANGED sender /\ UNCHANGED hubVars /\ UNCHANGED subscribing /\ rows' \subseteq rows
      BY <1>4 DEF PushUnsubscribe
    <2>2. EventsTypeOK'
      BY <2>1 DEF hubVars, FedInv, EventsTypeOK
    <2> QED
      BY <2>1, <2>2, HubStutter DEF hubVars
  <1> QED
    BY <1>1, <1>2, <1>3, <1>4 DEF PushStep, PushRows

\* The page has been told of all that has gone round.
LEMMA SentStep == ASSUME FedInv, NEW s \in Senders, Sent(s) PROVE FedInv'
  <1>1. sender[s].pc = "send" /\ sender[s].todo = {} /\ UNCHANGED hubVars /\ UNCHANGED pushVars
    BY DEF Sent
  <1>2. PICK r \in [pc : {"idle", "check", "push"}, todo : SUBSET (Pages \cup PushRows), asks : BOOLEAN] :
          sender' = [sender EXCEPT ![s] = r]
    <2>1. [sender[s] EXCEPT !.pc = "check"]
            \in [pc : {"idle", "check", "push"}, todo : SUBSET (Pages \cup PushRows), asks : BOOLEAN]
      BY DEF FedInv, EventsTypeOK
    <2>2. Quiet \in [pc : {"idle", "check", "push"}, todo : SUBSET (Pages \cup PushRows), asks : BOOLEAN]
      BY DEF Quiet
    <2> QED
      BY <2>1, <2>2 DEF Sent
  <1>3. rows' \subseteq PushRows /\ UNCHANGED subscribing
    BY <1>1 DEF pushVars, FedInv, EventsTypeOK
  <1> QED
    BY <1>1, <1>2, <1>3, SenderStep

\* Every step of the hub, and every other, keeps the invariant.
LEMMA EventsKeep == FedInv /\ (EventsNext \/ UNCHANGED eventVars) => FedInv'
  <1> SUFFICES ASSUME FedInv, EventsNext \/ UNCHANGED eventVars PROVE FedInv'
    OBVIOUS
  <1>1. CASE UNCHANGED eventVars
    <2>1. EventsTypeOK'
      BY <1>1 DEF eventVars, FedInv, EventsTypeOK
    <2> QED
      BY <1>1, <2>1, HubStutter DEF eventVars
  <1>2. CASE EventsNext
    <2>1. CASE PushStep
      BY <2>1, PushKeeps
    <2>2. ASSUME NEW w \in Pages, Subscribe(w) \/ Unsubscribe(w) \/ WriteEvent(w) PROVE FedInv'
      BY <2>2, PageStep, LineStep
    <2>3. ASSUME NEW s \in Senders, Broadcast(s, TRUE) \/ Broadcast(s, FALSE) PROVE FedInv'
      BY <2>3, BroadcastStep
    <2>4. ASSUME NEW s \in Senders, Sent(s) \/ \E w \in Pages : Send(s, w) PROVE FedInv'
      BY <2>4, SendStep, SentStep
    <2> QED
      BY <1>2, <2>1, <2>2, <2>3, <2>4 DEF EventsNext
  <1> QED
    BY <1>1, <1>2

-----------------------------------------------------------------------------
(* All of them, with the others.                                           *)

\* No other service touches what one of these four has.
LEMMA ServicesFrame ==
    ASSUME StoreNext
    PROVE  /\ ProvidersNext \/ UNCHANGED providerVars
           /\ LogNext \/ UNCHANGED logVars
           /\ TerminalNext \/ UNCHANGED terminalVars
           /\ WatcherStep \/ UNCHANGED watcherVars
  BY DEF StoreNext

\* provider.go:22: "limits in-flight requests", whatever endpoints, rebuilds of the
\* configuration and requests there are.
THEOREM SlotsAreHeld == StoreSpec => []SlotsHold
  <1>1. StoreInit => LimitsInv
    BY LimitsInit DEF StoreInit
  <1>2. LimitsInv /\ [StoreNext]_vars => LimitsInv'
    BY ServicesFrame, LimitsStep, LimitsStutter DEF vars
  <1>3. LimitsInv => SlotsHold
    BY DEF LimitsInv
  <1> QED
    BY <1>1, <1>2, <1>3, PTL DEF StoreSpec

\* logbuf.go: the ring implements the log.  What is read of it is always the last
\* Size records, newest first, however often it has gone round.
THEOREM RingKeepsTheLast == StoreSpec => RecentIsLast
  <1>1. StoreInit => LogTypeOK /\ L!Init
    BY LogInit DEF StoreInit
  <1>2. LogTypeOK /\ [StoreNext]_vars => LogTypeOK' /\ [L!Next]_(Recent(0))
    <2> SUFFICES ASSUME LogTypeOK, [StoreNext]_vars PROVE LogTypeOK' /\ [L!Next]_(Recent(0))
      OBVIOUS
    <2>1. LogNext \/ UNCHANGED logVars
      BY ServicesFrame DEF vars
    <2>2. CASE LogNext
      <3>1. PICK r \in Records : Handle(r)
        BY <2>2 DEF LogNext
      <3> QED
        BY <3>1, LogStep DEF L!Next
    <2>3. CASE UNCHANGED logVars
      BY <2>3 DEF logVars, LogTypeOK, Recent
    <2> QED
      BY <2>1, <2>2, <2>3
  <1> QED
    BY <1>1, <1>2, PTL DEF StoreSpec, RecentIsLast, L!Spec

\* tui/app.go: a text is saved in the chat it was entered in, or in none, whatever
\* agents are built and chats switched to or deleted while its turn runs.
THEOREM TextsAreSavedInTheirChat == StoreSpec => []SavedInItsChat
  <1>1. StoreInit => TerminalInv
    BY TerminalInit DEF StoreInit
  <1>2. TerminalInv /\ [StoreNext]_vars => TerminalInv'
    BY ServicesFrame, TerminalStep, TerminalStutter DEF vars
  <1>3. TerminalInv => SavedInItsChat
    BY DEF TerminalInv
  <1> QED
    BY <1>1, <1>2, <1>3, PTL DEF StoreSpec

\* filewatcher.go: once every event is handled, the directories of the workspace have
\* their watch and the pages know which of the paths that were heard of there are.
THEOREM TheTreeIsFollowed == StoreSpec => []TreeIsFollowed
  <1>1. StoreInit => FollowInv
    BY WatcherInit DEF StoreInit
  <1>2. FollowInv /\ [StoreNext]_vars => FollowInv'
    BY ServicesFrame, WatcherStepKeeps, WatcherStutter DEF vars
  <1> QED
    BY <1>1, <1>2, FollowInvHolds, PTL DEF StoreSpec

\* events.go: a connected page gets of every sender all events since it connected, once
\* each and in order, but for those its full queue did not take.
THEOREM PagesAreFed == StoreSpec => []Fed
  <1>1. StoreInit => FedInv
    BY EventsInit DEF StoreInit
  <1>2. FedInv /\ [StoreNext]_vars => FedInv'
    <2>1. [StoreNext]_vars => EventsNext \/ UNCHANGED eventVars
      BY DEF StoreNext, EventsStep, vars
    <2> QED
      BY <2>1, EventsKeep
  <1>3. FedInv => Fed
    BY DEF FedInv, FedOf, Fed
  <1> QED
    BY <1>1, <1>2, <1>3, PTL DEF StoreSpec
=============================================================================
