------------------------------ MODULE Settings ------------------------------
(***************************************************************************)
(* The settings of altclaw (internal/config/store.go, models.go, profile.go)*)
(* and who changes them: the web API (web/api_config.go), an action that   *)
(* the user approves (bridge/confirm.go), a hub profile and the end of its *)
(* tunnel.  The application's and the workspace's settings live in memory  *)
(* behind Store.mu, are changed in place and then written; what is derived *)
(* from them (the hosts scripts may reach) is applied apart.  With them in *)
(* the store: the providers.                                               *)
(*                                                                         *)
(* Of all fields two are kept: "hosts" (a private host is allowed) and     *)
(* "gate" (confirm_mod_install).  A save names one field; that a patch has *)
(* several shows only in that it may fail after it changed some.           *)
(***************************************************************************)
EXTENDS Naturals, FiniteSets

CONSTANTS
    Clients,   \* browsers and scripts, each with one call at a time
    Nobody,
    Profiles,  \* what the hub may set: a field of a scope, locking that scope or not
    Uses,      \* which of its services a behaviour uses (a bound on a run)
    MaxCalls,  \* bound: how many calls there are once one of a service was made
    MaxFaults, MaxLives, MaxResets  \* bounds

Scopes == {"workspace", "user"}
Fields == {"hosts", "gate"}
AllUses == {"settings", "profile", "providers", "turns", "calls", "clock", "uploads", "scripts",
            "publish", "memory", "log", "events", "push", "files", "limits", "terminal"}

ASSUME SettingsAssumption ==
    /\ Nobody \notin Clients
    /\ Profiles \subseteq [s : Scopes, f : Fields, v : BOOLEAN, lock : BOOLEAN]
    /\ Uses \subseteq SUBSET AllUses
    /\ MaxCalls \in [AllUses -> Nat] /\ {MaxFaults, MaxLives, MaxResets} \subseteq Nat

VARIABLES
    uses,     \* the services of this behaviour, one of Uses
    lives,    \* how often the process has started
    live,     \* Store.ws and Store.cfg: the values of the fields
    old,      \* those of the objects that a reset replaced; some still point to them
    disk,     \* their rows
    locked,   \* the profile's lock_config
    reset,    \* SetProfile(nil): "no", "nil" (both pointers are), "cfg" (the first is loaded)
    force,    \* netx: the host is allowed
    mu,       \* who holds Store.mu over a save
    row,      \* a provider's row: 0, or which content
    prof,     \* the profile's provider of that name
    cl,       \* what each client is doing
    calls, faults, resets, \* what the bounds count
    behind,   \* history: the workspace differs from its row for a reason that was reported
    promised  \* history: the scopes whose gate was reported as saved on, and nobody turned it off since

setVars == <<live, old, disk, locked, reset, force, mu>>
provVars == <<row, prof>>
restVars == <<uses, lives, setVars, provVars, cl, resets, behind, promised>>
settingsVars == <<restVars, calls, faults>>

NoCall == [pc |-> "idle", via |-> "web", scope |-> "user", f |-> "hosts", val |-> FALSE,
           gen |-> 0, snap |-> [g \in Fields |-> FALSE], n |-> 0]
Defaults == [g \in Fields |-> FALSE]

TypeOK ==
    /\ {live, disk, old} \subseteq [Scopes -> [Fields -> BOOLEAN]]
    /\ mu \in Clients \cup {Nobody} /\ reset \in {"no", "nil", "cfg"}
    /\ force \in BOOLEAN /\ locked \in [Scopes -> BOOLEAN]
    /\ \A c \in Clients : cl[c].pc \in {"idle", "ask", "take", "encode", "write", "init", "set",
                                        "save"}

Init ==
    /\ uses \in Uses /\ lives = 1
    /\ live = [s \in Scopes |-> Defaults] /\ disk = live /\ old = live
    /\ locked = [s \in Scopes |-> FALSE] /\ reset = "no" /\ force = FALSE
    /\ mu = Nobody /\ prof = 0 /\ row \in IF "providers" \in uses THEN {0, 1} ELSE {0}
    /\ cl = [c \in Clients |-> NoCall]
    /\ calls = 0 /\ faults = 0 /\ resets = 0 /\ behind = FALSE /\ promised = {}

Go(c, r) == cl' = [cl EXCEPT ![c] = r]
To(c, pc) == Go(c, [cl[c] EXCEPT !.pc = pc])
End(c) == Go(c, NoCall)

Called(use) == use \in uses /\ calls < MaxCalls[use] /\ calls' = calls + 1
Faulty == faults < MaxFaults /\ faults' = faults + 1

Loaded(s) == reset = "no" \/ (reset = "cfg" /\ s = "user")
Setting(s, f) == IF Loaded(s) THEN live[s][f] ELSE FALSE

\* SettingsResolver: the workspace's switch or the user's; both lists of hosts.
Resolved(f) == Setting("workspace", f) \/ Setting("user", f)

-----------------------------------------------------------------------------
(* Saving settings.                                                        *)

\* A browser's save is refused while a profile locks the settings; a script's
\* waits for the user's approval, which comes when the fields' names are right.
Save(c, via, s, f, v) ==
    /\ cl[c].pc = "idle" /\ Called("settings")
    /\ LET r == [NoCall EXCEPT !.via = via, !.scope = s, !.f = f, !.val = v]
       IN  IF via = "ui" THEN Go(c, [r EXCEPT !.pc = "ask"])
           ELSE IF Loaded(s) /\ ~locked[s] THEN Go(c, [r EXCEPT !.pc = "take"])
           ELSE UNCHANGED cl
    /\ UNCHANGED <<uses, lives, setVars, provVars, faults, resets, behind, promised>>

Answered(c) ==
    /\ cl[c].pc = "ask"
    /\ \E pc \in {"take", "idle"} : To(c, pc)
    /\ UNCHANGED <<uses, lives, setVars, provVars, calls, faults, resets, behind, promised>>

\* The approved change of the user's settings works on the live object without
\* the lock; the others go through SaveConfig and SaveWorkspace.
LocksConfigOnly(c) == cl[c].scope = "user" /\ cl[c].via = "web"
Locks(c) == ~(cl[c].via = "ui" /\ cl[c].scope = "user")

Object(c) == IF cl[c].gen = resets THEN live[cl[c].scope] ELSE old[cl[c].scope]

\* A gate that is turned off, or may be, is promised no longer.
Kept(s, f, v) == IF f = "gate" /\ ~v THEN promised \ {s} ELSE promised

\* The patch, in place.  It fails before or after it changed the field; not
\* one that was validated.
Take(c) ==
    LET r == cl[c]
        Patched == live' = [live EXCEPT ![r.scope][r.f] = r.val]
    IN  /\ r.pc = "take"
        /\ Locks(c) => mu = Nobody
        /\ \/ /\ Loaded(r.scope)
              /\ Patched
              /\ mu' = IF Locks(c) THEN c ELSE mu
              /\ Go(c, [r EXCEPT !.pc = "encode", !.gen = resets, !.via = "web"])
              /\ promised' = Kept(r.scope, r.f, r.val) /\ UNCHANGED <<behind, faults>>
           \/ /\ Loaded(r.scope) /\ r.via = "web" /\ Faulty
              /\ Patched \/ UNCHANGED live
              /\ behind' = (behind \/ (r.scope = "workspace" /\ live' # live))
              /\ promised' = Kept(r.scope, r.f, r.val)
              /\ End(c) /\ UNCHANGED mu
           \/ ~Loaded(r.scope) /\ End(c) /\ UNCHANGED <<live, mu, promised, behind, faults>>
        /\ UNCHANGED <<uses, lives, old, disk, locked, reset, force, provVars, calls, resets>>

\* Put: BeforeSave applies the hosts of a workspace whose own have changed, and
\* the object is encoded as it is now ...
Encode(c) ==
    LET r == cl[c]
    IN  /\ r.pc = "encode"
        /\ Go(c, [r EXCEPT !.pc = "write", !.gen = 0, !.snap = Object(c)])
        /\ force' = IF r.scope = "workspace" /\ Object(c)["hosts"] # disk["workspace"]["hosts"]
                    THEN Object(c)["hosts"] ELSE force
        /\ UNCHANGED <<uses, lives, live, old, disk, locked, reset, mu, provVars, calls,
                       faults, resets, behind, promised>>

\* An approved change of the user's settings that holds them without the gate, and
\* is still to be written: of the encoded object, or of one that a reset replaced.
Overtakes(c) ==
    /\ cl[c].scope = "user"
    /\ \/ cl[c].pc = "write" /\ ~cl[c].snap["gate"]
       \/ cl[c].pc = "encode" /\ ~Object(c)["gate"]

\* A save of the gate that succeeds promises it; the user's, which not all save
\* under the lock, unless it is about to be overtaken (see ConfigIsSaved).
Acked(c) ==
    LET s == cl[c].scope
    IN  IF /\ cl[c].f = "gate" /\ cl[c].val /\ live[s]["gate"]
           /\ s = "user" => \A d \in Clients : ~Overtakes(d)
        THEN promised \cup {s} ELSE promised

\* ... and written, or not.  A save of the workspace goes on to Settings().Init.
WriteUnchecked(c) ==
    LET r == cl[c]
    IN  /\ r.pc = "write"
        /\ \/ disk' = [disk EXCEPT ![r.scope] = r.snap] /\ UNCHANGED faults
           \/ Faulty /\ UNCHANGED disk
        /\ promised' = Acked(c)
        /\ IF r.scope = "workspace" THEN To(c, "init") ELSE End(c)
        /\ mu' = IF mu = c THEN Nobody ELSE mu
        /\ behind' = (behind /\ r.scope # "workspace")
        /\ UNCHANGED <<uses, lives, live, old, locked, reset, force, provVars, calls, resets>>

Write(c) ==
    LET r == cl[c]
    IN  /\ r.pc = "write"
        /\ \/ /\ disk' = [disk EXCEPT ![r.scope] = r.snap]
              /\ IF r.scope = "workspace" THEN To(c, "init") ELSE End(c)
              /\ promised' = Acked(c)
              /\ behind' = (behind /\ ~(r.scope = "workspace" /\ live["workspace"] = r.snap))
              /\ UNCHANGED faults
           \/ /\ Faulty
              /\ End(c)
              /\ behind' = (behind \/ r.scope = "workspace")
              /\ UNCHANGED <<disk, promised>>
        /\ mu' = IF mu = c THEN Nobody ELSE mu
        /\ UNCHANGED <<uses, lives, live, old, locked, reset, force, provVars, calls, resets>>

InitRead(c) ==
    /\ cl[c].pc = "init"
    /\ Go(c, [NoCall EXCEPT !.pc = "set", !.val = Resolved("hosts")])
    /\ UNCHANGED <<uses, lives, setVars, provVars, calls, faults, resets, behind, promised>>

InitSet(c) ==
    /\ cl[c].pc = "set"
    /\ force' = cl[c].val
    /\ End(c)
    /\ UNCHANGED <<uses, lives, live, old, disk, locked, reset, mu, provVars, calls, faults,
                   resets, behind, promised>>

-----------------------------------------------------------------------------
(* The hub's profile.                                                      *)

\* ApplyProfile patches the live objects as they are, without the lock, and adds
\* its providers.
ApplyProfile(p) ==
    /\ "profile" \in uses /\ reset = "no" /\ prof = 0
    /\ live' = [live EXCEPT ![p.s][p.f] = p.v]
    /\ locked' = [locked EXCEPT ![p.s] = p.lock]
    /\ prof' = 1
    /\ behind' = (behind \/ p.s = "workspace")
    /\ promised' = Kept(p.s, p.f, p.v)
    /\ UNCHANGED <<uses, lives, old, disk, reset, force, mu, row, cl, calls, faults, resets>>

\* SetProfile(nil), whenever a tunnel is disconnected: both pointers are dropped
\* under the lock, then each is loaded again from its row.
DropSettings ==
    /\ "profile" \in uses /\ reset = "no" /\ mu = Nobody /\ resets < MaxResets
    /\ resets' = resets + 1
    /\ old' = live /\ prof' = 0
    /\ reset' = "nil"
    /\ UNCHANGED <<uses, lives, live, disk, locked, force, mu, row, cl, calls, faults,
                   behind, promised>>

Reload(s) ==
    /\ mu = Nobody
    /\ reset = (IF s = "user" THEN "nil" ELSE "cfg")
    /\ reset' = IF s = "user" THEN "cfg" ELSE "no"
    /\ live' = [live EXCEPT ![s] = disk[s]] /\ locked' = [locked EXCEPT ![s] = FALSE]
    /\ behind' = (behind /\ s = "user")
    /\ UNCHANGED <<uses, lives, old, disk, force, mu, provVars, cl, calls, faults, resets,
                   promised>>

-----------------------------------------------------------------------------
(* Providers, by name: read, changed and put; or deleted.                  *)

\* GetProvider finds the profile's first: the change is made to it in place,
\* and only then is the save refused.
UpdateProvider(c, v) ==
    /\ cl[c].pc = "idle" /\ Called("providers")
    /\ IF prof # 0 THEN prof' = v /\ UNCHANGED cl
       ELSE /\ IF row = 0 THEN UNCHANGED cl ELSE Go(c, [NoCall EXCEPT !.pc = "save", !.n = v])
            /\ UNCHANGED prof
    /\ UNCHANGED <<uses, lives, setVars, row, faults, resets, behind, promised>>

SaveProvider(c) ==
    /\ cl[c].pc = "save"
    /\ row' = cl[c].n
    /\ End(c)
    /\ UNCHANGED <<uses, lives, setVars, prof, calls, faults, resets, behind, promised>>

AddProvider(c) ==
    /\ cl[c].pc = "idle" /\ row = 0 /\ Called("providers")
    /\ row' = 1
    /\ UNCHANGED <<uses, lives, setVars, prof, cl, faults, resets, behind, promised>>

DeleteProvider(c) ==
    /\ cl[c].pc = "idle" /\ row # 0 /\ Called("providers")
    /\ row' = 0
    /\ UNCHANGED <<uses, lives, setVars, prof, cl, faults, resets, behind, promised>>

-----------------------------------------------------------------------------
\* The process stops at any point and starts again from the rows.
Restarted ==
    /\ lives < MaxLives /\ lives' = lives + 1
    /\ live' = disk /\ old' = disk /\ locked' = [s \in Scopes |-> FALSE] /\ reset' = "no"
    /\ force' = \E s \in Scopes : disk[s]["hosts"]
    /\ mu' = Nobody /\ prof' = 0
    /\ cl' = [c \in Clients |-> NoCall] /\ behind' = FALSE
    /\ UNCHANGED <<uses, disk, row, calls, faults, resets, promised>>

SettingsNext ==
    \/ \E c \in Clients, via \in {"web", "ui"}, s \in Scopes, f \in Fields, v \in BOOLEAN :
         Save(c, via, s, f, v)
    \/ \E c \in Clients : Answered(c) \/ Take(c) \/ Encode(c) \/ Write(c) \/ InitRead(c) \/ InitSet(c)
    \/ \E p \in Profiles : ApplyProfile(p)
    \/ DropSettings
    \/ \E s \in Scopes : Reload(s)
    \/ \E c \in Clients, v \in 1..2 : UpdateProvider(c, v)
    \/ \E c \in Clients : SaveProvider(c) \/ AddProvider(c) \/ DeleteProvider(c)
    \/ Restarted

SettingsSpec == Init /\ [][SettingsNext]_settingsVars

-----------------------------------------------------------------------------
(* Properties.                                                             *)

\* "memory is the source of truth" (SaveWorkspace): however saves interleave, the
\* workspace's row says what memory says when none is in progress, but for what
\* was reported as failed and what a profile put over it.
WorkspaceIsSaved ==
    (reset = "no" /\ ~behind /\ \A c \in Clients : ~(cl[c].pc \in {"encode", "write"} /\ cl[c].scope = "workspace"))
        => disk["workspace"] = live["workspace"]

-----------------------------------------------------------------------------
(* What comments promise and the code does not always keep.                *)

\* models.go:88 "Prompt user before installing modules": not while SetProfile(nil)
\* has no settings (store.go:196).
GateIsUp == promised # {} => Resolved("gate")

\* store.go:167 "SaveConfig mutates the in-memory AppConfig under a lock, then
\* persists": an approved change does it without the lock (confirm.go:345).
ConfigIsSaved ==
    (faults + resets + prof = 0 /\ \A c \in Clients : ~(cl[c].pc \in {"encode", "write"} /\ cl[c].scope = "user"))
        => disk["user"] = live["user"]

\* store_settings.go:26 "Call this ... whenever workspace or user settings are saved":
\* not for the user's (api_config.go:32, confirm.go:343), and two may cross.
HostsInForce ==
    (reset = "no" /\ \A c \in Clients : cl[c].pc = "idle") => (force = Resolved("hosts"))

\* profile.go:115 "local config always wins" when the profile does not lock.
LocalWins ==
    [][\A s \in Scopes, f \in Fields :
         prof = 0 /\ prof' = 1 /\ ~locked'[s] /\ live[s][f] => live'[s][f]]_settingsVars

\* models.go:148 a profile's provider "is never persisted": but changed (confirm.go:224).
ProfileIsTheHubs == prof \in {0, 1}

\* confirm.go:262 a deleted provider comes back with an update that had read it.
DeletedStaysDeleted ==
    [][row = 0 /\ row' # 0 => \A c \in Clients : cl[c].pc # "save"]_settingsVars
=============================================================================
