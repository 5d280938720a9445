------------------------------ MODULE Modules ------------------------------
(***************************************************************************)
(* The installed modules (web/api_modules.go, web/confirm_ctx.go,          *)
(* bridge/module.go): a folder of files in each scope, written file by file *)
(* by uploads, installs and folder copies, removed file by file, zipped     *)
(* file by file to be published, and read by scripts.  Nothing locks the   *)
(* folders.  A script's install or removal waits for the user's approval   *)
(* when the settings say so.                                               *)
(*                                                                         *)
(* One module, with a file of each sort: its description, its main file    *)
(* and one in a subfolder, which its second version no longer has.         *)
(***************************************************************************)
EXTENDS Settings, Sequences

CONSTANT Versions  \* versions of the module

ASSUME ModulesAssumption == Versions \subseteq Nat \ {0} /\ 1 \in Versions

VARIABLES
    mdir,  \* the files of the module's folder in each scope, with what they contain
    hub,   \* the hub's zip of the module, and the version it was published as
    mop,   \* each client's call
    said   \* history: what the last call on a scope's folder reported, if it was alone there

modVars == <<mdir, hub, mop, said>>

Files == {"package.json", "index.js", "lib/index.js"}
Absent == <<0, "absent">>
Torn == <<0, "torn">>
Empty == [f \in Files |-> Absent]
Present(s) == {f \in Files : mdir[s][f] # Absent}
Folder(v) == [f \in IF v = 1 THEN Files ELSE Files \ {"lib/index.js"} |-> <<v, f>>]

\* The order in which folders are walked, and in which their zips are.
Order == <<"index.js", "lib/index.js", "package.json">>
FirstOf(fs) == Order[CHOOSE n \in 1..3 : Order[n] \in fs /\ \A m \in 1..(n - 1) : Order[m] \notin fs]

NoOp == [pc |-> "idle", kind |-> "install", scope |-> "user", zip |-> Folder(1), topped |-> TRUE,
         todo |-> {}, f |-> "index.js", v |-> 0, alone |-> TRUE, gated |-> FALSE, approved |-> FALSE]
Nothing == [by |-> "none"]

InitModules ==
    /\ mdir = [s \in Scopes |-> Empty]
    /\ hub = [version |-> 1, zip |-> Folder(1)] \* published before
    /\ mop = [c \in Clients |-> NoOp]
    /\ said = [s \in Scopes |-> Nothing]

Idle(c) == mop[c].pc = "idle" /\ cl[c].pc = "idle"
Does(c, r) == mop' = [mop EXCEPT ![c] = r]

\* A call gets to the folder: what was said of it no longer counts, and it is
\* alone there unless another is at work.
AtWork(r) == r.pc \in {"write", "copy", "remove"}
Enters(c, r) ==
    LET others == {d \in Clients \ {c} : AtWork(mop[d]) /\ mop[d].scope = r.scope}
    IN  /\ mop' = [d \in Clients |->
                     IF d = c THEN [r EXCEPT !.alone = others = {}]
                     ELSE [mop[d] EXCEPT !.alone = @ /\ d \notin others]]
        /\ said' = [said EXCEPT ![r.scope] = Nothing]

Reports(c, what) ==
    /\ Does(c, NoOp)
    /\ said' = [said EXCEPT ![mop[c].scope] = IF mop[c].alone THEN what ELSE Nothing]

-----------------------------------------------------------------------------
(* Installing.                                                             *)

\* stripTopDir: of a zip made with a top-level folder that one, of another the
\* first folder there is.
StripTopDir(f, topped) == IF ~topped /\ f = "lib/index.js" THEN "index.js" ELSE f

Zips == {[zip |-> Folder(v), topped |-> t] : v \in Versions, t \in BOOLEAN}

\* What the marketplace has: another author's, or what was published here.
Hosted == IF hub.version = 0 THEN [zip |-> Folder(1), topped |-> TRUE]
          ELSE [zip |-> hub.zip, topped |-> FALSE]

Asked(c, s, z) == [NoOp EXCEPT !.scope = s, !.zip = z.zip, !.topped = z.topped,
                               !.todo = DOMAIN z.zip, !.pc = "write"]

\* An upload, or the marketplace's zip: the folder is made if needed, never emptied.
InstallModule(c, s, z) ==
    /\ Idle(c) /\ "uploads" \in uses /\ Called("uploads")
    /\ Enters(c, Asked(c, s, z))
    /\ UNCHANGED <<restVars, faults, mdir, hub>>

\* A folder of the workspace, copied over what was removed before.
InstallFolderAsModule(c, s, v) ==
    /\ Idle(c) /\ Called("uploads")
    /\ Enters(c, [Asked(c, s, [zip |-> Folder(v), topped |-> TRUE])
                    EXCEPT !.pc = "remove", !.kind = "folder"])
    /\ UNCHANGED <<restVars, faults, mdir, hub>>

\* extractZipFile and copyFile: the file is created, which empties it ...
OpenFile(c) ==
    LET r == mop[c]
        e == FirstOf(r.todo)
    IN  /\ r.pc = "write" /\ r.todo # {}
        /\ mdir' = [mdir EXCEPT ![r.scope][StripTopDir(e, r.topped)] = Torn]
        /\ Does(c, [r EXCEPT !.pc = "copy", !.f = e, !.todo = @ \ {e}])
        /\ UNCHANGED <<settingsVars, hub, said>>

\* ... and then filled, unless it was removed meanwhile; over what another call
\* wrote since, with the rest of that.
CopyFile(c) ==
    LET r == mop[c]
        t == StripTopDir(r.f, r.topped)
        now == mdir[r.scope][t]
    IN  /\ r.pc = "copy"
        /\ \E is \in CASE now = Torn -> {r.zip[r.f]} [] now = Absent -> {Absent}
                       [] OTHER -> {r.zip[r.f], Torn} :
             mdir' = [mdir EXCEPT ![r.scope][t] = is]
        /\ Does(c, [r EXCEPT !.pc = "write"])
        /\ UNCHANGED <<settingsVars, hub, said>>

Promised(r) == [f \in {StripTopDir(e, r.topped) : e \in DOMAIN r.zip} |->
                  {r.zip[e] : e \in {x \in DOMAIN r.zip : StripTopDir(x, r.topped) = f}}]

Installed(c) ==
    /\ mop[c].pc = "write" /\ mop[c].todo = {}
    /\ Reports(c, [by |-> mop[c].kind, want |-> Promised(mop[c])])
    /\ UNCHANGED <<settingsVars, mdir, hub>>

\* A file that cannot be created or written ends the call, with what was written
\* left where it is.
FailsUnreported(c) ==
    /\ mop[c].pc \in {"write", "copy"} /\ mop[c].todo # {} /\ Faulty
    /\ Reports(c, [by |-> mop[c].kind, want |-> Promised(mop[c])])
    /\ UNCHANGED <<restVars, calls, mdir, hub>>

Fails(c) ==
    /\ mop[c].pc \in {"write", "copy"} /\ Faulty
    /\ Reports(c, Nothing)
    /\ UNCHANGED <<restVars, calls, mdir, hub>>

-----------------------------------------------------------------------------
(* Removing.                                                               *)

\* The folder is named as it is on the disk, or as the hub names the module
\* ("user/module"): there is no folder of that name.
DeleteModule(c, s, named) ==
    /\ Idle(c) /\ Called("uploads")
    /\ LET r == [NoOp EXCEPT !.pc = "remove", !.kind = "remove", !.scope = s]
       IN  IF named = "folder" THEN Enters(c, r)
           ELSE /\ said' = [said EXCEPT ![s] = [by |-> "name"]]
                /\ UNCHANGED mop
    /\ UNCHANGED <<restVars, faults, mdir, hub>>

\* os.RemoveAll: until the folder has no file left, or one cannot be removed.
RemoveFile(c) ==
    LET r == mop[c]
    IN  /\ r.pc = "remove"
        /\ \E f \in Present(r.scope) : mdir' = [mdir EXCEPT ![r.scope][f] = Absent]
        /\ UNCHANGED <<settingsVars, hub, mop, said>>

\* A folder's copy begins whatever became of the removal.
Removed(c) ==
    LET r == mop[c]
    IN  /\ r.pc = "remove"
        /\ \/ Present(r.scope) = {} /\ UNCHANGED faults
           \/ Faulty
        /\ IF r.kind = "folder" THEN Does(c, [r EXCEPT !.pc = "write"]) /\ UNCHANGED said
           ELSE Reports(c, IF Present(r.scope) = {} THEN [by |-> "remove"] ELSE Nothing)
        /\ UNCHANGED <<restVars, calls, mdir, hub>>

-----------------------------------------------------------------------------
(* What a script asks for.                                                 *)

\* mod.install and mod.remove: what the settings say when they are called.
NeedsConfirm == Resolved("gate")

ScriptCalls(c, s) ==
    /\ Idle(c) /\ Called("scripts")
    /\ \E r \in {Asked(c, s, Hosted)}
                  \cup {[NoOp EXCEPT !.pc = "remove", !.kind = "remove", !.scope = s]} :
         IF NeedsConfirm
         THEN Does(c, [r EXCEPT !.pc = "ask", !.gated = TRUE]) /\ UNCHANGED said
         ELSE Enters(c, [r EXCEPT !.gated = promised # {} /\ reset = "no"])
    /\ UNCHANGED <<restVars, faults, mdir, hub>>

Answers(c) ==
    LET r == mop[c]
    IN  /\ r.pc = "ask"
        /\ \/ Enters(c, [r EXCEPT !.approved = TRUE,
                                  !.pc = IF r.kind = "remove" THEN "remove" ELSE "write"])
           \/ Does(c, NoOp) /\ UNCHANGED said
        /\ UNCHANGED <<settingsVars, mdir, hub>>

\* require: of every file the workspace's, or else the user's ...
Found(f) == {s \in Scopes : mdir[s][f] # Absent}
Taken(f) == IF "workspace" \in Found(f) THEN "workspace" ELSE "user"

Require(c) ==
    /\ Idle(c) /\ Called("uploads") /\ Found("index.js") # {}
    /\ LET s == Taken("index.js")
           main == mdir[s]["index.js"]
       IN  Does(c, IF main = <<1, "index.js">> THEN [NoOp EXCEPT !.pc = "lib", !.scope = s] ELSE NoOp)
    /\ UNCHANGED <<restVars, faults, mdir, hub, said>>

\* ... also of those that the main file (the first version's) requires in turn.
RequireLib(c) ==
    /\ mop[c].pc = "lib"
    /\ Does(c, IF Found("lib/index.js") = {} THEN NoOp
               ELSE [mop[c] EXCEPT !.pc = "run", !.v = mdir[Taken("lib/index.js")]["lib/index.js"][1],
                                   !.alone = Taken("lib/index.js") = mop[c].scope])
    /\ UNCHANGED <<settingsVars, mdir, hub, said>>

Runs(c) ==
    /\ mop[c].pc = "run"
    /\ Does(c, NoOp)
    /\ UNCHANGED <<settingsVars, mdir, hub, said>>

-----------------------------------------------------------------------------
(* Publishing.                                                             *)

\* The version is that of the description, which must be there and whole.
PublishModule(c, s) ==
    LET is == mdir[s]["package.json"]
    IN  /\ Idle(c) /\ is \notin {Absent, Torn} /\ Called("publish")
        /\ Does(c, [NoOp EXCEPT !.pc = "zip", !.kind = "publish", !.scope = s, !.zip = <<>>,
                                !.todo = Present(s), !.v = is[1]])
        /\ UNCHANGED <<restVars, faults, mdir, hub, said>>

\* WalkDir: file by file, as each is by then; one that is gone ends it.
ZipFile(c) ==
    LET r == mop[c]
        f == FirstOf(r.todo)
        is == mdir[r.scope][f]
    IN  /\ r.pc = "zip" /\ r.todo # {}
        /\ Does(c, IF is = Absent THEN NoOp
                   ELSE [r EXCEPT !.todo = @ \ {f},
                                  !.zip = [g \in DOMAIN @ \cup {f} |-> IF g = f THEN is ELSE @[g]]])
        /\ UNCHANGED <<settingsVars, mdir, hub, said>>

Submits(c) ==
    LET r == mop[c]
    IN  /\ r.pc = "zip" /\ r.todo = {}
        /\ \/ hub' = [version |-> r.v, zip |-> r.zip] /\ UNCHANGED faults
           \/ Faulty /\ UNCHANGED hub
        /\ Does(c, NoOp)
        /\ UNCHANGED <<restVars, calls, mdir, said>>

DeleteModuleVersion(c) ==
    /\ Idle(c) /\ hub.version # 0 /\ Called("publish")
    /\ hub' = [hub EXCEPT !.version = 0]
    /\ UNCHANGED <<restVars, faults, mdir, mop, said>>

-----------------------------------------------------------------------------
\* A restart ends the calls; the files are as they were.
SettingsStep ==
    /\ SettingsNext
    /\ mop' = IF lives' # lives THEN [c \in Clients |-> NoOp] ELSE mop
    /\ \A c \in Clients : cl[c].pc = "idle" /\ cl[c].pc' # "idle" => mop[c].pc = "idle"
    /\ UNCHANGED <<mdir, hub, said>>

ModulesStep ==
    \/ \E c \in Clients, s \in Scopes : \E z \in Zips \cup {Hosted} : InstallModule(c, s, z)
    \/ \E c \in Clients, s \in Scopes, v \in Versions : InstallFolderAsModule(c, s, v)
    \/ \E c \in Clients, s \in Scopes, named \in {"folder", "hub"} : DeleteModule(c, s, named)
    \/ \E c \in Clients, s \in Scopes : ScriptCalls(c, s) \/ PublishModule(c, s)
    \/ \E c \in Clients :
         \/ OpenFile(c) \/ CopyFile(c) \/ Installed(c) \/ Fails(c)
         \/ RemoveFile(c) \/ Removed(c) \/ Answers(c)
         \/ Require(c) \/ RequireLib(c) \/ Runs(c)
         \/ ZipFile(c) \/ Submits(c) \/ DeleteModuleVersion(c)

ModulesSpec == Init /\ InitModules /\ [][SettingsStep \/ ModulesStep]_<<settingsVars, modVars>>

-----------------------------------------------------------------------------
(* Properties.                                                             *)

\* What a call that had the folder for itself reports is so: each file that was
\* to be installed is there and whole, and after a removal nothing is.
SaidIsSo ==
    \A s \in Scopes :
      /\ said[s].by = "remove" => mdir[s] = Empty
      /\ said[s].by \in {"install", "folder"}
           => \A f \in DOMAIN said[s].want : mdir[s][f] \in said[s].want[f]

\* Once a save of the gate was reported as done, in the workspace's settings or in
\* the user's, and until one turns it off there, a script that installs or removes
\* a module has asked and was allowed to: in spite of the saves of other fields that
\* come between, of failed ones and of restarts.  Not so while the settings are
\* loaded again (AlwaysApproved), nor for a save of the user's that an approved
\* change overtakes (ConfigIsSaved).
NothingUnapproved == \A c \in Clients : AtWork(mop[c]) /\ mop[c].gated => mop[c].approved

-----------------------------------------------------------------------------
(* What comments promise and the code does not always keep.                *)

\* stdlib/docs/mod.md:86 "gated by ui.confirm -- the user must approve": not while
\* SetProfile(nil) has no settings (store.go:196).
AlwaysApproved ==
    [][\A c \in Clients, s \in Scopes : promised # {} /\ ScriptCalls(c, s) => mop[c].pc' = "ask"]_<<settingsVars, modVars>>

\* api_modules.go:549 "strips the top-level directory": of a zip without one, the
\* module's own folder, so that two files become one.  PublishModule makes such zips.
LayoutIsKept == \A s \in Scopes : said[s].by = "install" => \A f \in DOMAIN said[s].want : \A w \in said[s].want[f] : w[2] = f

\* An upgrade leaves the files that the new version no longer has (api_modules.go:151).
NoLeftovers ==
    \A s \in Scopes : said[s].by \in {"install", "folder"} => Present(s) = DOMAIN said[s].want

\* Two calls on a folder at the same time mix their files.
OneVersion ==
    (\A c \in Clients : mop[c].pc = "idle") =>
        \A s \in Scopes : Cardinality({mdir[s][f][1] : f \in Present(s)}) <= 1

\* api_modules.go:246 `{"id":"altlimit/greet"}`: reports "deleted", and the folder stays.
DeletedIsGone == \A s \in Scopes : said[s].by = "name" => mdir[s] = Empty

\* A module that is listed (it has a description) may be any part of one.
ListedIsWhole ==
    \A s \in Scopes : mdir[s]["package.json"] # Absent => Torn \notin {mdir[s][f] : f \in Files}

\* stdlib/docs/modules.md:52 "relative require, jailed to this folder": a file that is
\* not (or no longer) there is taken from the other scope's folder (engine.go:266).
RequiresOneFolder == \A c \in Clients : mop[c].pc = "run" => mop[c].alone

\* What is published as a version has files of another, when one is installed meanwhile.
PublishedIsOneVersion == hub.version # 0 => \A f \in DOMAIN hub.zip : hub.zip[f][1] = hub.version
=============================================================================
