-------------------------------- MODULE Git --------------------------------
(***************************************************************************)
(* The git bridge (internal/bridge/git.go, git_repo.go) and the web's      *)
(* history view (web/api_git.go) over one workspace: the bare repository   *)
(* that gets a snapshot after every turn, from a goroutine of its own and  *)
(* without a lock, the scripts' git.commit, git.restore and git.compact on *)
(* it, the user's restore from the browser, and the handle of a repository *)
(* in the workspace with its index, branches and one stash.                *)
(*                                                                         *)
(* A commit is told apart by its tree, a branch is its trees, newest       *)
(* first: commits are immutable and nothing here asks for more.  Scripts   *)
(* are one block at a time; what of go-git the bridge relies on (a soft    *)
(* reset moves HEAD only, a hard one the index and the files too, an       *)
(* unchanged index makes no commit, HEAD of a new bare repository names    *)
(* master) is external.                                                    *)
(***************************************************************************)
EXTENDS Naturals, Sequences, Functions

CONSTANTS
    Files,       \* number of files; a walk visits them in this order
    Texts,       \* what a file may hold
    Blob,        \* binary content, which no snapshot has
    Absent,      \* there is no such file
    Autos,       \* snapshots of ended turns that may be under way at a time
    Script,      \* the block, whose git.commit is a snapshot like theirs
    Trunk,       \* the branch the workspace's repository starts on
    Branches,
    Keep,        \* git.compact's n: at least 5 in the code
    MaxCommands, \* bound: what blocks do in all
    MaxTurns,    \* bound: turns that end
    MaxRestores, \* bound: restores from the browser
    MaxFaults    \* bound: failing commands and crashes

ASSUME GitAssumption ==
    /\ Files \in Nat \ {0} /\ Keep \in Nat \ {0} /\ Texts # {}
    /\ {MaxCommands, MaxTurns, MaxRestores, MaxFaults} \subseteq Nat
    /\ Trunk \in Branches /\ Script \notin Autos
    /\ {Blob, Absent} \cap Texts = {} /\ Blob # Absent

Paths == 1..Files
Trees == [Paths -> Texts \cup {Blob, Absent}]
Chains == Seq(Trees)
Jobs == Autos \cup {Script}

VARIABLES
    files,    \* the workspace
    main,     \* refs/heads/main of the history repository
    named,    \* its HEAD names main, which SetReference does second
    job,      \* each snapshot under way
    web,      \* the browser's restore
    index,    \* of the workspace's repository, as its branches and HEAD
    branch, cur,
    stash,    \* refs/stash: <<>> while there is none
    cmd,       \* the block's command that is more than one step
    commands, turns, restores, faults, \* what the bounds count
    owed,     \* history: trees that stash took and no pop gave back
    spoilt,   \* history: those whose pop lost a write, and said "popped"
    due,      \* history: what the last turn to end left, or <<>> after git.commit
    raced     \* history: something touched files or history under a snapshot

gitVars == <<files, main, named, job, web, index, branch, cur, stash, cmd,
          commands, turns, restores, faults, owed, spoilt, due, raced>>
history == <<main, named>>
repo == <<index, branch, cur, stash, owed, spoilt>>
counts == <<turns, restores, faults>>

Empty == [p \in Paths |-> Absent]
NoJob == [pc |-> "idle", at |-> 1, tree |-> Empty, seen |-> <<>>]
NoWeb == [on |-> FALSE, at |-> 1, tree |-> Empty]
NoCommand == [pc |-> "free", at |-> 1, seen |-> <<>>, alone |-> TRUE, failed |-> FALSE]
First == [p \in Paths |-> IF p = 1 THEN CHOOSE t \in Texts : TRUE ELSE Absent]

GitTypeOK ==
    /\ files \in Trees /\ main \in Chains /\ named \in BOOLEAN
    /\ job \in [Jobs -> [pc : {"idle", "walk", "ref", "sym"}, at : 1..Files + 1,
                         tree : Trees, seen : Chains]]
    /\ web \in [on : BOOLEAN, at : 1..Files + 1, tree : Trees]
    /\ index \in Trees /\ branch \in [Branches -> Chains] /\ cur \in Branches
    /\ stash \in Chains
    /\ cmd \in [pc : {"free", "compact", "commit", "ref", "reset", "pop", "unref"},
               at : 1..Files + 1, seen : Chains, alone : BOOLEAN, failed : BOOLEAN]
    /\ commands \in 0..MaxCommands /\ turns \in 0..MaxTurns
    /\ restores \in 0..MaxRestores /\ faults \in 0..MaxFaults
    /\ owed \subseteq Trees /\ spoilt \subseteq Trees /\ due \in Trees \cup {<<>>} /\ raced \in BOOLEAN

GitInit ==
    /\ files = First /\ index = First
    /\ branch = [b \in Branches |-> IF b = Trunk THEN <<First>> ELSE <<>>]
    /\ cur = Trunk /\ stash = <<>>
    /\ main = <<>> /\ named = FALSE
    /\ job = [j \in Jobs |-> NoJob] /\ web = NoWeb /\ cmd = NoCommand
    /\ commands = 0 /\ turns = 0 /\ restores = 0 /\ faults = 0
    /\ owed = {} /\ spoilt = {} /\ due = <<>> /\ raced = FALSE

\* What a snapshot takes of a file: large and binary ones are skipped.
Kept(c) == IF c = Blob THEN Absent ELSE c
KeptFiles == [p \in Paths |-> Kept(files[p])]

\* repo.Head() of the history repository: <<>> is its error.
Head_ == IF named THEN main ELSE <<>>

\* The paths two trees differ in, and git.log: what each commit changed.
Changes(old, new) == {p \in Paths : old[p] # new[p]}
Log == [c \in DOMAIN Head_ |-> Changes(IF c = Len(Head_) THEN Empty ELSE Head_[c + 1], Head_[c])]

AllIdle == \A j \in Jobs : job[j].pc = "idle"
Walking == \E j \in Jobs : job[j].pc = "walk"
Ready == cmd.pc = "free" /\ job[Script].pc = "idle" /\ commands < MaxCommands
Command == Ready /\ commands' = commands + 1

\* Files change: a snapshot that walks them, or a command at work, notices.
Touch == raced' = (raced \/ Walking)
----------------------------------------------------------------------------
(* Snapshots: AutoCommit of an ended turn, git.commit of a block.          *)

StartSnapshot(j) == job' = [job EXCEPT ![j] = [NoJob EXCEPT !.pc = "walk"]]

\* autoCommitGit, the last thing a turn does, starts a goroutine.
TurnEnds ==
    /\ cmd.pc = "free" /\ job[Script].pc = "idle" /\ turns < MaxTurns
    /\ turns' = turns + 1
    /\ \E j \in Autos : job[j].pc = "idle" /\ StartSnapshot(j)
    /\ due' = KeptFiles
    /\ raced' = ~(AllIdle /\ ~web.on)
    /\ UNCHANGED <<files, history, web, repo, cmd, commands, restores, faults>>

GitCommit ==
    /\ Command /\ StartSnapshot(Script)
    /\ raced' = (raced \/ ~AllIdle) /\ due' = <<>>
    /\ UNCHANGED <<files, history, web, repo, cmd, counts>>

WalkFile(j) ==
    /\ job[j].pc = "walk" /\ job[j].at \in Paths
    /\ job' = [job EXCEPT ![j].tree[job[j].at] = Kept(files[job[j].at]), ![j].at = @ + 1]
    /\ UNCHANGED <<files, history, web, repo, cmd, commands, counts, due, raced>>

ReadHeadSkipping(j) ==
    /\ job[j].pc = "walk" /\ job[j].at = Files + 1
    /\ job' = [job EXCEPT ![j] =
                  IF job[j].tree \in Range(Head_) THEN NoJob
                  ELSE [@ EXCEPT !.pc = "ref", !.seen = Head_]]
    /\ UNCHANGED <<files, history, web, repo, cmd, commands, counts, due, raced>>

\* The tree is built; a snapshot of what HEAD has is none.
ReadHead(j) ==
    /\ job[j].pc = "walk" /\ job[j].at = Files + 1
    /\ job' = [job EXCEPT ![j] =
                  IF Head_ # <<>> /\ Changes(Head_[1], @.tree) = {} THEN NoJob
                  ELSE [@ EXCEPT !.pc = "ref", !.seen = Head_]]
    /\ UNCHANGED <<files, history, web, repo, cmd, commands, counts, due, raced>>

SetMainOrphan(j) ==
    /\ job[j].pc = "ref"
    /\ main' = <<job[j].tree>>
    /\ job' = [job EXCEPT ![j].pc = "sym"]
    /\ UNCHANGED <<files, named, web, repo, cmd, commands, counts, due, raced>>

SetMain(j) ==
    /\ job[j].pc = "ref"
    /\ main' = <<job[j].tree>> \o job[j].seen
    /\ job' = [job EXCEPT ![j].pc = "sym"]
    /\ UNCHANGED <<files, named, web, repo, cmd, commands, counts, due, raced>>

SetHead(j) ==
    /\ job[j].pc = "sym"
    /\ named' = TRUE /\ job' = [job EXCEPT ![j] = NoJob]
    /\ UNCHANGED <<files, main, web, repo, cmd, commands, counts, due, raced>>

\* git.compact: reads the chain, writes its newest commits again as a chain
\* of their own, and sets main to it, whatever main is by then.
CompactRead ==
    /\ Command
    /\ cmd' = IF Len(Head_) <= Keep THEN NoCommand ELSE [NoCommand EXCEPT !.pc = "compact", !.seen = Head_]
    /\ raced' = (raced \/ ~AllIdle)
    /\ UNCHANGED <<files, history, job, web, repo, counts, due>>

CompactSet ==
    /\ cmd.pc = "compact"
    /\ main' = SubSeq(cmd.seen, 1, Keep) /\ cmd' = NoCommand
    /\ UNCHANGED <<files, named, job, web, repo, commands, counts, due, raced>>

----------------------------------------------------------------------------
(* Files: what blocks write, and what comes back from the history.         *)

Edit ==
    /\ Command
    /\ \E p \in Paths, c \in Texts \cup {Blob, Absent} :
          c # files[p] /\ files' = [files EXCEPT ![p] = c]
    /\ Touch
    /\ UNCHANGED <<history, job, web, repo, cmd, counts, due>>

\* git.restore of a script: one file of HEAD or of a commit found from HEAD.
Restore ==
    /\ Command
    /\ \E c \in DOMAIN Head_, p \in Paths :
          Head_[c][p] # Absent /\ files' = [files EXCEPT ![p] = Head_[c][p]]
    /\ Touch
    /\ UNCHANGED <<history, job, web, repo, cmd, counts, due>>

\* GitRestore of the browser: the same, whatever the block is doing.
WebRestore ==
    /\ ~web.on /\ restores < MaxRestores /\ restores' = restores + 1
    /\ \E c \in DOMAIN Head_, p \in Paths :
          Head_[c][p] # Absent /\ files' = [files EXCEPT ![p] = Head_[c][p]]
    /\ Touch /\ cmd' = [cmd EXCEPT !.alone = cmd.pc = "free"]
    /\ UNCHANGED <<history, job, web, repo, commands, turns, faults, due>>

\* GitRestoreCommit: every file of the commit, one after the other.
WebRestoreCommit ==
    /\ ~web.on /\ restores < MaxRestores /\ restores' = restores + 1
    /\ \E c \in DOMAIN Head_ : web' = [on |-> TRUE, at |-> 1, tree |-> Head_[c]]
    /\ UNCHANGED <<files, history, job, repo, cmd, commands, turns, faults, due, raced>>

WebWrite ==
    /\ web.on /\ web.at \in Paths
    /\ web' = [web EXCEPT !.at = @ + 1]
    /\ IF web.tree[web.at] = Absent THEN UNCHANGED <<files, cmd, raced>>
       ELSE /\ files' = [files EXCEPT ![web.at] = web.tree[web.at]]
            /\ Touch /\ cmd' = [cmd EXCEPT !.alone = cmd.pc = "free"]
    /\ UNCHANGED <<history, job, repo, commands, counts, due>>

WebDone ==
    /\ web.on /\ web.at = Files + 1 /\ web' = NoWeb
    /\ UNCHANGED <<files, history, job, repo, cmd, commands, counts, due, raced>>
----------------------------------------------------------------------------
(* The handle of the workspace's repository.                               *)

Tip == branch[cur][1]
Clean == files = index /\ index = Tip

Add ==
    /\ Command /\ \E p \in Paths : index' = [index EXCEPT ![p] = files[p]]
    /\ UNCHANGED <<files, history, job, web, branch, cur, stash, owed, spoilt, cmd, counts, due, raced>>

AddAll ==
    /\ Command /\ index' = files
    /\ UNCHANGED <<files, history, job, web, branch, cur, stash, owed, spoilt, cmd, counts, due, raced>>

\* repo.reset: a soft reset to HEAD itself, which changes nothing.
Reset ==
    /\ Command
    /\ UNCHANGED <<files, history, job, web, repo, cmd, counts, due, raced>>

RepoCommit ==
    /\ Command /\ index # Tip
    /\ branch' = [branch EXCEPT ![cur] = <<index>> \o @]
    /\ UNCHANGED <<files, history, job, web, index, cur, stash, owed, spoilt, cmd, counts, due, raced>>

\* repo.branch(name): SetReference overwrites a branch that has the name.
NewBranch ==
    /\ Command
    /\ \E b \in Branches \ {cur} :
          branch[b] = <<>> /\ branch' = [branch EXCEPT ![b] = branch[cur]]
    /\ UNCHANGED <<files, history, job, web, index, cur, stash, owed, spoilt, cmd, counts, due, raced>>

Held(w, s, bs, i) == (s # <<>> /\ s[1] = w) \/ i = w \/ \E b \in Branches : w \in Range(bs[b])

\* Deleting a branch gives up what only the branch holds.
DeleteBranch ==
    /\ Command
    /\ \E b \in Branches \ {cur} :
          branch[b] # <<>> /\ branch' = [branch EXCEPT ![b] = <<>>]
    /\ owed' = {w \in owed : Held(w, stash, branch', <<>>)}
    /\ UNCHANGED <<files, history, job, web, index, cur, stash, spoilt, cmd, counts, due, raced>>

\* repo.checkout with nothing uncommitted, or with force.
Checkout ==
    /\ Command
    /\ \E b \in Branches \ {cur} : branch[b] # <<>> /\ cur' = b
    /\ files' = branch[cur'][1] /\ index' = branch[cur'][1]
    /\ Touch
    /\ UNCHANGED <<history, job, web, branch, stash, owed, spoilt, cmd, counts, due>>

StashUnchecked ==
    /\ Command /\ ~Clean
    /\ index' = files /\ owed' = owed \cup {files} /\ spoilt' = spoilt \ {files}
    /\ cmd' = [NoCommand EXCEPT !.pc = "commit", !.seen = branch[cur]]
    /\ UNCHANGED <<files, history, job, web, branch, cur, stash, counts, due, raced>>

\* repo.stash: everything is staged, committed to the branch, the commit is
\* kept under refs/stash and the branch set back.
Stash ==
    /\ Command /\ ~Clean /\ stash = <<>>
    /\ index' = files /\ owed' = owed \cup {files} /\ spoilt' = spoilt \ {files}
    /\ cmd' = [NoCommand EXCEPT !.pc = "commit", !.seen = branch[cur]]
    /\ UNCHANGED <<files, history, job, web, branch, cur, stash, counts, due, raced>>

\* Without a change to HEAD there is no commit, and the command throws.
StashCommit ==
    /\ cmd.pc = "commit"
    /\ IF index = Tip THEN cmd' = NoCommand /\ owed' = owed \ {index} /\ UNCHANGED branch
       ELSE /\ branch' = [branch EXCEPT ![cur] = <<index>> \o @]
            /\ cmd' = [cmd EXCEPT !.pc = "ref"] /\ UNCHANGED owed
    /\ UNCHANGED <<files, history, job, web, index, cur, stash, spoilt, commands, counts, due, raced>>

StashRef ==
    /\ cmd.pc = "ref"
    /\ stash' = <<Tip>> \o cmd.seen /\ cmd' = [cmd EXCEPT !.pc = "reset"]
    /\ UNCHANGED <<files, history, job, web, index, branch, cur, owed, spoilt, commands,
                   counts, due, raced>>

StashReset ==
    /\ cmd.pc = "reset"
    /\ branch' = [branch EXCEPT ![cur] = cmd.seen]
    /\ index' = cmd.seen[1] /\ files' = cmd.seen[1] /\ cmd' = NoCommand
    /\ Touch
    /\ UNCHANGED <<history, job, web, cur, stash, owed, spoilt, commands, counts, due>>

\* repo.stashPop: the stash's files are written, those it lacks and its
\* parent has are removed, and the reference goes.
Pop ==
    /\ Command /\ stash # <<>>
    /\ cmd' = [NoCommand EXCEPT !.pc = "pop", !.seen = stash]
    /\ UNCHANGED <<files, history, job, web, repo, counts, due, raced>>

PopWrite ==
    /\ cmd.pc = "pop" /\ cmd.at \in Paths
    /\ cmd' = [cmd EXCEPT !.at = @ + 1]
    /\ IF cmd.seen[1][cmd.at] = Absent THEN UNCHANGED <<files, raced>>
       ELSE files' = [files EXCEPT ![cmd.at] = cmd.seen[1][cmd.at]] /\ Touch
    /\ UNCHANGED <<history, job, web, repo, commands, counts, due>>

\* Neither the write's error nor that of reading the blob is looked at: the
\* file stays, or is cut short where the disk is full.
PopWriteFails ==
    /\ cmd.pc = "pop" /\ cmd.at \in Paths /\ cmd.seen[1][cmd.at] # Absent
    /\ faults < MaxFaults /\ faults' = faults + 1
    /\ cmd' = [cmd EXCEPT !.at = @ + 1, !.failed = TRUE]
    /\ \E c \in {files[cmd.at]} \cup Texts : files' = [files EXCEPT ![cmd.at] = c]
    /\ Touch
    /\ UNCHANGED <<history, job, web, repo, commands, turns, restores, due>>

Gone == {p \in Paths : cmd.seen[1][p] = Absent /\ cmd.seen[2][p] # Absent}

PopRemove ==
    /\ cmd.pc = "pop" /\ cmd.at = Files + 1 /\ cmd' = [cmd EXCEPT !.pc = "unref"]
    /\ files' = [p \in Paths |-> IF p \in Gone THEN Absent ELSE files[p]]
    /\ Touch
    /\ UNCHANGED <<history, job, web, repo, commands, counts, due>>

\* Nor are the errors of reading the parent and of removing a file.
PopRemoveFails ==
    /\ cmd.pc = "pop" /\ cmd.at = Files + 1
    /\ faults < MaxFaults /\ faults' = faults + 1
    /\ cmd' = [cmd EXCEPT !.pc = "unref", !.failed = TRUE]
    /\ \E left \in SUBSET Gone \ {{}} :
          files' = [p \in Paths |-> IF p \in Gone \ left THEN Absent ELSE files[p]]
    /\ Touch
    /\ UNCHANGED <<history, job, web, repo, commands, turns, restores, due>>

\* The reference goes whatever was written.
PopEnd ==
    /\ cmd.pc = "unref" /\ cmd' = NoCommand
    /\ stash' = <<>>
    /\ IF cmd.failed THEN spoilt' = spoilt \cup {cmd.seen[1]} /\ UNCHANGED owed
       ELSE owed' = owed \ {cmd.seen[1]} /\ UNCHANGED spoilt
    /\ UNCHANGED <<files, history, job, web, index, branch, cur, commands, counts, due, raced>>
----------------------------------------------------------------------------
(* A command that fails at a step leaves what the steps before it did, and *)
(* so does a crash, which ends every snapshot and restore too.             *)

GiveUp == owed' = IF cmd.pc = "commit" THEN owed \ {index} ELSE owed

Throw ==
    /\ cmd.pc # "free" /\ faults < MaxFaults /\ faults' = faults + 1
    /\ cmd' = NoCommand /\ GiveUp
    /\ UNCHANGED <<files, history, job, web, index, branch, cur, stash, spoilt, commands,
                   turns, restores, due, raced>>

Crash ==
    /\ cmd.pc # "free" \/ ~AllIdle \/ web.on
    /\ faults < MaxFaults /\ faults' = faults + 1
    /\ cmd' = NoCommand /\ job' = [j \in Jobs |-> NoJob] /\ web' = NoWeb
    /\ GiveUp /\ raced' = TRUE
    /\ UNCHANGED <<files, history, index, branch, cur, stash, spoilt, commands, turns, restores,
                   due>>

GitNext ==
    \/ TurnEnds \/ GitCommit \/ CompactRead \/ CompactSet
    \/ \E j \in Jobs : WalkFile(j) \/ ReadHead(j) \/ SetMain(j) \/ SetHead(j)
    \/ Edit \/ Restore \/ WebRestore \/ WebRestoreCommit \/ WebWrite \/ WebDone
    \/ Add \/ AddAll \/ Reset \/ RepoCommit \/ NewBranch \/ DeleteBranch \/ Checkout
    \/ Stash \/ StashCommit \/ StashRef \/ StashReset
    \/ Pop \/ PopWrite \/ PopWriteFails \/ PopRemove \/ PopRemoveFails \/ PopEnd
    \/ Throw \/ Crash

GitSpec == GitInit /\ [][GitNext]_gitVars
----------------------------------------------------------------------------
(* Properties.                                                             *)

(* When no snapshot is under way, what the last turn to end left behind is *)
(* the newest of the history, also after a compaction, unless something    *)
(* wrote files or history meanwhile or the process crashed (until a script *)
(* commits later work).                                                    *)
TurnIsSnapshotted == AllIdle /\ ~raced /\ due # <<>> => Head_ # <<>> /\ Head_[1] = due

(* Nor do the snapshots before it go: history only grows at its end, but   *)
(* for a compaction, which drops the oldest.                               *)
HistoryGrows ==
    [][~raced /\ named /\ main' # main
         => LET new == Len(main') - Len(main)
            IN  IF new > 0 THEN SubSeq(main', new + 1, Len(main')) = main
                ELSE Len(main) > Keep /\ main' = SubSeq(main, 1, Keep)]_gitVars

(* However snapshots and compactions overlap, no commit of the log but the  *)
(* first of an empty workspace changed nothing.                            *)
NoEmptySnapshots == \A c \in DOMAIN Log : Log[c] # {} \/ Head_[c] = Empty

(* What stash took is not lost, wherever the command fails or the process  *)
(* stops: until a pop has given it back it is under refs/stash, on a branch *)
(* or still in the index, and no other stash takes its place.  The one     *)
(* exception is a pop that lost a write (git_repo.go:937): it drops the    *)
(* reference all the same.                                                 *)
WorkIsKept ==
    \A w \in owed : w \in spoilt
                     \/ Held(w, stash, branch, IF cmd.pc = "commit" THEN index ELSE <<>>)

(* A pop none of whose writes and removals failed has brought back every   *)
(* file as stash found it, and has removed what stash found removed, if    *)
(* nobody else wrote files meanwhile.                                      *)
PopRestores ==
    cmd.pc = "unref" /\ cmd.alone /\ ~cmd.failed
       => \A p \in Paths : cmd.seen[1][p] # Absent \/ cmd.seen[2][p] # Absent
                              => files[p] = cmd.seen[1][p]
----------------------------------------------------------------------------
(* What comments promise and the code does not always keep.                *)

(* Every turn is snapshotted (stdlib/docs/git.md:3), also when the next    *)
(* turn's snapshot overtakes it or a script compacts meanwhile.            *)
EveryTurnIsSnapshotted ==
    AllIdle /\ due # <<>> /\ faults = 0 /\ Len(main) > 0 => due \in Range(Head_)

(* A crash leaves the snapshots already made (the first one is lost if it  *)
(* comes between the two references, git.go:186 and git.go:192).           *)
CrashKeepsHistory ==
    [][~raced /\ main # <<>> /\ Len(main') <= Len(main) /\ cmd.pc # "compact" => main' = main]_gitVars

(* stashPop "restores stashed changes" (stdlib/docs/git.md:67): a file it  *)
(* could not write is gone with refs/stash, and the script reads "popped". *)
PopsGiveBack ==
    \A w \in owed : Held(w, stash, branch, IF cmd.pc = "commit" THEN index ELSE <<>>)

(* "restores a commit snapshot to the workspace" (api_git.go:206): files   *)
(* the snapshot does not have stay.                                        *)
RestoreRestores ==
    [][web.on /\ ~web'.on /\ faults' = faults
         => \A p \in Paths : web.tree[p] = Absent => Kept(files[p]) = Absent]_gitVars

(* repo.reset unstages (stdlib/docs/git.md:34).                            *)
ResetUnstages == [][Reset => index' = Tip]_gitVars

(* git.status names what changed since the last snapshot (git.go:320): a   *)
(* binary file is reported as added for ever.                              *)
Status == {p \in Paths : files[p] # Absent /\ (Head_ = <<>> \/ Head_[1][p] = Absent)}
          \cup {p \in Paths : Head_ # <<>> /\ Head_[1][p] # Absent
                              /\ files[p] \notin {Head_[1][p], Blob}}
StatusTellsChanges == AllIdle /\ Head_ # <<>> /\ Head_[1] = KeptFiles => Status = {}

(* repo.diffStaged shows what is staged (stdlib/docs/git.md:42): it reads  *)
(* the file as it is now.                                                  *)
DiffStaged == {p \in Paths : index[p] # Tip[p]
                             /\ (IF index[p] = Absent THEN Absent ELSE files[p]) # Tip[p]}
StagedIsShown == \A p \in Paths : index[p] # Tip[p] => p \in DiffStaged

=============================================================================
