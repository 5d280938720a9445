---------------------------- MODULE FileWatcher ----------------------------
(***************************************************************************)
(* The watcher of the workspace's files (startFileWatcher of web/server.go): *)
(* a first walk that adds a watch to every directory, and a loop that takes *)
(* the system's events, adds the directories that were created and          *)
(* announces every change to the pages.  The two run at once, and the files *)
(* change meanwhile.  The system may refuse a watch and lose events, which  *)
(* nobody looks at, and a directory may come or go with all it has, which   *)
(* is an event of that directory only.                                     *)
(***************************************************************************)
EXTENDS Settings, Sequences

CONSTANTS
    Tops,      \* the names of directories in the workspace's own
    Skipped,   \* those of them that are never watched, or ignored
    MaxChanges \* bound

ASSUME WatcherAssumption == Skipped \subseteq Tops /\ "file" \notin Tops /\ MaxChanges \in Nat

\* The workspace is <<>>; a directory in it may have one of its own, and a file.
Own == {<<d>> : d \in Tops}
Paths == Own \cup (Tops \X {"sub", "file"})
IsDir(p) == p = <<>> \/ p[Len(p)] # "file"
Parent(p) == SubSeq(p, 1, Len(p) - 1)
Below(p) == {q \in Paths : Parent(q) = p}

VARIABLES
    tree,      \* the paths that exist
    changes,   \* what the bound counts
    watched,   \* the directories with a watch
    events,    \* watcher.Events: what happened to which path
    walk,      \* the directories that the first walk is still to visit, and to list
    announced, \* which paths exist by what the pages were told
    unseen,    \* history: the paths whose last change was no event that came
    missed     \* history: the workspace's own directories that came after it was
               \* listed, and with no event, or whose watch was refused

watcherVars == <<tree, changes, watched, events, walk, announced, unseen, missed>>

InitWatcher ==
    /\ changes = 0 /\ tree \in IF "files" \in uses THEN {{}, {<<d>> : d \in Tops}} ELSE {{}}
    /\ watched = {} /\ events = <<>> /\ walk = [todo |-> {<<>>}, list |-> {}]
    /\ announced = tree /\ unseen = {} /\ missed = {}

\* shouldSkip: by its name or by what the ignore files say.
ShouldSkip(p) == p # <<>> /\ p[1] \in Skipped

\* What happens to p is an event if its directory has a watch, unless the event is
\* lost (watcher.Errors is ignored); what happens to the paths in B with it is none.
Happens(what, p, B) ==
    /\ changes < MaxChanges /\ changes' = changes + 1
    /\ \/ /\ Parent(p) \in watched
          /\ events' = Append(events, <<what, p>>)
          /\ unseen' = (unseen \ {p}) \cup B /\ missed' = missed \ {p}
       \/ /\ unseen' = unseen \cup {p} \cup B
          /\ missed' = IF what = "create" /\ p \in Own /\ <<>> \notin walk.todo \cup walk.list
                       THEN missed \cup {p} ELSE missed \ {p}
          /\ UNCHANGED events

\* A path is made, or a directory is moved here with what it has.
Comes(p) ==
    /\ p \notin tree /\ Parent(p) \in tree \cup {<<>>}
    /\ \E B \in SUBSET Below(p) : tree' = tree \cup {p} \cup B /\ Happens("create", p, B)
    /\ UNCHANGED <<watched, walk, announced>>

\* It is deleted, or moved away with what it has; a rename within the workspace is
\* both.  The watch of a directory goes with it.
Leaves(p) ==
    /\ p \in tree
    /\ tree' = tree \ ({p} \cup Below(p)) /\ Happens("remove", p, tree \cap Below(p))
    /\ watched' = watched \ ({p} \cup Below(p))
    /\ UNCHANGED <<walk, announced>>

\* watcher.Add, whose error nobody looks at: the system has no watch left, or takes
\* the one of a directory that was just moved away again.
Adds(p) ==
    \/ watched' = watched \cup {p} /\ UNCHANGED missed
    \/ missed' = missed \cup ({p} \cap Own) /\ UNCHANGED watched

\* WalkDir: a directory gets its watch, and is then read.  One that is gone gets
\* none; one to be skipped is not read either.
WalkTo(p) ==
    /\ p \in walk.todo
    /\ IF ShouldSkip(p) \/ p \notin tree \cup {<<>>}
       THEN walk' = [walk EXCEPT !.todo = @ \ {p}] /\ UNCHANGED <<watched, missed>>
       ELSE walk' = [todo |-> walk.todo \ {p}, list |-> walk.list \cup {p}] /\ Adds(p)
    /\ UNCHANGED <<tree, changes, events, announced, unseen>>

ReadDir(p) ==
    /\ p \in walk.list
    /\ walk' = [todo |-> walk.todo \cup {q \in tree : Parent(q) = p /\ IsDir(q)},
                list |-> walk.list \ {p}]
    /\ UNCHANGED <<tree, changes, watched, events, announced, unseen, missed>>

Announced(what, p) == IF what = "create" THEN announced \cup {p} ELSE announced \ {p}

HandleEventFlat ==
    /\ events # <<>> /\ events' = Tail(events)
    /\ LET what == Head(events)[1]
           p == Head(events)[2]
       IN  /\ announced' = Announced(what, p)
           /\ UNCHANGED <<watched, missed>>
    /\ UNCHANGED <<tree, changes, walk, unseen>>

\* A created path that is a directory, and still there, is watched; not what it
\* has got in it by then.
HandleEvent ==
    /\ events # <<>> /\ events' = Tail(events)
    /\ LET what == Head(events)[1]
           p == Head(events)[2]
       IN  /\ announced' = Announced(what, p)
           /\ IF what = "create" /\ IsDir(p) /\ p \in tree /\ ~ShouldSkip(p)
              THEN Adds(p) ELSE UNCHANGED <<watched, missed>>
    /\ UNCHANGED <<tree, changes, walk, unseen>>

WatcherStep ==
    /\ "files" \in uses
    /\ \/ \E p \in Paths : Comes(p) \/ Leaves(p)
       \/ \E p \in Paths \cup {<<>>} : WalkTo(p) \/ ReadDir(p)
       \/ HandleEvent
    /\ UNCHANGED settingsVars

-----------------------------------------------------------------------------
(* Properties.                                                             *)

AtRest == events = <<>> /\ walk.todo = {} /\ walk.list = {}

\* Once all events are handled, each of the workspace's own directories has its
\* watch, those that came, or went and came again, during the first walk too,
\* unless the system refused it or lost the event of a later one; and the pages
\* know of each path whose last change was an event that came whether it is there.
TreeIsFollowed ==
    AtRest => /\ \A p \in tree \cap Own : ShouldSkip(p) \/ p \in watched \cup missed
              /\ \A p \in Paths \ unseen : (p \in announced) = (p \in tree)

-----------------------------------------------------------------------------
(* What comments promise and the code does not always keep.                *)

\* server.go:456 "The event loop handles events as dirs are added": a directory that
\* came in a new one before that got its watch, or with it, never gets one.
AllAreWatched == AtRest => \A p \in tree : IsDir(p) /\ ~ShouldSkip(p) => p \in watched \cup missed

\* server.go:430 "broadcasts file events": not of what was made in a new directory
\* before its watch, nor of what a directory that is renamed has.
AllIsAnnounced ==
    AtRest => \A p \in Paths : ~ShouldSkip(p) /\ Parent(p) \in watched
                                  => (p \in announced) = (p \in tree)
=============================================================================
