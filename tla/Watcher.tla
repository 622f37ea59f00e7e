------------------------------- MODULE Watcher -------------------------------
(***************************************************************************)
(* The folder watcher, fs_watch in src/app/subscriptions.rs: the user      *)
(* changes the watched folder, the watcher's events are collected in a     *)
(* batch, and when an archive window ends the batch becomes the list of    *)
(* actions that is to bring Drive up to date (module Coalesce).            *)
(*                                                                         *)
(* What the user does, and which events it gives, is the environment: the  *)
(* crate fs_watcher is not in the repository, so the events are those that *)
(* the tests and comments of coalesce.rs show for each change.             *)
(*                                                                         *)
(* `remote' is a yardstick, not code: the tree that the actions of all     *)
(* windows give when each does at once what its name says (Effects).  What *)
(* the calls to Drive really do is in Archive.                             *)
(***************************************************************************)
EXTENDS Coalesce, Effects, FiniteSets, TLC

CONSTANTS
  FilePaths,     \* the paths at which there may be a file
  FolderPaths,   \* the paths at which there may be a folder
  Present,       \* the paths that are there when the watcher starts
  Kinds,         \* what the user does, a subset of AllKinds
  Windows,       \* a file that comes from outside is FileCreated, not FileAdded
  Reuse,         \* a path may be taken again in the window in which it was left
  Calm,          \* a window ends when every event has arrived, and its actions are
                 \* done before the user's next change
  MaxChanges,    \* BOUND: changes the user makes
  MaxEarly,      \* BOUND: of these, changes between the start of the watcher and the scan
  MaxWindows     \* BOUND: windows that end with events

AllKinds == {"create", "write", "save", "leave", "return", "rename", "replace",
             "replace folder"}

ASSUME WatcherAssumption ==
  /\ FilePaths \cap FolderPaths = {} /\ Present \subseteq FilePaths \union FolderPaths
  /\ Kinds \subseteq AllKinds /\ Windows \in BOOLEAN /\ {Calm, Reuse} \subseteq BOOLEAN
  /\ {MaxChanges, MaxEarly, MaxWindows} \subseteq Nat

VARIABLES
  local,      \* the watched folder: path |-> [inode, folder, content]
  away,       \* what left it and may return: trees, relative path |-> entry
  changes,    \* changes so far; also numbers contents and inodes
  queue,      \* events on the way from the operating system
  batch,      \* events of the current window
  scanned,    \* the folder was scanned, after the watcher was started
  index,      \* FsIndex, scanned once: path |-> [inode, folder]
  actions,    \* the last list of actions
  windows,    \* how many windows ended
  remote,     \* the tree that the actions have given
  panicked,   \* the watcher is gone
  early,      \* history: the events that there were when it was scanned
  past        \* history: which of these happened, see Oddities

vars == <<local, away, changes, queue, batch, scanned, index, actions, windows, remote,
          panicked, early, past>>

\* What a property may have to except: a path was taken again in the window in which it
\* was left; a window ended while events were on their way; a folder moved, and what is in
\* it or around it moved or went in the same window, by another change; a folder's move
\* came after an action on what is in it; a folder was replaced that had something the
\* scan had not seen; a folder went or was replaced in the window of a change in or around
\* it that was before the scan; on Windows, a file came back in the window in which it had
\* left.
Oddities == {"reused", "cut", "nested", "late", "unscanned", "came back", "early"}

ContentOf(tree) == [p \in DOMAIN tree |-> IF tree[p].folder THEN Folder ELSE tree[p].content]

Within(tree, path) == {p \in DOMAIN tree : IsPrefix(path, p)}
Relative(p, path) == SubSeq(p, Len(path) + 1, Len(p))
Subtree(tree, path) ==
  [r \in {Relative(p, path) : p \in Within(tree, path)} |-> tree[path \o r]]
Without(tree, path) == Restrict(tree, DOMAIN tree \ Within(tree, path))
Planted(tree, path, sub) ==
  [p \in {path \o r : r \in DOMAIN sub} |-> sub[Relative(p, path)]] @@ tree

\* An event of this window names the path, or a folder that went with all it had.
Named(path) ==
  \E e \in Range(batch \o queue) :
     \/ e.path = path
     \/ e.kind \in {"FileRenamed", "FolderRenamed"} /\ e.to = path
     \/ e.kind \in {"FolderRemoved", "FolderReplaced"} /\ Below(path, e.path)

\* A place that something can be put: its folder is there and it is not taken.
Free(path, folder) ==
  /\ path \in (IF folder THEN FolderPaths ELSE FilePaths) /\ path \notin DOMAIN local
  /\ Len(path) > 1 => Parent(path) \in DOMAIN local
  /\ Reuse \/ ~Named(path)
Fits(sub, path) ==
  /\ Free(path, sub[<< >>].folder)
  /\ \A r \in DOMAIN sub : path \o r \in (IF sub[r].folder THEN FolderPaths ELSE FilePaths)

Entry(inode, folder, content) == [inode |-> inode, folder |-> folder, content |-> content]
Stamp(path) == <<changes + 1, path>>

\* FsIndex::scan.
Scan(tree) ==
  [p \in DOMAIN tree |-> [inode |-> tree[p].inode, folder |-> tree[p].folder]]

\* The watcher was started: there are events from now on.
Init ==
  /\ local = [p \in Present |-> Entry(<<0, p>>, p \in FolderPaths, <<0, p>>)]
  /\ scanned = FALSE /\ index = << >>
  /\ remote = TreeOf(ContentOf(local))
  /\ away = {} /\ changes = 0 /\ queue = << >> /\ batch = << >> /\ actions = << >>
  /\ windows = 0 /\ panicked = FALSE /\ early = {} /\ past = {}

-----------------------------------------------------------------------------
(* What the user does, with its events *)

\* Parents come before their children.
TopDown(paths) == SetToSortSeq(paths, LAMBDA p, q : Len(p) < Len(q))

Comes(folder) ==
  IF folder THEN "FolderAdded" ELSE IF Windows THEN "FileCreated" ELSE "FileAdded"
RenamedEvent(tree, from, to, r) ==
  [kind |-> IF tree[from \o r].folder THEN "FolderRenamed" ELSE "FileRenamed",
   path |-> from \o r, to |-> to \o r, inode |-> tree[from \o r].inode]

\* The paths an event is about; for a folder that returns, also where it was before.
EventPaths(e) ==
  {e.path} \union (IF "to" \in DOMAIN e THEN {e.to} ELSE {})
           \union (IF e.kind = "FolderAdded"
                   THEN {d.path : d \in {c \in Range(batch \o queue) :
                                           c.kind = "FolderRemoved" /\ c.inode = e.inode}}
                   ELSE {})
Related(e, d) ==
  \E p \in EventPaths(e), q \in EventPaths(d) : IsPrefix(p, q) \/ IsPrefix(q, p)

\* Events that say of an object that it is elsewhere, or gone; of these, a moved folder.
Relocations == {"FileRemoved", "FileRenamed", "FileAdded", "FolderRemoved", "FolderReplaced",
                "FolderRenamed", "FolderAdded"}
FolderMoves == {"FolderRenamed", "FolderAdded"}
Nests(e, d) ==
  /\ {e.kind, d.kind} \subseteq Relocations /\ {e.kind, d.kind} \cap FolderMoves # {}
  /\ (e.inode = d.inode => d.kind = "FolderReplaced" \/ e.kind = "FolderReplaced")
  /\ Related(e, d)

Early == IF scanned THEN early ELSE Range(queue)

Happens(oddity, tree, events) ==
  CASE oddity = "reused" -> \E p \in DOMAIN tree \ DOMAIN local : Named(p)
    [] oddity = "nested" -> \E e \in Range(events), d \in Range(batch \o queue) : Nests(e, d)
    [] oddity = "unscanned" ->
         \E e \in Range(events), p \in DOMAIN local \ DOMAIN index :
            e.kind = "FolderReplaced" /\ Below(p, e.path)
    [] oddity = "early" ->
         \E e \in Range(events), d \in Early \cap Range(batch \o queue) :
            {e.kind, d.kind} \cap {"FolderRemoved", "FolderReplaced"} # {} /\ Related(e, d)
    [] oddity = "came back" ->
         \E e \in Range(events), d \in Range(batch \o queue) :
            /\ e.kind = "FileCreated" /\ e.inode # Stamp(e.path)
            /\ d.kind \in {"FileRemoved", "FolderRemoved"}

Change(kind, tree, events) ==
  /\ kind \in Kinds /\ changes < (IF scanned THEN MaxChanges ELSE MaxEarly)
  /\ local' = tree /\ queue' = queue \o events /\ changes' = changes + 1
  /\ past' = past \union {x \in Oddities \ {"cut", "late"} : Happens(x, tree, events)}
  /\ UNCHANGED <<batch, scanned, index, actions, windows, remote, panicked, early>>

Create(path) ==
  LET folder == path \in FolderPaths
  IN /\ Free(path, folder) /\ UNCHANGED away
     /\ Change("create", (path :> Entry(Stamp(path), folder, Stamp(path))) @@ local,
               <<[kind |-> IF folder THEN "FolderCreated" ELSE "FileCreated",
                  path |-> path, inode |-> Stamp(path)]>>)

\* In place, or by way of a temporary file.
Write(path) ==
  /\ path \in DOMAIN local \cap FilePaths /\ UNCHANGED away
  /\ \/ Change("write", [local EXCEPT ![path].content = Stamp(path)],
               <<[kind |-> "FileModified", path |-> path,
                  inode |-> local[path].inode, new |-> local[path].inode]>>)
     \/ Change("save", [local EXCEPT ![path].content = Stamp(path),
                                     ![path].inode = Stamp(path)],
               <<[kind |-> "FileModified", path |-> path,
                  inode |-> local[path].inode, new |-> Stamp(path)]>>)

\* Removed, or moved out of the watched folder: one event, also for a folder.
Leave(path) ==
  /\ path \in DOMAIN local /\ away' = away \union {Subtree(local, path)}
  /\ Change("leave", Without(local, path),
            <<[kind |-> IF local[path].folder THEN "FolderRemoved" ELSE "FileRemoved",
               path |-> path, inode |-> local[path].inode]>>)

Return(sub, path) ==
  LET order == TopDown(DOMAIN sub)
  IN /\ Fits(sub, path) /\ away' = away \ {sub}
     /\ Change("return", Planted(local, path, sub),
               [i \in DOMAIN order |-> [kind |-> Comes(sub[order[i]].folder),
                                        path |-> path \o order[i],
                                        inode |-> sub[order[i]].inode]])

Rename(from, to) ==
  LET sub == Subtree(local, from)
      order == TopDown(DOMAIN sub)
  IN /\ from \in DOMAIN local /\ ~IsPrefix(from, to) /\ Fits(sub, to) /\ UNCHANGED away
     /\ Change("rename", Planted(Without(local, from), to, sub),
               [i \in DOMAIN order |-> RenamedEvent(local, from, to, order[i])])

\* Something from outside takes its place: a file, or an empty folder.
Replace(path) ==
  LET folder == path \in FolderPaths
  IN /\ path \in DOMAIN local /\ UNCHANGED away
     /\ Change(IF folder THEN "replace folder" ELSE "replace",
               (path :> Entry(Stamp(path), folder, Stamp(path))) @@ Without(local, path),
               <<[kind |-> IF folder THEN "FolderReplaced" ELSE "FileReplaced",
                  path |-> path, inode |-> local[path].inode, new |-> Stamp(path)]>>)

-----------------------------------------------------------------------------
(* The watcher *)

\* The folder moves, each with an earlier action on what is in the folder.
LateMoves(list) ==
  {<<i, j>> \in (DOMAIN list) \X (DOMAIN list) :
     i < j /\ list[j].kind = "MoveFolder" /\ Below(list[i].to, list[j].to)}

\* What has happened since the start is seen by the scan, and told by events as well.
Scanned ==
  /\ ~scanned /\ scanned' = TRUE /\ index' = Scan(local) /\ early' = Range(queue)
  /\ UNCHANGED <<local, away, changes, queue, batch, actions, windows, remote, panicked, past>>

EventReceived ==
  /\ scanned /\ ~panicked /\ queue # << >>
  /\ batch' = Append(batch, Head(queue)) /\ queue' = Tail(queue)
  /\ UNCHANGED <<local, away, changes, scanned, index, actions, windows, remote, panicked,
                 early, past>>

EndsWith(oddity, tx) ==
  IF oddity = "cut" THEN queue # << >> ELSE ~tx.panicked /\ LateMoves(ToSyncActions(tx)) # {}

\* The window ends.  (An empty batch only makes the next window longer.)
WindowEnds ==
  LET tx == AppendEvents(EmptyTransaction, index, batch)
      list == ToSyncActions(tx)
  IN /\ ~panicked /\ batch # << >> /\ windows < MaxWindows /\ (Calm => queue = << >>)
     /\ windows' = windows + 1
     /\ past' = past \union {x \in {"cut", "late"} : EndsWith(x, tx)}
     /\ IF tx.panicked
        THEN panicked' = TRUE /\ UNCHANGED <<batch, actions, remote>>
        ELSE /\ batch' = << >>
             /\ actions' = list
             /\ remote' = Course(remote, ContentOf(local), list)[Len(list)]
             /\ UNCHANGED panicked
     /\ UNCHANGED <<local, away, changes, queue, scanned, index, early>>

UserStep ==
  \/ \E path \in FilePaths \union FolderPaths :
        Create(path) \/ Write(path) \/ Leave(path) \/ Replace(path)
  \/ \E sub \in away, path \in FilePaths \union FolderPaths : Return(sub, path)
  \/ \E from, to \in FilePaths \union FolderPaths : Rename(from, to)

Next == UserStep \/ Scanned \/ EventReceived \/ WindowEnds
Spec == Init /\ [][Next]_vars

-----------------------------------------------------------------------------
(* Properties *)

(* The assertions "Impossible case" of coalesce.rs: no sequence of events meets them, but *)
(* for a path that is taken again, or a file that is back under its inode on Windows:    *)
(* append_created_file drops the old inode and does not record the new one.  A panic     *)
(* ends the watcher's stream, and no later change reaches Drive until the application   *)
(* is started again.                                                                    *)
PanicNeedsReuse == panicked => past \cap {"reused", "came back"} # {}

(* "Ensure folder operations precede actions on their children", says to_sync_actions,   *)
(* "MoveFolder { f->g } before Upload("g/b.txt")".  The comparison of its sort is not    *)
(* transitive: a folder's move stays behind an action on what is in it when an action    *)
(* that has nothing to do with the folder is between them.                              *)
FolderMovesFirst ==
  \A x \in LateMoves(actions) :
    \E k \in x[1] + 1 .. x[2] - 1 : ~Below(actions[k].to, actions[x[2]].to)

(* When the windows have ended and every event was seen, Drive holds the files and      *)
(* folders of the watched folder, at the same paths and with the same content: merging  *)
(* events, leaving out covered moves and deletes, and sorting lose nothing.  And no      *)
(* action of the last window takes away what is there, or brings what is not.  Except   *)
(*   - a path that is taken again while a window ends: the upload of the first window   *)
(*     finds nothing there, and in the next one nothing is left to upload;              *)
(*   - "nested": actions name what they act on by the path it had when the window       *)
(*     began, which is not its path any more when a folder around it has moved;         *)
(*   - "late": the sort, see FolderMovesFirst;                                          *)
(*   - "unscanned": a folder that is replaced is expanded with the scan of the start;   *)
(*   - "early": the scan has seen the outcome of events that come after it, so that a   *)
(*     folder that went is expanded to what it had then, or to nothing;                 *)
(*   - "came back": the copy under the old name stays.                                  *)
Mirrors ==
  /\ queue = << >> /\ batch = << >> /\ ~panicked
  /\ ~({"reused", "cut"} \subseteq past)
  /\ past \cap {"nested", "late", "unscanned", "came back", "early"} = {}
  => remote = TreeOf(ContentOf(local)) /\ Plain(ContentOf(local), actions)
=============================================================================
