------------------------------ MODULE Coalesce ------------------------------
(***************************************************************************)
(* EventsTransaction of src/app/coalesce.rs: the file system events of one *)
(* archive window are merged into at most one entry per file or folder,    *)
(* and the entries are turned into the actions to perform on Drive.        *)
(*                                                                         *)
(* A path is a sequence of names below the watched folder.  A transaction  *)
(* is a record: two maps, from the current path and the current inode to   *)
(* the id of an entry, the entries, and the last id given.  `panicked' is  *)
(* set where the code panics; nothing is appended after that.              *)
(***************************************************************************)
EXTENDS Naturals, Sequences, SequencesExt

Flags == {"RENAMED", "MODIFIED", "REMOVED", "CREATED", "ADDED", "REPLACED"}

EmptyTransaction ==
  [paths |-> << >>, inodes |-> << >>, entries |-> << >>, last |-> 0, panicked |-> FALSE]

Parent(path) == Front(path)
Below(path, folder) == IsStrictPrefix(folder, path)

Bind(f, k, v) == (k :> v) @@ f
Drop(f, k) == Restrict(f, DOMAIN f \ {k})

\* The match on (path_to_id[path], inode_to_id[inode]).
Neither(tx, path, inode) == path \notin DOMAIN tx.paths /\ inode \notin DOMAIN tx.inodes
OnlyPath(tx, path, inode) == path \in DOMAIN tx.paths /\ inode \notin DOMAIN tx.inodes
OnlyInode(tx, path, inode) == path \notin DOMAIN tx.paths /\ inode \in DOMAIN tx.inodes
Same(tx, path, inode) ==
  /\ path \in DOMAIN tx.paths /\ inode \in DOMAIN tx.inodes
  /\ tx.paths[path] = tx.inodes[inode]

Panic(tx) == [tx EXCEPT !.panicked = TRUE]

\* A new entry, found under its current path and inode.
Track(tx, flag, folder, initial, current, inode) ==
  LET id == tx.last + 1
  IN [tx EXCEPT !.last = id,
                !.paths = Bind(@, current, id),
                !.inodes = Bind(@, inode, id),
                !.entries = Bind(@, id, [action |-> {flag}, folder |-> folder,
                                        initial |-> initial, current |-> current,
                                        inode |-> inode])]

\* The entry disappears from all three maps.
Untrack(tx, id, path, inode) ==
  [tx EXCEPT !.paths = Drop(@, path), !.inodes = Drop(@, inode), !.entries = Drop(@, id)]

-----------------------------------------------------------------------------
(* Files *)

CreatedFile(tx, path, inode) ==
  CASE Neither(tx, path, inode) -> Track(tx, "CREATED", FALSE, path, path, inode)
    [] OnlyInode(tx, path, inode) ->
         LET id == tx.inodes[inode]
         IN [tx EXCEPT !.paths = Drop(@, tx.entries[id].current),
                       !.entries[id].action = (@ \ {"REMOVED"}) \union {"CREATED"},
                       !.entries[id].current = path]
    [] OnlyPath(tx, path, inode) ->
         LET id == tx.paths[path]
         IN [tx EXCEPT !.inodes = Drop(@, tx.entries[id].inode),
                       !.entries[id].action = (@ \ {"REMOVED"}) \union {"CREATED"},
                       !.entries[id].inode = inode]
    [] OTHER ->
         [tx EXCEPT !.entries[tx.paths[path]].action =
                       (@ \ {"REMOVED"}) \union {"CREATED"}]

RemovedFile(tx, path, inode) ==
  CASE Neither(tx, path, inode) -> Track(tx, "REMOVED", FALSE, path, path, inode)
    [] Same(tx, path, inode) ->
         LET id == tx.paths[path]
         IN IF tx.entries[id].action \cap {"ADDED", "CREATED"} # {}
            THEN Untrack(tx, id, path, inode)
            ELSE [tx EXCEPT !.entries[id].action = @ \union {"REMOVED"}]
    [] OTHER -> Panic(tx)

AddedFile(tx, path, inode) ==
  CASE Neither(tx, path, inode) -> Track(tx, "ADDED", FALSE, path, path, inode)
    [] OnlyInode(tx, path, inode) ->
         LET id == tx.inodes[inode]
         IN [tx EXCEPT !.paths = Bind(Drop(@, tx.entries[id].current), path, id),
                       !.entries[id].action =
                          (@ \ {"REMOVED"}) \union {"MODIFIED", "RENAMED"},
                       !.entries[id].current = path]
    [] OnlyPath(tx, path, inode) ->
         LET id == tx.paths[path]
         IN [tx EXCEPT !.inodes = Bind(Drop(@, tx.entries[id].inode), inode, id),
                       !.entries[id].action = (@ \ {"REMOVED"}) \union {"MODIFIED"},
                       !.entries[id].inode = inode]
    [] Same(tx, path, inode) ->
         [tx EXCEPT !.entries[tx.paths[path]].action =
                       (@ \ {"REMOVED"}) \union {"MODIFIED"}]
    [] OTHER -> Panic(tx)

Modified(tx, path, inode) ==
  CASE Neither(tx, path, inode) -> Track(tx, "MODIFIED", FALSE, path, path, inode)
    [] Same(tx, path, inode) ->
         [tx EXCEPT !.entries[tx.paths[path]].action = @ \union {"MODIFIED"}]
    [] OTHER -> Panic(tx)

\* Mutant: the entry is still found under the old inode.
Exchanged_OldInode(tx, flag, folder, path, from, to) ==
  CASE Neither(tx, path, from) -> Track(tx, flag, folder, path, path, from)
    [] Same(tx, path, from) ->
         [tx EXCEPT !.entries[tx.paths[path]].action = @ \union {flag}]
    [] OTHER -> Panic(tx)

\* The content of the entry was exchanged: `flag' says by what.
Exchanged(tx, flag, folder, path, from, to) ==
  CASE Neither(tx, path, from) -> Track(tx, flag, folder, path, path, to)
    [] Same(tx, path, from) ->
         LET id == tx.paths[path]
         IN [tx EXCEPT !.inodes = Bind(Drop(@, from), to, id),
                       !.entries[id].action = @ \union {flag},
                       !.entries[id].inode = to]
    [] OTHER -> Panic(tx)

ModifiedWithInodeChange(tx, path, old, new) ==
  Exchanged(tx, "MODIFIED", FALSE, path, old, new)

\* Files and folders alike.  An entry that is back at its initial path, and is not
\* otherwise changed, is forgotten.
Renamed(tx, folder, from, to, inode) ==
  CASE Neither(tx, from, inode) -> Track(tx, "RENAMED", folder, from, to, inode)
    [] Same(tx, from, inode) ->
         LET id == tx.paths[from]
             back == tx.entries[id].initial = to
             action == IF back THEN tx.entries[id].action \ {"RENAMED"}
                               ELSE tx.entries[id].action \union {"RENAMED"}
         IN IF action = {} THEN Untrack(tx, id, from, inode)
            ELSE [tx EXCEPT !.paths = Bind(Drop(@, from), to, id),
                            !.entries[id].action = action,
                            !.entries[id].current = to]
    [] OTHER -> Panic(tx)

-----------------------------------------------------------------------------
(* Folders.  `index' is the FsIndex: what the watched folder contained when   *)
(* the watcher was started, a function from paths to [inode, folder].         *)

\* A folder's own part of append_removed_folder.  The entry moves to a new id, behind
\* the entries of the folder's children.
RemovedFolderItself(tx, path, inode) ==
  CASE Neither(tx, path, inode) -> Track(tx, "REMOVED", TRUE, path, path, inode)
    [] Same(tx, path, inode) ->
         LET id == tx.paths[path]
             new == tx.last + 1
             entry == [tx.entries[id] EXCEPT !.action = @ \union {"REMOVED"}]
         IN IF tx.entries[id].action \cap {"ADDED", "CREATED"} # {}
            THEN Untrack(tx, id, path, inode)
            ELSE [tx EXCEPT !.last = new,
                            !.paths[path] = new, !.inodes[inode] = new,
                            !.entries = Bind(Drop(@, id), new, entry)]
    [] OTHER -> Panic(tx)

RECURSIVE RemovedFolder(_, _, _, _)

\* Mutant: what only the index knows of is forgotten.
ChildrenToRemove_TrackedOnly(tx, index, path) ==
  [tracked |-> {[path |-> p, inode |-> tx.entries[tx.paths[p]].inode,
                 folder |-> tx.entries[tx.paths[p]].folder] :
                  p \in {q \in DOMAIN tx.paths : Parent(q) = path}},
   untracked |-> {}]

\* What is in a folder: the entries found there, and what the index knows of it and no
\* event has named.
ChildrenToRemove(tx, index, path) ==
  [tracked |-> {[path |-> e.current, inode |-> e.inode, folder |-> e.folder] :
                  e \in {tx.entries[tx.paths[p]] :
                            p \in {q \in DOMAIN tx.paths : Parent(q) = path}}},
   untracked |-> {[path |-> p, inode |-> index[p].inode, folder |-> index[p].folder] :
                    p \in {q \in DOMAIN index :
                             Parent(q) = path /\ Neither(tx, q, index[q].inode)}}]

\* First the tracked children are removed, then those that are untracked after that.  The
\* code visits them in the order of a hash map, here it is any fixed order.
RemovedChildren(tx, index, path) ==
  LET Gone(t, child) ==
        IF t.panicked THEN t
        ELSE IF child.folder THEN RemovedFolder(t, index, child.path, child.inode)
        ELSE RemovedFile(t, child.path, child.inode)
      AllGone(t, which) == FoldLeft(Gone, t, SetToSeq(ChildrenToRemove(t, index, path)[which]))
  IN FoldLeft(AllGone, tx, <<"tracked", "untracked">>)

RemovedFolder(tx, index, path, inode) ==
  LET t == RemovedChildren(tx, index, path)
  IN IF t.panicked THEN t ELSE RemovedFolderItself(t, path, inode)

CreatedFolder(tx, path, inode) ==
  CASE Neither(tx, path, inode) -> Track(tx, "CREATED", TRUE, path, path, inode)
    [] OnlyPath(tx, path, inode) ->
         LET id == tx.paths[path]
         IN [tx EXCEPT !.inodes = Drop(@, tx.entries[id].inode),
                       !.entries[id].action = (@ \ {"REMOVED"}) \union {"CREATED"},
                       !.entries[id].inode = inode]
    [] OTHER -> Panic(tx)

AddedFolder(tx, path, inode) ==
  CASE Neither(tx, path, inode) -> Track(tx, "ADDED", TRUE, path, path, inode)
    [] OnlyInode(tx, path, inode) ->
         LET id == tx.inodes[inode]
         IN [tx EXCEPT !.paths = Bind(Drop(@, tx.entries[id].current), path, id),
                       !.entries[id].action = (@ \ {"REMOVED"}) \union {"RENAMED"},
                       !.entries[id].current = path]
    [] OnlyPath(tx, path, inode) ->
         LET id == tx.paths[path]
         IN [tx EXCEPT !.inodes = Bind(Drop(@, tx.entries[id].inode), inode, id),
                       !.entries[id].action = (@ \ {"REMOVED"}) \union {"ADDED"},
                       !.entries[id].inode = inode]
    [] Same(tx, path, inode) ->
         LET id == tx.paths[path]
             action == tx.entries[id].action \ {"REMOVED"}
         IN IF action = {} THEN Untrack(tx, id, path, inode)
            ELSE [tx EXCEPT !.entries[id].action = action]
    [] OTHER -> Panic(tx)

Replaced(tx, index, folder, path, from, to) ==
  LET t == IF folder THEN RemovedChildren(tx, index, path) ELSE tx
  IN IF t.panicked THEN t ELSE Exchanged(t, "REPLACED", folder, path, from, to)

-----------------------------------------------------------------------------
AppendEvent(tx, index, e) ==
  IF tx.panicked THEN tx ELSE
  CASE e.kind = "FileCreated" -> CreatedFile(tx, e.path, e.inode)
    [] e.kind = "FileRemoved" -> RemovedFile(tx, e.path, e.inode)
    [] e.kind = "FileAdded" -> AddedFile(tx, e.path, e.inode)
    [] e.kind = "FileModified" ->
         IF e.inode = e.new THEN Modified(tx, e.path, e.inode)
         ELSE ModifiedWithInodeChange(tx, e.path, e.inode, e.new)
    [] e.kind = "FileRenamed" -> Renamed(tx, FALSE, e.path, e.to, e.inode)
    [] e.kind = "FileReplaced" -> Replaced(tx, index, FALSE, e.path, e.inode, e.new)
    [] e.kind = "FolderRemoved" -> RemovedFolder(tx, index, e.path, e.inode)
    [] e.kind = "FolderAdded" -> AddedFolder(tx, e.path, e.inode)
    [] e.kind = "FolderCreated" -> CreatedFolder(tx, e.path, e.inode)
    [] e.kind = "FolderRenamed" -> Renamed(tx, TRUE, e.path, e.to, e.inode)
    [] e.kind = "FolderReplaced" -> Replaced(tx, index, TRUE, e.path, e.inode, e.new)

AppendEvents(tx, index, events) ==
  FoldLeft(LAMBDA t, e : AppendEvent(t, index, e), tx, events)

-----------------------------------------------------------------------------
(* to_sync_actions *)

Action(kind, from, to) == [kind |-> kind, from |-> from, to |-> to]
At(kind, path) == Action(kind, path, path)

\* The flags are tested in this order.
FolderAction(e) ==
  IF "REMOVED" \in e.action THEN At("RemoveFolder", e.initial)
  ELSE IF "RENAMED" \in e.action /\ e.action \cap {"CREATED", "ADDED"} = {}
       THEN Action("MoveFolder", e.initial, e.current)
       ELSE At("EnsureFolder", e.current)

\* Mutant: a file that was written and renamed is only moved.
FileAction_MoveOnly(e) ==
  IF "REMOVED" \in e.action THEN At("Delete", e.initial)
  ELSE IF "RENAMED" \in e.action /\ e.action \cap {"CREATED", "ADDED"} = {}
       THEN Action("Move", e.initial, e.current)
       ELSE At("Upload", e.current)

FileAction(e) ==
  IF "REMOVED" \in e.action THEN At("Delete", e.initial)
  ELSE IF "RENAMED" \in e.action /\ e.action \cap {"CREATED", "ADDED"} = {}
       THEN Action(IF e.action \cap {"MODIFIED", "REPLACED"} = {} THEN "Move"
                   ELSE "MoveAndUpload", e.initial, e.current)
       ELSE At("Upload", e.current)

\* Entries in the order of their ids.  A folder that is only MODIFIED (a file was added
\* at its path) yields no action.
Entries(tx) ==
  LET ids == SetToSortSeq(DOMAIN tx.entries, <)
      es == [i \in DOMAIN ids |-> tx.entries[ids[i]]]
  IN SelectSeq(es, LAMBDA e : e.action \ (IF e.folder THEN {"MODIFIED"} ELSE {}) # {})

FirstActions(tx) ==
  LET es == Entries(tx)
  IN [i \in DOMAIN es |-> IF es[i].folder THEN FolderAction(es[i]) ELSE FileAction(es[i])]

\* Some MoveFolder takes `from' to `to'.  A folder's own move does not cover it.
Covers(m, a) ==
  /\ m.kind = "MoveFolder"
  /\ a.kind = "MoveFolder" => a.from # m.from
  /\ IsPrefix(m.from, a.from) /\ IsPrefix(m.to, a.to)
  /\ SubSeq(a.from, Len(m.from) + 1, Len(a.from)) = SubSeq(a.to, Len(m.to) + 1, Len(a.to))

\* A covered move is left out, a covered MoveAndUpload is an Upload.
WithoutCoveredMoves(actions) ==
  LET covered(a) == \E i \in DOMAIN actions : Covers(actions[i], a)
      kept == SelectSeq(actions, LAMBDA a : ~(a.kind \in {"Move", "MoveFolder"} /\ covered(a)))
  IN [i \in DOMAIN kept |->
        IF kept[i].kind = "MoveAndUpload" /\ covered(kept[i]) THEN At("Upload", kept[i].to)
        ELSE kept[i]]

WithoutCoveredDeletes(actions) ==
  LET covered(a) == \E i \in DOMAIN actions :
                       actions[i].kind = "RemoveFolder" /\ Below(a.to, actions[i].to)
  IN SelectSeq(actions, LAMBDA a : ~(a.kind \in {"Delete", "RemoveFolder"} /\ covered(a)))

\* The comparison of the sort.  It is not transitive: actions on unrelated paths are
\* equal to it.
Precedes(a, b) == a.kind = "MoveFolder" /\ Below(b.to, a.to)

SortedByFolder_Not(actions) == actions \* mutant: the actions stay as the entries give them

\* sort_by for up to 20 elements: each action in turn moves left past the sorted
\* actions it precedes, until it meets one that it does not.
SortedByFolder(actions) ==
  LET Insert(sorted, a) ==
        LET stops == {i \in DOMAIN sorted : ~Precedes(a, sorted[i])}
            at == IF stops = {} THEN 0 ELSE Max(stops)
        IN SubSeq(sorted, 1, at) \o <<a>> \o SubSeq(sorted, at + 1, Len(sorted))
  IN FoldLeft(Insert, << >>, actions)

ToSyncActions(tx) ==
  SortedByFolder(WithoutCoveredDeletes(WithoutCoveredMoves(FirstActions(tx))))
=============================================================================
