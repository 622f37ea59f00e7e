------------------------------- MODULE Effects -------------------------------
(***************************************************************************)
(* What the actions of an archive window are for (SyncAction in            *)
(* src/app/message.rs): each does to a tree at once what its name says.    *)
(* This is no code: Watcher measures with it what the list of actions is   *)
(* worth, and Archive what the calls to Drive have done.                   *)
(*                                                                         *)
(* A tree is a set of pairs, of a path and what is there: the content of a *)
(* file, or Folder.                                                        *)
(***************************************************************************)
EXTENDS Naturals, Sequences, SequencesExt

Folder == << >>    \* the content of a folder

PathsOf(tree) == {x[1] : x \in tree}
TreeOf(f) == {<<p, f[p]>> : p \in DOMAIN f}

Gone(tree, path) == {x \in tree : ~IsPrefix(path, x[1])}

\* Whatever the tree has at these places is replaced.
Over(tree, new) == {x \in tree : x[1] \notin PathsOf(new)} \union new

Ancestors(path) == {SubSeq(path, 1, n) : n \in 1..(Len(path) - 1)}
WithFolders(tree, path) ==
  tree \union {<<p, Folder>> : p \in Ancestors(path) \ PathsOf(tree)}

\* The file or folder that is `now' at this path comes to the tree; nothing does if there is
\* none.
Brought(tree, now, path) ==
  IF path \notin DOMAIN now \/ (now[path] = Folder /\ path \in PathsOf(tree)) THEN tree
  ELSE Over(WithFolders(tree, path), {<<path, now[path]>>})

\* What is at, or below, the first path, seen from there.
Part(tree, path) ==
  {<<SubSeq(x[1], Len(path) + 1, Len(x[1])), x[2]>> : x \in {y \in tree : IsPrefix(path, y[1])}}
MovedTo(tree, from, to) ==
  Over(WithFolders(Gone(tree, from), to), {<<to \o x[1], x[2]>> : x \in Part(tree, from)})

\* What was never there is not moved: it is brought.
Performed(tree, now, act) ==
  LET there == act.from \in PathsOf(tree)
  IN CASE act.kind \in {"Delete", "RemoveFolder"} -> Gone(tree, act.to)
       [] act.kind \in {"Move", "MoveFolder"} /\ there -> MovedTo(tree, act.from, act.to)
       [] act.kind = "MoveAndUpload" /\ there ->
            Brought(MovedTo(tree, act.from, act.to), now, act.to)
       [] OTHER -> Brought(tree, now, act.to)

\* Actions after which nothing is at, or below, a path that one of them deletes or moves
\* something from, and what one of them brings somewhere is there: a file if it is to be
\* uploaded, a folder if that is asked for.  The watched folder itself is not deleted.
Plain(now, acts) ==
  \A act \in Range(acts) :
    /\ act.kind \notin {"Upload", "EnsureFolder"} => \A p \in DOMAIN now : ~IsPrefix(act.from, p)
    /\ IF act.kind \in {"Delete", "RemoveFolder"} THEN act.to # << >> ELSE act.to \in DOMAIN now
    /\ act.kind \in {"Upload", "MoveAndUpload"} => now[act.to] # Folder
    /\ act.kind = "EnsureFolder" => now[act.to] = Folder

\* The tree after the first n of these actions.
Course(tree, now, acts) ==
  LET c[n \in 0..Len(acts)] == IF n = 0 THEN tree ELSE Performed(c[n - 1], now, acts[n])
  IN c
=============================================================================
