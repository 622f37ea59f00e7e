------------------------------ MODULE MCArchive ------------------------------
(* Changes of a watched folder for TLC to archive. *)
EXTENDS Archive, Coalesce

\* The files and folders; a file is its content.
Tree(folders, files) == files @@ [p \in folders |-> Folder]

\* A scenario: the folder, and the windows that follow, each with its events and the folder
\* after them.  The watcher, which has scanned the folder when it was started, makes the
\* actions of the events.
Coalesced(s) ==
  LET scan == [p \in DOMAIN s.before |-> [inode |-> p, folder |-> s.before[p] = Folder]]
      Actions(events) == ToSyncActions(AppendEvents(EmptyTransaction, scan, events))
  IN [s EXCEPT !.windows = [i \in DOMAIN @ |-> [after |-> @[i].after,
                                               actions |-> Actions(@[i].events)]]]
Scenario(before, windows) == [before |-> before, windows |-> windows]

RenameOf(folder, from, to, inode) ==
  [kind |-> IF folder THEN "FolderRenamed" ELSE "FileRenamed",
   path |-> from, to |-> to, inode |-> inode]
Event(kind, path) == [kind |-> kind, path |-> path, inode |-> path]
Wrote(path, inode) == [kind |-> "FileModified", path |-> path, inode |-> inode, new |-> inode]

f == <<"f">>
g == <<"g">>
fa == <<"f", "a">>
fb == <<"f", "b">>
ga == <<"g", "a">>
gs == <<"g", "s">>
b == <<"b">>
c == <<"c">>
ca == <<"c", "a">>

FolderWithFile == Tree({f}, fa :> <<1>>)

\* A folder is renamed, and the file in it is written.
RenameAndWrite ==
  Scenario(FolderWithFile,
    <<[after |-> Tree({g}, ga :> <<2>>),
       events |-> <<RenameOf(TRUE, f, g, f), RenameOf(FALSE, fa, ga, fa), Wrote(ga, fa)>>]>>)

\* A new folder gets two files; then one of them goes to the top and is written.
NewFolder ==
  Scenario(FolderWithFile,
    <<[after |-> Tree({f, g}, (fa :> <<1>>) @@ (ga :> <<2>>) @@ (<<"g", "b">> :> <<3>>)),
       events |-> <<Event("FolderCreated", g), Event("FileCreated", ga),
                    Event("FileCreated", <<"g", "b">>)>>],
      [after |-> Tree({f, g}, (fa :> <<1>>) @@ (ga :> <<2>>) @@ (b :> <<4>>)),
       events |-> <<RenameOf(FALSE, <<"g", "b">>, b, <<"g", "b">>), Wrote(b, <<"g", "b">>)>>]>>)

\* A folder is renamed; a new folder with another file takes its name, is removed, and
\* comes again.
NameTakenAgain ==
  Scenario(FolderWithFile,
    <<[after |-> Tree({g}, ga :> <<1>>),
       events |-> <<RenameOf(TRUE, f, g, f), RenameOf(FALSE, fa, ga, fa)>>],
      [after |-> Tree({f, g}, (ga :> <<1>>) @@ (fb :> <<2>>)),
       events |-> <<Event("FolderCreated", f), Event("FileCreated", fb)>>],
      [after |-> Tree({g}, ga :> <<1>>),
       events |-> <<Event("FolderRemoved", f)>>],
      [after |-> Tree({f, g}, (ga :> <<1>>) @@ (fb :> <<3>>)),
       events |-> <<Event("FolderCreated", f), Event("FileCreated", fb)>>]>>)

\* The file moves to the top, its folder is removed, and the file is.
Emptied ==
  Scenario(FolderWithFile,
    <<[after |-> Tree({}, b :> <<1>>),
       events |-> <<RenameOf(FALSE, fa, b, fa), Event("FolderRemoved", f)>>],
      [after |-> Tree({}, << >>), events |-> <<Event("FileRemoved", b)>>]>>)

\* Two new folders, one in the other, with a file; the file moves up, and the inner folder
\* is removed.
Nested ==
  Scenario(FolderWithFile,
    <<[after |-> Tree({f, g, gs}, (fa :> <<1>>) @@ (<<"g", "s", "b">> :> <<2>>)),
       events |-> <<Event("FolderCreated", g), Event("FolderCreated", gs),
                    Event("FileCreated", <<"g", "s", "b">>)>>],
      [after |-> Tree({f, g}, (fa :> <<1>>) @@ (<<"g", "b">> :> <<3>>)),
       events |-> <<RenameOf(FALSE, <<"g", "s", "b">>, <<"g", "b">>, <<"g", "s", "b">>),
                    Wrote(<<"g", "b">>, <<"g", "s", "b">>), Event("FolderRemoved", gs)>>]>>)

\* A folder is renamed; another one gets its name, and a file, and goes back.  If the first
\* move has failed, the name is taken on Drive when the second one goes there.
NameLeftTaken ==
  Scenario(Tree({f, c}, fa :> <<1>>),
    <<[after |-> Tree({g, c}, ga :> <<1>>),
       events |-> <<RenameOf(TRUE, f, g, f), RenameOf(FALSE, fa, ga, fa)>>],
      [after |-> Tree({g, f}, (ga :> <<1>>) @@ (fa :> <<2>>)),
       events |-> <<RenameOf(TRUE, c, f, c), [Event("FileCreated", fa) EXCEPT !.inode = <<"a">>]>>],
      [after |-> Tree({g, c}, (ga :> <<1>>) @@ (ca :> <<2>>)),
       events |-> <<RenameOf(TRUE, f, c, c), RenameOf(FALSE, fa, ca, <<"a">>)>>]>>)

\* Only the first n windows.
First(n, s) == [s EXCEPT !.windows = SubSeq(@, 1, n)]

Few == {Coalesced(s) : s \in {RenameAndWrite, NewFolder, First(3, NameTakenAgain), Emptied,
                              NameLeftTaken}}
All == {Coalesced(s) : s \in {RenameAndWrite, NewFolder, NameTakenAgain, Emptied, Nested,
                              NameLeftTaken}}

\* The theorems on what reaches Drive suppose this of the windows.
ASSUME ScenariosArePlain == PlainWindows /\ WindowsLeadOn
=============================================================================
