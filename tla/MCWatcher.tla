----------------------------- MODULE MCWatcher ------------------------------
(* Watched folders for TLC to explore. *)
EXTENDS Watcher

\* Files at the top and in two folders, one of which is there.
FlatFiles == {<<"a">>, <<"b">>, <<"f", "a">>, <<"g", "a">>}
FlatFolders == {<<"f">>, <<"g">>}
FlatPresent == {<<"a">>, <<"f">>, <<"f", "a">>}

\* A file in a folder in a folder, and a second name for each folder.
DeepFiles == {<<f, s, "a">> : f \in {"f", "g"}, s \in {"s", "t"}}
DeepFolders == {<<"f">>, <<"g">>} \union {<<f, s>> : f \in {"f", "g"}, s \in {"s", "t"}}
DeepPresent == {<<"f">>, <<"f", "s">>, <<"f", "s", "a">>}
=============================================================================
