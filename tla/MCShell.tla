------------------------------ MODULE MCShell ------------------------------
(* Two menus, on a file of the watched folder and one of another folder. *)
EXTENDS Shell

MCFolderOf == [f \in Files |-> f]
MCIncomplete == [f \in Files |-> IF f = CHOOSE g \in Files : TRUE THEN 1 ELSE 0]
=============================================================================
