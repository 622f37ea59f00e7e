---------------------------- MODULE MCLifecycle ----------------------------
(* Lifecycle with interchangeable accounts and folders, for TLC. *)
EXTENDS Lifecycle, TLC

Symmetry == Permutations(Accounts) \union Permutations(Folders)
=============================================================================
