---------------------------- MODULE MCDashboard ----------------------------
(* An organization with up to two members. *)
EXTENDS Dashboard

\* All the addresses, in one order.
MCLists == {SetToSeq(Emails)}

\* Some of the addresses, in any order.
MCAnyLists == SetToAllKPermutations(Emails) \ {<<>>}
=============================================================================
