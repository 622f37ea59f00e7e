------------------------------ MODULE Delivery ------------------------------
(***************************************************************************)
(* What a session promises for the changes it is given: each of them is    *)
(* worked on or waits, never both, until it is settled.  The ones that     *)
(* wait are taken up again together; a change is given up only while the   *)
(* session is not synced.  Tokens, refreshes and tasks are not mentioned.  *)
(***************************************************************************)
CONSTANT Ops

VARIABLES
  place,  \* where each change is
  synced  \* the session is in OrgSynced

vars == <<place, synced>>

Places == {"unseen", "working", "waiting", "done", "failed", "dropped"}

Init ==
  /\ place = [o \in Ops |-> "unseen"]
  /\ synced \in BOOLEAN

Move(S, to) == place' = [o \in Ops |-> IF o \in S THEN to ELSE place[o]]
In(where) == {o \in Ops : place[o] = where}

\* The session is synced, or is not any more.
Enter == synced' \in BOOLEAN /\ UNCHANGED place

Accept == \E batch \in SUBSET In("unseen") : synced /\ Move(batch, "working") /\ UNCHANGED synced

Settle ==
  \E o \in In("working"), outcome \in {"done", "failed"} :
    Move({o}, outcome) /\ UNCHANGED synced

Park == \E o \in In("working") : synced /\ Move({o}, "waiting") /\ UNCHANGED synced

Drop == \E o \in In("working") : ~synced /\ Move({o}, "dropped") /\ UNCHANGED synced

\* All that wait are taken up, or given up when the session is not synced.
TakeUp == Move(In("waiting"), IF synced THEN "working" ELSE "dropped") /\ UNCHANGED synced

Next == Enter \/ Accept \/ Settle \/ Park \/ Drop \/ TakeUp

Spec == Init /\ [][Next]_vars
=============================================================================
