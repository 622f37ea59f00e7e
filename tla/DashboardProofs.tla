--------------------------- MODULE DashboardProofs ---------------------------
(***************************************************************************)
(* Proofs about the owner's side of the program, for any number of         *)
(* addresses, tokens, runs, loads, removals, faults and restarts.          *)
(*                                                                         *)
(* The inductive invariant Inv has one part per concern. TokenInv: which   *)
(* tokens have expired. OrgInv: one task at a time while there is no       *)
(* organization, so that two searches never overlap. TwinsInv: an address  *)
(* that nobody invites again has one folder, or one request or intent that *)
(* will create it. DoneInv: the run at work has one address open.          *)
(* TableInv: a row, the change of a folder under way and the folder agree, *)
(* and so do the rows a load has read.                                     *)
(***************************************************************************)
EXTENDS Dashboard, SequenceTheorems, TLAPS

\* A bag as the tasks and the intents are: every element has a positive count.
IsBag(B) == B = [x \in DOMAIN B |-> B[x]] /\ \A x \in DOMAIN B : B[x] \in Nat \ {0}

\* BagAdd adds one copy.
LEMMA AddToBag ==
  ASSUME NEW B, IsBag(B), NEW y
  PROVE  LET C == BagAdd(B, y) IN
         /\ IsBag(C)
         /\ DOMAIN C = DOMAIN B \union {y}
         /\ \A z \in DOMAIN B : z # y => C[z] = B[z]
         /\ y \notin DOMAIN B => C[y] = 1
  BY DEF BagAdd, IsBag

\* BagRemove takes one copy away.
LEMMA RemoveFromBag ==
  ASSUME NEW B, IsBag(B), NEW x \in DOMAIN B
  PROVE  LET C == BagRemove(B, x) IN
         /\ IsBag(C)
         /\ DOMAIN C \subseteq DOMAIN B
         /\ DOMAIN B \ {x} \subseteq DOMAIN C
         /\ \A z \in DOMAIN C : z # x => C[z] = B[z]
         /\ B[x] = 1 => x \notin DOMAIN C
<1>1. CASE B[x] = 1
  BY <1>1 DEF BagRemove, IsBag
<1>2. CASE B[x] # 1
  <2> DEFINE C == [e \in DOMAIN B |-> IF e = x THEN B[e] - 1 ELSE B[e]]
  <2>1. BagRemove(B, x) = C
    BY <1>2 DEF BagRemove
  <2>2. B[x] - 1 \in Nat \ {0}
    BY <1>2 DEF IsBag
  <2>3. IsBag(C)
    BY <2>2 DEF IsBag
  <2> QED
    BY <1>2, <2>1, <2>3
<1> QED
  BY <1>1, <1>2

\* One copy of x becomes a copy of y.
LEMMA ReplaceInBag ==
  ASSUME NEW B, IsBag(B), NEW x \in DOMAIN B, NEW y, x # y
  PROVE  LET C == BagAdd(BagRemove(B, x), y) IN
         /\ IsBag(C)
         /\ DOMAIN C \subseteq DOMAIN B \union {y}
         /\ (DOMAIN B \ {x}) \union {y} \subseteq DOMAIN C
         /\ \A z \in DOMAIN C : z # x /\ z # y => C[z] = B[z]
         /\ B[x] = 1 => x \notin DOMAIN C
         /\ y \notin DOMAIN B => C[y] = 1
<1> DEFINE A == BagRemove(B, x)
<1>1. /\ IsBag(A)
      /\ DOMAIN A \subseteq DOMAIN B
      /\ DOMAIN B \ {x} \subseteq DOMAIN A
      /\ \A z \in DOMAIN A : z # x => A[z] = B[z]
      /\ B[x] = 1 => x \notin DOMAIN A
  BY RemoveFromBag
<1> HIDE DEF A
<1>2. /\ IsBag(BagAdd(A, y))
      /\ DOMAIN BagAdd(A, y) = DOMAIN A \union {y}
      /\ \A z \in DOMAIN A : z # y => BagAdd(A, y)[z] = A[z]
      /\ y \notin DOMAIN A => BagAdd(A, y)[y] = 1
  BY <1>1, AddToBag
<1> DEFINE C == BagAdd(A, y)
<1> HIDE DEF C
<1>3. /\ IsBag(C)
      /\ DOMAIN C \subseteq DOMAIN B \union {y}
      /\ (DOMAIN B \ {x}) \union {y} \subseteq DOMAIN C
      /\ \A z \in DOMAIN C : z # x /\ z # y => C[z] = B[z]
      /\ B[x] = 1 => x \notin DOMAIN C
      /\ y \notin DOMAIN B => C[y] = 1
  BY <1>1, <1>2 DEF C
<1> QED
  BY <1>3 DEF C, A
-----------------------------------------------------------------------------
RowType == [folder : Nat, id : {"id", "quoted", "none"}, removing : BOOLEAN]
FolderType == [email : Emails, is : {"private", "shared", "deleted"}]

\* Intents, tasks and their types.
PlainIntents == [what : {"fetch", "create", "load"}]
InviteIntents == [what : {"invite"}, run : Nat, email : Emails]

FetchType == [kind : {"fetch"}, token : Nat]
CreateType ==
  [kind : {"create"}, token : Nat, at : {"search", "post", "created", "error"}]
LoadType ==
  [kind : {"load"}, token : Nat, at : {"list", "read", "error"},
   todo : SUBSET Nat, read : Seq(RowType), raced : SUBSET Nat]
InviteType ==
  [kind : {"invite"}, token : Nat, at : {"folder", "permission", "granted", "undo", "error"},
   run : Nat, email : Emails, folder : Nat]
RevokeType ==
  [kind : {"revoke"}, token : Nat, at : {"delete", "revoked", "error"},
   folder : Nat, id : {"id", "quoted"}]

TaskType == FetchType \union CreateType \union LoadType \union InviteType \union RevokeType

\* The kind of a task tells its type.
LEMMA KindType ==
  ASSUME NEW x \in TaskType
  PROVE  /\ x.kind \in {"fetch", "create", "load", "invite", "revoke"}
         /\ x.kind = "fetch" <=> x \in FetchType
         /\ x.kind = "create" <=> x \in CreateType
         /\ x.kind = "load" <=> x \in LoadType
         /\ x.kind = "invite" <=> x \in InviteType
         /\ x.kind = "revoke" <=> x \in RevokeType
         /\ x.token \in Nat
  BY DEF TaskType, FetchType, CreateType, LoadType, InviteType, RevokeType

\* A load that meets a change is a load still, with one more folder noted.
LEMMA RaceLoad ==
  ASSUME NEW x \in LoadType, NEW f \in Nat
  PROVE  LET y == [x EXCEPT !.raced = @ \union {f}] IN
         /\ y \in LoadType
         /\ y.token = x.token /\ y.at = x.at /\ y.todo = x.todo /\ y.read = x.read
         /\ y.raced = x.raced \union {f}
  BY DEF LoadType

\* Raced changes the loads that are reading and no other task.
LEMMA RacedBag ==
  ASSUME NEW B, IsBag(B), DOMAIN B \subseteq TaskType, NEW f \in Nat
  PROVE  LET C == Raced(B, f) IN
         /\ IsBag(C)
         /\ DOMAIN C \subseteq TaskType
         /\ \A z \in DOMAIN C : ~Reading(z) => z \in DOMAIN B /\ C[z] = B[z]
         /\ \A z \in DOMAIN B : ~Reading(z) => z \in DOMAIN C
         /\ \A z \in DOMAIN C : Reading(z) =>
              \E x \in DOMAIN B : Reading(x) /\ z = [x EXCEPT !.raced = @ \union {f}]
<1> DEFINE C == Raced(B, f)
           Less(y) == [y EXCEPT !.raced = @ \ {f}]
           Count(y) == Copies(y, B) + IF Reading(y) THEN Copies(Less(y), B) ELSE 0
<1>1. C = [y \in {Race(x, f) : x \in DOMAIN B} |-> Count(y)]
  BY DEF Raced, BagToSet
<1>2. DOMAIN C = {Race(x, f) : x \in DOMAIN B}
  BY <1>1
<1>3. \A y : Copies(y, B) \in Nat /\ (y \in DOMAIN B => Copies(y, B) = B[y] /\ B[y] > 0)
  BY DEF Copies, BagIn, BagToSet, IsBag
<1>4. ASSUME NEW x \in DOMAIN B
      PROVE  IF Reading(x)
             THEN /\ Race(x, f) = [x EXCEPT !.raced = @ \union {f}]
                  /\ Race(x, f) \in TaskType /\ Reading(Race(x, f))
                  /\ Count(Race(x, f)) \in Nat \ {0}
             ELSE Race(x, f) = x /\ Count(x) = B[x]
  <2>1. CASE Reading(x)
    <3> DEFINE y == [x EXCEPT !.raced = @ \union {f}]
    <3>1. x \in LoadType
      BY <2>1, KindType DEF Reading
    <3>2. Race(x, f) = y
      BY <2>1 DEF Race
    <3>3. y \in LoadType /\ y.at = x.at /\ y.raced = x.raced \union {f} /\ y.kind = "load"
      BY <3>1, RaceLoad DEF LoadType
    <3>4. Reading(y)
      BY <3>3, <2>1 DEF Reading
    <3>5. Count(y) = Copies(y, B) + Copies(Less(y), B)
      BY <3>4
    <3>6. CASE f \in x.raced
      <4>1. y = x
        BY <3>1, <3>6 DEF LoadType
      <4>2. Copies(y, B) \in Nat \ {0} /\ Copies(Less(y), B) \in Nat
        BY <4>1, <1>3
      <4>3. Count(y) \in Nat \ {0}
        BY <4>2, <3>5
      <4> QED
        BY <4>3, <3>2, <3>3, <3>4, <2>1 DEF TaskType
    <3>7. CASE f \notin x.raced
      <4>1. Less(y) = x
        BY <3>1, <3>7 DEF LoadType
      <4>2. Copies(y, B) \in Nat /\ Copies(Less(y), B) \in Nat \ {0}
        BY <4>1, <1>3
      <4>3. Count(y) \in Nat \ {0}
        BY <4>2, <3>5
      <4> QED
        BY <4>3, <3>2, <3>3, <3>4, <2>1 DEF TaskType
    <3> QED
      BY <3>6, <3>7
  <2>2. CASE ~Reading(x)
    BY <2>2, <1>3 DEF Race
  <2> QED
    BY <2>1, <2>2
<1> HIDE DEF C, Count
<1>5. \A y \in DOMAIN C : C[y] = Count(y)
  BY <1>1, <1>2
<1>6. \A y \in DOMAIN C : \E x \in DOMAIN B : y = Race(x, f)
  BY <1>2
<1>7. IsBag(C)
  <2>1. \A y \in DOMAIN C : C[y] \in Nat \ {0}
    <3> TAKE y \in DOMAIN C
    <3>1. PICK x \in DOMAIN B : y = Race(x, f)
      BY <1>6
    <3>2. B[x] \in Nat \ {0}
      BY DEF IsBag
    <3> QED
      BY <3>1, <3>2, <1>4, <1>5
  <2>2. C = [x \in DOMAIN C |-> C[x]]
    BY <1>1
  <2> QED
    BY <2>1, <2>2 DEF IsBag
<1>8. \A z \in DOMAIN C : ~Reading(z) => z \in DOMAIN B /\ C[z] = B[z]
  BY <1>4, <1>5, <1>6
<1>9. \A z \in DOMAIN B : ~Reading(z) => z \in DOMAIN C
  BY <1>4, <1>2
<1>10. \A z \in DOMAIN C : Reading(z) =>
              \E x \in DOMAIN B : Reading(x) /\ z = [x EXCEPT !.raced = @ \union {f}]
  BY <1>4, <1>6
<1>11. DOMAIN C \subseteq TaskType
  BY <1>4, <1>6
<1> QED
  BY <1>7, <1>8, <1>9, <1>10, <1>11 DEF C
-----------------------------------------------------------------------------
PanelType ==
  [sending : BOOLEAN, queue : Seq(Emails), nextRun : Nat \ {0},
   log : SUBSET (Nat \X Emails \X BOOLEAN), asked : SUBSET Emails]

HistoryType ==
  [raced : SUBSET Nat, twice : SUBSET Emails, doubled : BOOLEAN, forgotten : BOOLEAN,
   blind : BOOLEAN]

TasksOK == IsBag(tasks) /\ InFlight \subseteq TaskType
IntentsOK ==
  IsBag(pendingIntents) /\ BagToSet(pendingIntents) \subseteq PlainIntents \union InviteIntents

TypeOK ==
  /\ userState \in {"SignedIn", "OrgCreated", "SignedOut"}
  /\ busy \in BOOLEAN /\ pendingRefresh \in BOOLEAN
  /\ token \in Nat \ {0} /\ expired \subseteq Nat
  /\ TasksOK /\ IntentsOK
  /\ rows \in Seq(RowType)
  /\ panel \in PanelType
  /\ orgs \in Nat /\ folders \in Seq(FolderType)
  /\ history \in HistoryType

-----------------------------------------------------------------------------
\* What a step does to the tasks: one copy of each of Old ends, those of New begin, and
\* the loads that are reading have met the changes of R.
Swap(Old, New, R) ==
  /\ TasksOK'
  /\ \A z \in InFlight' : ~Reading(z) => z \in InFlight \union New
  /\ \A z \in InFlight' : ~Reading(z) /\ z \notin Old \union New => tasks'[z] = tasks[z]
  /\ \A z \in (InFlight \ Old) \union New : ~Reading(z) => z \in InFlight'
  /\ \A z \in Old : ~Reading(z) /\ tasks[z] = 1 => z \notin InFlight'
  /\ \A z \in New : ~Reading(z) /\ z \notin InFlight => tasks'[z] = 1
  /\ \A z \in InFlight' : Reading(z) =>
       \E w \in InFlight \union New : Reading(w) /\ z = [w EXCEPT !.raced = @ \union R]

\* A load that meets no change stays as it is.
LEMMA RaceNone ==
  ASSUME NEW x \in TaskType, Reading(x)
  PROVE  x = [x EXCEPT !.raced = @ \union {}]
<1>1. x \in LoadType
  BY KindType DEF Reading
<1> QED
  BY <1>1 DEF LoadType

\* The five forms a step gives to the tasks, as a Swap.
LEMMA SwapEnds ==
  ASSUME TasksOK, NEW x \in InFlight, tasks' = BagRemove(tasks, x)
  PROVE  Swap({x}, {}, {})
<1>1. /\ IsBag(tasks')
      /\ DOMAIN tasks' \subseteq DOMAIN tasks
      /\ DOMAIN tasks \ {x} \subseteq DOMAIN tasks'
      /\ \A z \in DOMAIN tasks' : z # x => tasks'[z] = tasks[z]
      /\ tasks[x] = 1 => x \notin DOMAIN tasks'
  BY RemoveFromBag DEF TasksOK, InFlight, BagToSet
<1> QED
  BY <1>1, RaceNone DEF Swap, TasksOK, InFlight, BagToSet

LEMMA SwapBecomes ==
  ASSUME TasksOK, NEW x \in InFlight, NEW y \in TaskType, x # y,
         tasks' = BagAdd(BagRemove(tasks, x), y)
  PROVE  Swap({x}, {y}, {})
<1>1. /\ IsBag(tasks')
      /\ DOMAIN tasks' \subseteq DOMAIN tasks \union {y}
      /\ (DOMAIN tasks \ {x}) \union {y} \subseteq DOMAIN tasks'
      /\ \A z \in DOMAIN tasks' : z # x /\ z # y => tasks'[z] = tasks[z]
      /\ tasks[x] = 1 => x \notin DOMAIN tasks'
      /\ y \notin DOMAIN tasks => tasks'[y] = 1
  BY ReplaceInBag DEF TasksOK, InFlight, BagToSet
<1> QED
  BY <1>1, RaceNone DEF Swap, TasksOK, InFlight, BagToSet

LEMMA SwapBegins ==
  ASSUME TasksOK, NEW y \in TaskType, tasks' = BagAdd(tasks, y)
  PROVE  Swap({}, {y}, {})
<1>1. /\ IsBag(tasks')
      /\ DOMAIN tasks' = DOMAIN tasks \union {y}
      /\ \A z \in DOMAIN tasks : z # y => tasks'[z] = tasks[z]
      /\ y \notin DOMAIN tasks => tasks'[y] = 1
  BY AddToBag DEF TasksOK, InFlight, BagToSet
<1> QED
  BY <1>1, RaceNone DEF Swap, TasksOK, InFlight, BagToSet

LEMMA SwapEndsRaced ==
  ASSUME TasksOK, NEW x \in InFlight, NEW f \in Nat,
         tasks' = Raced(BagRemove(tasks, x), f)
  PROVE  Swap({x}, {}, {f})
<1> DEFINE B == BagRemove(tasks, x)
<1>1. /\ IsBag(B)
      /\ DOMAIN B \subseteq DOMAIN tasks
      /\ DOMAIN tasks \ {x} \subseteq DOMAIN B
      /\ \A z \in DOMAIN B : z # x => B[z] = tasks[z]
      /\ tasks[x] = 1 => x \notin DOMAIN B
  BY RemoveFromBag DEF TasksOK, InFlight, BagToSet
<1> HIDE DEF B
<1>2. DOMAIN B \subseteq TaskType
  BY <1>1 DEF TasksOK, InFlight, BagToSet
<1>3. tasks' = Raced(B, f)
  BY DEF B
<1>4. /\ IsBag(tasks')
      /\ DOMAIN tasks' \subseteq TaskType
      /\ \A z \in DOMAIN tasks' : ~Reading(z) => z \in DOMAIN B /\ tasks'[z] = B[z]
      /\ \A z \in DOMAIN B : ~Reading(z) => z \in DOMAIN tasks'
      /\ \A z \in DOMAIN tasks' : Reading(z) =>
           \E w \in DOMAIN B : Reading(w) /\ z = [w EXCEPT !.raced = @ \union {f}]
  BY <1>1, <1>2, <1>3, RacedBag
<1> QED
  BY <1>1, <1>4 DEF Swap, TasksOK, InFlight, BagToSet

LEMMA SwapBecomesRaced ==
  ASSUME TasksOK, NEW x \in InFlight, NEW y \in TaskType, x # y, NEW f \in Nat,
         tasks' = Raced(BagAdd(BagRemove(tasks, x), y), f)
  PROVE  Swap({x}, {y}, {f})
<1> DEFINE B == BagAdd(BagRemove(tasks, x), y)
<1>1. /\ IsBag(B)
      /\ DOMAIN B \subseteq DOMAIN tasks \union {y}
      /\ (DOMAIN tasks \ {x}) \union {y} \subseteq DOMAIN B
      /\ \A z \in DOMAIN B : z # x /\ z # y => B[z] = tasks[z]
      /\ tasks[x] = 1 => x \notin DOMAIN B
      /\ y \notin DOMAIN tasks => B[y] = 1
  BY ReplaceInBag DEF TasksOK, InFlight, BagToSet
<1> HIDE DEF B
<1>2. DOMAIN B \subseteq TaskType
  BY <1>1 DEF TasksOK, InFlight, BagToSet
<1>3. tasks' = Raced(B, f)
  BY DEF B
<1>4. /\ IsBag(tasks')
      /\ DOMAIN tasks' \subseteq TaskType
      /\ \A z \in DOMAIN tasks' : ~Reading(z) => z \in DOMAIN B /\ tasks'[z] = B[z]
      /\ \A z \in DOMAIN B : ~Reading(z) => z \in DOMAIN tasks'
      /\ \A z \in DOMAIN tasks' : Reading(z) =>
           \E w \in DOMAIN B : Reading(w) /\ z = [w EXCEPT !.raced = @ \union {f}]
  BY <1>1, <1>2, <1>3, RacedBag
<1> QED
  BY <1>1, <1>4 DEF Swap, TasksOK, InFlight, BagToSet
-----------------------------------------------------------------------------
\* The fields of a task that begins.
LEMMA NewTask ==
  ASSUME NEW t \in Nat
  PROVE  /\ FetchTask(t) \in FetchType /\ FetchTask(t).kind = "fetch" /\ FetchTask(t).token = t
         /\ CreateTask(t) \in CreateType /\ CreateTask(t).kind = "create"
         /\ CreateTask(t).token = t /\ CreateTask(t).at = "search"
         /\ LoadTask(t) \in LoadType /\ LoadTask(t).kind = "load" /\ LoadTask(t).token = t
         /\ LoadTask(t).at = "list" /\ LoadTask(t).todo = {} /\ LoadTask(t).read = <<>>
         /\ LoadTask(t).raced = {}
  BY DEF FetchTask, FetchType, CreateTask, CreateType, LoadTask, LoadType

\* The fields of an invitation that begins.
LEMMA NewInvite ==
  ASSUME NEW t \in Nat, NEW r \in Nat, NEW e \in Emails
  PROVE  LET y == InviteTask(t, r, e) IN
         /\ y \in InviteType /\ y.kind = "invite" /\ y.token = t /\ y.at = "folder"
         /\ y.run = r /\ y.email = e /\ y.folder = 0
  BY DEF InviteTask, InviteType

\* The fields of a removal that begins.
LEMMA NewRevoke ==
  ASSUME NEW t \in Nat, NEW f \in Nat, NEW id \in {"id", "quoted"}
  PROVE  LET y == RevokeTask(t, f, id) IN
         /\ y \in RevokeType /\ y.kind = "revoke" /\ y.token = t /\ y.at = "delete"
         /\ y.folder = f /\ y.id = id
  BY DEF RevokeTask, RevokeType

-----------------------------------------------------------------------------
\* What the steps of a task do, in terms of Swap: first those that create the organization.
LEMMA OrgSearchedMoves ==
  ASSUME TypeOK, NEW x \in InFlight, OrgSearched(x)
  PROVE  /\ x \in CreateType /\ x.at = "search"
         /\ history' = history \/ history' = [history EXCEPT !.blind = TRUE]
         /\ \E y \in CreateType :
              /\ Swap({x}, {y}, {})
              /\ y.token = x.token
              /\ y.at \in {"created", "post"}
              /\ y.at = "post" => orgs = 0 \/ history' = [history EXCEPT !.blind = TRUE]
<1>1. x \in CreateType /\ x.at = "search"
  BY KindType DEF TypeOK, TasksOK, OrgSearched
<1>2. ASSUME NEW a \in {"created", "post"}, Becomes(x, [x EXCEPT !.at = a])
      PROVE  LET y == [x EXCEPT !.at = a] IN
             y \in CreateType /\ Swap({x}, {y}, {}) /\ y.token = x.token /\ y.at = a
  <2> DEFINE y == [x EXCEPT !.at = a]
  <2>1. y \in CreateType /\ y.token = x.token /\ y.at = a
    BY <1>1 DEF CreateType
  <2> HIDE DEF y
  <2>2. x # y /\ y \in TaskType
    BY <1>1, <2>1 DEF TaskType
  <2>3. tasks' = BagAdd(BagRemove(tasks, x), y)
    BY <1>2 DEF Becomes, y
  <2>4. Swap({x}, {y}, {})
    BY <2>2, <2>3, SwapBecomes DEF TypeOK
  <2> QED
    BY <2>1, <2>4 DEF y
<1>3. CASE Becomes(x, [x EXCEPT !.at = IF orgs > 0 THEN "created" ELSE "post"]) /\ UNCHANGED history
  <2>1. CASE orgs > 0
    BY <2>1, <1>1, <1>2, <1>3
  <2>2. CASE ~(orgs > 0)
    <3>1. orgs = 0
      BY <2>2 DEF TypeOK
    <3> QED
      BY <3>1, <2>2, <1>1, <1>2, <1>3
  <2> QED
    BY <2>1, <2>2
<1>4. CASE Becomes(x, [x EXCEPT !.at = "post"]) /\ history' = Remember("blind", TRUE)
  BY <1>1, <1>2, <1>4 DEF Remember
<1> QED
  BY <1>3, <1>4 DEF OrgSearched
\* The organization is created, or an error hides whether it is.
LEMMA OrgPostedMoves ==
  ASSUME TypeOK, NEW x \in InFlight, OrgPosted(x)
  PROVE  /\ x \in CreateType /\ x.at = "post"
         /\ orgs' \in {orgs, orgs + 1}
         /\ \E y \in CreateType :
              Swap({x}, {y}, {}) /\ y.token = x.token /\ y.at \in {"created", "error"}
<1>1. x \in CreateType /\ x.at = "post"
  BY KindType DEF TypeOK, TasksOK, OrgPosted
<1>2. PICK a \in {"created", "error"} : Becomes(x, [x EXCEPT !.at = a])
  BY DEF OrgPosted
<1> DEFINE y == [x EXCEPT !.at = a]
<1>3. y \in CreateType /\ y.token = x.token /\ y.at = a
  BY <1>1 DEF CreateType
<1>4. tasks' = BagAdd(BagRemove(tasks, x), y)
  BY <1>2 DEF Becomes
<1> HIDE DEF y
<1>5. x # y /\ y \in TaskType
  BY <1>1, <1>3 DEF TaskType
<1>6. Swap({x}, {y}, {})
  BY <1>4, <1>5, SwapBecomes DEF TypeOK
<1>7. orgs' \in {orgs, orgs + 1}
  BY DEF OrgPosted
<1> QED
  BY <1>1, <1>3, <1>6, <1>7

\* The answer starts the load of the dashboard, or is dropped.
LEMMA OrgCreatedMoves ==
  ASSUME TypeOK, NEW x \in InFlight, OnOrgCreatedOk(x)
  PROVE  /\ x \in CreateType
         /\ userState = "SignedIn" => Swap({x}, {LoadTask(token)}, {})
         /\ userState # "SignedIn" => Swap({x}, {}, {})
<1>1. x \in CreateType
  BY KindType DEF TypeOK, TasksOK, OnOrgCreatedOk
<1>2. CASE userState = "SignedIn"
  <2> DEFINE y == LoadTask(token)
  <2>1. y \in LoadType /\ y.kind = "load"
    BY NewTask DEF TypeOK
  <2>2. tasks' = BagAdd(BagRemove(tasks, x), y)
    BY <1>2 DEF OnOrgCreatedOk, Becomes
  <2> HIDE DEF y
  <2>3. x # y /\ y \in TaskType
    BY <1>1, <2>1 DEF TaskType, CreateType
  <2>4. Swap({x}, {y}, {})
    BY <2>2, <2>3, SwapBecomes DEF TypeOK
  <2> QED
    BY <1>1, <1>2, <2>4 DEF y
<1>3. CASE userState # "SignedIn"
  BY <1>1, <1>3, SwapEnds DEF OnOrgCreatedOk, Ends, TypeOK
<1> QED
  BY <1>2, <1>3

\* A task that ends without a successor.
LEMMA EndMoves ==
  ASSUME TypeOK, NEW x \in InFlight, Ends(x)
  PROVE  Swap({x}, {}, {})
  BY SwapEnds DEF Ends, TypeOK

-----------------------------------------------------------------------------
\* y is the invitation x at the next request.
SameInvite(x, y, a) ==
  /\ y \in InviteType /\ y.token = x.token /\ y.at = a
  /\ y.run = x.run /\ y.email = x.email /\ y.folder = x.folder

SameRevoke(x, y, a) ==
  /\ y \in RevokeType /\ y.token = x.token /\ y.at = a
  /\ y.folder = x.folder /\ y.id = x.id

InviteAts == {"folder", "permission", "granted", "undo", "error"}
RevokeAts == {"delete", "revoked", "error"}
Is == {"private", "shared", "deleted"}

\* An invitation goes on and changes nothing.
LEMMA InviteBecomes ==
  ASSUME TypeOK, NEW x \in InFlight, x \in InviteType, NEW a \in InviteAts, x.at # a,
         Becomes(x, [x EXCEPT !.at = a])
  PROVE  \E y : SameInvite(x, y, a) /\ Swap({x}, {y}, {})
<1> DEFINE y == [x EXCEPT !.at = a]
<1>1. SameInvite(x, y, a)
  BY DEF InviteType, InviteAts, SameInvite
<1>2. tasks' = BagAdd(BagRemove(tasks, x), y)
  BY DEF Becomes
<1> HIDE DEF y
<1>3. x # y /\ y \in TaskType
  BY <1>1 DEF TaskType, SameInvite
<1> QED
  BY <1>1, <1>2, <1>3, SwapBecomes DEF TypeOK

\* An invitation goes on and has changed its folder.
LEMMA InviteChanges ==
  ASSUME TypeOK, NEW x \in InFlight, x \in InviteType, NEW a \in InviteAts, x.at # a,
         NEW is, Change(x, a, is)
  PROVE  /\ \E y : SameInvite(x, y, a) /\ Swap({x}, {y}, {x.folder})
         /\ folders' = [folders EXCEPT ![x.folder].is = is]
<1> DEFINE y == [x EXCEPT !.at = a]
<1>1. SameInvite(x, y, a)
  BY DEF InviteType, InviteAts, SameInvite
<1>2. tasks' = Raced(BagAdd(BagRemove(tasks, x), y), x.folder)
  BY DEF Change
<1> HIDE DEF y
<1>3. x # y /\ y \in TaskType /\ x.folder \in Nat
  BY <1>1 DEF TaskType, SameInvite, InviteType
<1>4. Swap({x}, {y}, {x.folder})
  BY <1>2, <1>3, SwapBecomesRaced DEF TypeOK
<1> QED
  BY <1>1, <1>4 DEF Change

\* A removal goes on and has changed nothing.
LEMMA RevokeBecomes ==
  ASSUME TypeOK, NEW x \in InFlight, x \in RevokeType, NEW a \in RevokeAts, x.at # a,
         Becomes(x, [x EXCEPT !.at = a])
  PROVE  \E y : SameRevoke(x, y, a) /\ Swap({x}, {y}, {})
<1> DEFINE y == [x EXCEPT !.at = a]
<1>1. SameRevoke(x, y, a)
  BY DEF RevokeType, RevokeAts, SameRevoke
<1>2. tasks' = BagAdd(BagRemove(tasks, x), y)
  BY DEF Becomes
<1> HIDE DEF y
<1>3. x # y /\ y \in TaskType
  BY <1>1 DEF TaskType, SameRevoke
<1> QED
  BY <1>1, <1>2, <1>3, SwapBecomes DEF TypeOK

\* A removal goes on and has changed its folder.
LEMMA RevokeChanges ==
  ASSUME TypeOK, NEW x \in InFlight, x \in RevokeType, NEW a \in RevokeAts, x.at # a,
         NEW is, Change(x, a, is)
  PROVE  /\ \E y : SameRevoke(x, y, a) /\ Swap({x}, {y}, {x.folder})
         /\ folders' = [folders EXCEPT ![x.folder].is = is]
<1> DEFINE y == [x EXCEPT !.at = a]
<1>1. SameRevoke(x, y, a)
  BY DEF RevokeType, RevokeAts, SameRevoke
<1>2. tasks' = Raced(BagAdd(BagRemove(tasks, x), y), x.folder)
  BY DEF Change
<1> HIDE DEF y
<1>3. x # y /\ y \in TaskType /\ x.folder \in Nat
  BY <1>1 DEF TaskType, SameRevoke, RevokeType
<1>4. Swap({x}, {y}, {x.folder})
  BY <1>2, <1>3, SwapBecomesRaced DEF TypeOK
<1> QED
  BY <1>1, <1>4 DEF Change

\* The folder of a member is created, or an error hides whether it is.
LEMMA FolderPostedMoves ==
  ASSUME TypeOK, NEW x \in InFlight, FolderPosted(x)
  PROVE  /\ x \in InviteType /\ x.at = "folder" /\ x.token \notin expired
         /\ \/ /\ folders' = NewFolder(x.email)
               /\ \E y \in InviteType :
                    /\ Swap({x}, {y}, {})
                    /\ y.token = x.token /\ y.at = "permission" /\ y.run = x.run
                    /\ y.email = x.email /\ y.folder = Len(folders) + 1
            \/ /\ folders' \in {folders, NewFolder(x.email)}
               /\ \E y : SameInvite(x, y, "error") /\ Swap({x}, {y}, {})
<1>1. x \in InviteType /\ x.at = "folder"
  BY KindType DEF TypeOK, TasksOK, FolderPosted
<1>2. x.token \notin expired
  BY DEF FolderPosted, Served, Fails
<1>3. CASE /\ folders' = NewFolder(x.email)
           /\ Becomes(x, [x EXCEPT !.at = "permission", !.folder = Len(folders) + 1])
  <2> DEFINE n == Len(folders) + 1
             y == [x EXCEPT !.at = "permission", !.folder = n]
  <2>1. n \in Nat
    BY DEF TypeOK
  <2>2. tasks' = BagAdd(BagRemove(tasks, x), y)
    BY <1>3 DEF Becomes
  <2> HIDE DEF n
  <2>3. /\ y \in InviteType /\ y.token = x.token /\ y.at = "permission" /\ y.run = x.run
        /\ y.email = x.email /\ y.folder = n
    BY <1>1, <2>1 DEF InviteType
  <2> HIDE DEF y
  <2>4. x # y /\ y \in TaskType
    BY <1>1, <2>3 DEF TaskType
  <2>5. Swap({x}, {y}, {})
    BY <2>2, <2>4, SwapBecomes DEF TypeOK
  <2> QED
    BY <1>1, <1>2, <1>3, <2>3, <2>5 DEF n
<1>4. CASE /\ folders' \in {folders, NewFolder(x.email)}
           /\ Becomes(x, [x EXCEPT !.at = "error"])
  <2>1. \E y : SameInvite(x, y, "error") /\ Swap({x}, {y}, {})
    BY <1>1, <1>4, InviteBecomes DEF InviteAts
  <2> QED
    BY <1>1, <1>2, <1>4, <2>1
<1> QED
  BY <1>3, <1>4 DEF FolderPosted

\* The change of f was answered with an error although it was made.
AddRaced(f) == Remember("raced", history.raced \union {f})

\* The permission is refused, given, or given and answered with an error.
LEMMA PermissionPostedMoves ==
  ASSUME TypeOK, NEW x \in InFlight, PermissionPosted(x)
  PROVE  /\ x \in InviteType /\ x.at = "permission"
         /\ \/ /\ folders' = folders /\ history' = history
               /\ \E y, a : /\ SameInvite(x, y, a) /\ a \in {"undo", "error"}
                            /\ Swap({x}, {y}, {})
            \/ /\ folders' = [folders EXCEPT ![x.folder].is = "shared"] /\ history' = history
               /\ \E y : SameInvite(x, y, "granted") /\ Swap({x}, {y}, {x.folder})
            \/ /\ folders' = [folders EXCEPT ![x.folder].is = "shared"]
               /\ history' = AddRaced(x.folder)
               /\ \E y : SameInvite(x, y, "error") /\ Swap({x}, {y}, {x.folder})
<1>1. x \in InviteType /\ x.at = "permission"
  BY KindType DEF TypeOK, TasksOK, PermissionPosted
<1>2. ASSUME NEW a \in {"undo", "error"}, Becomes(x, [x EXCEPT !.at = a]),
             UNCHANGED <<folders, history>>
      PROVE  /\ folders' = folders /\ history' = history
             /\ \E y : SameInvite(x, y, a) /\ Swap({x}, {y}, {})
  <2>1. \E y : SameInvite(x, y, a) /\ Swap({x}, {y}, {})
    BY <1>1, <1>2, InviteBecomes DEF InviteAts
  <2> QED
    BY <1>2, <2>1
<1>3. CASE Change(x, "granted", "shared") /\ UNCHANGED history
  BY <1>1, <1>3, InviteChanges DEF InviteAts
<1>4. CASE Change(x, "error", "shared") /\ history' = AddRaced(x.folder)
  BY <1>1, <1>4, InviteChanges DEF InviteAts
<1> QED
  BY <1>1, <1>2, <1>3, <1>4 DEF PermissionPosted, FailsAt, AddRaced

\* The folder of an address without account stays or is deleted.
LEMMA FolderDeletedMoves ==
  ASSUME TypeOK, NEW x \in InFlight, FolderDeleted(x)
  PROVE  /\ x \in InviteType /\ x.at = "undo"
         /\ \/ /\ folders' = folders
               /\ \E y : SameInvite(x, y, "error") /\ Swap({x}, {y}, {})
            \/ /\ folders' = [folders EXCEPT ![x.folder].is = "deleted"]
               /\ \E y : SameInvite(x, y, "error") /\ Swap({x}, {y}, {x.folder})
<1>1. x \in InviteType /\ x.at = "undo"
  BY KindType DEF TypeOK, TasksOK, FolderDeleted
<1>2. CASE Becomes(x, [x EXCEPT !.at = "error"]) /\ UNCHANGED folders
  BY <1>1, <1>2, InviteBecomes DEF InviteAts
<1>3. CASE Change(x, "error", "deleted")
  BY <1>1, <1>3, InviteChanges DEF InviteAts
<1> QED
  BY <1>2, <1>3 DEF FolderDeleted

\* The permission stays, is deleted, or is deleted and answered with an error.
LEMMA PermissionDeletedMoves ==
  ASSUME TypeOK, NEW x \in InFlight, PermissionDeleted(x)
  PROVE  /\ x \in RevokeType /\ x.at = "delete"
         /\ \/ /\ folders' = folders /\ history' = history
               /\ \E y : SameRevoke(x, y, "error") /\ Swap({x}, {y}, {})
            \/ /\ folders' = [folders EXCEPT ![x.folder].is = "private"] /\ history' = history
               /\ \E y : SameRevoke(x, y, "revoked") /\ Swap({x}, {y}, {x.folder})
            \/ /\ folders' = [folders EXCEPT ![x.folder].is = "private"]
               /\ history' = AddRaced(x.folder)
               /\ \E y : SameRevoke(x, y, "error") /\ Swap({x}, {y}, {x.folder})
<1>1. x \in RevokeType /\ x.at = "delete"
  BY KindType DEF TypeOK, TasksOK, PermissionDeleted
<1>2. CASE Becomes(x, [x EXCEPT !.at = "error"]) /\ UNCHANGED <<folders, history>>
  <2>1. \E y : SameRevoke(x, y, "error") /\ Swap({x}, {y}, {})
    BY <1>1, <1>2, RevokeBecomes DEF RevokeAts
  <2> QED
    BY <1>1, <1>2, <2>1
<1>3. CASE Change(x, "revoked", "private") /\ UNCHANGED history
  BY <1>1, <1>3, RevokeChanges DEF RevokeAts
<1>4. CASE Change(x, "error", "private") /\ history' = AddRaced(x.folder)
  BY <1>1, <1>4, RevokeChanges DEF RevokeAts
<1> QED
  BY <1>2, <1>3, <1>4 DEF PermissionDeleted, FailsAt, AddRaced
-----------------------------------------------------------------------------
\* y is the first request of an invitation of e in run r.
FirstInvite(y, r, e) ==
  /\ y \in InviteType /\ y.token = token /\ y.at = "folder"
  /\ y.run = r /\ y.email = e /\ y.folder = 0

\* The head and the tail of a queue.
LEMMA HeadTail ==
  ASSUME NEW S, NEW q \in Seq(S), q # <<>>
  PROVE  /\ Head(q) \in S /\ Tail(q) \in Seq(S)
         /\ Head(q) = q[1] /\ 1 \in DOMAIN q
         /\ \A k \in DOMAIN Tail(q) : k + 1 \in DOMAIN q /\ Tail(q)[k] = q[k + 1]
         /\ \A k \in DOMAIN q : k # 1 => k - 1 \in DOMAIN Tail(q) /\ Tail(q)[k - 1] = q[k]
         /\ DOMAIN q \subseteq Nat /\ DOMAIN Tail(q) \subseteq Nat \ {0}
  OBVIOUS

\* The run ends with its queue, or the next address begins.
LEMMA ContinueMoves ==
  ASSUME TypeOK, NEW x \in InFlight, x \in InviteType, x.at # "folder",
         NEW p \in PanelType, Continue(x, p)
  PROVE  \/ /\ p.queue = <<>> /\ panel' = [p EXCEPT !.sending = FALSE]
            /\ pendingIntents' = pendingIntents
            /\ Swap({x}, {}, {x.folder})
         \/ /\ p.queue # <<>> /\ panel' = [p EXCEPT !.queue = Tail(p.queue)]
            /\ pendingIntents' = BagAdd(pendingIntents, SendInvitations(x.run, Head(p.queue)))
            /\ \E y : /\ FirstInvite(y, x.run, Head(p.queue))
                      /\ Swap({x}, {y}, {x.folder})
<1>1. x.folder \in Nat /\ x.run \in Nat
  BY DEF InviteType
<1>2. CASE p.queue = <<>>
  <2>1. tasks' = Raced(BagRemove(tasks, x), x.folder)
    BY <1>2 DEF Continue
  <2>2. Swap({x}, {}, {x.folder})
    BY <2>1, <1>1, SwapEndsRaced DEF TypeOK
  <2> QED
    BY <1>2, <2>2 DEF Continue
<1>3. CASE p.queue # <<>>
  <2> DEFINE e == Head(p.queue)
             y == InviteTask(token, x.run, e)
  <2>1. e \in Emails /\ token \in Nat
    BY <1>3 DEF PanelType, TypeOK
  <2>2. tasks' = Raced(BagAdd(BagRemove(tasks, x), y), x.folder)
    BY <1>3 DEF Continue
  <2>3. FirstInvite(y, x.run, e)
    BY <2>1, <1>1, NewInvite DEF FirstInvite
  <2> HIDE DEF e, y
  <2>4. x # y /\ y \in TaskType
    BY <2>3 DEF TaskType, FirstInvite
  <2>5. Swap({x}, {y}, {x.folder})
    BY <2>2, <2>4, <1>1, SwapBecomesRaced DEF TypeOK
  <2>6. /\ panel' = [p EXCEPT !.queue = Tail(@)]
        /\ pendingIntents' = BagAdd(pendingIntents, SendInvitations(x.run, Head(p.queue)))
    BY <1>3 DEF Continue
  <2>7. [p EXCEPT !.queue = Tail(@)] = [p EXCEPT !.queue = Tail(p.queue)]
    OBVIOUS
  <2> QED
    BY <1>3, <2>3, <2>5, <2>6, <2>7 DEF e
<1> QED
  BY <1>2, <1>3

\* A load has the list of the folders, or an error.
LEMMA FoldersListedMoves ==
  ASSUME TypeOK, NEW x \in InFlight, FoldersListed(x)
  PROVE  /\ x \in LoadType /\ x.at = "list"
         /\ \E y \in LoadType :
              /\ Swap({x}, {y}, {})
              /\ y.token = x.token /\ y.read = x.read /\ y.raced = x.raced
              /\ \/ y.at = "read" /\ y.todo = Listed
                 \/ y.at = "error" /\ y.todo = x.todo
<1>1. x \in LoadType /\ x.at = "list"
  BY KindType DEF TypeOK, TasksOK, FoldersListed
<1>2. CASE Becomes(x, [x EXCEPT !.at = "read", !.todo = Listed])
  <2> DEFINE S == Listed
             y == [x EXCEPT !.at = "read", !.todo = S]
  <2>1. S \in SUBSET Nat
    BY DEF Listed, TypeOK
  <2>2. tasks' = BagAdd(BagRemove(tasks, x), y)
    BY <1>2 DEF Becomes
  <2> HIDE DEF S
  <2>3. /\ y \in LoadType /\ y.token = x.token /\ y.at = "read"
        /\ y.todo = S /\ y.read = x.read /\ y.raced = x.raced
    BY <1>1, <2>1 DEF LoadType
  <2> HIDE DEF y
  <2>4. x # y /\ y \in TaskType
    BY <1>1, <2>3 DEF TaskType
  <2>5. Swap({x}, {y}, {})
    BY <2>2, <2>4, SwapBecomes DEF TypeOK
  <2> QED
    BY <1>1, <2>3, <2>5 DEF S
<1>3. CASE Becomes(x, [x EXCEPT !.at = "error"])
  <2> DEFINE y == [x EXCEPT !.at = "error"]
  <2>2. tasks' = BagAdd(BagRemove(tasks, x), y)
    BY <1>3 DEF Becomes
  <2>3. /\ y \in LoadType /\ y.token = x.token /\ y.at = "error"
        /\ y.todo = x.todo /\ y.read = x.read /\ y.raced = x.raced
    BY <1>1 DEF LoadType
  <2> HIDE DEF y
  <2>4. x # y /\ y \in TaskType
    BY <1>1, <2>3 DEF TaskType
  <2>5. Swap({x}, {y}, {})
    BY <2>2, <2>4, SwapBecomes DEF TypeOK
  <2> QED
    BY <1>1, <2>3, <2>5
<1> QED
  BY <1>2, <1>3 DEF FoldersListed

\* The row a load makes of a folder.
RowRead(f) == Row(f, IF folders[f].is = "shared" THEN "id" ELSE "none")

\* It says whether the folder is shared.
LEMMA RowReadFacts ==
  ASSUME NEW f \in Nat
  PROVE  /\ RowRead(f) \in RowType /\ RowRead(f).folder = f /\ ~RowRead(f).removing
         /\ RowRead(f).id # "none" <=> folders[f].is = "shared"
  BY DEF RowRead, Row, RowType

\* A load has read a folder, or has an error.
LEMMA FolderReadMoves ==
  ASSUME TypeOK, NEW x \in InFlight, NEW f \in DOMAIN folders, FolderRead(x, f)
  PROVE  /\ x \in LoadType /\ x.at = "read" /\ f \in x.todo
         /\ \E y \in LoadType :
              /\ Swap({x}, {y}, {})
              /\ y.token = x.token /\ y.raced = x.raced
              /\ \/ /\ y.at = "read"
                    /\ y.todo = x.todo \ {f} /\ y.read = Append(x.read, RowRead(f))
                 \/ y.at = "error" /\ y.todo = x.todo /\ y.read = x.read
<1>1. x \in LoadType /\ x.at = "read" /\ f \in x.todo
  BY KindType DEF TypeOK, TasksOK, FolderRead
<1>2. CASE Becomes(x, [x EXCEPT !.todo = @ \ {f}, !.read = Append(@, RowRead(f))])
  <2> DEFINE r == RowRead(f)
             y == [x EXCEPT !.todo = @ \ {f}, !.read = Append(@, r)]
  <2>1. r \in RowType
    BY RowReadFacts DEF TypeOK
  <2>2. tasks' = BagAdd(BagRemove(tasks, x), y)
    BY <1>2 DEF Becomes
  <2> HIDE DEF r
  <2>3. /\ y \in LoadType /\ y.token = x.token /\ y.at = "read"
        /\ y.todo = x.todo \ {f} /\ y.read = Append(x.read, r) /\ y.raced = x.raced
    <3> DEFINE T == x.todo \ {f}
               Q == Append(x.read, r)
    <3>1. T \in SUBSET Nat /\ Q \in Seq(RowType)
      BY <1>1, <2>1 DEF LoadType
    <3>2. y = [x EXCEPT !.todo = T, !.read = Q]
      BY <1>1 DEF LoadType
    <3> HIDE DEF T, Q, y
    <3>3. /\ y \in LoadType /\ y.token = x.token /\ y.at = "read"
          /\ y.todo = T /\ y.read = Q /\ y.raced = x.raced
      BY <1>1, <3>1, <3>2 DEF LoadType
    <3> QED
      BY <3>3 DEF T, Q
  <2> HIDE DEF y
  <2>4. x # y /\ y \in TaskType
    BY <1>1, <2>3 DEF TaskType
  <2>5. Swap({x}, {y}, {})
    BY <2>2, <2>4, SwapBecomes DEF TypeOK
  <2> QED
    BY <1>1, <2>3, <2>5 DEF r
<1>3. CASE Becomes(x, [x EXCEPT !.at = "error"])
  <2> DEFINE y == [x EXCEPT !.at = "error"]
  <2>2. tasks' = BagAdd(BagRemove(tasks, x), y)
    BY <1>3 DEF Becomes
  <2>3. /\ y \in LoadType /\ y.token = x.token /\ y.at = "error"
        /\ y.todo = x.todo /\ y.read = x.read /\ y.raced = x.raced
    BY <1>1 DEF LoadType
  <2> HIDE DEF y
  <2>4. x # y /\ y \in TaskType
    BY <1>1, <2>3 DEF TaskType
  <2>5. Swap({x}, {y}, {})
    BY <2>2, <2>4, SwapBecomes DEF TypeOK
  <2> QED
    BY <1>1, <2>3, <2>5
<1> QED
  BY <1>2, <1>3 DEF FolderRead, RowRead
-----------------------------------------------------------------------------
IntentType == PlainIntents \union InviteIntents

\* The kind of an intent tells its type.
LEMMA WhatType ==
  ASSUME NEW i \in IntentType
  PROVE  /\ i.what \in {"fetch", "create", "load", "invite"}
         /\ i.what = "invite" <=> i \in InviteIntents
         /\ i.what = "invite" => i.run \in Nat /\ i.email \in Emails
  BY DEF IntentType, PlainIntents, InviteIntents

\* The task an intent starts.
LEMMA TaskOfFacts ==
  ASSUME NEW i \in IntentType, NEW t \in Nat
  PROVE  LET y == TaskOf(i, t) IN
         /\ y \in TaskType /\ y.kind = i.what /\ y.token = t /\ ~Reading(y)
         /\ i.what = "create" => y.at = "search"
         /\ i.what = "load" => /\ y \in LoadType /\ y.at = "list"
                               /\ y.todo = {} /\ y.read = <<>> /\ y.raced = {}
         /\ i.what = "invite" => /\ y \in InviteType /\ y.at = "folder" /\ y.run = i.run
                                 /\ y.email = i.email /\ y.folder = 0
<1>1. CASE i.what = "fetch"
  <2>1. TaskOf(i, t) = FetchTask(t)
    BY <1>1 DEF TaskOf
  <2> QED
    BY <1>1, <2>1, NewTask DEF TaskType, Reading
<1>2. CASE i.what = "create"
  <2>1. TaskOf(i, t) = CreateTask(t)
    BY <1>2 DEF TaskOf
  <2> QED
    BY <1>2, <2>1, NewTask DEF TaskType, Reading
<1>3. CASE i.what = "load"
  <2>1. TaskOf(i, t) = LoadTask(t)
    BY <1>3 DEF TaskOf
  <2> QED
    BY <1>3, <2>1, NewTask DEF TaskType, Reading
<1>4. CASE i.what = "invite"
  <2>1. TaskOf(i, t) = InviteTask(t, i.run, i.email)
    BY <1>4 DEF TaskOf
  <2>2. i.run \in Nat /\ i.email \in Emails
    BY <1>4, WhatType
  <2> QED
    BY <1>4, <2>1, <2>2, NewInvite DEF TaskType, Reading
<1> QED
  BY <1>1, <1>2, <1>3, <1>4, WhatType

\* Two intents start two tasks.
LEMMA TaskOfInjective ==
  ASSUME NEW i \in IntentType, NEW j \in IntentType, NEW t \in Nat, TaskOf(i, t) = TaskOf(j, t)
  PROVE  i = j
<1>1. i.what = j.what
  BY TaskOfFacts
<1>2. CASE i.what # "invite"
  <2>1. i \in PlainIntents /\ j \in PlainIntents
    BY <1>1, <1>2, WhatType DEF IntentType
  <2> QED
    BY <1>1, <2>1 DEF PlainIntents
<1>3. CASE i.what = "invite"
  <2>1. i \in InviteIntents /\ j \in InviteIntents
    BY <1>1, <1>3, WhatType
  <2>2. i.run = j.run /\ i.email = j.email
    BY <1>1, <1>3, TaskOfFacts
  <2> QED
    BY <1>1, <2>1, <2>2 DEF InviteIntents
<1> QED
  BY <1>2, <1>3

\* The sum of two bags.
LEMMA BagSum ==
  ASSUME NEW B, IsBag(B), NEW C, IsBag(C)
  PROVE  LET D == B (+) C IN
         /\ IsBag(D) /\ DOMAIN D = DOMAIN B \union DOMAIN C
         /\ \A z \in DOMAIN B \ DOMAIN C : D[z] = B[z]
         /\ \A z \in DOMAIN C \ DOMAIN B : D[z] = C[z]
<1> DEFINE M(z) == (IF z \in DOMAIN B THEN B[z] ELSE 0) + (IF z \in DOMAIN C THEN C[z] ELSE 0)
           D == [z \in DOMAIN B \union DOMAIN C |-> M(z)]
<1>1. B (+) C = D
  BY DEF (+)
<1>2. \A z \in DOMAIN B \union DOMAIN C : M(z) \in Nat \ {0}
  BY DEF IsBag
<1>3. \A z \in DOMAIN B \ DOMAIN C : M(z) = B[z]
  BY DEF IsBag
<1>4. \A z \in DOMAIN C \ DOMAIN B : M(z) = C[z]
  BY DEF IsBag
<1> HIDE DEF M
<1>5. IsBag(D)
  BY <1>2 DEF IsBag
<1> QED
  BY <1>1, <1>3, <1>4, <1>5

\* i is run again when the token was refreshed.
Again(i) == i \in BagToSet(pendingIntents) /\ Runnable(i)

\* A retry starts a task per intent that fits the user state, as often as it is in the
\* list, and leaves the tasks in flight alone.
LEMMA RetryMoves ==
  ASSUME TypeOK, \A x \in InFlight : x.token <= token, AccessTokenRefreshedOk
  PROVE  /\ TasksOK'
         /\ \A z \in InFlight' : z \in InFlight \/ \E i : Again(i) /\ z = TaskOf(i, token + 1)
         /\ \A z \in InFlight : z \in InFlight' /\ tasks'[z] = tasks[z]
         /\ \A i : Again(i) =>
              /\ TaskOf(i, token + 1) \in InFlight'
              /\ TaskOf(i, token + 1) \notin InFlight
              /\ tasks'[TaskOf(i, token + 1)] = pendingIntents[i]
<1> DEFINE t == token + 1
           again == {i \in BagToSet(pendingIntents) : Runnable(i)}
           D == {TaskOf(i, t) : i \in again}
           started == [x \in D |-> pendingIntents[CHOOSE i \in again : TaskOf(i, t) = x]]
<1>1. tasks' = tasks (+) started
  BY DEF AccessTokenRefreshedOk
<1>2. t \in Nat /\ token \in Nat
  BY DEF TypeOK
<1>3. again \subseteq IntentType /\ \A i \in again : pendingIntents[i] \in Nat \ {0}
  BY DEF TypeOK, IntentsOK, IntentType, IsBag, BagToSet
<1>4. \A i : Again(i) <=> i \in again
  BY DEF Again
<1> HIDE DEF again
<1>5. ASSUME NEW i \in again
      PROVE  TaskOf(i, t) \in D /\ started[TaskOf(i, t)] = pendingIntents[i]
  <2> DEFINE j == CHOOSE k \in again : TaskOf(k, t) = TaskOf(i, t)
  <2>1. j \in again /\ TaskOf(j, t) = TaskOf(i, t)
    OBVIOUS
  <2> HIDE DEF j
  <2>2. j = i
    BY <2>1, <1>2, <1>3, TaskOfInjective
  <2>3. TaskOf(i, t) \in D
    OBVIOUS
  <2>4. started[TaskOf(i, t)] = pendingIntents[j]
    BY <2>3 DEF j
  <2> QED
    BY <2>2, <2>3, <2>4
<1>6. DOMAIN started = D /\ started = [x \in D |-> started[x]]
  OBVIOUS
<1> HIDE DEF started
<1>7. \A x \in D : \E i \in again : x = TaskOf(i, t)
  OBVIOUS
<1> HIDE DEF D
<1>8. IsBag(started)
  BY <1>3, <1>5, <1>6, <1>7 DEF IsBag
<1>9. \A x \in D : x \in TaskType /\ x.token = t
  BY <1>2, <1>3, <1>7, TaskOfFacts
<1>10. IsBag(tasks) /\ InFlight = DOMAIN tasks /\ InFlight' = DOMAIN tasks'
  BY DEF TypeOK, TasksOK, InFlight, BagToSet
<1>11. /\ IsBag(tasks') /\ DOMAIN tasks' = DOMAIN tasks \union D
       /\ \A z \in DOMAIN tasks \ D : tasks'[z] = tasks[z]
       /\ \A z \in D \ DOMAIN tasks : tasks'[z] = started[z]
  <2> DEFINE C == tasks (+) started
  <2>1. IsBag(tasks) /\ IsBag(started)
    BY <1>8, <1>10
  <2>2. /\ IsBag(C) /\ DOMAIN C = DOMAIN tasks \union DOMAIN started
        /\ \A z \in DOMAIN tasks \ DOMAIN started : C[z] = tasks[z]
        /\ \A z \in DOMAIN started \ DOMAIN tasks : C[z] = started[z]
    BY <2>1, BagSum, Zenon
  <2>3. tasks' = C
    BY <1>1
  <2> HIDE DEF C
  <2> QED
    BY <1>6, <2>2, <2>3
<1>12. \A z \in InFlight : z \notin D
  <2> SUFFICES ASSUME NEW z \in InFlight, z \in D PROVE FALSE
    OBVIOUS
  <2>1. z.token <= token /\ z.token = t
    BY <1>9
  <2> QED
    BY <2>1, <1>2
<1>13. TasksOK'
  BY <1>9, <1>10, <1>11 DEF TasksOK, TypeOK
<1>14. \A z \in InFlight' : z \in InFlight \/ \E i \in again : z = TaskOf(i, t)
  BY <1>7, <1>10, <1>11
<1>15. \A z \in InFlight : z \in InFlight' /\ tasks'[z] = tasks[z]
  BY <1>10, <1>11, <1>12
<1>16. \A i \in again : /\ TaskOf(i, t) \in InFlight' /\ TaskOf(i, t) \notin InFlight
                        /\ tasks'[TaskOf(i, t)] = pendingIntents[i]
  BY <1>5, <1>10, <1>11, <1>12
<1> HIDE DEF t
<1>17. t = token + 1
  BY DEF t
<1> QED
  BY <1>4, <1>13, <1>14, <1>15, <1>16, <1>17
-----------------------------------------------------------------------------
\* An intent is added to the list.
LEMMA IntentAdded ==
  ASSUME IntentsOK, NEW i \in IntentType, pendingIntents' = BagAdd(pendingIntents, i)
  PROVE  /\ IntentsOK'
         /\ BagToSet(pendingIntents)' = BagToSet(pendingIntents) \union {i}
         /\ \A j \in BagToSet(pendingIntents) : j # i => pendingIntents'[j] = pendingIntents[j]
         /\ i \notin BagToSet(pendingIntents) => pendingIntents'[i] = 1
<1> DEFINE B == pendingIntents
           C == BagAdd(B, i)
<1>1. IsBag(B) /\ DOMAIN B \subseteq IntentType
  BY DEF IntentsOK, BagToSet, IntentType
<1> HIDE DEF B
<1>2. /\ IsBag(C)
      /\ DOMAIN C = DOMAIN B \union {i}
      /\ \A j \in DOMAIN B : j # i => C[j] = B[j]
      /\ i \notin DOMAIN B => C[i] = 1
  BY <1>1, AddToBag
<1>3. pendingIntents' = C
  BY DEF B
<1> HIDE DEF C
<1> QED
  BY <1>1, <1>2, <1>3 DEF IntentsOK, BagToSet, IntentType, B

\* The fields of an intent.
LEMMA NewIntents ==
  /\ \A w \in {"fetch", "create", "load"} : Plain(w) \in IntentType /\ Plain(w).what = w
  /\ \A r \in Nat, e \in Emails :
       LET i == SendInvitations(r, e) IN
       i \in IntentType /\ i.what = "invite" /\ i.run = r /\ i.email = e
  BY DEF Plain, SendInvitations, IntentType, PlainIntents, InviteIntents

\* A function on the positions of a sequence is a sequence.
LEMMA SeqMapped ==
  ASSUME NEW S, NEW s \in Seq(S), NEW g, g = [k \in DOMAIN s |-> g[k]], \A k \in DOMAIN s : g[k] \in S
  PROVE  g \in Seq(S)
<1>1. DOMAIN s = 1 .. Len(s) /\ Len(s) \in Nat
  OBVIOUS
<1>2. g \in [1 .. Len(s) -> S]
  BY <1>1
<1> QED
  BY <1>1, <1>2, SeqDef

\* A folder is changed in place.
LEMMA FolderChanged ==
  ASSUME folders \in Seq(FolderType), NEW f \in Nat, NEW is \in Is,
         folders' = [folders EXCEPT ![f].is = is]
  PROVE  /\ folders' \in Seq(FolderType) /\ DOMAIN folders' = DOMAIN folders
         /\ \A g \in DOMAIN folders : folders'[g].email = folders[g].email
         /\ \A g \in DOMAIN folders : g # f => folders'[g] = folders[g]
         /\ f \in DOMAIN folders => folders'[f].is = is
<1> DEFINE v == [folders[f] EXCEPT !.is = is]
<1>1. folders' = [folders EXCEPT ![f] = v]
  OBVIOUS
<1>2. f \in DOMAIN folders => v \in FolderType /\ v.email = folders[f].email /\ v.is = is
  <2>1. f \in DOMAIN folders => folders[f] \in FolderType
    OBVIOUS
  <2> QED
    BY <2>1 DEF FolderType, Is
<1> HIDE DEF v
<1>3. DOMAIN folders' = DOMAIN folders
  BY <1>1
<1>4. \A g \in DOMAIN folders : folders'[g] = IF g = f THEN v ELSE folders[g]
  BY <1>1
<1>5. \A g \in DOMAIN folders : folders'[g] \in FolderType
  BY <1>2, <1>4
<1>6. folders' = [g \in DOMAIN folders |-> folders'[g]]
  BY <1>1
<1>7. folders' \in Seq(FolderType)
  BY <1>5, <1>6, SeqMapped
<1> QED
  BY <1>2, <1>3, <1>4, <1>7

\* A folder is added at the end.
LEMMA FolderAdded ==
  ASSUME folders \in Seq(FolderType), NEW e \in Emails, folders' = NewFolder(e)
  PROVE  /\ folders' \in Seq(FolderType)
         /\ DOMAIN folders' = DOMAIN folders \union {Len(folders) + 1}
         /\ Len(folders) + 1 \notin DOMAIN folders
         /\ \A g \in DOMAIN folders : folders'[g] = folders[g]
         /\ folders'[Len(folders) + 1].email = e /\ folders'[Len(folders) + 1].is = "private"
  BY DEF NewFolder, FolderType

\* The fields of a row.
LEMMA RowFacts ==
  ASSUME NEW f \in Nat, NEW id \in {"id", "quoted", "none"}
  PROVE  Row(f, id) \in RowType /\ Row(f, id).folder = f /\ Row(f, id).id = id /\ ~Row(f, id).removing
  BY DEF Row, RowType

\* A row whose button was clicked, or whose removal failed.
LEMMA RowRemoving ==
  ASSUME NEW r \in RowType, NEW b \in BOOLEAN
  PROVE  LET q == [r EXCEPT !.removing = b] IN
         q \in RowType /\ q.folder = r.folder /\ q.id = r.id /\ q.removing = b
  BY DEF RowType

\* The panel keeps its type.
LEMMA PanelFacts ==
  /\ NewPanel \in PanelType
  /\ \A p \in PanelType : /\ p.queue \in Seq(Emails) /\ p.nextRun \in Nat \ {0}
                          /\ p.asked \subseteq Emails /\ p.log \subseteq Nat \X Emails \X BOOLEAN
  /\ \A p \in PanelType, q \in Seq(Emails) : [p EXCEPT !.queue = q] \in PanelType
  /\ \A p \in PanelType, b \in BOOLEAN : [p EXCEPT !.sending = b] \in PanelType
  BY DEF NewPanel, PanelType

\* An answer is written to the log of the panel.
LEMMA LoggedFacts ==
  ASSUME TypeOK, NEW x \in InviteType, NEW b \in BOOLEAN
  PROVE  LET p == Logged(x, b) IN
         /\ p \in PanelType
         /\ p.queue = panel.queue /\ p.sending = panel.sending /\ p.nextRun = panel.nextRun
         /\ p.asked = panel.asked /\ p.log = panel.log \union {<<x.run, x.email, b>>}
<1> DEFINE l == panel.log \union {<<x.run, x.email, b>>}
<1>1. x.run \in Nat /\ x.email \in Emails
  BY DEF InviteType
<1>2. l \in SUBSET (Nat \X Emails \X BOOLEAN)
  BY <1>1 DEF TypeOK, PanelType
<1>3. Logged(x, b) = [panel EXCEPT !.log = l]
  BY DEF Logged, TypeOK, PanelType
<1> HIDE DEF l
<1>4. LET p == Logged(x, b) IN
         /\ p \in PanelType
         /\ p.queue = panel.queue /\ p.sending = panel.sending /\ p.nextRun = panel.nextRun
         /\ p.asked = panel.asked /\ p.log = l
  BY <1>2, <1>3 DEF TypeOK, PanelType
<1> QED
  BY <1>4 DEF l

\* The history keeps its type.
LEMMA HistoryFacts ==
  /\ \A h \in HistoryType, S \in SUBSET Nat : [h EXCEPT !.raced = S] \in HistoryType
  /\ \A h \in HistoryType, S \in SUBSET Emails : [h EXCEPT !.twice = S] \in HistoryType
  /\ \A h \in HistoryType, b \in BOOLEAN : [h EXCEPT !.blind = b] \in HistoryType
  /\ \A h \in HistoryType, b \in BOOLEAN : [h EXCEPT !.forgotten = b] \in HistoryType
  /\ \A h \in HistoryType, b \in BOOLEAN, S \in SUBSET Emails :
       [h EXCEPT !.doubled = b, !.twice = S] \in HistoryType
  /\ \A h \in HistoryType : h.raced \subseteq Nat /\ h.twice \subseteq Emails
  BY DEF HistoryType
-----------------------------------------------------------------------------
\* No task has a token that is not known yet.
TokensKnown == \A x \in InFlight : x.token \in 1 .. token

\* A start leaves one task and its intent, no row and a new panel.
LEMMA BootTypes ==
  ASSUME TypeOK, NEW u \in {"SignedIn", "OrgCreated"}, Boot(u)
  PROVE  /\ TasksOK' /\ IntentsOK'
         /\ InFlight' = {IF u = "SignedIn" THEN FetchTask(token) ELSE LoadTask(token)}
         /\ \A x \in InFlight' : tasks'[x] = 1
         /\ BagToSet(pendingIntents)' = {Plain(IF u = "SignedIn" THEN "fetch" ELSE "load")}
         /\ \A i \in BagToSet(pendingIntents)' : pendingIntents'[i] = 1
         /\ busy' \in BOOLEAN /\ ~pendingRefresh' /\ pendingRefresh' \in BOOLEAN
         /\ rows' = <<>> /\ panel' = NewPanel
<1> DEFINE x == IF u = "SignedIn" THEN FetchTask(token) ELSE LoadTask(token)
           i == Plain(IF u = "SignedIn" THEN "fetch" ELSE "load")
<1>1. x \in TaskType
  BY NewTask DEF TaskType, TypeOK
<1>2. i \in IntentType
  BY NewIntents
<1>3. tasks' = SetToBag({x}) /\ pendingIntents' = SetToBag({i})
  BY DEF Boot
<1> HIDE DEF x, i
<1>4. TasksOK' /\ InFlight' = {x} /\ \A z \in InFlight' : tasks'[z] = 1
  BY <1>1, <1>3 DEF TasksOK, InFlight, BagToSet, SetToBag, IsBag
<1>5. IntentsOK' /\ BagToSet(pendingIntents)' = {i}
      /\ \A j \in BagToSet(pendingIntents)' : pendingIntents'[j] = 1
  BY <1>2, <1>3 DEF IntentsOK, BagToSet, SetToBag, IsBag, IntentType
<1>6. busy' \in BOOLEAN /\ ~pendingRefresh' /\ pendingRefresh' \in BOOLEAN
  BY DEF Boot
<1> QED
  BY <1>4, <1>5, <1>6 DEF Boot, x, i

\* Every step keeps the types.
LEMMA TypeStep ==
  ASSUME TypeOK, TokensKnown, [Next]_vars
  PROVE  TypeOK'
<1> USE DEF sessionVars, driveVars
<1>1. CASE CreateOrgClicked
  <2>1. CreateTask(token) \in TaskType
    BY NewTask DEF TaskType, TypeOK
  <2>2. TasksOK'
    BY <1>1, <2>1, SwapBegins DEF CreateOrgClicked, TypeOK, Swap
  <2>3. IntentsOK'
    BY <1>1, NewIntents, IntentAdded DEF CreateOrgClicked, TypeOK
  <2> QED
    BY <1>1, <2>2, <2>3 DEF CreateOrgClicked, TypeOK
<1>2. CASE InviteSendClicked
  <2>1. PICK queue \in Lists :
          LET known == {folders[f].email : f \in DOMAIN folders}
                      \union {x.email : x \in InFlightOf("invite")}
                      \union {i.email : i \in {j \in BagToSet(pendingIntents) : j.what = "invite"}}
          IN
          /\ panel' = [panel EXCEPT !.sending = TRUE, !.queue = Tail(queue),
                           !.nextRun = panel.nextRun + 1, !.asked = ToSet(queue)]
          /\ pendingIntents' = BagAdd(pendingIntents, SendInvitations(panel.nextRun, Head(queue)))
          /\ tasks' = BagAdd(tasks, InviteTask(token, panel.nextRun, Head(queue)))
          /\ history' = Remember("twice", history.twice \union (ToSet(queue) \intersect known))
    BY <1>2 DEF InviteSendClicked
  <2>2. queue \in Seq(Emails) /\ queue # <<>>
    BY DashboardAssumption
  <2>3. Head(queue) \in Emails /\ Tail(queue) \in Seq(Emails) /\ ToSet(queue) \subseteq Emails
    BY <2>2 DEF ToSet
  <2>4. panel.nextRun \in Nat \ {0} /\ token \in Nat
    BY DEF TypeOK, PanelType
  <2>5. InviteTask(token, panel.nextRun, Head(queue)) \in TaskType
    BY <2>3, <2>4, NewInvite DEF TaskType
  <2>6. TasksOK'
    BY <2>1, <2>5, SwapBegins DEF TypeOK, Swap
  <2>7. IntentsOK'
    BY <2>1, <2>3, <2>4, NewIntents, IntentAdded DEF TypeOK
  <2>8. panel' \in PanelType
    <3> DEFINE q == Tail(queue)
               n == panel.nextRun + 1
               s == ToSet(queue)
    <3>1. q \in Seq(Emails) /\ n \in Nat \ {0} /\ s \in SUBSET Emails
      BY <2>3, <2>4
    <3>2. panel' = [panel EXCEPT !.sending = TRUE, !.queue = q, !.nextRun = n, !.asked = s]
      BY <2>1
    <3> HIDE DEF q, n, s
    <3> QED
      BY <3>1, <3>2 DEF TypeOK, PanelType
  <2>9. history' \in HistoryType
    <3> DEFINE T == history'.twice
    <3>1. \E S : history' = [history EXCEPT !.twice = history.twice \union (ToSet(queue) \intersect S)]
      BY <2>1 DEF Remember
    <3>2. PICK S : history' = [history EXCEPT !.twice = history.twice \union (ToSet(queue) \intersect S)]
      BY <3>1
    <3>3. history.twice \union (ToSet(queue) \intersect S) \in SUBSET Emails
      BY <2>3, HistoryFacts DEF TypeOK
    <3> QED
      BY <3>2, <3>3, HistoryFacts DEF TypeOK
  <2> QED
    BY <1>2, <2>6, <2>7, <2>8, <2>9 DEF InviteSendClicked, TypeOK
<1>3. CASE (userState = "OrgCreated" /\ StartLoad)
  <2>1. LoadTask(token) \in TaskType
    BY NewTask DEF TaskType, TypeOK
  <2>2. TasksOK'
    BY <1>3, <2>1, SwapBegins DEF StartLoad, TypeOK, Swap
  <2>3. IntentsOK'
    BY <1>3, NewIntents, IntentAdded DEF StartLoad, TypeOK
  <2> QED
    BY <1>3, <2>2, <2>3 DEF StartLoad, TypeOK
<1>4. ASSUME NEW k \in DOMAIN rows, RemoveAccessClicked(k) PROVE TypeOK'
  <2>1. rows[k] \in RowType /\ rows[k].id # "none"
    BY <1>4 DEF RemoveAccessClicked, TypeOK
  <2>2. RevokeTask(token, rows[k].folder, rows[k].id) \in TaskType
    <3>1. rows[k].folder \in Nat /\ rows[k].id \in {"id", "quoted"} /\ token \in Nat
      BY <2>1 DEF RowType, TypeOK
    <3> QED
      BY <3>1, NewRevoke DEF TaskType
  <2>3. TasksOK'
    BY <1>4, <2>2, SwapBegins DEF RemoveAccessClicked, TypeOK, Swap
  <2>4. rows' \in Seq(RowType)
    <3>1. \A j \in DOMAIN rows : rows[j] \in RowType
      BY DEF TypeOK
    <3>2. \A j \in DOMAIN rows : [rows[j] EXCEPT !.removing = TRUE] \in RowType
      BY <3>1, RowRemoving
    <3>3. \A j \in DOMAIN rows : rows'[j] \in RowType
      BY <1>4, <3>1, <3>2 DEF RemoveAccessClicked
    <3>4. rows' = [j \in DOMAIN rows |-> rows'[j]]
      BY <1>4 DEF RemoveAccessClicked
    <3> QED
      BY <3>3, <3>4, SeqMapped DEF TypeOK
  <2> QED
    BY <1>4, <2>3, <2>4 DEF RemoveAccessClicked, TypeOK, IntentsOK
<1>5. ASSUME NEW x \in InFlight, OrgSearched(x) PROVE TypeOK'
  <2>1. TasksOK'
    BY <1>5, OrgSearchedMoves DEF Swap
  <2>2. history' \in HistoryType
    BY <1>5, OrgSearchedMoves, HistoryFacts DEF TypeOK
  <2> QED
    BY <1>5, <2>1, <2>2 DEF OrgSearched, TypeOK, IntentsOK
<1>6. ASSUME NEW x \in InFlight, OrgPosted(x) PROVE TypeOK'
  <2>1. TasksOK' /\ orgs' \in Nat
    BY <1>6, OrgPostedMoves DEF Swap, TypeOK
  <2> QED
    BY <1>6, <2>1 DEF OrgPosted, TypeOK, IntentsOK
<1>7. ASSUME NEW x \in InFlight, OnOrgCreatedOk(x) PROVE TypeOK'
  <2>1. TasksOK'
    BY <1>7, OrgCreatedMoves DEF Swap
  <2>2. CASE userState = "SignedIn"
    <3>1. IntentsOK'
      BY <1>7, <2>2, NewIntents, IntentAdded DEF OnOrgCreatedOk, TypeOK
    <3>2. panel' \in PanelType /\ rows' \in Seq(RowType)
      BY <1>7, <2>2, PanelFacts DEF OnOrgCreatedOk
    <3> QED
      BY <1>7, <2>1, <2>2, <3>1, <3>2 DEF OnOrgCreatedOk, TypeOK
  <2>3. CASE userState # "SignedIn"
    BY <1>7, <2>1, <2>3 DEF OnOrgCreatedOk, TypeOK, IntentsOK
  <2> QED
    BY <2>2, <2>3
<1>8. ASSUME NEW x \in InFlight,
             OnOrgCreatedErr(x) \/ InvitationsLoaded(x) \/ OnDashboardLoadedErr(x)
      PROVE  TypeOK'
  <2>1. TasksOK'
    BY <1>8, EndMoves DEF Swap, OnOrgCreatedErr, InvitationsLoaded, OnDashboardLoadedErr
  <2>2. pendingRefresh' \in BOOLEAN /\ busy' \in BOOLEAN
    BY <1>8 DEF OnOrgCreatedErr, InvitationsLoaded, OnDashboardLoadedErr, TypeOK, HandleTokenExpired
  <2> QED
    BY <1>8, <2>1, <2>2
    DEF OnOrgCreatedErr, InvitationsLoaded, OnDashboardLoadedErr, TypeOK, IntentsOK
<1>9. ASSUME NEW x \in InFlight, FolderPosted(x) PROVE TypeOK'
  <2>1. x \in InviteType /\ x.email \in Emails /\ TasksOK'
    BY <1>9, FolderPostedMoves DEF InviteType, Swap
  <2>2. folders' \in Seq(FolderType)
    <3>1. CASE folders' = NewFolder(x.email)
      BY <2>1, <3>1, FolderAdded DEF TypeOK
    <3>2. CASE folders' = folders
      BY <3>2 DEF TypeOK
    <3> QED
      BY <1>9, <3>1, <3>2, FolderPostedMoves
  <2> QED
    BY <1>9, <2>1, <2>2 DEF FolderPosted, TypeOK, IntentsOK
<1>10. ASSUME NEW x \in InFlight, PermissionPosted(x) \/ FolderDeleted(x) \/ PermissionDeleted(x)
       PROVE  TypeOK'
  <2>1. TasksOK'
    BY <1>10, PermissionPostedMoves, FolderDeletedMoves, PermissionDeletedMoves DEF Swap
  <2>2. x.folder \in Nat
    BY <1>10, PermissionPostedMoves, FolderDeletedMoves, PermissionDeletedMoves
    DEF InviteType, RevokeType
  <2>3. folders' = folders \/ \E is \in Is : folders' = [folders EXCEPT ![x.folder].is = is]
    BY <1>10, PermissionPostedMoves, FolderDeletedMoves, PermissionDeletedMoves DEF Is
  <2>4. folders' \in Seq(FolderType)
    BY <2>2, <2>3, FolderChanged DEF TypeOK
  <2>5. history' = history \/ history' = AddRaced(x.folder)
    BY <1>10, PermissionPostedMoves, PermissionDeletedMoves DEF FolderDeleted
  <2>6. history' \in HistoryType
    <3>1. history.raced \union {x.folder} \in SUBSET Nat
      BY <2>2, HistoryFacts DEF TypeOK
    <3> QED
      BY <2>5, <3>1, HistoryFacts DEF TypeOK, AddRaced, Remember
  <2> QED
    BY <1>10, <2>1, <2>4, <2>6
    DEF PermissionPosted, FolderDeleted, PermissionDeleted, TypeOK, IntentsOK
<1>11. ASSUME NEW x \in InFlight, OnInviteUserFinishedOk(x) \/ OnInviteUserFinishedErr(x)
       PROVE  TypeOK'
  <2>1. PICK b \in BOOLEAN : Continue(x, Logged(x, b))
    BY <1>11 DEF OnInviteUserFinishedOk, OnInviteUserFinishedErr
  <2>2. x \in InviteType /\ x.at # "folder"
    BY <1>11, KindType DEF OnInviteUserFinishedOk, OnInviteUserFinishedErr, TypeOK, TasksOK
  <2> DEFINE p == Logged(x, b)
  <2>3. p \in PanelType /\ p.queue \in Seq(Emails)
    BY <2>2, LoggedFacts, PanelFacts
  <2>4. Continue(x, p)
    BY <2>1
  <2> HIDE DEF p
  <2>5. TasksOK'
    BY <2>2, <2>3, <2>4, ContinueMoves DEF Swap
  <2>6. IntentsOK' /\ panel' \in PanelType
    <3>1. CASE p.queue = <<>>
      BY <2>2, <2>3, <2>4, <3>1, ContinueMoves, PanelFacts DEF TypeOK, IntentsOK
    <3>2. CASE p.queue # <<>>
      <4>1. Head(p.queue) \in Emails /\ Tail(p.queue) \in Seq(Emails) /\ x.run \in Nat
        BY <2>2, <2>3, <3>2 DEF InviteType
      <4>2. /\ panel' = [p EXCEPT !.queue = Tail(p.queue)]
            /\ pendingIntents' = BagAdd(pendingIntents, SendInvitations(x.run, Head(p.queue)))
        BY <2>2, <2>3, <2>4, <3>2, ContinueMoves
      <4> QED
        BY <2>3, <4>1, <4>2, NewIntents, IntentAdded, PanelFacts DEF TypeOK
    <3> QED
      BY <3>1, <3>2
  <2>7. rows' \in Seq(RowType)
    <3>1. Row(x.folder, "quoted") \in RowType
      BY <2>2, RowFacts DEF InviteType
    <3>2. rows' = rows \/ rows' = Append(rows, Row(x.folder, "quoted"))
      BY <1>11 DEF OnInviteUserFinishedOk, OnInviteUserFinishedErr
    <3> QED
      BY <3>1, <3>2 DEF TypeOK
  <2> QED
    BY <1>11, <2>5, <2>6, <2>7 DEF OnInviteUserFinishedOk, OnInviteUserFinishedErr, TypeOK
<1>12. ASSUME NEW x \in InFlight, OnInviteUserExpired(x) PROVE TypeOK'
  <2>1. TasksOK'
    BY <1>12, EndMoves DEF Swap, OnInviteUserExpired
  <2>2. pendingRefresh' \in BOOLEAN
    BY <1>12 DEF OnInviteUserExpired, TypeOK, HandleTokenExpired
  <2>3. history' \in HistoryType
    <3>1. \E b \in BOOLEAN : history' = [history EXCEPT !.forgotten = b]
      BY <1>12 DEF OnInviteUserExpired, Remember
    <3> QED
      BY <3>1, HistoryFacts DEF TypeOK
  <2> QED
    BY <1>12, <2>1, <2>2, <2>3 DEF OnInviteUserExpired, TypeOK, IntentsOK
<1>13. ASSUME NEW x \in InFlight, FoldersListed(x) PROVE TypeOK'
  <2>1. TasksOK'
    BY <1>13, FoldersListedMoves DEF Swap
  <2> QED
    BY <1>13, <2>1 DEF FoldersListed, TypeOK, IntentsOK
<1>14. ASSUME NEW x \in InFlight, NEW f \in DOMAIN folders, FolderRead(x, f) PROVE TypeOK'
  <2>1. TasksOK'
    BY <1>14, FolderReadMoves DEF Swap
  <2> QED
    BY <1>14, <2>1 DEF FolderRead, TypeOK, IntentsOK
<1>15. ASSUME NEW x \in InFlight, OnDashboardLoadedOk(x) PROVE TypeOK'
  <2>1. TasksOK'
    BY <1>15, EndMoves DEF Swap, OnDashboardLoadedOk
  <2>2. x \in LoadType
    BY <1>15, KindType DEF OnDashboardLoadedOk, TypeOK, TasksOK
  <2>3. rows' \in Seq(RowType)
    BY <1>15, <2>2 DEF OnDashboardLoadedOk, LoadType
  <2>4. history' \in HistoryType
    <3>1. x.raced \union {f \in DOMAIN folders : Changing(f)} \in SUBSET Nat
      BY <2>2 DEF LoadType, TypeOK
    <3> QED
      BY <1>15, <3>1, HistoryFacts DEF OnDashboardLoadedOk, Remember, TypeOK
  <2> QED
    BY <1>15, <2>1, <2>3, <2>4 DEF OnDashboardLoadedOk, TypeOK, IntentsOK
<1>16. ASSUME NEW x \in InFlight, OnPermissionRevoked(x) PROVE TypeOK'
  <2>1. x \in RevokeType /\ x.folder \in Nat
    BY <1>16, KindType DEF OnPermissionRevoked, TypeOK, TasksOK, RevokeType
  <2>2. TasksOK'
    BY <1>16, <2>1, SwapEndsRaced DEF OnPermissionRevoked, TypeOK, Swap
  <2>3. rows' \in Seq(RowType)
    <3>1. \A k \in DOMAIN rows : rows[k] \in RowType
      BY DEF TypeOK
    <3>2. \A k \in DOMAIN rows : [rows[k] EXCEPT !.removing = FALSE] \in RowType
      BY <3>1, RowRemoving
    <3>3. Row(x.folder, "none") \in RowType
      BY <2>1, RowFacts
    <3>4. \A k \in DOMAIN rows : rows'[k] \in RowType
      BY <1>16, <3>1, <3>2, <3>3 DEF OnPermissionRevoked
    <3>5. rows' = [k \in DOMAIN rows |-> rows'[k]]
      BY <1>16 DEF OnPermissionRevoked
    <3> QED
      BY <3>4, <3>5, SeqMapped DEF TypeOK
  <2> QED
    BY <1>16, <2>2, <2>3 DEF OnPermissionRevoked, TypeOK, IntentsOK
<1>17. CASE AccessTokenRefreshedOk
  <2>1. TasksOK'
    BY <1>17, RetryMoves DEF TokensKnown, TypeOK
  <2>2. IntentsOK'
    BY <1>17 DEF AccessTokenRefreshedOk, IntentsOK, EmptyBag, SetToBag, BagToSet, IsBag
  <2>3. history' \in HistoryType
    <3> DEFINE again == {i \in BagToSet(pendingIntents) : Runnable(i)}
               S == {i.email : i \in {j \in again : j.what = "invite"}}
               b == history.doubled \/ \E i \in again : AnsweredBefore(i)
    <3>1. /\ b \in BOOLEAN
          /\ history' = [history EXCEPT !.doubled = b,
                      !.twice = history.twice \union {e \in S : \E f \in DOMAIN folders : folders[f].email = e}]
      BY <1>17 DEF AccessTokenRefreshedOk, TypeOK, HistoryType
    <3> HIDE DEF b, S
    <3>2. \A f \in DOMAIN folders : folders[f].email \in Emails
      <4>1. \A f \in DOMAIN folders : folders[f] \in FolderType
        BY DEF TypeOK
      <4> QED
        BY <4>1 DEF FolderType
    <3> DEFINE T == history.twice \union {e \in S : \E f \in DOMAIN folders : folders[f].email = e}
    <3>3. T \in SUBSET Emails
      BY <3>2, HistoryFacts DEF TypeOK
    <3>4. history' = [history EXCEPT !.doubled = b, !.twice = T]
      BY <3>1
    <3> HIDE DEF T
    <3>5. b \in BOOLEAN /\ history \in HistoryType
      BY <3>1 DEF TypeOK
    <3>6. [history EXCEPT !.doubled = b, !.twice = T] \in HistoryType
      BY <3>3, <3>5, HistoryFacts, Zenon
    <3> QED
      BY <3>4, <3>6
  <2> QED
    <3>1. /\ token' = token + 1 /\ pendingRefresh' = FALSE
          /\ UNCHANGED <<userState, busy, expired, rows, panel, orgs, folders>>
      BY <1>17 DEF AccessTokenRefreshedOk
    <3>2. token' \in Nat \ {0}
      BY <3>1 DEF TypeOK
    <3> QED
      BY <2>1, <2>2, <2>3, <3>1, <3>2 DEF TypeOK
<1>18. CASE AccessTokenRefreshedErr
  BY <1>18 DEF AccessTokenRefreshedErr, TypeOK, TasksOK, IntentsOK, EmptyBag, SetToBag, InFlight,
               BagToSet, IsBag
<1>19. CASE TokenExpires
  BY <1>19 DEF TokenExpires, TypeOK, TasksOK, IntentsOK, InFlight
<1>20. CASE Restart
  <2>1. userState \in {"SignedIn", "OrgCreated"} /\ Boot(userState)
    BY <1>20 DEF Restart, TypeOK
  <2>2. /\ TasksOK' /\ IntentsOK' /\ busy' \in BOOLEAN /\ pendingRefresh' \in BOOLEAN
        /\ rows' = <<>> /\ panel' = NewPanel
    BY <2>1, BootTypes
  <2>3. history' \in HistoryType
    <3>1. DOMAIN folders \in SUBSET Nat
      BY DEF TypeOK
    <3> QED
      BY <1>20, <3>1, HistoryFacts DEF Restart, Remember, TypeOK
  <2> QED
    BY <1>20, <2>2, <2>3, PanelFacts DEF Restart, TypeOK
<1>21. CASE UNCHANGED vars
  BY <1>21 DEF vars, TypeOK, TasksOK, IntentsOK, InFlight
<1> QED
  BY <1>1, <1>2, <1>3, <1>4, <1>5, <1>6, <1>7, <1>8, <1>9, <1>10, <1>11, <1>12, <1>13, <1>14,
     <1>15, <1>16, <1>17, <1>18, <1>19, <1>20, <1>21
  DEF Next, Click, RefreshClicked, InviteDoneClicked, Step, RefreshAnswer
-----------------------------------------------------------------------------
\* A Swap that begins no task with a token from the future.
LEMMA SwapTokens ==
  ASSUME TypeOK, TokensKnown, NEW Old, NEW New, New \subseteq TaskType, NEW R \in SUBSET Nat,
         Swap(Old, New, R), token' = token, \A y \in New : y.token \in 1 .. token
  PROVE  TokensKnown'
<1> SUFFICES ASSUME NEW z \in InFlight' PROVE z.token \in 1 .. token
  BY DEF TokensKnown
<1>1. CASE ~Reading(z)
  BY <1>1 DEF Swap, TokensKnown
<1>2. CASE Reading(z)
  <2>1. PICK w \in InFlight \union New : w.token = z.token
    <3>1. PICK w \in InFlight \union New : Reading(w) /\ z = [w EXCEPT !.raced = @ \union R]
      BY <1>2 DEF Swap
    <3>2. w \in LoadType
      BY <3>1, KindType DEF TypeOK, TasksOK, Reading
    <3> QED
      BY <3>1, <3>2 DEF LoadType
  <2> QED
    BY <2>1 DEF TokensKnown
<1> QED
  BY <1>1, <1>2

\* y may be what x becomes.
Succeeds(y, x) ==
  /\ y.token \in {x.token, token} /\ y.kind \in {x.kind, "load"}
  /\ y.kind = "invite" =>
       \/ x.at \in {"granted", "error"}
       \/ y.at # "folder" /\ y.run = x.run /\ y.email = x.email

\* Every step of a task ends it and begins at most one other.
LEMMA StepSwaps ==
  ASSUME TypeOK, NEW x \in InFlight, Step(x)
  PROVE  \E New \in SUBSET TaskType, R \in SUBSET Nat :
           Swap({x}, New, R) /\ \A y, z \in New : Succeeds(y, x) /\ y = z
<1> DEFINE G == \E New \in SUBSET TaskType, R \in SUBSET Nat :
                  Swap({x}, New, R) /\ \A y, z \in New : Succeeds(y, x) /\ y = z
<1>1. \A y \in TaskType, f \in Nat :
        Succeeds(y, x) /\ (Swap({x}, {y}, {}) \/ Swap({x}, {y}, {f})) => G
  <2> TAKE y \in TaskType, f \in Nat
  <2>1. {y} \in SUBSET TaskType /\ {f} \in SUBSET Nat /\ {} \in SUBSET Nat
    OBVIOUS
  <2> QED
    BY <2>1
<1>2. \A f \in Nat : Swap({x}, {}, {}) \/ Swap({x}, {}, {f}) => G
  <2> TAKE f \in Nat
  <2>1. {f} \in SUBSET Nat /\ {} \in SUBSET Nat /\ {} \in SUBSET TaskType
    OBVIOUS
  <2> QED
    BY <2>1
<1> SUFFICES G
  OBVIOUS
<1> HIDE DEF G
<1>3. CASE OrgSearched(x)
  BY <1>1, <1>3, OrgSearchedMoves, KindType DEF TaskType, Succeeds
<1>4. CASE OrgPosted(x)
  BY <1>1, <1>4, OrgPostedMoves, KindType DEF TaskType, Succeeds
<1>5. CASE OnOrgCreatedOk(x)
  <2>1. LoadTask(token) \in TaskType /\ Succeeds(LoadTask(token), x)
    BY NewTask DEF TaskType, TypeOK, Succeeds
  <2> QED
    BY <1>1, <1>2, <1>5, <2>1, OrgCreatedMoves
<1>6. CASE Ends(x)
  BY <1>2, <1>6, EndMoves
<1>7. CASE FolderPosted(x)
  BY <1>1, <1>7, FolderPostedMoves, KindType DEF TaskType, SameInvite, Succeeds
<1>8. ASSUME NEW y, NEW a,
             \/ x \in InviteType /\ a # "folder" /\ SameInvite(x, y, a)
             \/ x \in RevokeType /\ SameRevoke(x, y, a)
      PROVE  y \in TaskType /\ Succeeds(y, x)
  BY <1>8, KindType DEF SameInvite, SameRevoke, TaskType, Succeeds
<1>9. ASSUME x \in InviteType \union RevokeType PROVE x.folder \in Nat
  BY <1>9 DEF InviteType, RevokeType
<1>10. CASE PermissionPosted(x)
  BY <1>1, <1>8, <1>9, <1>10, PermissionPostedMoves
<1>11. CASE FolderDeleted(x)
  BY <1>1, <1>8, <1>9, <1>11, FolderDeletedMoves
<1>12. CASE PermissionDeleted(x)
  BY <1>1, <1>8, <1>9, <1>12, PermissionDeletedMoves
<1>13. CASE OnInviteUserFinishedOk(x) \/ OnInviteUserFinishedErr(x)
  <2>1. PICK b \in BOOLEAN : Continue(x, Logged(x, b))
    BY <1>13 DEF OnInviteUserFinishedOk, OnInviteUserFinishedErr
  <2>2. x \in InviteType /\ x.at # "folder" /\ x.at \in {"granted", "error"}
    BY <1>13, KindType DEF OnInviteUserFinishedOk, OnInviteUserFinishedErr, TypeOK, TasksOK
  <2>3. Logged(x, b) \in PanelType
    BY <2>2, LoggedFacts
  <2>4. \/ Swap({x}, {}, {x.folder})
        \/ \E y, e : FirstInvite(y, x.run, e) /\ Swap({x}, {y}, {x.folder})
    BY <2>1, <2>2, <2>3, ContinueMoves
  <2> QED
    BY <1>1, <1>2, <1>9, <2>2, <2>4, KindType DEF FirstInvite, TaskType, Succeeds
<1>14. CASE FoldersListed(x)
  BY <1>1, <1>14, FoldersListedMoves, KindType DEF TaskType, Succeeds
<1>15. CASE \E f \in DOMAIN folders : FolderRead(x, f)
  BY <1>1, <1>15, FolderReadMoves, KindType DEF TaskType, Succeeds
<1>16. CASE OnPermissionRevoked(x)
  <2>1. x \in RevokeType /\ x.folder \in Nat
    BY <1>16, KindType DEF OnPermissionRevoked, TypeOK, TasksOK, RevokeType
  <2>2. Swap({x}, {}, {x.folder})
    BY <1>16, <2>1, SwapEndsRaced DEF OnPermissionRevoked, TypeOK
  <2> QED
    BY <1>2, <1>9, <2>1, <2>2
<1> QED
  BY <1>3, <1>4, <1>5, <1>6, <1>7, <1>10, <1>11, <1>12, <1>13, <1>14, <1>15, <1>16
  DEF Step, OnOrgCreatedErr, InvitationsLoaded, OnInviteUserExpired, OnDashboardLoadedOk,
      OnDashboardLoadedErr

\* All tokens but the last one have expired; a refresh is under way only if that one has
\* expired too.
TokenInv ==
  /\ expired \subseteq 1 .. token
  /\ 1 .. (token - 1) \subseteq expired
  /\ pendingRefresh => token \in expired
  /\ TokensKnown

\* A task asks for a refresh only with the current token, and only once it has expired.
LEMMA StepTokens ==
  ASSUME TypeOK, NEW x \in InFlight, Step(x)
  PROVE  /\ token' = token /\ expired' = expired
         /\ (pendingRefresh' = pendingRefresh) \/ (x.token = token /\ x.token \in expired)
<1> USE DEF sessionVars
<1>0. pendingRefresh \in BOOLEAN
  BY DEF TypeOK
<1>1. CASE OnOrgCreatedErr(x)
  BY <1>0, <1>1 DEF OnOrgCreatedErr, HandleTokenExpired, Refused
<1>2. CASE InvitationsLoaded(x)
  BY <1>0, <1>2 DEF InvitationsLoaded, HandleTokenExpired, Refused
<1>3. CASE OnInviteUserExpired(x)
  BY <1>0, <1>3 DEF OnInviteUserExpired, HandleTokenExpired, Refused
<1>4. CASE OnDashboardLoadedErr(x)
  BY <1>0, <1>4 DEF OnDashboardLoadedErr, HandleTokenExpired, Refused
<1>5. CASE OrgSearched(x) \/ OrgPosted(x) \/ OnOrgCreatedOk(x) \/ FolderPosted(x)
  BY <1>5 DEF OrgSearched, OrgPosted, OnOrgCreatedOk, FolderPosted
<1>6. CASE PermissionPosted(x) \/ FolderDeleted(x) \/ PermissionDeleted(x) \/ OnPermissionRevoked(x)
  BY <1>6 DEF PermissionPosted, FolderDeleted, PermissionDeleted, OnPermissionRevoked
<1>7. CASE \/ OnInviteUserFinishedOk(x) \/ OnInviteUserFinishedErr(x) \/ FoldersListed(x)
           \/ OnDashboardLoadedOk(x) \/ \E f \in DOMAIN folders : FolderRead(x, f)
  BY <1>7 DEF OnInviteUserFinishedOk, OnInviteUserFinishedErr, FoldersListed, OnDashboardLoadedOk,
              FolderRead
<1> QED
  BY <1>1, <1>2, <1>3, <1>4, <1>5, <1>6, <1>7 DEF Step

\* Every click begins one task with the current token.
LEMMA ClickMoves ==
  ASSUME TypeOK, Click
  PROVE  /\ token' = token /\ expired' = expired /\ pendingRefresh' = pendingRefresh
         /\ \E y \in TaskType : /\ Swap({}, {y}, {}) /\ y.token = token
                                /\ userState = "OrgCreated" => y.kind \in {"load", "invite", "revoke"}
                                /\ y.kind = "invite" => InviteSendClicked
<1> USE DEF sessionVars
<1>1. CASE CreateOrgClicked
  <2>1. /\ CreateTask(token) \in TaskType /\ CreateTask(token).token = token
        /\ CreateTask(token).kind = "create" /\ userState = "SignedIn"
    BY <1>1, NewTask DEF TaskType, TypeOK, CreateOrgClicked
  <2> QED
    BY <1>1, <2>1, SwapBegins DEF CreateOrgClicked, TypeOK
<1>2. CASE InviteSendClicked
  <2>1. PICK queue \in Lists :
          tasks' = BagAdd(tasks, InviteTask(token, panel.nextRun, Head(queue)))
    BY <1>2 DEF InviteSendClicked
  <2>2. Head(queue) \in Emails
    BY DashboardAssumption
  <2>3. panel.nextRun \in Nat \ {0} /\ token \in Nat
    BY DEF TypeOK, PanelType
  <2> DEFINE y == InviteTask(token, panel.nextRun, Head(queue))
  <2>4. y \in TaskType /\ y.token = token /\ y.kind = "invite"
    BY <2>2, <2>3, NewInvite DEF TaskType
  <2> HIDE DEF y
  <2>5. tasks' = BagAdd(tasks, y)
    BY <2>1 DEF y
  <2> QED
    BY <1>2, <2>4, <2>5, SwapBegins DEF InviteSendClicked, TypeOK
<1>3. CASE StartLoad
  <2>1. LoadTask(token) \in TaskType /\ LoadTask(token).token = token /\ LoadTask(token).kind = "load"
    BY NewTask DEF TaskType, TypeOK
  <2> QED
    BY <1>3, <2>1, SwapBegins DEF StartLoad, TypeOK
<1>4. ASSUME NEW k \in DOMAIN rows, RemoveAccessClicked(k)
      PROVE  /\ token' = token /\ expired' = expired /\ pendingRefresh' = pendingRefresh
             /\ \E y \in TaskType : /\ Swap({}, {y}, {}) /\ y.token = token
                                    /\ userState = "OrgCreated" => y.kind \in {"load", "invite", "revoke"}
                                    /\ y.kind = "invite" => InviteSendClicked
  <2>1. rows[k] \in RowType /\ rows[k].id # "none"
    BY <1>4 DEF RemoveAccessClicked, TypeOK
  <2> DEFINE y == RevokeTask(token, rows[k].folder, rows[k].id)
  <2>2. y \in TaskType /\ y.token = token /\ y.kind = "revoke"
    <3>1. rows[k].folder \in Nat /\ rows[k].id \in {"id", "quoted"} /\ token \in Nat
      BY <2>1 DEF RowType, TypeOK
    <3> QED
      BY <3>1, NewRevoke DEF TaskType
  <2>3. tasks' = BagAdd(tasks, y)
    BY <1>4 DEF RemoveAccessClicked
  <2> HIDE DEF y
  <2> QED
    BY <1>4, <2>2, <2>3, SwapBegins DEF RemoveAccessClicked, TypeOK
<1> QED
  BY <1>1, <1>2, <1>3, <1>4 DEF Click, RefreshClicked, InviteDoneClicked

\* Every step keeps the tokens.
LEMMA TokenStep ==
  ASSUME TypeOK, TokenInv, [Next]_vars
  PROVE  TokenInv'
<1> USE DEF sessionVars, driveVars
<1>0. TokensKnown /\ token \in Nat \ {0}
  BY DEF TokenInv, TypeOK
<1>1. CASE Click
  <2>1. PICK y \in TaskType : /\ Swap({}, {y}, {}) /\ y.token = token
                              /\ userState = "OrgCreated" => y.kind \in {"load", "invite", "revoke"}
                              /\ y.kind = "invite" => InviteSendClicked
    BY <1>1, ClickMoves
  <2>2. token' = token /\ expired' = expired /\ pendingRefresh' = pendingRefresh
    BY <1>1, ClickMoves
  <2>3. TokensKnown'
    <3>1. {y} \subseteq TaskType /\ {} \in SUBSET Nat /\ Swap({}, {y}, {})
      BY <2>1
    <3>2. \A w \in {y} : w.token \in 1 .. token
      BY <1>0, <2>1
    <3> QED
      BY <1>0, <2>2, <3>1, <3>2, SwapTokens
  <2> QED
    BY <2>2, <2>3 DEF TokenInv
<1>2. ASSUME NEW x \in InFlight, Step(x) PROVE TokenInv'
  <2>1. PICK New \in SUBSET TaskType, R \in SUBSET Nat :
           Swap({x}, New, R) /\ \A y, z \in New : Succeeds(y, x) /\ y = z
    BY <1>2, StepSwaps
  <2>2. /\ token' = token /\ expired' = expired
        /\ (pendingRefresh' = pendingRefresh) \/ (x.token = token /\ x.token \in expired)
    BY <1>2, StepTokens
  <2>3. TokensKnown'
    <3>1. \A y \in New : y.token \in 1 .. token
      BY <1>0, <2>1 DEF TokensKnown, Succeeds
    <3> QED
      BY <1>0, <2>1, <2>2, <3>1, SwapTokens
  <2> QED
    BY <2>2, <2>3 DEF TokenInv
<1>3. CASE AccessTokenRefreshedOk
  <2>1. token' = token + 1 /\ expired' = expired /\ pendingRefresh' = FALSE /\ pendingRefresh
    BY <1>3 DEF AccessTokenRefreshedOk
  <2>2. \A z \in InFlight' : z \in InFlight \/ \E i : Again(i) /\ z = TaskOf(i, token + 1)
    BY <1>0, <1>3, RetryMoves DEF TokensKnown
  <2>3. \A i : Again(i) => TaskOf(i, token + 1).token = token + 1
    BY <1>0, TaskOfFacts DEF Again, TypeOK, IntentsOK, IntentType
  <2>4. TokensKnown'
    BY <1>0, <2>1, <2>2, <2>3 DEF TokensKnown
  <2>5. expired' \subseteq 1 .. token' /\ 1 .. (token' - 1) \subseteq expired'
    BY <1>0, <2>1 DEF TokenInv
  <2> QED
    BY <2>1, <2>4, <2>5 DEF TokenInv
<1>4. CASE AccessTokenRefreshedErr
  BY <1>4 DEF AccessTokenRefreshedErr, TokenInv, TokensKnown, InFlight, EmptyBag, SetToBag, BagToSet
<1>5. CASE TokenExpires
  BY <1>0, <1>5 DEF TokenExpires, TokenInv, TokensKnown, InFlight
<1>6. CASE Restart
  <2>1. userState \in {"SignedIn", "OrgCreated"} /\ Boot(userState)
    BY <1>6 DEF Restart, TypeOK
  <2>2. /\ InFlight' = {IF userState = "SignedIn" THEN FetchTask(token) ELSE LoadTask(token)}
        /\ ~pendingRefresh'
    BY <2>1, BootTypes
  <2>3. \A x \in InFlight' : x.token = token
    BY <1>0, <2>2, NewTask
  <2> QED
    BY <1>0, <1>6, <2>2, <2>3 DEF Restart, TokenInv, TokensKnown
<1>7. CASE UNCHANGED vars
  BY <1>7 DEF vars, TokenInv, TokensKnown, InFlight
<1> QED
  BY <1>1, <1>2, <1>3, <1>4, <1>5, <1>6, <1>7 DEF Next, RefreshAnswer
-----------------------------------------------------------------------------
\* The intents in the list.
Intended == BagToSet(pendingIntents)

\* Signed in and without organization the owner has at most one task: a refresh is
\* asked for by a task that ended, and the screen is busy until the last one has.
AloneInv ==
  userState = "SignedIn" =>
    /\ \A x \in InFlight : x.kind \in {"fetch", "create"} /\ tasks[x] = 1
    /\ \A x, y \in InFlight : x = y
    /\ \A i \in Intended : /\ i.what \in {"fetch", "create"}
                           /\ i.what = "fetch" => pendingIntents[i] = 1
    /\ pendingRefresh \/ InFlightOf("fetch") # {} =>
         busy /\ \A i \in Intended : i.what # "create"
    /\ pendingRefresh \/ ~busy => InFlight = {}
    /\ ~busy => \A i \in Intended : i.what # "create"

\* The organization is looked for by those who are signed in without one.
KindsInv ==
  /\ userState # "SignedIn" => \A x \in InFlight : x.kind \notin {"create", "fetch"}
  /\ userState = "SignedOut" => InFlight = {}

\* As long as every search was answered a folder is posted only if there is none.
SearchInv ==
  ~history.blind =>
    orgs <= 1 /\ \A x \in InFlight : x.kind = "create" /\ x.at = "post" => orgs = 0

OrgInv == AloneInv /\ KindsInv /\ SearchInv

\* The only task is followed by its successors.
LEMMA SoleSwap ==
  ASSUME TypeOK, NEW x \in InFlight, ~Reading(x), tasks[x] = 1, \A z \in InFlight : z = x,
         NEW New, NEW R, Swap({x}, New, R), \A y \in New : ~Reading(y) /\ y # x
  PROVE  InFlight' = New /\ \A y \in New : tasks'[y] = 1
<1>1. \A z \in InFlight' : ~Reading(z)
  <2> SUFFICES ASSUME NEW z \in InFlight', Reading(z) PROVE FALSE
    OBVIOUS
  <2>1. PICK w \in InFlight \union New : Reading(w)
    BY DEF Swap
  <2> QED
    BY <2>1
<1>2. \A z \in InFlight' : z \in New
  BY <1>1 DEF Swap
<1>3. \A z \in New : z \in InFlight'
  BY DEF Swap
<1>4. \A z \in New : tasks'[z] = 1
  BY DEF Swap
<1> QED
  BY <1>2, <1>3, <1>4

\* The steps of the other tasks leave the organization alone.
LEMMA OtherSteps ==
  ASSUME TypeOK, NEW x \in InFlight, Step(x), x.kind \notin {"create", "fetch"}
  PROVE  /\ userState' = userState /\ orgs' = orgs /\ history'.blind = history.blind
         /\ \A z \in InFlight' : z.kind \notin {"create", "fetch"} \/ z \in InFlight
<1> USE DEF sessionVars, driveVars
<1>1. userState' = userState /\ orgs' = orgs
  BY DEF Step, OrgSearched, OrgPosted, OnOrgCreatedOk, OnOrgCreatedErr, InvitationsLoaded, FolderPosted,
         PermissionPosted, FolderDeleted, OnInviteUserFinishedOk, OnInviteUserFinishedErr,
         OnInviteUserExpired, FoldersListed, FolderRead, OnDashboardLoadedOk, OnDashboardLoadedErr,
         PermissionDeleted, OnPermissionRevoked
<1>2. history'.blind = history.blind
  <2>1. \/ history' = history
        \/ \E S : history' = [history EXCEPT !.raced = S]
        \/ \E b : history' = [history EXCEPT !.forgotten = b]
    <3>1. CASE PermissionPosted(x) \/ PermissionDeleted(x)
      BY <3>1 DEF PermissionPosted, PermissionDeleted, FailsAt, Remember
    <3>2. CASE OnInviteUserExpired(x)
      BY <3>2 DEF OnInviteUserExpired, Remember
    <3>3. CASE OnDashboardLoadedOk(x)
      BY <3>3 DEF OnDashboardLoadedOk, Remember
    <3> QED
      BY <3>1, <3>2, <3>3
      DEF Step, OrgSearched, OrgPosted, OnOrgCreatedOk, OnOrgCreatedErr, InvitationsLoaded, FolderPosted,
          FolderDeleted, OnInviteUserFinishedOk, OnInviteUserFinishedErr, FoldersListed, FolderRead,
          OnDashboardLoadedErr, OnPermissionRevoked
  <2> QED
    BY <2>1 DEF TypeOK, HistoryType
<1>3. PICK New \in SUBSET TaskType, R \in SUBSET Nat :
        Swap({x}, New, R) /\ \A y, z \in New : Succeeds(y, x) /\ y = z
  BY StepSwaps
<1>4. \A z \in InFlight' : ~Reading(z) => z.kind \notin {"create", "fetch"} \/ z \in InFlight
  BY <1>3 DEF Swap, Succeeds
<1>5. \A z : Reading(z) => z.kind = "load"
  BY DEF Reading
<1> QED
  BY <1>1, <1>2, <1>4, <1>5

\* Every step keeps the part about the organization.
LEMMA OrgStep ==
  ASSUME TypeOK, TokenInv, OrgInv, [Next]_vars
  PROVE  OrgInv'
<1> USE DEF sessionVars, driveVars
<1>0. /\ userState \in {"SignedIn", "OrgCreated", "SignedOut"} /\ TasksOK /\ IntentsOK /\ token \in Nat
      /\ \A x \in InFlight : x \in TaskType
      /\ \A i \in Intended : i \in IntentType
  BY DEF TypeOK, TasksOK, IntentsOK, Intended, IntentType
<1>1. CASE CreateOrgClicked
  <2>1. userState = "SignedIn" /\ ~busy /\ InFlight = {} /\ \A i \in Intended : i.what # "create"
    BY <1>1 DEF CreateOrgClicked, OrgInv, AloneInv
  <2>2. userState' = "SignedIn" /\ busy' /\ ~pendingRefresh' /\ UNCHANGED <<orgs, history>>
    BY <1>1, <2>1 DEF CreateOrgClicked, OrgInv, AloneInv, TypeOK
  <2> DEFINE y == CreateTask(token)
             i == Plain("create")
  <2>3. y \in TaskType /\ y.kind = "create" /\ y.at = "search" /\ ~Reading(y)
    BY <1>0, NewTask DEF TaskType, Reading
  <2>4. i \in IntentType /\ i.what = "create"
    BY NewIntents
  <2>5. tasks' = BagAdd(tasks, y) /\ pendingIntents' = BagAdd(pendingIntents, i)
    BY <1>1 DEF CreateOrgClicked
  <2> HIDE DEF y, i
  <2>6. Swap({}, {y}, {})
    BY <1>0, <2>3, <2>5, SwapBegins
  <2>7. InFlight' = {y} /\ tasks'[y] = 1
    <3>1. \A z \in InFlight' : ~Reading(z)
      BY <2>1, <2>3, <2>6 DEF Swap
    <3> QED
      BY <3>1, <2>1, <2>3, <2>6 DEF Swap
  <2>8. Intended' = Intended \union {i} /\ \A j \in Intended : j # i => pendingIntents'[j] = pendingIntents[j]
    BY <1>0, <2>4, <2>5, IntentAdded DEF Intended
  <2>9. AloneInv'
    BY <2>1, <2>2, <2>3, <2>4, <2>7, <2>8 DEF OrgInv, AloneInv, InFlightOf
  <2> QED
    BY <2>1, <2>2, <2>3, <2>7, <2>9 DEF OrgInv, KindsInv, SearchInv
<1>2. CASE Click /\ ~CreateOrgClicked
  <2>1. userState = "OrgCreated" /\ UNCHANGED <<userState, orgs>> /\ history'.blind = history.blind
    <3>1. InviteSendClicked => \E S : history' = [history EXCEPT !.twice = S]
      BY DEF InviteSendClicked, Remember
    <3>2. InviteSendClicked => history'.blind = history.blind
      BY <3>1 DEF TypeOK, HistoryType
    <3> QED
      BY <1>2, <3>2 DEF Click, InviteSendClicked, InviteDoneClicked, RefreshClicked, StartLoad,
                        RemoveAccessClicked
  <2>2. PICK y \in TaskType : /\ Swap({}, {y}, {}) /\ y.token = token
                              /\ userState = "OrgCreated" => y.kind \in {"load", "invite", "revoke"}
                              /\ y.kind = "invite" => InviteSendClicked
    BY <1>2, ClickMoves
  <2>3. \A z \in InFlight' : z.kind \notin {"create", "fetch"}
    <3>1. \A z \in InFlight : z.kind \notin {"create", "fetch"}
      BY <2>1 DEF OrgInv, KindsInv
    <3>2. \A z \in InFlight' : ~Reading(z) => z \in InFlight \/ z = y
      BY <2>2 DEF Swap
    <3>3. y.kind \notin {"create", "fetch"}
      BY <2>1, <2>2
    <3> QED
      BY <3>1, <3>2, <3>3 DEF Reading
  <2> QED
    BY <2>1, <2>3 DEF OrgInv, AloneInv, KindsInv, SearchInv
<1>3. ASSUME NEW x \in InFlight, Step(x), x.kind \in {"create", "fetch"} PROVE OrgInv'
  <2>1. /\ userState = "SignedIn" /\ tasks[x] = 1 /\ \A z \in InFlight : z = x
        /\ x \in TaskType /\ ~Reading(x)
    BY <1>0, <1>3 DEF OrgInv, AloneInv, KindsInv, Reading
  <2>2. Swap({x}, {}, {}) => InFlight' = {}
    BY <2>1, SoleSwap
  <2>3. \A y \in TaskType : Swap({x}, {y}, {}) /\ ~Reading(y) /\ y # x => InFlight' = {y} /\ tasks'[y] = 1
    <3> SUFFICES ASSUME NEW y \in TaskType, Swap({x}, {y}, {}), ~Reading(y), y # x
                 PROVE  InFlight' = {y} /\ tasks'[y] = 1
      OBVIOUS
    <3>1. \A z \in {y} : ~Reading(z) /\ z # x
      OBVIOUS
    <3> QED
      BY <2>1, <3>1, SoleSwap
  <2>4. CASE OrgSearched(x)
    <3>1. PICK y \in CreateType :
              /\ Swap({x}, {y}, {})
              /\ y.token = x.token
              /\ y.at \in {"created", "post"}
              /\ y.at = "post" => orgs = 0 \/ history' = [history EXCEPT !.blind = TRUE]
      BY <2>4, OrgSearchedMoves
    <3>2. /\ x \in CreateType /\ x.at = "search"
          /\ history' = history \/ history' = [history EXCEPT !.blind = TRUE]
      BY <2>4, OrgSearchedMoves
    <3>3. y \in TaskType /\ y.kind = "create" /\ ~Reading(y) /\ y # x
      BY <3>1, <3>2 DEF TaskType, CreateType, Reading
    <3>4. InFlight' = {y} /\ tasks'[y] = 1
      BY <2>3, <3>1, <3>3
    <3>5. UNCHANGED <<userState, busy, pendingRefresh, pendingIntents, orgs>>
      BY <2>4 DEF OrgSearched
    <3>6. history'.blind => history' = [history EXCEPT !.blind = TRUE] \/ history' = history
      BY <3>2
    <3>7. [history EXCEPT !.blind = TRUE].blind
      BY DEF TypeOK, HistoryType
    <3>8. SearchInv'
      BY <3>1, <3>2, <3>4, <3>5, <3>7 DEF OrgInv, SearchInv
    <3>9. AloneInv'
      BY <2>1, <3>2, <3>3, <3>4, <3>5, <1>3 DEF OrgInv, AloneInv, InFlightOf, Intended
    <3> QED
      BY <2>1, <3>5, <3>8, <3>9 DEF OrgInv, KindsInv
  <2>5. CASE OrgPosted(x)
    <3>1. /\ x \in CreateType /\ x.at = "post" /\ x.kind = "create"
          /\ orgs' \in {orgs, orgs + 1}
      BY <2>5, OrgPostedMoves DEF CreateType
    <3>2. PICK y \in CreateType :
              Swap({x}, {y}, {}) /\ y.token = x.token /\ y.at \in {"created", "error"}
      BY <2>5, OrgPostedMoves
    <3>3. y \in TaskType /\ y.kind = "create" /\ ~Reading(y) /\ y # x
      BY <3>1, <3>2 DEF TaskType, CreateType, Reading
    <3>4. InFlight' = {y} /\ tasks'[y] = 1
      BY <2>3, <3>2, <3>3
    <3>5. UNCHANGED <<userState, busy, pendingRefresh, pendingIntents, history>>
      BY <2>5 DEF OrgPosted
    <3>6. SearchInv'
      BY <3>1, <3>2, <3>4, <3>5 DEF OrgInv, SearchInv
    <3>7. AloneInv'
      BY <2>1, <3>1, <3>3, <3>4, <3>5 DEF OrgInv, AloneInv, InFlightOf, Intended
    <3> QED
      BY <2>1, <3>5, <3>6, <3>7 DEF OrgInv, KindsInv
  <2>6. CASE OnOrgCreatedOk(x)
    <3> DEFINE y == LoadTask(token)
    <3>1. x \in CreateType /\ Swap({x}, {y}, {})
      BY <2>1, <2>6, OrgCreatedMoves
    <3>2. y \in TaskType /\ y.kind = "load" /\ ~Reading(y)
      BY <1>0, NewTask DEF TaskType, Reading
    <3>3. userState' = "OrgCreated" /\ UNCHANGED <<orgs, history>>
      BY <2>1, <2>6 DEF OnOrgCreatedOk
    <3> HIDE DEF y
    <3>4. InFlight' = {y}
      BY <2>3, <3>1, <3>2 DEF CreateType
    <3> QED
      BY <3>2, <3>3, <3>4 DEF OrgInv, AloneInv, KindsInv, SearchInv
  <2>7. CASE OnOrgCreatedErr(x)
    <3>1. Ends(x) /\ UNCHANGED <<userState, busy, pendingIntents, orgs, history>>
      BY <2>7 DEF OnOrgCreatedErr
    <3>2. InFlight' = {}
      BY <2>2, <3>1, EndMoves
    <3>3. pendingRefresh' = pendingRefresh
      BY <2>1, <2>7 DEF OnOrgCreatedErr
    <3> QED
      BY <2>1, <3>1, <3>2, <3>3 DEF OrgInv, AloneInv, KindsInv, SearchInv, InFlightOf, Intended
  <2>8. CASE InvitationsLoaded(x)
    <3>1. Ends(x) /\ UNCHANGED <<userState, pendingIntents, orgs, history>> /\ x \in InFlightOf("fetch")
      BY <2>8 DEF InvitationsLoaded, InFlightOf
    <3>2. InFlight' = {}
      BY <2>2, <3>1, EndMoves
    <3>3. /\ busy /\ \A i \in Intended : i.what # "create"
      BY <2>1, <3>1 DEF OrgInv, AloneInv
    <3>4. busy' \/ pendingRefresh' = pendingRefresh
      BY <2>8, <3>3 DEF InvitationsLoaded
    <3>5. ~pendingRefresh
      BY <2>1 DEF OrgInv, AloneInv
    <3>6. pendingRefresh' => busy'
      BY <3>4, <3>5
    <3> QED
      BY <2>1, <3>1, <3>2, <3>3, <3>6 DEF OrgInv, AloneInv, KindsInv, SearchInv, InFlightOf, Intended
  <2> QED
    BY <1>3, <2>4, <2>5, <2>6, <2>7, <2>8
    DEF Step, FolderPosted, PermissionPosted, FolderDeleted, OnInviteUserFinishedOk,
        OnInviteUserFinishedErr, OnInviteUserExpired, FoldersListed, FolderRead, OnDashboardLoadedOk,
        OnDashboardLoadedErr, PermissionDeleted, OnPermissionRevoked
<1>4. ASSUME NEW x \in InFlight, Step(x), x.kind \notin {"create", "fetch"} PROVE OrgInv'
  <2>1. userState # "SignedIn" /\ userState # "SignedOut"
    BY <1>4 DEF OrgInv, AloneInv, KindsInv
  <2>2. /\ userState' = userState /\ orgs' = orgs /\ history'.blind = history.blind
        /\ \A z \in InFlight' : z.kind \notin {"create", "fetch"} \/ z \in InFlight
    BY <1>4, OtherSteps
  <2>3. \A z \in InFlight' : z.kind \notin {"create", "fetch"}
    BY <2>1, <2>2 DEF OrgInv, KindsInv
  <2> QED
    BY <2>1, <2>2, <2>3 DEF OrgInv, AloneInv, KindsInv, SearchInv
<1>5. CASE AccessTokenRefreshedOk
  <2>1. /\ userState # "SignedOut" /\ pendingRefresh /\ ~pendingRefresh' /\ Intended' = {}
        /\ UNCHANGED <<userState, busy, orgs>>
    BY <1>5 DEF AccessTokenRefreshedOk, Intended, EmptyBag, SetToBag, BagToSet
  <2>2. history'.blind = history.blind
    <3>1. \E b, S : history' = [history EXCEPT !.doubled = b, !.twice = S]
      BY <1>5 DEF AccessTokenRefreshedOk
    <3> QED
      BY <3>1 DEF TypeOK, HistoryType
  <2>3. \A x \in InFlight : x.token <= token
    BY <1>0 DEF TokenInv, TokensKnown
  <2>4. /\ \A z \in InFlight' : z \in InFlight \/ \E i : Again(i) /\ z = TaskOf(i, token + 1)
        /\ \A i : Again(i) => tasks'[TaskOf(i, token + 1)] = pendingIntents[i]
    BY <1>5, <2>3, RetryMoves
  <2>5. \A i : Again(i) => i \in Intended /\ i \in IntentType /\ TaskOf(i, token + 1).kind = i.what
    BY <1>0, TaskOfFacts DEF Again, Intended
  <2>6. CASE userState = "SignedIn"
    <3>1. InFlight = {} /\ busy /\ \A i \in Intended : i.what = "fetch" /\ pendingIntents[i] = 1
      BY <2>1, <2>6 DEF OrgInv, AloneInv
    <3>2. \A i, j \in Intended : i = j
      BY <1>0, <3>1 DEF IntentType, PlainIntents, InviteIntents
    <3>3. \A y, z \in InFlight' : y = z /\ y.kind = "fetch" /\ tasks'[y] = 1
      BY <2>4, <2>5, <3>1, <3>2
    <3> QED
      BY <2>1, <2>2, <2>6, <3>1, <3>3 DEF OrgInv, AloneInv, KindsInv, SearchInv
  <2>7. CASE userState = "OrgCreated"
    <3>1. \A i : Again(i) => i.what \in {"load", "invite"}
      BY <2>7 DEF Again, Runnable
    <3>2. \A z \in InFlight' : z.kind \notin {"create", "fetch"}
      BY <2>4, <2>5, <2>7, <3>1 DEF OrgInv, KindsInv
    <3> QED
      BY <2>1, <2>2, <2>7, <3>2 DEF OrgInv, AloneInv, KindsInv, SearchInv
  <2> QED
    BY <1>0, <2>1, <2>6, <2>7
<1>6. CASE AccessTokenRefreshedErr
  BY <1>6 DEF AccessTokenRefreshedErr, OrgInv, AloneInv, KindsInv, SearchInv, InFlight, EmptyBag, SetToBag,
              BagToSet
<1>7. CASE TokenExpires
  BY <1>7 DEF TokenExpires, OrgInv, AloneInv, KindsInv, SearchInv, InFlight, InFlightOf, Intended
<1>8. CASE Restart
  <2>1. userState \in {"SignedIn", "OrgCreated"} /\ Boot(userState) /\ UNCHANGED <<userState, orgs>>
    BY <1>0, <1>8 DEF Restart
  <2>2. /\ InFlight' = {IF userState = "SignedIn" THEN FetchTask(token) ELSE LoadTask(token)}
        /\ \A x \in InFlight' : tasks'[x] = 1
        /\ Intended' = {Plain(IF userState = "SignedIn" THEN "fetch" ELSE "load")}
        /\ \A i \in Intended' : pendingIntents'[i] = 1
        /\ ~pendingRefresh'
    BY <2>1, BootTypes DEF Intended
  <2>3. busy' = (userState = "SignedIn")
    BY <2>1 DEF Boot
  <2>4. history'.blind = history.blind
    BY <1>8 DEF Restart, Remember, TypeOK, HistoryType
  <2>5. \A x \in InFlight' : x.kind = IF userState = "SignedIn" THEN "fetch" ELSE "load"
    BY <1>0, <2>2, NewTask
  <2>6. \A i \in Intended' : i.what = IF userState = "SignedIn" THEN "fetch" ELSE "load"
    BY <2>2, NewIntents
  <2>7. AloneInv'
    BY <2>1, <2>2, <2>3, <2>5, <2>6 DEF AloneInv
  <2> QED
    BY <2>1, <2>4, <2>5, <2>7 DEF OrgInv, KindsInv, SearchInv
<1>9. CASE UNCHANGED vars
  BY <1>9 DEF vars, OrgInv, AloneInv, KindsInv, SearchInv, InFlight, InFlightOf, Intended
<1> QED
  BY <1>1, <1>2, <1>3, <1>4, <1>5, <1>6, <1>7, <1>8, <1>9 DEF Next, RefreshAnswer
-----------------------------------------------------------------------------
\* The answer of an invitation.
Finished(x) == OnInviteUserFinishedOk(x) \/ OnInviteUserFinishedErr(x)

\* z is the invitation x at a later request.
Follows(z, x) ==
  /\ x.kind = "invite" /\ z.at # "folder" /\ x.run = z.run /\ x.email = z.email
  /\ tasks[x] = 1 => x \notin InFlight'
  /\ z \notin InFlight => tasks'[z] = 1

\* No invitation begins: one in flight stays, or goes on.
InvitesQuiet ==
  \A z \in InFlight' : z.kind = "invite" =>
    \/ z \in InFlight /\ (tasks[z] = 1 => tasks'[z] = 1)
    \/ \E x \in InFlight : Follows(z, x)

\* At most one invitation has gone on.
FewBegin == \A y, z \in InFlight' \ InFlight : y.kind = "invite" /\ z.kind = "invite" => y = z

\* No intent to invite is added.
IntentsQuiet ==
  \A i \in Intended' : i.what = "invite" => i \in Intended /\ pendingIntents'[i] = pendingIntents[i]

\* A step that begins no invitation and leaves the panel alone.
Quiet ==
  /\ InvitesQuiet /\ FewBegin /\ IntentsQuiet /\ panel' = panel
  /\ history'.twice = history.twice /\ history'.doubled = history.doubled
  /\ expired \subseteq expired'

\* A Swap whose new invitations are old ones at a later request.
LEMMA SwapQuiet ==
  ASSUME NEW Old, Old \subseteq InFlight, NEW New, NEW R, Swap(Old, New, R),
         \A y \in New : y.kind = "invite" =>
           \E x \in Old : x.kind = "invite" /\ y.at # "folder" /\ y.run = x.run /\ y.email = x.email
  PROVE  InvitesQuiet
<1> SUFFICES ASSUME NEW z \in InFlight', z.kind = "invite"
             PROVE  \/ z \in InFlight /\ (tasks[z] = 1 => tasks'[z] = 1)
                    \/ \E x \in InFlight : Follows(z, x)
  BY DEF InvitesQuiet
<1>1. ~Reading(z)
  BY DEF Reading
<1>2. CASE z \in New
  <2>1. PICK x \in Old : x.kind = "invite" /\ z.at # "folder" /\ z.run = x.run /\ z.email = x.email
    BY <1>2
  <2>2. tasks[x] = 1 => x \notin InFlight'
    <3>1. ~Reading(x)
      BY <2>1 DEF Reading
    <3> QED
      BY <3>1, <2>1 DEF Swap
  <2>3. z \notin InFlight => tasks'[z] = 1
    BY <1>1, <1>2 DEF Swap
  <2> QED
    BY <2>1, <2>2, <2>3 DEF Follows
<1>3. CASE z \notin New /\ z \in Old
  BY <1>1, <1>3 DEF Swap
<1>4. CASE z \notin New /\ z \notin Old
  BY <1>1, <1>4 DEF Swap
<1> QED
  BY <1>2, <1>3, <1>4

\* A Swap that begins at most one task.
LEMMA SwapFew ==
  ASSUME NEW Old, NEW New, NEW R, Swap(Old, New, R), \A y, z \in New : y = z
  PROVE  FewBegin
<1>1. \A z \in InFlight' \ InFlight : z.kind = "invite" => z \in New
  BY DEF Swap, Reading
<1> QED
  BY <1>1 DEF FewBegin

\* A task that is no answered invitation leaves panel and intents alone.
LEMMA StepKeeps ==
  ASSUME TypeOK, NEW x \in InFlight, Step(x)
  PROVE  /\ history'.twice = history.twice /\ history'.doubled = history.doubled
         /\ Finished(x) \/ OnOrgCreatedOk(x) \/ (panel' = panel /\ pendingIntents' = pendingIntents)
<1> USE DEF sessionVars, driveVars
<1>1. \/ history' = history
      \/ \E S : history' = [history EXCEPT !.raced = S]
      \/ \E b : history' = [history EXCEPT !.forgotten = b]
      \/ \E b : history' = [history EXCEPT !.blind = b]
  <2>1. CASE PermissionPosted(x) \/ PermissionDeleted(x)
    BY <2>1 DEF PermissionPosted, PermissionDeleted, FailsAt, Remember
  <2>2. CASE OnInviteUserExpired(x)
    BY <2>2 DEF OnInviteUserExpired, Remember
  <2>3. CASE OnDashboardLoadedOk(x)
    BY <2>3 DEF OnDashboardLoadedOk, Remember
  <2>4. CASE OrgSearched(x)
    BY <2>4 DEF OrgSearched, Remember
  <2> QED
    BY <2>1, <2>2, <2>3, <2>4
    DEF Step, OrgPosted, OnOrgCreatedOk, OnOrgCreatedErr, InvitationsLoaded, FolderPosted,
        FolderDeleted, OnInviteUserFinishedOk, OnInviteUserFinishedErr, FoldersListed, FolderRead,
        OnDashboardLoadedErr, OnPermissionRevoked
<1>2. history'.twice = history.twice /\ history'.doubled = history.doubled
  BY <1>1 DEF TypeOK, HistoryType
<1>3. Finished(x) \/ OnOrgCreatedOk(x) \/ (panel' = panel /\ pendingIntents' = pendingIntents)
  BY DEF Step, OrgSearched, OrgPosted, OnOrgCreatedErr, InvitationsLoaded, FolderPosted, Finished,
         PermissionPosted, FolderDeleted, OnInviteUserExpired, FoldersListed, FolderRead,
         OnDashboardLoadedOk, OnDashboardLoadedErr, PermissionDeleted, OnPermissionRevoked
<1> QED
  BY <1>2, <1>3

\* All but two steps of a task are quiet.
LEMMA QuietTaskStep ==
  ASSUME TypeOK, NEW x \in InFlight, Step(x), ~Finished(x), ~OnOrgCreatedOk(x)
  PROVE  Quiet
<1>1. PICK New \in SUBSET TaskType, R \in SUBSET Nat :
         Swap({x}, New, R) /\ \A y, z \in New : Succeeds(y, x) /\ y = z
  BY StepSwaps
<1>2. New = {} \/ x.kind # "invite" \/ x.at \notin {"granted", "error"}
  <2> SUFFICES ASSUME x.kind = "invite", x.at \in {"granted", "error"} PROVE FALSE
    OBVIOUS
  <2> QED
    BY DEF Step, Finished, OrgSearched, OrgPosted, OnOrgCreatedOk, OnOrgCreatedErr, InvitationsLoaded,
       FolderPosted, PermissionPosted, FolderDeleted, OnInviteUserExpired, FoldersListed, FolderRead,
       OnDashboardLoadedOk, OnDashboardLoadedErr, PermissionDeleted, OnPermissionRevoked
<1>3. \A y \in New : y.kind = "invite" =>
        x.kind = "invite" /\ y.at # "folder" /\ y.run = x.run /\ y.email = x.email
  BY <1>1, <1>2 DEF Succeeds
<1>4. InvitesQuiet /\ FewBegin
  BY <1>1, <1>3, SwapQuiet, SwapFew
<1>5. /\ panel' = panel /\ pendingIntents' = pendingIntents
      /\ history'.twice = history.twice /\ history'.doubled = history.doubled
  BY StepKeeps
<1>6. expired' = expired
  BY StepTokens
<1> QED
  BY <1>4, <1>5, <1>6 DEF Quiet, IntentsQuiet, Intended

\* The steps that are not quiet.
LEMMA QuietSteps ==
  ASSUME TypeOK, TokenInv, [Next]_vars
  PROVE  \/ Quiet
         \/ InviteSendClicked \/ AccessTokenRefreshedOk \/ Restart
         \/ \E x \in InFlight : Finished(x) \/ OnOrgCreatedOk(x)
<1> USE DEF sessionVars, driveVars
<1>1. CASE Click /\ ~InviteSendClicked
  <2>1. PICK y \in TaskType : /\ Swap({}, {y}, {}) /\ y.token = token
                              /\ userState = "OrgCreated" => y.kind \in {"load", "invite", "revoke"}
                              /\ y.kind = "invite" => InviteSendClicked
    BY <1>1, ClickMoves
  <2>2. InvitesQuiet /\ FewBegin
    <3>1. {} \subseteq InFlight /\ Swap({}, {y}, {})
      BY <2>1
    <3>2. \A w \in {y} : w.kind # "invite"
      BY <1>1, <2>1
    <3> QED
      BY <3>1, <3>2, SwapQuiet, SwapFew
  <2>3. panel' = panel /\ history' = history /\ expired' = expired
    BY <1>1 DEF Click, CreateOrgClicked, InviteDoneClicked, RefreshClicked, StartLoad, RemoveAccessClicked
  <2>4. \/ pendingIntents' = pendingIntents
        \/ \E w \in {"create", "load"} : pendingIntents' = BagAdd(pendingIntents, Plain(w))
    BY <1>1 DEF Click, CreateOrgClicked, InviteDoneClicked, RefreshClicked, StartLoad, RemoveAccessClicked
  <2>5. IntentsQuiet
    <3>1. CASE pendingIntents' = pendingIntents
      BY <3>1 DEF IntentsQuiet, Intended
    <3>2. ASSUME NEW w \in {"create", "load"}, pendingIntents' = BagAdd(pendingIntents, Plain(w))
          PROVE  IntentsQuiet
      <4> DEFINE i == Plain(w)
      <4>1. i \in IntentType /\ i.what # "invite"
        BY NewIntents
      <4>2. pendingIntents' = BagAdd(pendingIntents, i)
        BY <3>2
      <4> HIDE DEF i
      <4>3. /\ BagToSet(pendingIntents)' = BagToSet(pendingIntents) \union {i}
            /\ \A j \in BagToSet(pendingIntents) : j # i => pendingIntents'[j] = pendingIntents[j]
        BY <4>1, <4>2, IntentAdded DEF TypeOK
      <4> QED
        BY <4>1, <4>3 DEF IntentsQuiet, Intended
    <3> QED
      BY <2>4, <3>1, <3>2
  <2> QED
    BY <2>2, <2>3, <2>5 DEF Quiet
<1>2. ASSUME NEW x \in InFlight, Step(x), ~Finished(x), ~OnOrgCreatedOk(x) PROVE Quiet
  BY <1>2, QuietTaskStep
<1>3. CASE AccessTokenRefreshedErr
  BY <1>3 DEF AccessTokenRefreshedErr, Quiet, InvitesQuiet, FewBegin, IntentsQuiet, Intended, InFlight, EmptyBag,
              SetToBag, BagToSet
<1>4. CASE TokenExpires
  BY <1>4 DEF TokenExpires, Quiet, InvitesQuiet, FewBegin, IntentsQuiet, Intended, InFlight
<1>5. CASE UNCHANGED vars
  BY <1>5 DEF vars, Quiet, InvitesQuiet, FewBegin, IntentsQuiet, Intended, InFlight
<1> QED
  BY <1>1, <1>2, <1>3, <1>4, <1>5 DEF Next, RefreshAnswer
-----------------------------------------------------------------------------
\* The folders keep their addresses and none is added.
EmailsSame ==
  /\ DOMAIN folders' = DOMAIN folders
  /\ \A f \in DOMAIN folders : folders'[f].email = folders[f].email

\* Only the creation of a folder does otherwise.
LEMMA EmailsKept ==
  ASSUME TypeOK, [Next]_vars
  PROVE  EmailsSame \/ \E x \in InFlight : FolderPosted(x)
<1> USE DEF sessionVars, driveVars
<1>1. ASSUME NEW f \in Nat, NEW is \in Is, folders' = [folders EXCEPT ![f].is = is] PROVE EmailsSame
  BY <1>1, FolderChanged DEF TypeOK, EmailsSame
<1>2. ASSUME UNCHANGED folders PROVE EmailsSame
  BY <1>2 DEF EmailsSame
<1>3. ASSUME NEW x \in InFlight, Step(x), ~FolderPosted(x) PROVE EmailsSame
  <2>1. ASSUME x \in InviteType \/ x \in RevokeType PROVE x.folder \in Nat
    BY <2>1 DEF InviteType, RevokeType
  <2>2. CASE PermissionPosted(x)
    BY <2>1, <2>2, <1>1, <1>2, PermissionPostedMoves DEF Is
  <2>3. CASE FolderDeleted(x)
    BY <2>1, <2>3, <1>1, <1>2, FolderDeletedMoves DEF Is
  <2>4. CASE PermissionDeleted(x)
    BY <2>1, <2>4, <1>1, <1>2, PermissionDeletedMoves DEF Is
  <2>5. CASE ~PermissionPosted(x) /\ ~FolderDeleted(x) /\ ~PermissionDeleted(x)
    <3>1. UNCHANGED folders
      BY <1>3, <2>5
      DEF Step, OrgSearched, OrgPosted, OnOrgCreatedOk, OnOrgCreatedErr, InvitationsLoaded, OnInviteUserExpired,
          OnInviteUserFinishedOk, OnInviteUserFinishedErr, FoldersListed, FolderRead, OnDashboardLoadedOk,
          OnDashboardLoadedErr, OnPermissionRevoked
    <3> QED
      BY <1>2, <3>1
  <2> QED
    BY <2>2, <2>3, <2>4, <2>5
<1>4. CASE Click \/ RefreshAnswer \/ TokenExpires \/ Restart \/ UNCHANGED vars
  <2>1. UNCHANGED folders
    BY <1>4 DEF Click, CreateOrgClicked, InviteSendClicked, InviteDoneClicked, RefreshClicked, StartLoad,
      RemoveAccessClicked, RefreshAnswer, AccessTokenRefreshedOk, AccessTokenRefreshedErr, TokenExpires,
      Restart, vars
  <2> QED
    BY <1>2, <2>1
<1> QED
  BY <1>3, <1>4 DEF Next

-----------------------------------------------------------------------------
\* What there is of an address: invitations, those that may still create its folder, intents, folders.
InvitesOf(e) == {x \in InFlight : x.kind = "invite" /\ x.email = e}
Creating(e) == {x \in InvitesOf(e) : x.at = "folder" /\ x.token \notin expired}
IntentsOf(e) == {i \in Intended : i.what = "invite" /\ i.email = e}
FoldersOf(e) == {f \in DOMAIN folders : folders[f].email = e}

\* Nothing of e: it may be invited.
Unknown(e) == FoldersOf(e) = {} /\ InvitesOf(e) = {} /\ IntentsOf(e) = {}

\* e has one folder, or one request that may create it, and one intent that may repeat it.
Single(e) ==
  /\ \A f, g \in FoldersOf(e) : f = g
  /\ FoldersOf(e) # {} => Creating(e) = {}
  /\ \A x, y \in Creating(e) : x = y
  /\ \A x \in Creating(e) : tasks[x] = 1
  /\ \A i, j \in IntentsOf(e) : i = j
  /\ \A i \in IntentsOf(e) : pendingIntents[i] = 1

TwinsOf(e) == Single(e) /\ (e \in ToSet(panel.queue) => Unknown(e))

\* An address that was invited once has all that once, and nothing of it while it waits in the queue.
TwinsInv == \A e \in Emails \ history.twice : TwinsOf(e)

\* The queue has no address twice, and is empty when no run is at work.
QueueInv ==
  /\ IsInjective(panel.queue)
  /\ ~panel.sending => panel.queue = <<>>

\* A quiet step adds nothing of e.
LEMMA TwinsQuiet ==
  ASSUME TypeOK, NEW e, TwinsOf(e), InvitesQuiet, IntentsQuiet, EmailsSame, expired \subseteq expired',
         ToSet(panel'.queue) \subseteq ToSet(panel.queue)
  PROVE  TwinsOf(e)'
<1>1. FoldersOf(e)' = FoldersOf(e)
  BY DEF EmailsSame, FoldersOf
<1>2. InvitesOf(e) = {} => InvitesOf(e)' = {}
  BY DEF InvitesOf, InvitesQuiet, Follows
<1>3. \A x \in Creating(e)' : x \in Creating(e) /\ (tasks[x] = 1 => tasks'[x] = 1)
  BY DEF InvitesOf, InvitesQuiet, Follows, Creating
<1>4. \A i \in IntentsOf(e)' : i \in IntentsOf(e) /\ pendingIntents'[i] = pendingIntents[i]
  BY DEF IntentsOf, IntentsQuiet
<1>5. Single(e)'
  BY <1>1, <1>3, <1>4 DEF TwinsOf, Single
<1>6. e \in ToSet(panel'.queue) => Unknown(e)'
  BY <1>1, <1>2, <1>4 DEF TwinsOf, Unknown
<1> QED
  BY <1>5, <1>6 DEF TwinsOf

\* An invitation of an unknown address begins.
LEMMA InviteBegins ==
  ASSUME TypeOK, NEW e, TwinsOf(e), EmailsSame, expired' = expired,
         NEW Old, Old \subseteq InFlight, \A x \in Old : x.at # "folder",
         NEW g \in Emails, NEW r \in Nat, NEW y, FirstInvite(y, r, g), NEW R, Swap(Old, {y}, R),
         pendingIntents' = BagAdd(pendingIntents, SendInvitations(r, g)),
         e = g \/ e \in ToSet(panel'.queue) => Unknown(e),
         g \notin ToSet(panel'.queue)
  PROVE  TwinsOf(e)'
<1>1. FoldersOf(e)' = FoldersOf(e)
  BY DEF EmailsSame, FoldersOf
<1> DEFINE i == SendInvitations(r, g)
<1>2. i \in IntentType /\ i.what = "invite" /\ i.email = g
  BY NewIntents
<1>3. pendingIntents' = BagAdd(pendingIntents, i)
  OBVIOUS
<1> HIDE DEF i
<1>4. /\ BagToSet(pendingIntents)' = BagToSet(pendingIntents) \union {i}
      /\ \A j \in BagToSet(pendingIntents) : j # i => pendingIntents'[j] = pendingIntents[j]
      /\ i \notin BagToSet(pendingIntents) => pendingIntents'[i] = 1
  BY <1>2, <1>3, IntentAdded DEF TypeOK
<1>5. y.email = g /\ ~Reading(y)
  BY DEF FirstInvite, InviteType, Reading
<1>6. \A z \in InFlight' : z.kind = "invite" =>
        /\ z \in InFlight \/ z = y
        /\ z \notin Old /\ z # y => tasks'[z] = tasks[z]
        /\ z = y /\ z \notin InFlight => tasks'[z] = 1
  BY <1>5 DEF Swap, Reading
<1>7. CASE e = g
  <2>1. Unknown(e)
    BY <1>7
  <2>2. \A z \in InvitesOf(e)' : z = y /\ tasks'[z] = 1
    BY <1>6, <2>1 DEF InvitesOf, Unknown
  <2>3. \A j \in IntentsOf(e)' : j = i /\ pendingIntents'[j] = 1
    BY <1>2, <1>4, <1>7, <2>1 DEF IntentsOf, Unknown, Intended
  <2>4. Single(e)'
    BY <1>1, <2>1, <2>2, <2>3 DEF Single, Unknown, Creating
  <2> QED
    BY <1>7, <2>4 DEF TwinsOf
<1>8. CASE e # g
  <2>1. \A z \in InvitesOf(e)' : z \in InvitesOf(e)
    BY <1>5, <1>6, <1>8 DEF InvitesOf
  <2>2. \A z \in Creating(e)' : z \in Creating(e) /\ tasks'[z] = tasks[z]
    BY <2>1, <1>5, <1>6, <1>8 DEF Creating, InvitesOf
  <2>3. \A j \in IntentsOf(e)' : j \in IntentsOf(e) /\ pendingIntents'[j] = pendingIntents[j]
    BY <1>2, <1>4, <1>8 DEF IntentsOf, Intended
  <2>4. Single(e)'
    BY <1>1, <2>2, <2>3 DEF TwinsOf, Single
  <2>5. e \in ToSet(panel'.queue) => Unknown(e)'
    BY <1>1, <2>1, <2>3 DEF Unknown
  <2> QED
    BY <2>4, <2>5 DEF TwinsOf
<1> QED
  BY <1>7, <1>8

\* The first address of a queue and the rest.
LEMMA QueueFacts ==
  ASSUME NEW q \in Seq(Emails), q # <<>>, IsInjective(q)
  PROVE  /\ Head(q) \in Emails /\ Tail(q) \in Seq(Emails)
         /\ Head(q) \notin ToSet(Tail(q)) /\ IsInjective(Tail(q))
         /\ ToSet(q) = {Head(q)} \union ToSet(Tail(q))
<1> DEFINE h == Head(q)
           t == Tail(q)
<1>1. /\ h \in Emails /\ t \in Seq(Emails)
      /\ h = q[1] /\ 1 \in DOMAIN q
      /\ \A k \in DOMAIN t : k + 1 \in DOMAIN q /\ t[k] = q[k + 1]
      /\ \A k \in DOMAIN q : k # 1 => k - 1 \in DOMAIN t /\ t[k - 1] = q[k]
      /\ DOMAIN q \subseteq Nat /\ DOMAIN t \subseteq Nat \ {0}
  BY HeadTail
<1> HIDE DEF h, t
<1>2. h \notin ToSet(t) /\ IsInjective(t)
  BY <1>1 DEF ToSet, IsInjective
<1>3. ToSet(q) = {h} \union ToSet(t)
  BY <1>1 DEF ToSet
<1> QED
  BY <1>1, <1>2, <1>3 DEF h, t

\* A panel that is new.
LEMMA EmptyQueue ==
  ToSet(<<>>) = {} /\ IsInjective(<<>>) /\ NewPanel.queue = <<>> /\ ~NewPanel.sending
  BY DEF ToSet, IsInjective, NewPanel

\* An answer is logged and the run goes on.
LEMMA FinishedMoves ==
  ASSUME TypeOK, NEW x \in InFlight, Finished(x)
  PROVE  /\ x \in InviteType /\ x.at \in {"granted", "error"}
         /\ userState = "OrgCreated"
         /\ UNCHANGED <<userState, token, expired, pendingRefresh, orgs, folders, history>>
         /\ \E b \in BOOLEAN :
              LET p == Logged(x, b) IN
              /\ b <=> x.at = "granted"
              /\ \/ /\ panel.queue = <<>> /\ panel' = [p EXCEPT !.sending = FALSE]
                    /\ pendingIntents' = pendingIntents
                    /\ Swap({x}, {}, {x.folder})
                 \/ /\ panel.queue # <<>> /\ panel' = [p EXCEPT !.queue = Tail(panel.queue)]
                    /\ pendingIntents' = BagAdd(pendingIntents, SendInvitations(x.run, Head(panel.queue)))
                    /\ \E y : /\ FirstInvite(y, x.run, Head(panel.queue))
                              /\ Swap({x}, {y}, {x.folder})
<1> USE DEF sessionVars, driveVars
<1>1. /\ x \in InviteType /\ x.at \in {"granted", "error"} /\ x.at # "folder"
      /\ userState = "OrgCreated"
      /\ UNCHANGED <<userState, token, expired, pendingRefresh, orgs, folders, history>>
  BY KindType DEF Finished, OnInviteUserFinishedOk, OnInviteUserFinishedErr, TypeOK, TasksOK
<1>2. PICK b \in BOOLEAN : Continue(x, Logged(x, b)) /\ (b <=> x.at = "granted")
  BY DEF Finished, OnInviteUserFinishedOk, OnInviteUserFinishedErr
<1> DEFINE p == Logged(x, b)
<1>3. p \in PanelType /\ p.queue = panel.queue
  BY <1>1, LoggedFacts
<1>4. Continue(x, p)
  BY <1>2
<1> HIDE DEF p
<1>5. \/ /\ p.queue = <<>> /\ panel' = [p EXCEPT !.sending = FALSE]
         /\ pendingIntents' = pendingIntents
         /\ Swap({x}, {}, {x.folder})
      \/ /\ p.queue # <<>> /\ panel' = [p EXCEPT !.queue = Tail(p.queue)]
         /\ pendingIntents' = BagAdd(pendingIntents, SendInvitations(x.run, Head(p.queue)))
         /\ \E y : /\ FirstInvite(y, x.run, Head(p.queue))
                   /\ Swap({x}, {y}, {x.folder})
  BY <1>1, <1>3, <1>4, ContinueMoves
<1>6. \/ /\ panel.queue = <<>> /\ panel' = [p EXCEPT !.sending = FALSE]
         /\ pendingIntents' = pendingIntents
         /\ Swap({x}, {}, {x.folder})
      \/ /\ panel.queue # <<>> /\ panel' = [p EXCEPT !.queue = Tail(panel.queue)]
         /\ pendingIntents' = BagAdd(pendingIntents, SendInvitations(x.run, Head(panel.queue)))
         /\ \E y : /\ FirstInvite(y, x.run, Head(panel.queue))
                   /\ Swap({x}, {y}, {x.folder})
  BY <1>3, <1>5
<1> QED
  BY <1>1, <1>2, <1>6 DEF p

\* The addresses InviteSendClicked takes for known.
Known ==
  {folders[f].email : f \in DOMAIN folders}
    \union {x.email : x \in InFlightOf("invite")}
    \union {i.email : i \in {j \in Intended : j.what = "invite"}}

\* Nothing is there of the others.
LEMMA KnownFacts ==
  ASSUME NEW e, e \notin Known
  PROVE  Unknown(e)
  BY DEF Known, Unknown, FoldersOf, InvitesOf, IntentsOf, InFlightOf

\* A run begins.
LEMMA SendMoves ==
  ASSUME TypeOK, InviteSendClicked
  PROVE  \E queue \in Lists :
           /\ queue \in Seq(Emails) /\ queue # <<>> /\ IsInjective(queue)
           /\ panel'.sending /\ panel'.queue = Tail(queue) /\ panel'.nextRun = panel.nextRun + 1
           /\ panel'.asked = ToSet(queue) /\ panel'.log = panel.log
           /\ pendingIntents' = BagAdd(pendingIntents, SendInvitations(panel.nextRun, Head(queue)))
           /\ \E y : FirstInvite(y, panel.nextRun, Head(queue)) /\ Swap({}, {y}, {})
           /\ history'.twice = history.twice \union (ToSet(queue) \intersect Known)
           /\ history'.doubled = history.doubled
<1> USE DEF sessionVars, driveVars
<1>1. PICK queue \in Lists :
        /\ panel' = [panel EXCEPT !.sending = TRUE, !.queue = Tail(queue),
                                  !.nextRun = panel.nextRun + 1, !.asked = ToSet(queue)]
        /\ pendingIntents' = BagAdd(pendingIntents, SendInvitations(panel.nextRun, Head(queue)))
        /\ tasks' = BagAdd(tasks, InviteTask(token, panel.nextRun, Head(queue)))
        /\ history' = Remember("twice", history.twice \union (ToSet(queue) \intersect Known))
  BY DEF InviteSendClicked, Known, Intended
<1>2. queue \in Seq(Emails) /\ queue # <<>> /\ IsInjective(queue)
  BY DashboardAssumption
<1>3. Head(queue) \in Emails /\ panel.nextRun \in Nat /\ token \in Nat
  BY <1>2 DEF TypeOK, PanelType
<1> DEFINE y == InviteTask(token, panel.nextRun, Head(queue))
<1>4. FirstInvite(y, panel.nextRun, Head(queue))
  BY <1>3, NewInvite DEF FirstInvite
<1>5. tasks' = BagAdd(tasks, y)
  BY <1>1
<1> HIDE DEF y
<1>6. Swap({}, {y}, {})
  BY <1>4, <1>5, SwapBegins DEF TypeOK, FirstInvite, TaskType
<1>7. /\ panel'.sending /\ panel'.queue = Tail(queue) /\ panel'.nextRun = panel.nextRun + 1
      /\ panel'.asked = ToSet(queue) /\ panel'.log = panel.log
  BY <1>1 DEF TypeOK, PanelType
<1>8. /\ history'.twice = history.twice \union (ToSet(queue) \intersect Known)
      /\ history'.doubled = history.doubled
  BY <1>1 DEF TypeOK, HistoryType, Remember
<1> QED
  BY <1>1, <1>2, <1>4, <1>6, <1>7, <1>8

\* A step that leaves the owner without any invitation at work.
LEMMA TwinsCleared ==
  ASSUME TwinsInv, EmailsSame, history'.twice = history.twice, panel' = NewPanel,
         \A z \in InFlight' : z.kind # "invite", \A i \in Intended' : i.what # "invite"
  PROVE  TwinsInv' /\ QueueInv'
<1>1. \A e : FoldersOf(e)' = FoldersOf(e) /\ InvitesOf(e)' = {} /\ Creating(e)' = {} /\ IntentsOf(e)' = {}
  BY DEF EmailsSame, FoldersOf, InvitesOf, Creating, IntentsOf
<1>2. panel'.queue = <<>>
  BY EmptyQueue
<1> QED
  BY <1>1, <1>2, EmptyQueue DEF TwinsInv, TwinsOf, Single, Unknown, QueueInv

\* A restart is one.
LEMMA BootClears ==
  ASSUME TypeOK, Restart
  PROVE  /\ panel' = NewPanel /\ UNCHANGED folders
         /\ \A z \in InFlight' : z.kind # "invite"
         /\ \A i \in Intended' : i.what # "invite"
         /\ history'.twice = history.twice /\ history'.doubled = history.doubled
<1> USE DEF sessionVars, driveVars
<1>1. userState \in {"SignedIn", "OrgCreated"} /\ Boot(userState) /\ UNCHANGED folders
  BY DEF Restart, TypeOK
<1>2. /\ InFlight' = {IF userState = "SignedIn" THEN FetchTask(token) ELSE LoadTask(token)}
      /\ Intended' = {Plain(IF userState = "SignedIn" THEN "fetch" ELSE "load")}
      /\ panel' = NewPanel
  BY <1>1, BootTypes DEF Intended
<1>3. \A z \in InFlight' : z.kind # "invite"
  BY <1>2, NewTask DEF TypeOK
<1>4. \A i \in Intended' : i.what # "invite"
  BY <1>2, NewIntents
<1>5. history'.twice = history.twice /\ history'.doubled = history.doubled
  BY DEF Restart, Remember, TypeOK, HistoryType
<1> QED
  BY <1>1, <1>2, <1>3, <1>4, <1>5

\* So is the creation of the organization.
LEMMA CreatedClears ==
  ASSUME TypeOK, OrgInv, NEW x \in InFlight, OnOrgCreatedOk(x)
  PROVE  /\ panel' = NewPanel /\ UNCHANGED folders
         /\ userState' = "OrgCreated" /\ InFlight' = {LoadTask(token)} /\ rows' = <<>>
         /\ \A z \in InFlight' : z.kind # "invite"
         /\ \A i \in Intended' : i.what # "invite"
         /\ history' = history
<1> USE DEF sessionVars, driveVars
<1>1. userState = "SignedIn"
  BY DEF OrgInv, KindsInv, OnOrgCreatedOk
<1>2. /\ panel' = NewPanel /\ UNCHANGED folders /\ history' = history
      /\ userState' = "OrgCreated" /\ rows' = <<>>
      /\ pendingIntents' = BagAdd(pendingIntents, Plain("load"))
  BY <1>1 DEF OnOrgCreatedOk
<1>3. x \in CreateType /\ Swap({x}, {LoadTask(token)}, {})
  BY <1>1, OrgCreatedMoves
<1> DEFINE y == LoadTask(token)
<1>4. y.kind = "load" /\ ~Reading(y)
  BY NewTask DEF TypeOK, Reading
<1>5. InFlight' = {y}
  <2>1. ~Reading(x) /\ tasks[x] = 1 /\ \A z \in InFlight : z = x
    BY <1>1, <1>3 DEF OrgInv, AloneInv, Reading, CreateType
  <2>2. \A z \in {y} : ~Reading(z) /\ z # x
    BY <1>3, <1>4 DEF CreateType
  <2>3. Swap({x}, {y}, {})
    BY <1>3
  <2> HIDE DEF y
  <2> QED
    BY <2>1, <2>2, <2>3, SoleSwap
<1>6. \A i \in Intended' : i.what # "invite"
  <2> DEFINE i == Plain("load")
  <2>1. i \in IntentType /\ i.what = "load"
    BY NewIntents
  <2>2. pendingIntents' = BagAdd(pendingIntents, i)
    BY <1>2
  <2> HIDE DEF i
  <2>3. Intended' = Intended \union {i}
    BY <2>1, <2>2, IntentAdded DEF TypeOK, Intended
  <2> QED
    BY <1>1, <2>1, <2>3 DEF OrgInv, AloneInv
<1> QED
  BY <1>2, <1>4, <1>5, <1>6

\* Every step keeps the part about the folders of an address.
LEMMA TwinsStep ==
  ASSUME TypeOK, TokenInv, OrgInv, TwinsInv, QueueInv, [Next]_vars
  PROVE  TwinsInv' /\ QueueInv'
<1> USE DEF sessionVars, driveVars
<1>1. ASSUME NEW x \in InFlight, FolderPosted(x) PROVE TwinsInv' /\ QueueInv'
  <2>1. /\ x \in InviteType /\ x.kind = "invite" /\ x.at = "folder" /\ x.token \notin expired
        /\ x.email \in Emails /\ x.email \in Emails
    BY <1>1, FolderPostedMoves DEF InviteType
  <2>2. folders' \in {folders, NewFolder(x.email)} /\ \E y : Swap({x}, {y}, {})
    BY <1>1, FolderPostedMoves
  <2>3. Quiet /\ expired' = expired
    <3>1. Step(x)
      BY <1>1 DEF Step
    <3>2. ~Finished(x) /\ ~OnOrgCreatedOk(x)
      BY <2>1 DEF Finished, OnInviteUserFinishedOk, OnInviteUserFinishedErr, OnOrgCreatedOk
    <3> QED
      BY <3>1, <3>2, QuietTaskStep, StepTokens
  <2>4. QueueInv'
    BY <2>3 DEF Quiet, QueueInv
  <2>5. ASSUME NEW e \in Emails \ history'.twice PROVE TwinsOf(e)'
    <3>1. TwinsOf(e)
      BY <2>3, <2>5 DEF Quiet, TwinsInv
    <3>2. CASE e = x.email
      <4>1. x \in Creating(e) /\ x \in InvitesOf(e)
        BY <2>1, <3>2 DEF Creating, InvitesOf
      <4>2. FoldersOf(e) = {} /\ e \notin ToSet(panel.queue) /\ tasks[x] = 1 /\ \A z \in Creating(e) : z = x
        BY <3>1, <4>1 DEF TwinsOf, Single, Unknown
      <4>3. x \notin InFlight'
        <5>1. ~Reading(x)
          BY <2>1 DEF Reading
        <5> QED
          BY <2>2, <4>2, <5>1 DEF Swap
      <4>4. Creating(e)' = {}
        BY <2>3, <4>2, <4>3 DEF Quiet, InvitesQuiet, Follows, Creating, InvitesOf
      <4>5. \A i \in IntentsOf(e)' : i \in IntentsOf(e) /\ pendingIntents'[i] = pendingIntents[i]
        BY <2>3 DEF Quiet, IntentsQuiet, IntentsOf
      <4>6. \A f, g \in FoldersOf(e)' : f = g
        BY <2>1, <2>2, <4>2, FolderAdded DEF FoldersOf, TypeOK
      <4>7. Single(e)'
        BY <3>1, <4>4, <4>5, <4>6 DEF TwinsOf, Single
      <4> QED
        BY <2>3, <4>2, <4>7 DEF TwinsOf, Quiet
    <3>3. CASE e # x.email
      <4>1. FoldersOf(e)' = FoldersOf(e)
        BY <2>1, <2>2, <3>3, FolderAdded DEF FoldersOf, TypeOK
      <4>2. InvitesOf(e) = {} => InvitesOf(e)' = {}
        BY <2>3 DEF Quiet, InvitesOf, InvitesQuiet, Follows
      <4>3. \A z \in Creating(e)' : z \in Creating(e) /\ (tasks[z] = 1 => tasks'[z] = 1)
        BY <2>3 DEF Quiet, InvitesOf, InvitesQuiet, Follows, Creating
      <4>4. \A i \in IntentsOf(e)' : i \in IntentsOf(e) /\ pendingIntents'[i] = pendingIntents[i]
        BY <2>3 DEF Quiet, IntentsQuiet, IntentsOf
      <4>5. Single(e)'
        BY <3>1, <4>1, <4>3, <4>4 DEF TwinsOf, Single
      <4>6. e \in ToSet(panel'.queue) => Unknown(e)'
        BY <2>3, <3>1, <4>1, <4>2, <4>4 DEF TwinsOf, Unknown, Quiet
      <4> QED
        BY <4>5, <4>6 DEF TwinsOf
    <3> QED
      BY <3>2, <3>3
  <2> QED
    BY <2>4, <2>5 DEF TwinsInv
<1>2. CASE EmailsSame /\ Quiet
  <2>1. QueueInv'
    BY <1>2 DEF Quiet, QueueInv
  <2>2. ASSUME NEW e \in Emails \ history'.twice PROVE TwinsOf(e)'
    <3>1. TwinsOf(e) /\ ToSet(panel'.queue) \subseteq ToSet(panel.queue)
      BY <1>2, <2>2 DEF Quiet, TwinsInv
    <3> QED
      BY <1>2, <3>1, TwinsQuiet DEF Quiet
  <2> QED
    BY <2>1, <2>2 DEF TwinsInv
<1>3. CASE EmailsSame /\ InviteSendClicked
  <2>1. PICK queue \in Lists :
           /\ queue \in Seq(Emails) /\ queue # <<>> /\ IsInjective(queue)
           /\ panel'.sending /\ panel'.queue = Tail(queue) /\ panel'.nextRun = panel.nextRun + 1
           /\ panel'.asked = ToSet(queue) /\ panel'.log = panel.log
           /\ pendingIntents' = BagAdd(pendingIntents, SendInvitations(panel.nextRun, Head(queue)))
           /\ \E y : FirstInvite(y, panel.nextRun, Head(queue)) /\ Swap({}, {y}, {})
           /\ history'.twice = history.twice \union (ToSet(queue) \intersect Known)
           /\ history'.doubled = history.doubled
    BY <1>3, SendMoves
  <2>2. PICK y : FirstInvite(y, panel.nextRun, Head(queue)) /\ Swap({}, {y}, {})
    BY <2>1
  <2>3. /\ Head(queue) \in Emails /\ Head(queue) \notin ToSet(Tail(queue)) /\ IsInjective(Tail(queue))
        /\ ToSet(queue) = {Head(queue)} \union ToSet(Tail(queue))
    BY <2>1, QueueFacts
  <2>4. QueueInv'
    BY <2>1, <2>3 DEF QueueInv
  <2>5. ASSUME NEW e \in Emails \ history'.twice PROVE TwinsOf(e)'
    <3>1. TwinsOf(e)
      BY <2>1, <2>5 DEF TwinsInv
    <3>2. e = Head(queue) \/ e \in ToSet(panel'.queue) => Unknown(e)
      <4>1. e = Head(queue) \/ e \in ToSet(panel'.queue) => e \notin Known
        BY <2>1, <2>3, <2>5
      <4> QED
        BY <4>1, KnownFacts
    <3>3. expired' = expired /\ panel.nextRun \in Nat
      BY <1>3 DEF InviteSendClicked, TypeOK, PanelType
    <3>4. Head(queue) \notin ToSet(panel'.queue)
      BY <2>1, <2>3
    <3> DEFINE g == Head(queue)
               r == panel.nextRun
    <3>5. /\ g \in Emails /\ r \in Nat /\ FirstInvite(y, r, g) /\ g \notin ToSet(panel'.queue)
          /\ pendingIntents' = BagAdd(pendingIntents, SendInvitations(r, g))
          /\ e = g \/ e \in ToSet(panel'.queue) => Unknown(e)
      BY <2>1, <2>2, <2>3, <3>2, <3>3, <3>4
    <3> HIDE DEF g, r
    <3>6. {} \subseteq InFlight /\ \A z \in {} : z.at # "folder"
      OBVIOUS
    <3> QED
      BY <1>3, <2>2, <3>1, <3>3, <3>5, <3>6, InviteBegins
  <2> QED
    BY <2>4, <2>5 DEF TwinsInv
<1>4. CASE AccessTokenRefreshedOk
  <2>1. /\ pendingRefresh /\ Intended' = {} /\ panel' = panel /\ folders' = folders /\ expired' = expired
    BY <1>4 DEF AccessTokenRefreshedOk, Intended, EmptyBag, SetToBag, BagToSet
  <2>2. \A x \in InFlight : x.token \in expired /\ x.token <= token
    BY <2>1 DEF TokenInv, TokensKnown, TypeOK
  <2>3. /\ \A z \in InFlight' : z \in InFlight \/ \E i : Again(i) /\ z = TaskOf(i, token + 1)
        /\ \A i : Again(i) => tasks'[TaskOf(i, token + 1)] = pendingIntents[i]
    BY <1>4, <2>2, RetryMoves
  <2>4. \A i : Again(i) => /\ i \in Intended /\ i \in IntentType
                           /\ TaskOf(i, token + 1).kind = i.what
                           /\ i.what = "invite" => TaskOf(i, token + 1).email = i.email
    BY TaskOfFacts DEF Again, Intended, TypeOK, IntentsOK, IntentType
  <2>5. /\ history.twice \subseteq history'.twice
        /\ \A i : Again(i) /\ i.what = "invite" /\ FoldersOf(i.email) # {} => i.email \in history'.twice
    <3> DEFINE again == {i \in BagToSet(pendingIntents) : Runnable(i)}
               S == {i.email : i \in {j \in again : j.what = "invite"}}
               b == history.doubled \/ \E i \in again : AnsweredBefore(i)
               T == history.twice \union {e \in S : \E f \in DOMAIN folders : folders[f].email = e}
    <3>1. history' = [history EXCEPT !.doubled = b, !.twice = T]
      BY <1>4 DEF AccessTokenRefreshedOk
    <3>2. history.twice \subseteq T
      OBVIOUS
    <3>3. \A i : Again(i) /\ i.what = "invite" /\ FoldersOf(i.email) # {} => i.email \in T
      BY DEF Again, FoldersOf
    <3> HIDE DEF b, T
    <3>4. history'.twice = T
      BY <3>1 DEF TypeOK, HistoryType
    <3> QED
      BY <3>2, <3>3, <3>4
  <2>6. QueueInv'
    BY <2>1 DEF QueueInv
  <2>7. ASSUME NEW e \in Emails \ history'.twice PROVE TwinsOf(e)'
    <3>1. TwinsOf(e)
      BY <2>5, <2>7 DEF TwinsInv
    <3>2. FoldersOf(e)' = FoldersOf(e) /\ IntentsOf(e)' = {}
      BY <2>1 DEF FoldersOf, IntentsOf
    <3>3. \A z \in Creating(e)' : \E i \in IntentsOf(e) :
             Again(i) /\ z = TaskOf(i, token + 1) /\ tasks'[z] = pendingIntents[i]
      BY <2>1, <2>2, <2>3, <2>4 DEF Creating, InvitesOf, IntentsOf
    <3>4. \A z \in Creating(e)' : tasks'[z] = 1
      BY <3>1, <3>3 DEF TwinsOf, Single
    <3>5. \A y, z \in Creating(e)' : y = z
      BY <3>1, <3>3 DEF TwinsOf, Single
    <3>6. Creating(e)' # {} => FoldersOf(e) = {}
      BY <2>5, <2>7, <3>3 DEF IntentsOf
    <3>7. Single(e)'
      BY <3>1, <3>2, <3>4, <3>5, <3>6 DEF TwinsOf, Single
    <3>8. e \in ToSet(panel'.queue) => Unknown(e)'
      <4> SUFFICES ASSUME e \in ToSet(panel'.queue) PROVE Unknown(e)'
        OBVIOUS
      <4>1. Unknown(e)
        BY <2>1, <3>1 DEF TwinsOf
      <4>2. InvitesOf(e)' = {}
        BY <2>3, <2>4, <4>1 DEF InvitesOf, IntentsOf, Unknown
      <4> QED
        BY <3>2, <4>1, <4>2 DEF Unknown
    <3> QED
      BY <3>7, <3>8 DEF TwinsOf
  <2> QED
    BY <2>6, <2>7 DEF TwinsInv
<1>5. CASE EmailsSame /\ Restart
  BY <1>5, BootClears, TwinsCleared
<1>6. ASSUME NEW x \in InFlight, OnOrgCreatedOk(x), EmailsSame PROVE TwinsInv' /\ QueueInv'
  BY <1>6, CreatedClears, TwinsCleared
<1>7. ASSUME NEW x \in InFlight, Finished(x), EmailsSame PROVE TwinsInv' /\ QueueInv'
  <2>1. /\ x \in InviteType /\ x.at \in {"granted", "error"} /\ x.run \in Nat
        /\ UNCHANGED <<expired, history>>
    BY <1>7, FinishedMoves DEF InviteType
  <2>2. PICK b \in BOOLEAN :
              LET p == Logged(x, b) IN
              /\ b <=> x.at = "granted"
              /\ \/ /\ panel.queue = <<>> /\ panel' = [p EXCEPT !.sending = FALSE]
                    /\ pendingIntents' = pendingIntents
                    /\ Swap({x}, {}, {x.folder})
                 \/ /\ panel.queue # <<>> /\ panel' = [p EXCEPT !.queue = Tail(panel.queue)]
                    /\ pendingIntents' = BagAdd(pendingIntents, SendInvitations(x.run, Head(panel.queue)))
                    /\ \E y : /\ FirstInvite(y, x.run, Head(panel.queue))
                              /\ Swap({x}, {y}, {x.folder})
    BY <1>7, FinishedMoves
  <2> DEFINE p == Logged(x, b)
  <2>3. p \in PanelType /\ p.queue = panel.queue /\ p.sending = panel.sending
    BY <2>1, LoggedFacts
  <2>4. CASE /\ panel.queue = <<>> /\ panel' = [p EXCEPT !.sending = FALSE]
             /\ pendingIntents' = pendingIntents
             /\ Swap({x}, {}, {x.folder})
    <3> HIDE DEF p
    <3>1. panel'.queue = <<>>
      BY <2>3, <2>4 DEF PanelType
    <3>2. QueueInv'
      BY <3>1, EmptyQueue DEF QueueInv
    <3>3. InvitesQuiet
      <4>1. {x} \subseteq InFlight /\ Swap({x}, {}, {x.folder})
        BY <2>4
      <4> QED
        BY <4>1, SwapQuiet
    <3>4. IntentsQuiet
      BY <2>4 DEF IntentsQuiet, Intended
    <3>5. ASSUME NEW e \in Emails \ history'.twice PROVE TwinsOf(e)'
      <4>1. TwinsOf(e) /\ ToSet(panel'.queue) \subseteq ToSet(panel.queue) /\ expired' = expired
        BY <2>1, <3>1, <3>5, EmptyQueue DEF TwinsInv
      <4> QED
        BY <1>7, <3>3, <3>4, <4>1, TwinsQuiet
    <3> QED
      BY <3>2, <3>5 DEF TwinsInv
  <2>5. CASE /\ panel.queue # <<>> /\ panel' = [p EXCEPT !.queue = Tail(panel.queue)]
             /\ pendingIntents' = BagAdd(pendingIntents, SendInvitations(x.run, Head(panel.queue)))
             /\ \E y : /\ FirstInvite(y, x.run, Head(panel.queue))
                       /\ Swap({x}, {y}, {x.folder})
    <3> HIDE DEF p
    <3> DEFINE g == Head(panel.queue)
    <3>1. PICK y : FirstInvite(y, x.run, g) /\ Swap({x}, {y}, {x.folder})
      BY <2>5
    <3>2. panel.queue \in Seq(Emails) /\ panel.queue # <<>> /\ IsInjective(panel.queue) /\ panel.sending
      BY <2>5 DEF TypeOK, PanelType, QueueInv
    <3>3. /\ g \in Emails /\ Tail(panel.queue) \in Seq(Emails)
          /\ g \notin ToSet(Tail(panel.queue)) /\ IsInjective(Tail(panel.queue))
          /\ ToSet(panel.queue) = {g} \union ToSet(Tail(panel.queue))
      BY <3>2, QueueFacts
    <3>4. panel'.queue = Tail(panel.queue) /\ panel'.sending
      BY <2>3, <2>5, <3>2 DEF PanelType
    <3>5. QueueInv'
      BY <3>3, <3>4 DEF QueueInv
    <3>6. pendingIntents' = BagAdd(pendingIntents, SendInvitations(x.run, g))
      BY <2>5
    <3> HIDE DEF g
    <3>7. ASSUME NEW e \in Emails \ history'.twice PROVE TwinsOf(e)'
      <4>1. TwinsOf(e) /\ expired' = expired
        BY <2>1, <3>7 DEF TwinsInv
      <4>2. e = g \/ e \in ToSet(panel'.queue) => Unknown(e)
        BY <3>3, <3>4, <4>1 DEF TwinsOf
      <4>3. g \notin ToSet(panel'.queue)
        BY <3>3, <3>4
      <4>4. {x} \subseteq InFlight /\ \A z \in {x} : z.at # "folder"
        BY <2>1
      <4> QED
        BY <1>7, <2>1, <3>1, <3>3, <3>6, <4>1, <4>2, <4>3, <4>4, InviteBegins
    <3> QED
      BY <3>5, <3>7 DEF TwinsInv
  <2> QED
    BY <2>2, <2>4, <2>5
<1>8. EmailsSame \/ \E x \in InFlight : FolderPosted(x)
  BY EmailsKept
<1>9. \/ Quiet
      \/ InviteSendClicked \/ AccessTokenRefreshedOk \/ Restart
      \/ \E x \in InFlight : Finished(x) \/ OnOrgCreatedOk(x)
  BY QuietSteps
<1> QED
  BY <1>1, <1>2, <1>3, <1>4, <1>5, <1>6, <1>7, <1>8, <1>9
-----------------------------------------------------------------------------
\* The run at work; whether an address of a run was answered; those that were taken from the queue and were not.
Run == RunOf(panel)
IsLogged(r, e) == \E sent \in BOOLEAN : <<r, e, sent>> \in panel.log
Open == {e \in panel.asked \ ToSet(panel.queue) : ~IsLogged(Run, e)}

\* The run at work has at most one address open, and only that one has requests or
\* intents that are still to be answered.
RunInv ==
  /\ ToSet(panel.queue) \subseteq panel.asked
  /\ \A e \in ToSet(panel.queue) : ~IsLogged(Run, e)
  /\ \A r \in Nat, e \in Emails : IsLogged(r, e) => r <= Run
  /\ \A e, g \in Open : e = g
  /\ ~panel.sending => Open = {}
  /\ \A x \in InFlight : x.kind = "invite" => tasks[x] = 1 /\ x.run = Run /\ x.email \in Open
  /\ \A x, y \in InFlight : x.kind = "invite" /\ y.kind = "invite" => x = y
  /\ \A i \in Intended : i.what = "invite" =>
       \/ IsLogged(i.run, i.email)
       \/ i.run = Run /\ i.email \in Open /\ pendingIntents[i] = 1

\* So it is unless an intent was run once too often.
DoneInv == ~history.doubled => RunInv

\* A quiet step keeps it.
LEMMA RunQuiet ==
  ASSUME RunInv, Quiet
  PROVE  RunInv'
<1>1. panel' = panel
  BY DEF Quiet
<1>2. Open' = Open /\ Run' = Run /\ \A r, e : IsLogged(r, e)' = IsLogged(r, e)
  BY <1>1 DEF Open, Run, IsLogged
<1>3. \A z \in InFlight' : z.kind = "invite" => tasks'[z] = 1 /\ z.run = Run /\ z.email \in Open
  BY DEF Quiet, InvitesQuiet, Follows, RunInv
<1>4. \A y, z \in InFlight' : y.kind = "invite" /\ z.kind = "invite" => y = z
  <2> SUFFICES ASSUME NEW y \in InFlight', NEW z \in InFlight', y.kind = "invite", z.kind = "invite"
               PROVE  y = z
    OBVIOUS
  <2>1. CASE y \notin InFlight /\ z \notin InFlight
    BY <2>1 DEF Quiet, FewBegin
  <2>2. CASE y \in InFlight /\ z \in InFlight
    BY <2>2 DEF RunInv
  <2>3. CASE y \in InFlight /\ z \notin InFlight
    <3>1. PICK x \in InFlight : Follows(z, x)
      BY <2>3 DEF Quiet, InvitesQuiet
    <3> QED
      BY <2>3, <3>1 DEF Follows, RunInv
  <2>4. CASE y \notin InFlight /\ z \in InFlight
    <3>1. PICK x \in InFlight : Follows(y, x)
      BY <2>4 DEF Quiet, InvitesQuiet
    <3> QED
      BY <2>4, <3>1 DEF Follows, RunInv
  <2> QED
    BY <2>1, <2>2, <2>3, <2>4
<1>5. \A i \in Intended' : i.what = "invite" =>
       \/ IsLogged(i.run, i.email)
       \/ i.run = Run /\ i.email \in Open /\ pendingIntents'[i] = 1
  BY DEF Quiet, IntentsQuiet, RunInv
<1> QED
  BY <1>1, <1>2, <1>3, <1>4, <1>5 DEF RunInv

\* A panel that is new has no run.
LEMMA RunCleared ==
  ASSUME panel' = NewPanel,
         \A z \in InFlight' : z.kind # "invite", \A i \in Intended' : i.what # "invite"
  PROVE  RunInv'
<1>1. /\ NewPanel.log = {} /\ NewPanel.asked = {} /\ NewPanel.queue = <<>>
  BY DEF NewPanel
<1>2. Open' = {} /\ \A r, e : ~IsLogged(r, e)'
  BY <1>1 DEF Open, IsLogged
<1>3. ToSet(panel'.queue) = {}
  BY <1>1, EmptyQueue
<1> QED
  BY <1>2, <1>3 DEF RunInv

\* The intent of the invitation that begins.
LEMMA InviteIntended ==
  ASSUME TypeOK, NEW r \in Nat, NEW g \in Emails,
         pendingIntents' = BagAdd(pendingIntents, SendInvitations(r, g))
  PROVE  \A j \in Intended' : j.what = "invite" =>
           \/ j \in Intended /\ pendingIntents'[j] = pendingIntents[j]
           \/ /\ j.run = r /\ j.email = g
              /\ \/ \E i \in Intended : i.what = "invite" /\ i.run = r /\ i.email = g
                 \/ pendingIntents'[j] = 1
<1> DEFINE i == SendInvitations(r, g)
<1>1. i \in IntentType /\ i.what = "invite" /\ i.run = r /\ i.email = g
  BY NewIntents
<1>2. pendingIntents' = BagAdd(pendingIntents, i)
  OBVIOUS
<1> HIDE DEF i
<1>3. /\ BagToSet(pendingIntents)' = BagToSet(pendingIntents) \union {i}
      /\ \A j \in BagToSet(pendingIntents) : j # i => pendingIntents'[j] = pendingIntents[j]
      /\ i \notin BagToSet(pendingIntents) => pendingIntents'[i] = 1
  BY <1>1, <1>2, IntentAdded DEF TypeOK
<1> QED
  BY <1>1, <1>3 DEF Intended

\* The request of the invitation that begins.
LEMMA InviteBegun ==
  ASSUME NEW Old, NEW g, NEW r, NEW y, FirstInvite(y, r, g), NEW R, Swap(Old, {y}, R),
         \A x \in InFlight : x.kind = "invite" => x \in Old /\ tasks[x] = 1 /\ x # y
  PROVE  \A z \in InFlight' : z.kind = "invite" => z = y /\ tasks'[z] = 1
  BY DEF Swap, Reading, FirstInvite, InviteType

\* Every step keeps the part about the run.
LEMMA DoneStep ==
  ASSUME TypeOK, TokenInv, OrgInv, QueueInv, DoneInv, [Next]_vars
  PROVE  DoneInv'
<1> USE DEF sessionVars, driveVars
<1>0. SUFFICES ASSUME ~history'.doubled PROVE RunInv'
  BY DEF DoneInv
<1>00. panel.nextRun \in Nat \ {0} /\ Run = panel.nextRun - 1 /\ Run \in Nat
  BY DEF TypeOK, PanelType, Run, RunOf
<1>1. CASE Quiet
  BY <1>0, <1>1, RunQuiet DEF Quiet, DoneInv
<1>2. CASE Restart
  BY <1>2, BootClears, RunCleared
<1>3. ASSUME NEW x \in InFlight, OnOrgCreatedOk(x) PROVE RunInv'
  BY <1>3, CreatedClears, RunCleared
<1>4. CASE InviteSendClicked
  <2>1. PICK queue \in Lists :
           /\ queue \in Seq(Emails) /\ queue # <<>> /\ IsInjective(queue)
           /\ panel'.sending /\ panel'.queue = Tail(queue) /\ panel'.nextRun = panel.nextRun + 1
           /\ panel'.asked = ToSet(queue) /\ panel'.log = panel.log
           /\ pendingIntents' = BagAdd(pendingIntents, SendInvitations(panel.nextRun, Head(queue)))
           /\ \E y : FirstInvite(y, panel.nextRun, Head(queue)) /\ Swap({}, {y}, {})
           /\ history'.twice = history.twice \union (ToSet(queue) \intersect Known)
           /\ history'.doubled = history.doubled
    BY <1>4, SendMoves
  <2>2. RunInv /\ ~panel.sending
    BY <1>0, <1>4, <2>1 DEF InviteSendClicked, DoneInv
  <2> DEFINE g == Head(queue)
             r == panel.nextRun
  <2>3. /\ g \in Emails /\ g \notin ToSet(Tail(queue))
        /\ ToSet(queue) = {g} \union ToSet(Tail(queue))
    BY <2>1, QueueFacts
  <2>4. PICK y : FirstInvite(y, r, g) /\ Swap({}, {y}, {})
    BY <2>1
  <2>5. pendingIntents' = BagAdd(pendingIntents, SendInvitations(r, g)) /\ r = Run + 1 /\ r \in Nat
    BY <1>00, <2>1
  <2> HIDE DEF g, r
  <2>6. Run' = r /\ \A n, e : IsLogged(n, e)' <=> IsLogged(n, e)
    BY <1>00, <2>1, <2>5 DEF Run, RunOf, IsLogged
  <2>7. \A e \in Emails : ~IsLogged(r, e)
    BY <1>00, <2>2, <2>5 DEF RunInv
  <2>8. Open' = {g} /\ Open = {}
    BY <2>1, <2>2, <2>3, <2>6, <2>7 DEF Open, RunInv
  <2>9. \A z \in InFlight : z.kind # "invite"
    BY <2>2, <2>8 DEF RunInv
  <2>10. \A z \in InFlight' : z.kind = "invite" => z = y /\ tasks'[z] = 1
    BY <2>4, <2>9, InviteBegun
  <2>11. y.run = r /\ y.email = g
    BY <2>4 DEF FirstInvite
  <2>12. \A j \in Intended' : j.what = "invite" =>
           \/ j \in Intended /\ pendingIntents'[j] = pendingIntents[j]
           \/ /\ j.run = r /\ j.email = g
              /\ \/ \E i \in Intended : i.what = "invite" /\ i.run = r /\ i.email = g
                 \/ pendingIntents'[j] = 1
    BY <2>3, <2>5, InviteIntended
  <2>13. \A i \in Intended : i.what = "invite" => IsLogged(i.run, i.email)
    BY <2>2, <2>8 DEF RunInv
  <2>14. \A j \in Intended' : j.what = "invite" =>
           \/ IsLogged(j.run, j.email)
           \/ j.run = r /\ j.email \in Open' /\ pendingIntents'[j] = 1
    BY <2>3, <2>7, <2>8, <2>12, <2>13
  <2>15. /\ ToSet(panel'.queue) \subseteq panel'.asked
         /\ \A e \in ToSet(panel'.queue) : ~IsLogged(r, e)
    <3>1. ToSet(queue) \subseteq Emails
      BY <2>1 DEF ToSet
    <3> QED
      BY <2>1, <2>3, <2>7, <3>1
  <2>16. \A n \in Nat, e \in Emails : IsLogged(n, e) => n <= r
    BY <1>00, <2>2, <2>5 DEF RunInv
  <2> QED
    BY <2>1, <2>6, <2>8, <2>10, <2>11, <2>14, <2>15, <2>16 DEF RunInv
<1>5. CASE AccessTokenRefreshedOk
  <2> DEFINE again == {i \in BagToSet(pendingIntents) : Runnable(i)}
             S == {i.email : i \in {j \in again : j.what = "invite"}}
             b == history.doubled \/ \E i \in again : AnsweredBefore(i)
             T == history.twice \union {e \in S : \E f \in DOMAIN folders : folders[f].email = e}
  <2>1. history' = [history EXCEPT !.doubled = b, !.twice = T]
    BY <1>5 DEF AccessTokenRefreshedOk
  <2>2. b <=> (history.doubled \/ \E i : Again(i) /\ AnsweredBefore(i))
    BY DEF Again
  <2> HIDE DEF b, T
  <2>3. history'.doubled = b
    BY <2>1 DEF TypeOK, HistoryType
  <2>4. RunInv /\ \A i : Again(i) => ~AnsweredBefore(i)
    BY <1>0, <2>2, <2>3 DEF DoneInv
  <2>5. Intended' = {} /\ panel' = panel
    BY <1>5 DEF AccessTokenRefreshedOk, Intended, EmptyBag, SetToBag, BagToSet
  <2>6. \A x \in InFlight : x.token <= token
    BY DEF TokenInv, TokensKnown, TypeOK
  <2>7. /\ \A z \in InFlight' : z \in InFlight \/ \E i : Again(i) /\ z = TaskOf(i, token + 1)
        /\ \A z \in InFlight : z \in InFlight' /\ tasks'[z] = tasks[z]
        /\ \A i : Again(i) => tasks'[TaskOf(i, token + 1)] = pendingIntents[i]
    BY <1>5, <2>6, RetryMoves
  <2>8. \A i : Again(i) => /\ i \in Intended /\ i \in IntentType
                           /\ TaskOf(i, token + 1).kind = i.what
                           /\ i.what = "invite" => /\ TaskOf(i, token + 1).email = i.email
                                                   /\ TaskOf(i, token + 1).run = i.run
    BY TaskOfFacts DEF Again, Intended, TypeOK, IntentsOK, IntentType
  <2>9. \A i : Again(i) /\ i.what = "invite" =>
           i.run = Run /\ i.email \in Open /\ pendingIntents[i] = 1 /\ \A x \in InFlight : x.kind # "invite"
    <3> SUFFICES ASSUME NEW i, Again(i), i.what = "invite"
                 PROVE  i.run = Run /\ i.email \in Open /\ pendingIntents[i] = 1
                          /\ \A x \in InFlight : x.kind # "invite"
      OBVIOUS
    <3>1. /\ ~IsLogged(i.run, i.email)
          /\ \A x \in InFlight : x.kind = "invite" => x.run # i.run \/ x.email # i.email
      BY <2>4 DEF AnsweredBefore, IsLogged, InFlightOf
    <3>2. i.run = Run /\ i.email \in Open /\ pendingIntents[i] = 1
      BY <2>4, <2>8, <3>1 DEF RunInv
    <3> QED
      BY <2>4, <3>1, <3>2 DEF RunInv
  <2>10. \A i, j : Again(i) /\ Again(j) /\ i.what = "invite" /\ j.what = "invite" => i = j
    <3>1. \A i, j \in InviteIntents : i.run = j.run /\ i.email = j.email => i = j
      BY DEF InviteIntents
    <3>2. \A i : Again(i) /\ i.what = "invite" => i \in InviteIntents
      BY <2>8, WhatType
    <3> QED
      BY <2>4, <2>9, <3>1, <3>2 DEF RunInv
  <2>11. Open' = Open /\ Run' = Run /\ \A r, e : IsLogged(r, e)' = IsLogged(r, e)
    BY <2>5 DEF Open, Run, IsLogged
  <2>12. \A z \in InFlight' : z.kind = "invite" => tasks'[z] = 1 /\ z.run = Run /\ z.email \in Open
    <3> SUFFICES ASSUME NEW z \in InFlight', z.kind = "invite"
                 PROVE  tasks'[z] = 1 /\ z.run = Run /\ z.email \in Open
      OBVIOUS
    <3>1. CASE z \in InFlight
      BY <2>4, <2>7, <3>1 DEF RunInv
    <3>2. CASE z \notin InFlight
      BY <2>7, <2>8, <2>9, <3>2
    <3> QED
      BY <3>1, <3>2
  <2>13. \A y, z \in InFlight' : y.kind = "invite" /\ z.kind = "invite" => y = z
    BY <2>4, <2>7, <2>8, <2>9, <2>10 DEF RunInv
  <2> QED
    BY <2>4, <2>5, <2>11, <2>12, <2>13 DEF RunInv
<1>6. ASSUME NEW x \in InFlight, Finished(x) PROVE RunInv'
  <2>1. /\ x \in InviteType /\ x.kind = "invite" /\ x.at \in {"granted", "error"}
        /\ x.run \in Nat /\ x.email \in Emails
        /\ UNCHANGED <<expired, history>>
    BY <1>6, FinishedMoves DEF InviteType
  <2>2. PICK b \in BOOLEAN :
              LET p == Logged(x, b) IN
              /\ b <=> x.at = "granted"
              /\ \/ /\ panel.queue = <<>> /\ panel' = [p EXCEPT !.sending = FALSE]
                    /\ pendingIntents' = pendingIntents
                    /\ Swap({x}, {}, {x.folder})
                 \/ /\ panel.queue # <<>> /\ panel' = [p EXCEPT !.queue = Tail(panel.queue)]
                    /\ pendingIntents' = BagAdd(pendingIntents, SendInvitations(x.run, Head(panel.queue)))
                    /\ \E y : /\ FirstInvite(y, x.run, Head(panel.queue))
                              /\ Swap({x}, {y}, {x.folder})
    BY <1>6, FinishedMoves
  <2> DEFINE p == Logged(x, b)
             L == panel.log \union {<<x.run, x.email, b>>}
  <2>3. /\ p \in PanelType /\ p.queue = panel.queue /\ p.sending = panel.sending
        /\ p.nextRun = panel.nextRun /\ p.asked = panel.asked /\ p.log = L
    BY <2>1, LoggedFacts
  <2>4. RunInv
    BY <1>0, <2>1 DEF DoneInv
  <2>5. /\ tasks[x] = 1 /\ x.run = Run /\ x.email \in Open
        /\ \A z \in InFlight : z.kind = "invite" => z = x
        /\ \A e \in Open : e = x.email
    BY <2>1, <2>4 DEF RunInv
  <2>6. x.email \notin ToSet(panel.queue)
    BY <2>5 DEF Open
  <2>7. ASSUME panel'.log = L, panel'.nextRun = panel.nextRun
        PROVE  /\ Run' = Run
               /\ \A r, e : IsLogged(r, e)' <=> (IsLogged(r, e) \/ (r = x.run /\ e = x.email))
    <3>1. Run' = Run
      BY <2>7 DEF Run, RunOf
    <3>2. \A r, e : IsLogged(r, e) => IsLogged(r, e)'
      BY <2>7 DEF IsLogged
    <3>3. IsLogged(x.run, x.email)'
      BY <2>7 DEF IsLogged
    <3>4. \A r, e : IsLogged(r, e)' => IsLogged(r, e) \/ (r = x.run /\ e = x.email)
      BY <2>7 DEF IsLogged
    <3> QED
      BY <3>1, <3>2, <3>3, <3>4
  <2>8. ASSUME panel'.log = L, panel'.nextRun = panel.nextRun
        PROVE  \A r \in Nat, e \in Emails : IsLogged(r, e)' => r <= Run'
    BY <1>00, <2>4, <2>5, <2>7, <2>8 DEF RunInv
  <2>9. CASE /\ panel.queue = <<>> /\ panel' = [p EXCEPT !.sending = FALSE]
             /\ pendingIntents' = pendingIntents
             /\ Swap({x}, {}, {x.folder})
    <3> HIDE DEF p, L
    <3>1. /\ panel'.queue = <<>> /\ panel'.log = L /\ panel'.nextRun = panel.nextRun
          /\ panel'.asked = panel.asked
      BY <2>3, <2>9 DEF PanelType
    <3>2. /\ Run' = Run
          /\ \A r, e : IsLogged(r, e)' <=> (IsLogged(r, e) \/ (r = x.run /\ e = x.email))
      BY <2>7, <3>1
    <3>3. Open' = {}
      BY <2>5, <2>9, <3>1, <3>2 DEF Open
    <3>4. \A z \in InFlight' : z.kind # "invite"
      BY <2>5, <2>9 DEF Swap, Reading
    <3>5. \A i \in Intended' : i.what = "invite" => IsLogged(i.run, i.email)'
      BY <2>4, <2>5, <2>9, <3>2 DEF RunInv, Intended
    <3>6. ToSet(panel'.queue) = {}
      BY <3>1, EmptyQueue
    <3>7. \A r \in Nat, e \in Emails : IsLogged(r, e)' => r <= Run'
      BY <2>8, <3>1
    <3> QED
      BY <3>3, <3>4, <3>5, <3>6, <3>7 DEF RunInv
  <2>10. CASE /\ panel.queue # <<>> /\ panel' = [p EXCEPT !.queue = Tail(panel.queue)]
              /\ pendingIntents' = BagAdd(pendingIntents, SendInvitations(x.run, Head(panel.queue)))
              /\ \E y : /\ FirstInvite(y, x.run, Head(panel.queue))
                        /\ Swap({x}, {y}, {x.folder})
    <3> HIDE DEF p, L
    <3> DEFINE g == Head(panel.queue)
    <3>1. PICK y : FirstInvite(y, x.run, g) /\ Swap({x}, {y}, {x.folder})
      BY <2>10
    <3>2. panel.queue \in Seq(Emails) /\ panel.queue # <<>> /\ IsInjective(panel.queue) /\ panel.sending
      BY <2>10 DEF TypeOK, PanelType, QueueInv
    <3>3. /\ g \in Emails /\ g \notin ToSet(Tail(panel.queue))
          /\ ToSet(panel.queue) = {g} \union ToSet(Tail(panel.queue))
      BY <3>2, QueueFacts
    <3>4. /\ panel'.queue = Tail(panel.queue) /\ panel'.sending /\ panel'.log = L
          /\ panel'.nextRun = panel.nextRun /\ panel'.asked = panel.asked
      BY <2>3, <2>10, <3>2 DEF PanelType
    <3>5. pendingIntents' = BagAdd(pendingIntents, SendInvitations(x.run, g))
      BY <2>10
    <3> HIDE DEF g
    <3>6. /\ Run' = Run
          /\ \A r, e : IsLogged(r, e)' <=> (IsLogged(r, e) \/ (r = x.run /\ e = x.email))
      BY <2>7, <3>4
    <3>7. g # x.email /\ g \in panel.asked /\ ~IsLogged(Run, g) /\ g \notin Open
      BY <2>4, <2>6, <3>3 DEF RunInv, Open
    <3>8. Open' = {g}
      <4>1. g \in Open'
        BY <3>3, <3>4, <3>6, <3>7 DEF Open
      <4>2. \A e \in Open' : e = g
        <5> SUFFICES ASSUME NEW e \in Open', e # g PROVE FALSE
          OBVIOUS
        <5>1. e \in panel.asked /\ e \notin ToSet(panel.queue) /\ ~IsLogged(Run, e) /\ e # x.email
          BY <2>5, <3>3, <3>4, <3>6 DEF Open
        <5>2. e \in Open
          BY <5>1 DEF Open
        <5> QED
          BY <2>5, <5>1, <5>2
      <4> QED
        BY <4>1, <4>2
    <3>9. y.run = Run /\ y.email = g /\ y # x
      BY <2>1, <2>5, <3>1 DEF FirstInvite
    <3>10. \A z \in InFlight' : z.kind = "invite" => z = y /\ tasks'[z] = 1
      <4>1. \A z \in InFlight : z.kind = "invite" => z \in {x} /\ tasks[z] = 1 /\ z # y
        BY <2>5, <3>9
      <4> QED
        BY <3>1, <4>1, InviteBegun
    <3>11. \A j \in Intended' : j.what = "invite" =>
           \/ j \in Intended /\ pendingIntents'[j] = pendingIntents[j]
           \/ /\ j.run = x.run /\ j.email = g
              /\ \/ \E i \in Intended : i.what = "invite" /\ i.run = x.run /\ i.email = g
                 \/ pendingIntents'[j] = 1
      BY <2>1, <3>3, <3>5, InviteIntended
    <3>12. \A i \in Intended : i.what = "invite" => i.run # Run \/ i.email # g
      BY <2>4, <3>7 DEF RunInv
    <3>13. \A i \in Intended : i.what = "invite" => IsLogged(i.run, i.email)'
      BY <2>4, <2>5, <3>6 DEF RunInv
    <3>14. \A j \in Intended' : j.what = "invite" =>
           \/ IsLogged(j.run, j.email)'
           \/ j.run = Run' /\ j.email \in Open' /\ pendingIntents'[j] = 1
      BY <2>5, <3>6, <3>8, <3>11, <3>12, <3>13
    <3>15. /\ ToSet(panel'.queue) \subseteq panel'.asked
           /\ \A e \in ToSet(panel'.queue) : ~IsLogged(Run, e)'
      BY <2>4, <2>6, <3>3, <3>4, <3>6 DEF RunInv
    <3>16. \A r \in Nat, e \in Emails : IsLogged(r, e)' => r <= Run'
      BY <2>8, <3>4
    <3> QED
      BY <3>4, <3>6, <3>8, <3>9, <3>10, <3>14, <3>15, <3>16 DEF RunInv
  <2> QED
    BY <2>2, <2>9, <2>10
<1>7. \/ Quiet
      \/ InviteSendClicked \/ AccessTokenRefreshedOk \/ Restart
      \/ \E x \in InFlight : Finished(x) \/ OnOrgCreatedOk(x)
  BY QuietSteps
<1> QED
  BY <1>1, <1>2, <1>3, <1>4, <1>5, <1>6, <1>7
-----------------------------------------------------------------------------
\* A task is about folders that are there; a load has a row of each it has read, and one only.
Fits(x) ==
  /\ x.kind = "invite" => /\ x.folder \in DOMAIN folders \union {0}
                          /\ x.at = "folder" => x.folder = 0
                          /\ x.at \in {"permission", "undo", "granted"} => x.folder \in DOMAIN folders
  /\ x.kind = "revoke" => x.folder \in DOMAIN folders
  /\ x.kind = "load" => /\ x.at = "list" => x.todo = {} /\ x.read = <<>> /\ x.raced = {}
                        /\ x.todo \subseteq DOMAIN folders
                        /\ \A k \in DOMAIN x.read : x.read[k].folder \in DOMAIN folders \ x.todo
                        /\ \A j, k \in DOMAIN x.read : x.read[j].folder = x.read[k].folder => j = k

\* What a load has read is so, unless it met a change.
Right(x) ==
  x.kind = "load" /\ x.at = "read" =>
    \A f \in DOMAIN folders \ (x.raced \union x.todo) :
      folders[f].is = "shared" <=> \E k \in DOMAIN x.read : x.read[k].folder = f /\ x.read[k].id # "none"

\* x shares or unshares f.
Changes(x, f) == x.kind \in {"invite", "revoke"} /\ x.folder = f
\* The changes of f under way, its rows, and whether one shows access.
Changers(f) == {x \in InFlight : Changes(x, f)}
RowsOf(f) == {k \in DOMAIN rows : rows[k].folder = f}
Shown(f) == \E k \in RowsOf(f) : rows[k].id # "none"

\* f has one row at most and one change at most; if it has one, the row waits for its answer
\* and the folder is where the change has got to; if it has none, the row is right.
TableOf(f) ==
  /\ \A j, k \in RowsOf(f) : j = k
  /\ \A x, y \in Changers(f) : x = y
  /\ \A x \in Changers(f) :
       /\ tasks[x] = 1
       /\ x.kind = "invite" => RowsOf(f) = {} /\ (x.at = "granted" <=> folders[f].is = "shared")
       /\ x.kind = "revoke" => /\ \E k \in RowsOf(f) : rows[k].removing /\ rows[k].id # "none"
                               /\ x.at = "revoked" <=> folders[f].is # "shared"
  /\ Changers(f) = {} => (folders[f].is = "shared" <=> Shown(f))

\* Rows and tasks are about folders that are there.
FolderInv == (\A k \in DOMAIN rows : rows[k].folder \in DOMAIN folders) /\ \A x \in InFlight : Fits(x)
\* Loads have read what is so.
LoadInv == \A x \in InFlight : Right(x)
\* Without organization the program knows nothing of the folders.
RacedInv == userState = "SignedIn" => DOMAIN folders \subseteq history.raced
\* The rows are right but for the folders a load and a change overlapped on.
RowsInv == userState # "SignedOut" => \A f \in DOMAIN folders \ history.raced : TableOf(f)

TableInv == FolderInv /\ LoadInv /\ RacedInv /\ RowsInv

\* Folders are only added, and changed only if they are in R.
FoldersGrow(R) ==
  /\ folders' \in Seq(FolderType)
  /\ DOMAIN folders \subseteq DOMAIN folders'
  /\ 0 \notin DOMAIN folders'
  /\ \A f \in DOMAIN folders \ R : folders'[f].is = folders[f].is
  /\ \A f \in DOMAIN folders' \ DOMAIN folders : folders'[f].is # "shared"

\* A task fits the folders when more are added.
LEMMA FitsGrows ==
  ASSUME NEW x, Fits(x), DOMAIN folders \subseteq DOMAIN folders'
  PROVE  Fits(x)'
  BY DEF Fits

\* The tasks of a step fit the folders and the loads have read what is so.
LEMMA LoadsKept ==
  ASSUME TasksOK, \A x \in InFlight : Fits(x), LoadInv, NEW Old, NEW New, New \subseteq TaskType,
         NEW R \in SUBSET Nat, Swap(Old, New, R), FoldersGrow(R),
         \A y \in New : Fits(y)' /\ Right(y)'
  PROVE  (\A z \in InFlight' : Fits(z)') /\ LoadInv'
<1>1. \A x \in InFlight : Fits(x)'
  BY FitsGrows DEF FoldersGrow
<1>2. ASSUME NEW z \in InFlight' PROVE Fits(z)' /\ Right(z)'
  <2>1. CASE ~Reading(z)
    <3>1. z \in InFlight \union New
      BY <2>1 DEF Swap
    <3>2. Fits(z)'
      BY <1>1, <3>1
    <3>3. CASE z.kind = "load" /\ z.at = "read"
      BY <2>1, <3>3 DEF Reading
    <3> QED
      BY <3>2, <3>3 DEF Right
  <2>2. CASE Reading(z)
    <3>1. PICK w \in InFlight \union New :
           /\ w \in LoadType /\ Reading(w)
           /\ w.token = z.token /\ w.at = z.at /\ w.todo = z.todo /\ w.read = z.read
           /\ z.raced = w.raced \union R
      <4>1. PICK w \in InFlight \union New : Reading(w) /\ z = [w EXCEPT !.raced = @ \union R]
        BY <2>2 DEF Swap
      <4>2. w \in LoadType
        BY <4>1, KindType DEF TasksOK, Reading
      <4>3. /\ w.token = z.token /\ w.at = z.at /\ w.todo = z.todo /\ w.read = z.read
            /\ z.raced = w.raced \union R
        BY <4>1, <4>2 DEF LoadType
      <4> QED
        BY <4>1, <4>2, <4>3
    <3>2. z.kind = "load" /\ w.kind = "load" /\ z.at # "list"
      BY <2>2, <3>1 DEF Reading
    <3>3. Fits(w)'
      BY <1>1, <3>1
    <3>4. Fits(z)'
      BY <3>1, <3>2, <3>3 DEF Fits
    <3>5. Right(z)'
      <4>1. CASE w \in New
        <5>1. Right(w)'
          BY <4>1
        <5> QED
          BY <3>1, <3>2, <5>1 DEF Right
      <4>2. CASE w \in InFlight
        <5>1. Right(w) /\ Fits(w)
          BY <4>2 DEF LoadInv
        <5>2. SUFFICES ASSUME z.at = "read", NEW f \in DOMAIN folders' \ (z.raced \union z.todo)
                       PROVE  folders'[f].is = "shared" <=>
                                \E k \in DOMAIN z.read : z.read[k].folder = f /\ z.read[k].id # "none"
          BY DEF Right
        <5>3. CASE f \in DOMAIN folders
          <6>1. folders'[f].is = folders[f].is
            BY <3>1, <5>2, <5>3 DEF FoldersGrow
          <6>2. folders[f].is = "shared" <=>
                  \E k \in DOMAIN w.read : w.read[k].folder = f /\ w.read[k].id # "none"
            BY <3>1, <3>2, <5>1, <5>2, <5>3 DEF Right
          <6> QED
            BY <3>1, <6>1, <6>2
        <5>4. CASE f \notin DOMAIN folders
          <6>1. folders'[f].is # "shared"
            BY <5>2, <5>4 DEF FoldersGrow
          <6>2. \A k \in DOMAIN z.read : z.read[k].folder # f
            BY <3>1, <3>2, <5>1, <5>4 DEF Fits
          <6> QED
            BY <6>1, <6>2
        <5> QED
          BY <5>3, <5>4
      <4> QED
        BY <4>1, <4>2
    <3> QED
      BY <3>4, <3>5
  <2> QED
    BY <2>1, <2>2
<1> QED
  BY <1>2 DEF LoadInv

\* The rows of f stay as they are.
RowsSame(f) == RowsOf(f)' = RowsOf(f) /\ \A k \in RowsOf(f) : rows'[k] = rows[k]

\* A step of other tasks than the changes of f.
LEMMA ChangersKept ==
  ASSUME NEW f, NEW Old, NEW New, NEW R, Swap(Old, New, R), \A x \in Old \union New : ~Changes(x, f)
  PROVE  Changers(f)' = Changers(f) /\ \A x \in Changers(f) : tasks'[x] = tasks[x]
<1>1. \A x : Changes(x, f) => ~Reading(x)
  BY DEF Changes, Reading
<1> QED
  BY <1>1 DEF Swap, Changers

\* Neither the changes of f nor its rows are concerned.
LEMMA TableSame ==
  ASSUME NEW f, TableOf(f), Changers(f)' = Changers(f),
         \A x \in Changers(f) : tasks'[x] = tasks[x],
         folders'[f].is = folders[f].is, RowsSame(f)
  PROVE  TableOf(f)'
<1>1. Shown(f)' <=> Shown(f)
  BY DEF Shown, RowsSame
<1>2. \A x \in Changers(f)' :
        /\ tasks'[x] = 1
        /\ x.kind = "invite" => RowsOf(f)' = {} /\ (x.at = "granted" <=> folders'[f].is = "shared")
        /\ x.kind = "revoke" => /\ \E k \in RowsOf(f)' : rows'[k].removing /\ rows'[k].id # "none"
                                /\ x.at = "revoked" <=> folders'[f].is # "shared"
  BY DEF TableOf, RowsSame
<1> QED
  BY <1>1, <1>2 DEF TableOf, RowsSame

\* So it is for a step that concerns other folders.
LEMMA TableKept ==
  ASSUME NEW f, TableOf(f), NEW Old, NEW New, NEW R, Swap(Old, New, R),
         \A x \in Old \union New : ~Changes(x, f),
         folders'[f].is = folders[f].is, RowsSame(f)
  PROVE  TableOf(f)'
BY ChangersKept, TableSame

\* The only change of f is taken over.
LEMMA ChangerSwaps ==
  ASSUME NEW f, TableOf(f), NEW x \in InFlight, Changes(x, f), NEW New, NEW R, Swap({x}, New, R),
         \A y \in New : y # x
  PROVE  /\ Changers(f)' = {y \in New : Changes(y, f)}
         /\ \A y \in Changers(f)' : tasks'[y] = 1
<1>1. \A z : Changes(z, f) => ~Reading(z)
  BY DEF Changes, Reading
<1>2. tasks[x] = 1 /\ \A z \in Changers(f) : z = x
  BY DEF TableOf, Changers
<1> QED
  BY <1>1, <1>2 DEF Swap, Changers

\* A step that concerns the rows and the changes of one folder, g.
LEMMA TableStays ==
  ASSUME TypeOK, TableInv, NEW Old, NEW New, New \subseteq TaskType, NEW R \in SUBSET Nat, NEW g,
         Swap(Old, New, R), FoldersGrow(R), userState' = userState,
         userState = "SignedIn" => folders' = folders,
         history.raced \subseteq history'.raced,
         \A y \in New : Fits(y)' /\ Right(y)',
         \A k \in DOMAIN rows' : rows'[k].folder \in DOMAIN folders',
         DOMAIN folders' \subseteq DOMAIN folders \union {g},
         \A f \in DOMAIN folders \ {g} : folders'[f].is = folders[f].is /\ RowsSame(f),
         \A f \in DOMAIN folders \ {g} : \A x \in Old \union New : ~Changes(x, f),
         userState # "SignedOut" /\ g \in DOMAIN folders' \ history'.raced
           /\ (g \in DOMAIN folders => TableOf(g)) => TableOf(g)'
  PROVE  TableInv'
<1>1. FolderInv' /\ LoadInv'
  <2>1. TasksOK /\ LoadInv /\ \A x \in InFlight : Fits(x)
    BY DEF TypeOK, TableInv, FolderInv
  <2>2. (\A z \in InFlight' : Fits(z)') /\ LoadInv'
    BY <2>1, LoadsKept
  <2> QED
    BY <2>2 DEF FolderInv
<1>2. RacedInv'
  BY DEF TableInv, RacedInv
<1>3. RowsInv'
  <2> SUFFICES ASSUME userState # "SignedOut", NEW f \in DOMAIN folders' \ history'.raced
               PROVE  TableOf(f)'
    BY DEF RowsInv
  <2>1. f \in DOMAIN folders => TableOf(f)
    BY DEF TableInv, RowsInv
  <2>2. CASE f = g
    BY <2>1, <2>2
  <2>3. CASE f # g
    BY <2>1, <2>3, TableKept
  <2> QED
    BY <2>2, <2>3
<1> QED
  BY <1>1, <1>2, <1>3 DEF TableInv

\* The folders stay, one is changed, one is added.
LEMMA FoldersSame ==
  ASSUME TypeOK, folders' = folders, NEW R
  PROVE  FoldersGrow(R)
<1>1. folders \in Seq(FolderType) /\ 0 \notin DOMAIN folders
  BY DEF TypeOK
<1> QED
  BY <1>1 DEF FoldersGrow

\* A folder is shared, unshared or deleted.
LEMMA FoldersChanged ==
  ASSUME TypeOK, NEW f \in Nat, NEW is \in Is, folders' = [folders EXCEPT ![f].is = is]
  PROVE  /\ FoldersGrow({f}) /\ DOMAIN folders' = DOMAIN folders
         /\ \A g \in DOMAIN folders \ {f} : folders'[g].is = folders[g].is
         /\ f \in DOMAIN folders => folders'[f].is = is
<1>1. folders \in Seq(FolderType) /\ 0 \notin DOMAIN folders
  BY DEF TypeOK
<1>2. /\ folders' \in Seq(FolderType) /\ DOMAIN folders' = DOMAIN folders
      /\ \A g \in DOMAIN folders : g # f => folders'[g] = folders[g]
      /\ f \in DOMAIN folders => folders'[f].is = is
  BY <1>1, FolderChanged
<1> QED
  BY <1>1, <1>2 DEF FoldersGrow

\* A folder is added, and not shared.
LEMMA FoldersAdded ==
  ASSUME TypeOK, NEW e \in Emails, folders' = NewFolder(e), NEW R
  PROVE  /\ FoldersGrow(R)
         /\ DOMAIN folders' = DOMAIN folders \union {Len(folders) + 1}
         /\ Len(folders) + 1 \notin DOMAIN folders
         /\ folders'[Len(folders) + 1].is = "private"
         /\ \A g \in DOMAIN folders : folders'[g].is = folders[g].is
<1>1. folders \in Seq(FolderType) /\ 0 \notin DOMAIN folders /\ Len(folders) + 1 # 0
  BY DEF TypeOK
<1>2. /\ folders' \in Seq(FolderType)
      /\ DOMAIN folders' = DOMAIN folders \union {Len(folders) + 1}
      /\ Len(folders) + 1 \notin DOMAIN folders
      /\ \A g \in DOMAIN folders : folders'[g] = folders[g]
      /\ folders'[Len(folders) + 1].is = "private"
  BY <1>1, FolderAdded
<1> QED
  BY <1>1, <1>2 DEF FoldersGrow
\* Tasks fit folders that stay.
LEMMA FitsSame ==
  ASSUME folders' = folders, NEW y
  PROVE  (Fits(y) => Fits(y)') /\ (Right(y) => Right(y)')
BY DEF Fits, Right

\* A step that concerns no folder.
LEMMA TableIdle ==
  ASSUME TypeOK, TableInv, NEW Old, NEW New, New \subseteq TaskType, Swap(Old, New, {}),
         UNCHANGED <<userState, rows, folders>>, history'.raced = history.raced,
         \A y \in New : Fits(y) /\ Right(y),
         \A f \in DOMAIN folders : \A x \in Old \union New : ~Changes(x, f)
  PROVE  TableInv'
<1>1. 0 \notin DOMAIN folders /\ {} \in SUBSET Nat
  BY DEF TypeOK
<1>2. FoldersGrow({})
  BY FoldersSame
<1>3. \A y \in New : Fits(y)' /\ Right(y)'
  BY FitsSame
<1>4. \A k \in DOMAIN rows' : rows'[k].folder \in DOMAIN folders'
  BY DEF TableInv, FolderInv
<1>5. \A f \in DOMAIN folders : folders'[f].is = folders[f].is /\ RowsSame(f)
  BY DEF RowsSame, RowsOf
<1> QED
  BY <1>1, <1>2, <1>3, <1>4, <1>5, TableStays

\* The tasks that are about no folder yet.
LEMMA PlainTasks ==
  ASSUME TypeOK, NEW y \in TaskType,
         \/ y.kind \in {"fetch", "create"}
         \/ y.kind = "invite" /\ y.at = "folder" /\ y.folder = 0
         \/ y.kind = "load" /\ y.at = "list" /\ y.todo = {} /\ y.read = <<>> /\ y.raced = {}
  PROVE  Fits(y) /\ Right(y) /\ \A f \in DOMAIN folders : ~Changes(y, f)
<1>1. 0 \notin DOMAIN folders
  BY DEF TypeOK
<1>2. \A k : k \notin DOMAIN <<>>
  OBVIOUS
<1> QED
  BY <1>1, <1>2 DEF Fits, Right, Changes

\* A task about no folder begins.
LEMMA TableBegins ==
  ASSUME TypeOK, TableInv, NEW y \in TaskType, Swap({}, {y}, {}),
         UNCHANGED <<userState, rows, folders>>, history'.raced = history.raced,
         \/ y.kind \in {"fetch", "create"}
         \/ y.kind = "invite" /\ y.at = "folder" /\ y.folder = 0
         \/ y.kind = "load" /\ y.at = "list" /\ y.todo = {} /\ y.read = <<>> /\ y.raced = {}
  PROVE  TableInv'
<1>1. {y} \subseteq TaskType
  OBVIOUS
<1>2. \A z \in {y} : Fits(z) /\ Right(z)
  <2>1. Fits(y) /\ Right(y)
    BY PlainTasks
  <2> QED
    BY <2>1
<1>3. \A f \in DOMAIN folders : \A x \in {} \union {y} : ~Changes(x, f)
  <2>1. \A f \in DOMAIN folders : ~Changes(y, f)
    BY PlainTasks
  <2> QED
    BY <2>1
<1> QED
  BY <1>1, <1>2, <1>3, TableIdle

\* Then one lemma per step: the clicks.
LEMMA TableCreates ==
  ASSUME TypeOK, TableInv, CreateOrgClicked
  PROVE  TableInv'
<1>1. CreateTask(token) \in TaskType /\ CreateTask(token).kind = "create"
  BY NewTask DEF TypeOK, TaskType
<1>2. Swap({}, {CreateTask(token)}, {})
  BY <1>1, SwapBegins DEF TypeOK, CreateOrgClicked
<1>3. UNCHANGED <<userState, rows, folders, history>>
  BY DEF CreateOrgClicked, sessionVars, driveVars
<1> QED
  BY <1>1, <1>2, <1>3, TableBegins

\* A load begins.
LEMMA TableLoads ==
  ASSUME TypeOK, TableInv, StartLoad
  PROVE  TableInv'
<1>1. /\ LoadTask(token) \in TaskType /\ LoadTask(token).kind = "load"
      /\ LoadTask(token).at = "list" /\ LoadTask(token).todo = {} /\ LoadTask(token).read = <<>>
      /\ LoadTask(token).raced = {}
  BY NewTask DEF TypeOK, TaskType
<1>2. Swap({}, {LoadTask(token)}, {})
  BY <1>1, SwapBegins DEF TypeOK, StartLoad
<1>3. UNCHANGED <<userState, rows, folders, history>>
  BY DEF StartLoad, sessionVars, driveVars
<1> QED
  BY <1>1, <1>2, <1>3, TableBegins

\* A run begins.
LEMMA TableInvites ==
  ASSUME TypeOK, TableInv, InviteSendClicked
  PROVE  TableInv'
<1>1. PICK n, e, y : FirstInvite(y, n, e) /\ Swap({}, {y}, {})
  <2>1. \E queue \in Lists : \E y : FirstInvite(y, panel.nextRun, Head(queue)) /\ Swap({}, {y}, {})
    BY SendMoves
  <2> QED
    BY <2>1
<1>2. y \in TaskType /\ y.kind = "invite" /\ y.at = "folder" /\ y.folder = 0
  BY <1>1 DEF FirstInvite, InviteType, TaskType
<1>3. UNCHANGED <<userState, rows, folders>>
  BY DEF InviteSendClicked, sessionVars, driveVars
<1>4. PICK S : history' = [history EXCEPT !.twice = S]
  <2>1. \E S : history' = [history EXCEPT !.twice = S]
    BY DEF InviteSendClicked, Remember
  <2> QED
    BY <2>1
<1>5. history'.raced = history.raced
  BY <1>4 DEF TypeOK, HistoryType
<1> QED
  BY <1>1, <1>2, <1>3, <1>5, TableBegins
\* The first row of a folder is its only one, unless a load and a change overlapped.
LEMMA TableRemoves ==
  ASSUME TypeOK, TableInv, NEW k \in DOMAIN rows, RemoveAccessClicked(k)
  PROVE  TableInv'
<1>0. PICK g, y : g = rows[k].folder /\ y = RevokeTask(token, g, rows[k].id)
  OBVIOUS
<1>1. /\ rows[k] \in RowType /\ ~rows[k].removing /\ rows[k].id # "none"
      /\ tasks' = BagAdd(tasks, y)
      /\ rows' = [j \in DOMAIN rows |-> IF FirstRow(j, g)
                                        THEN [rows[j] EXCEPT !.removing = TRUE] ELSE rows[j]]
      /\ UNCHANGED <<userState, folders, history>> /\ userState = "OrgCreated"
  BY <1>0 DEF RemoveAccessClicked, TypeOK, sessionVars, driveVars
<1>2. g \in Nat /\ rows[k].id \in {"id", "quoted"} /\ token \in Nat
  BY <1>0, <1>1 DEF RowType, TypeOK
<1>3. g \in DOMAIN folders
  BY <1>0 DEF TableInv, FolderInv
<1>4. /\ DOMAIN rows' = DOMAIN rows
      /\ \A j \in DOMAIN rows : /\ rows'[j].folder = rows[j].folder /\ rows'[j].id = rows[j].id
                                /\ FirstRow(j, g) => rows'[j].removing
                                /\ rows[j].folder # g => rows'[j] = rows[j]
  <2>1. DOMAIN rows' = DOMAIN rows
    BY <1>1
  <2>2. ASSUME NEW j \in DOMAIN rows
        PROVE  /\ rows'[j].folder = rows[j].folder /\ rows'[j].id = rows[j].id
               /\ FirstRow(j, g) => rows'[j].removing
               /\ rows[j].folder # g => rows'[j] = rows[j]
    <3> DEFINE q == [rows[j] EXCEPT !.removing = TRUE]
    <3>1. rows[j] \in RowType
      BY DEF TypeOK
    <3>2. q.folder = rows[j].folder /\ q.id = rows[j].id /\ q.removing
      BY <3>1 DEF RowType
    <3>3. rows'[j] = IF FirstRow(j, g) THEN q ELSE rows[j]
      BY <1>1
    <3>4. FirstRow(j, g) => rows[j].folder = g
      BY DEF FirstRow
    <3> HIDE DEF q
    <3> QED
      BY <3>2, <3>3, <3>4
  <2> QED
    BY <2>1, <2>2
<1>5. /\ y \in TaskType /\ y.kind = "revoke" /\ y.at = "delete" /\ y.folder = g
  BY <1>0, <1>2, NewRevoke DEF TaskType
<1>6. Swap({}, {y}, {}) /\ FoldersGrow({}) /\ {y} \subseteq TaskType /\ {} \in SUBSET Nat
  BY <1>1, <1>5, SwapBegins, FoldersSame DEF TypeOK
<1>7. Fits(y)' /\ Right(y)'
  <2>1. Fits(y) /\ Right(y)
    BY <1>3, <1>5 DEF Fits, Right
  <2> QED
    BY <1>1, <2>1, FitsSame
<1>8. \A j \in DOMAIN rows' : rows'[j].folder \in DOMAIN folders'
  BY <1>1, <1>4 DEF TableInv, FolderInv
<1>9. \A f \in DOMAIN folders \ {g} : folders'[f].is = folders[f].is /\ RowsSame(f)
  BY <1>1, <1>4 DEF RowsSame, RowsOf
<1>10. \A f \in DOMAIN folders \ {g} : ~Changes(y, f)
  BY <1>5 DEF Changes
<1>11. ASSUME TableOf(g) PROVE TableOf(g)'
  <2>1. k \in RowsOf(g) /\ \A j \in RowsOf(g) : j = k
    BY <1>0, <1>11 DEF RowsOf, TableOf
  <2>2. FirstRow(k, g)
    <3>1. k \in Nat /\ \A j \in 1 .. (k - 1) : j \in DOMAIN rows /\ j # k
      BY DEF TypeOK
    <3> QED
      BY <2>1, <3>1 DEF FirstRow, RowsOf
  <2>3. Changers(g) = {}
    BY <1>1, <1>11, <2>1 DEF TableOf, Changers, Changes
  <2>4. folders[g].is = "shared"
    BY <1>1, <1>11, <2>1, <2>3 DEF TableOf, Shown
  <2>5. RowsOf(g)' = {k} /\ rows'[k].removing /\ rows'[k].id # "none"
    <3>1. RowsOf(g)' = RowsOf(g)
      BY <1>4 DEF RowsOf
    <3>2. rows'[k].removing /\ rows'[k].id = rows[k].id
      BY <1>4, <2>2
    <3> QED
      BY <1>1, <2>1, <3>1, <3>2
  <2>6. \A z : Changes(z, g) => ~Reading(z)
    BY DEF Changes, Reading
  <2>7. Changes(y, g)
    BY <1>5 DEF Changes
  <2>8. Changers(g)' = {y} /\ tasks'[y] = 1
    <3>1. y \notin InFlight
      BY <2>3, <2>7 DEF Changers
    <3> QED
      BY <1>6, <2>3, <2>6, <2>7, <3>1 DEF Swap, Changers
  <2>9. folders'[g].is = "shared"
    BY <1>1, <2>4
  <2> QED
    BY <1>5, <2>5, <2>8, <2>9 DEF TableOf
<1>12. DOMAIN folders' \subseteq DOMAIN folders \union {g}
  BY <1>1
<1>13. \A f \in DOMAIN folders \ {g} : \A x \in {} \union {y} : ~Changes(x, f)
  BY <1>10
<1>14. \A x \in {y} : Fits(x)' /\ Right(x)'
  BY <1>7
<1>15. userState' = userState /\ folders' = folders /\ history.raced \subseteq history'.raced
  BY <1>1
<1>16. userState # "SignedOut" /\ g \in DOMAIN folders' \ history'.raced
           /\ (g \in DOMAIN folders => TableOf(g)) => TableOf(g)'
  BY <1>3, <1>11
<1>17. PICK New : New = {y}
  OBVIOUS
<1>18. /\ Swap({}, New, {}) /\ New \subseteq TaskType /\ \A x \in New : Fits(x)' /\ Right(x)'
       /\ \A f \in DOMAIN folders \ {g} : \A x \in {} \union New : ~Changes(x, f)
  BY <1>6, <1>13, <1>14, <1>17
<1> QED
  BY <1>6, <1>8, <1>9, <1>12, <1>15, <1>16, <1>18, TableStays
\* Where a change has got to is where its folder is.
Meets(z) ==
  /\ z.kind = "invite" => (z.at = "granted" <=> folders[z.folder].is = "shared")
  /\ z.kind = "revoke" => (z.at = "revoked" <=> folders[z.folder].is # "shared")

\* A change goes on.
LEMMA TableGoesOn ==
  ASSUME TypeOK, TableInv, NEW x \in InFlight, NEW y \in TaskType, NEW R \in SUBSET Nat,
         x.kind \in {"invite", "revoke"}, y.kind = x.kind, y.folder = x.folder, y # x,
         Swap({x}, {y}, R), FoldersGrow(R), DOMAIN folders' = DOMAIN folders,
         \A f \in DOMAIN folders \ {x.folder} : folders'[f].is = folders[f].is,
         UNCHANGED <<userState, rows>>, userState # "SignedIn",
         history.raced \subseteq history'.raced,
         Fits(x) => Fits(y),
         x.folder \notin history'.raced /\ Meets(x) => Meets(y)'
  PROVE  TableInv'
<1>1. PICK g, New : g = x.folder /\ New = {y}
  OBVIOUS
<1>2. Fits(y)' /\ Right(y)'
  <2>1. Fits(y)
    BY DEF TableInv, FolderInv
  <2> QED
    BY <2>1, FitsGrows DEF Right
<1>3. \A k \in DOMAIN rows' : rows'[k].folder \in DOMAIN folders'
  BY DEF TableInv, FolderInv
<1>4. \A f : RowsSame(f)
  BY DEF RowsSame, RowsOf
<1>5. \A f \in DOMAIN folders \ {g} : \A z \in {x} \union New : ~Changes(z, f)
  BY <1>1 DEF Changes
<1>6. ASSUME g \in DOMAIN folders \ history'.raced, TableOf(g) PROVE TableOf(g)'
  <2>1. Changes(x, g) /\ x \in Changers(g) /\ Changes(y, g)
    BY <1>1 DEF Changes, Changers
  <2>2. /\ Changers(g)' = {z \in New : Changes(z, g)}
        /\ \A z \in Changers(g)' : tasks'[z] = 1
    <3>1. Swap({x}, New, R) /\ \A z \in New : z # x
      BY <1>1
    <3>2. TableOf(g) /\ Changes(x, g)
      BY <1>6, <2>1
    <3> QED
      BY <3>1, <3>2, ChangerSwaps
  <2>3. Changers(g)' = {y} /\ tasks'[y] = 1
    BY <1>1, <2>1, <2>2
  <2>4. Meets(x)
    BY <1>1, <1>6, <2>1 DEF TableOf, Meets
  <2>5. Meets(y)'
    BY <1>1, <1>6, <2>4
  <2>6. /\ x.kind = "invite" => RowsOf(g) = {}
        /\ x.kind = "revoke" => \E k \in RowsOf(g) : rows[k].removing /\ rows[k].id # "none"
        /\ \A j, k \in RowsOf(g) : j = k
    BY <1>6, <2>1 DEF TableOf
  <2>7. RowsOf(g)' = RowsOf(g) /\ \A k \in RowsOf(g) : rows'[k] = rows[k]
    BY <1>4 DEF RowsSame
  <2>8. /\ y.kind = "invite" => (y.at = "granted" <=> folders'[g].is = "shared")
        /\ y.kind = "revoke" => (y.at = "revoked" <=> folders'[g].is # "shared")
    BY <1>1, <2>5 DEF Meets
  <2>9. \A j, k \in RowsOf(g)' : j = k
    BY <2>6, <2>7
  <2>10. y.kind = "invite" => RowsOf(g)' = {}
    BY <2>6, <2>7
  <2>11. y.kind = "revoke" => \E k \in RowsOf(g)' : rows'[k].removing /\ rows'[k].id # "none"
    BY <2>6, <2>7
  <2> QED
    BY <2>3, <2>8, <2>9, <2>10, <2>11 DEF TableOf
<1>7. userState # "SignedOut" /\ g \in DOMAIN folders' \ history'.raced
        /\ (g \in DOMAIN folders => TableOf(g)) => TableOf(g)'
  BY <1>6
<1>8. /\ Swap({x}, New, R) /\ New \subseteq TaskType /\ \A z \in New : Fits(z)' /\ Right(z)'
      /\ \A f \in DOMAIN folders \ {g} : folders'[f].is = folders[f].is /\ RowsSame(f)
      /\ DOMAIN folders' \subseteq DOMAIN folders \union {g}
  BY <1>1, <1>2, <1>4
<1> QED
  BY <1>3, <1>5, <1>7, <1>8, TableStays

\* Only an owner with an organization invites, loads and removes.
LEMMA OwnerSteps ==
  ASSUME OrgInv, NEW x \in InFlight, x.kind \in {"invite", "revoke", "load"}
  PROVE  userState # "SignedIn"
BY DEF OrgInv, AloneInv

\* The permission is given or not.
LEMMA TablePermissionPosted ==
  ASSUME TypeOK, OrgInv, TableInv, NEW x \in InFlight, PermissionPosted(x)
  PROVE  TableInv'
<1>1. /\ x \in InviteType /\ x.at = "permission" /\ x.kind = "invite" /\ x.folder \in Nat
      /\ userState # "SignedIn" /\ UNCHANGED <<userState, rows>>
  BY PermissionPostedMoves, OwnerSteps DEF InviteType, PermissionPosted, sessionVars
<1>2. Meets(x) => folders[x.folder].is # "shared"
  BY <1>1 DEF Meets
<1>3. x.folder \in DOMAIN folders
  BY <1>1 DEF TableInv, FolderInv, Fits
<1>4. ASSUME NEW y, NEW a, SameInvite(x, y, a), a # "permission"
      PROVE  /\ y \in TaskType /\ y.kind = x.kind /\ y.folder = x.folder /\ y # x /\ y.at = a
             /\ a # "folder" => (Fits(x) => Fits(y))
  BY <1>1, <1>3, <1>4 DEF SameInvite, InviteType, TaskType, Fits
<1>5. CASE /\ folders' = folders /\ history' = history
           /\ \E y, a : /\ SameInvite(x, y, a) /\ a \in {"undo", "error"}
                        /\ Swap({x}, {y}, {})
  <2>1. PICK y, a : SameInvite(x, y, a) /\ a \in {"undo", "error"} /\ Swap({x}, {y}, {})
    BY <1>5
  <2>2. FoldersGrow({}) /\ {} \in SUBSET Nat
    BY <1>5, FoldersSame
  <2>3. Meets(x) => Meets(y)'
    BY <1>1, <1>2, <1>4, <1>5, <2>1 DEF Meets
  <2>4. /\ y \in TaskType /\ y.kind = x.kind /\ y.folder = x.folder /\ y # x
        /\ Fits(x) => Fits(y)
    BY <1>4, <2>1
  <2> QED
    BY <1>1, <1>5, <2>1, <2>2, <2>3, <2>4, TableGoesOn
<1>6. ASSUME folders' = [folders EXCEPT ![x.folder].is = "shared"], history.raced \subseteq history'.raced,
             NEW y, NEW a, SameInvite(x, y, a), Swap({x}, {y}, {x.folder}),
             \/ a = "granted"
             \/ a = "error" /\ x.folder \in history'.raced
      PROVE  TableInv'
  <2>1. /\ FoldersGrow({x.folder}) /\ DOMAIN folders' = DOMAIN folders
        /\ \A g \in DOMAIN folders \ {x.folder} : folders'[g].is = folders[g].is
        /\ folders'[x.folder].is = "shared"
    BY <1>1, <1>3, <1>6, FoldersChanged DEF Is
  <2>2. /\ y \in TaskType /\ y.kind = x.kind /\ y.folder = x.folder /\ y # x /\ y.at = a
        /\ Fits(x) => Fits(y)
    BY <1>4, <1>6
  <2>3. x.folder \notin history'.raced /\ Meets(x) => Meets(y)'
    BY <1>1, <1>6, <2>1, <2>2 DEF Meets
  <2>4. {x.folder} \in SUBSET Nat
    BY <1>1
  <2> QED
    BY <1>1, <1>6, <2>1, <2>2, <2>3, <2>4, TableGoesOn
<1>7. CASE /\ folders' = [folders EXCEPT ![x.folder].is = "shared"] /\ history' = history
           /\ \E y : SameInvite(x, y, "granted") /\ Swap({x}, {y}, {x.folder})
  BY <1>6, <1>7
<1>8. CASE /\ folders' = [folders EXCEPT ![x.folder].is = "shared"]
           /\ history' = AddRaced(x.folder)
           /\ \E y : SameInvite(x, y, "error") /\ Swap({x}, {y}, {x.folder})
  <2>1. history'.raced = history.raced \union {x.folder}
    BY <1>8 DEF AddRaced, Remember, TypeOK, HistoryType
  <2> QED
    BY <1>6, <1>8, <2>1
<1> QED
  BY <1>5, <1>7, <1>8, PermissionPostedMoves
\* The folder of an address without account.
LEMMA TableFolderDeleted ==
  ASSUME TypeOK, OrgInv, TableInv, NEW x \in InFlight, FolderDeleted(x)
  PROVE  TableInv'
<1>1. /\ x \in InviteType /\ x.at = "undo" /\ x.kind = "invite" /\ x.folder \in Nat
      /\ userState # "SignedIn" /\ UNCHANGED <<userState, rows, history>>
  BY FolderDeletedMoves, OwnerSteps DEF InviteType, FolderDeleted, sessionVars
<1>2. Meets(x) => folders[x.folder].is # "shared"
  BY <1>1 DEF Meets
<1>3. x.folder \in DOMAIN folders
  BY <1>1 DEF TableInv, FolderInv, Fits
<1>4. ASSUME NEW y, SameInvite(x, y, "error")
      PROVE  /\ y \in TaskType /\ y.kind = x.kind /\ y.folder = x.folder /\ y # x /\ y.at = "error"
             /\ Fits(x) => Fits(y)
  BY <1>1, <1>3, <1>4 DEF SameInvite, InviteType, TaskType, Fits
<1>5. CASE /\ folders' = folders
           /\ \E y : SameInvite(x, y, "error") /\ Swap({x}, {y}, {})
  <2>1. PICK y : SameInvite(x, y, "error") /\ Swap({x}, {y}, {})
    BY <1>5
  <2>2. FoldersGrow({}) /\ {} \in SUBSET Nat
    BY <1>5, FoldersSame
  <2>3. /\ y \in TaskType /\ y.kind = x.kind /\ y.folder = x.folder /\ y # x /\ y.at = "error"
        /\ Fits(x) => Fits(y)
    BY <1>4, <2>1
  <2>4. Meets(x) => Meets(y)'
    BY <1>1, <1>2, <1>5, <2>3 DEF Meets
  <2> QED
    BY <1>1, <1>5, <2>1, <2>2, <2>3, <2>4, TableGoesOn
<1>6. CASE /\ folders' = [folders EXCEPT ![x.folder].is = "deleted"]
           /\ \E y : SameInvite(x, y, "error") /\ Swap({x}, {y}, {x.folder})
  <2>1. /\ FoldersGrow({x.folder}) /\ DOMAIN folders' = DOMAIN folders
        /\ \A g \in DOMAIN folders \ {x.folder} : folders'[g].is = folders[g].is
        /\ folders'[x.folder].is = "deleted"
    BY <1>1, <1>3, <1>6, FoldersChanged DEF Is
  <2>2. PICK y : SameInvite(x, y, "error") /\ Swap({x}, {y}, {x.folder})
    BY <1>6
  <2>3. /\ y \in TaskType /\ y.kind = x.kind /\ y.folder = x.folder /\ y # x /\ y.at = "error"
        /\ Fits(x) => Fits(y)
    BY <1>4, <2>2
  <2>4. Meets(x) => Meets(y)'
    BY <1>1, <1>2, <2>1, <2>3 DEF Meets
  <2>5. {x.folder} \in SUBSET Nat
    BY <1>1
  <2> QED
    BY <1>1, <2>1, <2>2, <2>3, <2>4, <2>5, TableGoesOn
<1> QED
  BY <1>5, <1>6, FolderDeletedMoves

\* The permission is taken or not.
LEMMA TablePermissionDeleted ==
  ASSUME TypeOK, OrgInv, TableInv, NEW x \in InFlight, PermissionDeleted(x)
  PROVE  TableInv'
<1>1. /\ x \in RevokeType /\ x.at = "delete" /\ x.kind = "revoke" /\ x.folder \in Nat
      /\ userState # "SignedIn" /\ UNCHANGED <<userState, rows>>
  BY PermissionDeletedMoves, OwnerSteps DEF RevokeType, PermissionDeleted, sessionVars
<1>2. Meets(x) => folders[x.folder].is = "shared"
  BY <1>1 DEF Meets
<1>3. x.folder \in DOMAIN folders
  BY <1>1 DEF TableInv, FolderInv, Fits
<1>4. ASSUME NEW y, NEW a, SameRevoke(x, y, a), a # "delete"
      PROVE  /\ y \in TaskType /\ y.kind = x.kind /\ y.folder = x.folder /\ y # x /\ y.at = a
             /\ Fits(x) => Fits(y)
  BY <1>1, <1>3, <1>4 DEF SameRevoke, RevokeType, TaskType, Fits
<1>5. CASE /\ folders' = folders /\ history' = history
           /\ \E y : SameRevoke(x, y, "error") /\ Swap({x}, {y}, {})
  <2>1. PICK y : SameRevoke(x, y, "error") /\ Swap({x}, {y}, {})
    BY <1>5
  <2>2. FoldersGrow({}) /\ {} \in SUBSET Nat
    BY <1>5, FoldersSame
  <2>3. /\ y \in TaskType /\ y.kind = x.kind /\ y.folder = x.folder /\ y # x /\ y.at = "error"
        /\ Fits(x) => Fits(y)
    BY <1>4, <2>1
  <2>4. Meets(x) => Meets(y)'
    BY <1>1, <1>2, <1>5, <2>3 DEF Meets
  <2> QED
    BY <1>1, <1>5, <2>1, <2>2, <2>3, <2>4, TableGoesOn
<1>6. ASSUME folders' = [folders EXCEPT ![x.folder].is = "private"], history.raced \subseteq history'.raced,
             NEW y, NEW a, SameRevoke(x, y, a), Swap({x}, {y}, {x.folder}),
             \/ a = "revoked"
             \/ a = "error" /\ x.folder \in history'.raced
      PROVE  TableInv'
  <2>1. /\ FoldersGrow({x.folder}) /\ DOMAIN folders' = DOMAIN folders
        /\ \A g \in DOMAIN folders \ {x.folder} : folders'[g].is = folders[g].is
        /\ folders'[x.folder].is = "private"
    BY <1>1, <1>3, <1>6, FoldersChanged DEF Is
  <2>2. /\ y \in TaskType /\ y.kind = x.kind /\ y.folder = x.folder /\ y # x /\ y.at = a
        /\ Fits(x) => Fits(y)
    BY <1>4, <1>6
  <2>3. x.folder \notin history'.raced /\ Meets(x) => Meets(y)'
    BY <1>1, <1>6, <2>1, <2>2 DEF Meets
  <2>4. {x.folder} \in SUBSET Nat
    BY <1>1
  <2> QED
    BY <1>1, <1>6, <2>1, <2>2, <2>3, <2>4, TableGoesOn
<1>7. CASE /\ folders' = [folders EXCEPT ![x.folder].is = "private"] /\ history' = history
           /\ \E y : SameRevoke(x, y, "revoked") /\ Swap({x}, {y}, {x.folder})
  BY <1>6, <1>7
<1>8. CASE /\ folders' = [folders EXCEPT ![x.folder].is = "private"]
           /\ history' = AddRaced(x.folder)
           /\ \E y : SameRevoke(x, y, "error") /\ Swap({x}, {y}, {x.folder})
  <2>1. history'.raced = history.raced \union {x.folder}
    BY <1>8 DEF AddRaced, Remember, TypeOK, HistoryType
  <2> QED
    BY <1>6, <1>8, <2>1
<1> QED
  BY <1>5, <1>7, <1>8, PermissionDeletedMoves
\* The folder of a member is created, whether the program knows it or not.
LEMMA TableGrows ==
  ASSUME TypeOK, TableInv, NEW x \in InFlight, x.kind = "invite", x.folder = 0,
         NEW e \in Emails, folders' = NewFolder(e), userState # "SignedIn",
         UNCHANGED <<userState, rows, history>>,
         NEW y \in InviteType, Swap({x}, {y}, {}),
         \/ y.at = "permission" /\ y.folder = Len(folders) + 1
         \/ y.at = "error" /\ y.folder = 0
  PROVE  TableInv'
<1>1. PICK g, New : g = Len(folders) + 1 /\ New = {y}
  OBVIOUS
<1>2. /\ FoldersGrow({}) /\ DOMAIN folders' = DOMAIN folders \union {g} /\ g \notin DOMAIN folders
      /\ folders'[g].is = "private" /\ \A f \in DOMAIN folders : folders'[f].is = folders[f].is
  BY <1>1, FoldersAdded
<1>3. 0 \notin DOMAIN folders /\ g # 0 /\ y.kind = "invite" /\ y \in TaskType
  BY <1>1 DEF TypeOK, InviteType, TaskType
<1>4. Fits(y)' /\ Right(y)'
  BY <1>1, <1>2, <1>3 DEF Fits, Right
<1>5. \A k \in DOMAIN rows' : rows'[k].folder \in DOMAIN folders'
  BY <1>2 DEF TableInv, FolderInv
<1>6. \A f : RowsSame(f)
  BY DEF RowsSame, RowsOf
<1>7. \A f \in DOMAIN folders \ {g} : \A z \in {x} \union New : ~Changes(z, f)
  BY <1>1, <1>2, <1>3 DEF Changes
<1>8. TableOf(g)'
  <2>1. RowsOf(g)' = {}
    BY <1>2 DEF TableInv, FolderInv, RowsOf
  <2>2. \A z \in InFlight : ~Changes(z, g)
    BY <1>2, <1>3 DEF TableInv, FolderInv, Fits, Changes
  <2>3. \A z : Changes(z, g) => ~Reading(z)
    BY DEF Changes, Reading
  <2>4. \A z \in Changers(g)' : z = y /\ Changes(y, g)
    BY <2>2, <2>3 DEF Changers, Swap
  <2>5. Changes(y, g) => tasks'[y] = 1 /\ y.at = "permission"
    <3>1. Changes(y, g) => y \notin InFlight /\ ~Reading(y)
      BY <2>2, <2>3
    <3>2. Changes(y, g) => y.at = "permission"
      BY <1>3 DEF Changes
    <3> QED
      BY <3>1, <3>2 DEF Swap
  <2>6. ~Shown(g)'
    BY <2>1 DEF Shown
  <2> QED
    BY <1>2, <1>3, <2>1, <2>4, <2>5, <2>6 DEF TableOf
<1>9. userState # "SignedOut" /\ g \in DOMAIN folders' \ history'.raced
        /\ (g \in DOMAIN folders => TableOf(g)) => TableOf(g)'
  BY <1>8
<1>10. /\ Swap({x}, New, {}) /\ New \subseteq TaskType /\ \A z \in New : Fits(z)' /\ Right(z)'
       /\ \A f \in DOMAIN folders \ {g} : folders'[f].is = folders[f].is /\ RowsSame(f)
       /\ DOMAIN folders' \subseteq DOMAIN folders \union {g}
       /\ history.raced \subseteq history'.raced /\ {} \in SUBSET Nat
  BY <1>1, <1>2, <1>3, <1>4, <1>6
<1> QED
  BY <1>2, <1>5, <1>7, <1>9, <1>10, TableStays

\* So it is, or it is not created.
LEMMA TableFolderPosted ==
  ASSUME TypeOK, OrgInv, TableInv, NEW x \in InFlight, FolderPosted(x)
  PROVE  TableInv'
<1>1. /\ x \in InviteType /\ x.at = "folder" /\ x.kind = "invite" /\ x.email \in Emails
      /\ userState # "SignedIn" /\ UNCHANGED <<userState, rows, history>>
  <2>1. UNCHANGED <<userState, rows, history>>
    BY DEF FolderPosted, sessionVars
  <2> QED
    BY <2>1, FolderPostedMoves, OwnerSteps DEF InviteType
<1>2. x.folder = 0
  BY <1>1 DEF TableInv, FolderInv, Fits
<1>3. CASE /\ folders' = NewFolder(x.email)
           /\ \E y \in InviteType :
                /\ Swap({x}, {y}, {})
                /\ y.token = x.token /\ y.at = "permission" /\ y.run = x.run
                /\ y.email = x.email /\ y.folder = Len(folders) + 1
  BY <1>1, <1>2, <1>3, TableGrows
<1>4. CASE \E y : SameInvite(x, y, "error") /\ Swap({x}, {y}, {})
  <2>1. PICK y : SameInvite(x, y, "error") /\ Swap({x}, {y}, {})
    BY <1>4
  <2>2. y \in InviteType /\ y.kind = "invite" /\ y.at = "error" /\ y.folder = 0 /\ y # x
    BY <1>1, <1>2, <2>1 DEF SameInvite, InviteType
  <2>3. CASE folders' = NewFolder(x.email)
    BY <1>1, <1>2, <2>1, <2>2, <2>3, TableGrows
  <2>4. CASE folders' = folders
    <3>1. 0 \notin DOMAIN folders /\ {y} \subseteq TaskType
      BY <2>2 DEF TypeOK, TaskType
    <3>2. \A z \in {y} : Fits(z) /\ Right(z)
      BY <2>2, <3>1 DEF Fits, Right
    <3>3. \A f \in DOMAIN folders : \A z \in {x} \union {y} : ~Changes(z, f)
      BY <1>2, <2>2, <3>1 DEF Changes
    <3> QED
      BY <1>1, <2>1, <2>4, <3>1, <3>2, <3>3, TableIdle
  <2> QED
    BY <2>3, <2>4, FolderPostedMoves
<1> QED
  BY <1>3, <1>4, FolderPostedMoves

\* A refused invitation has not shared its folder.
LEMMA TableExpired ==
  ASSUME TypeOK, OrgInv, TableInv, NEW x \in InFlight, OnInviteUserExpired(x)
  PROVE  TableInv'
<1>1. /\ x.kind = "invite" /\ x.at \in {"folder", "permission"} /\ Ends(x)
      /\ UNCHANGED <<userState, rows, folders>> /\ userState # "SignedIn"
      /\ history'.raced = history.raced
  <2>1. \E b : history' = [history EXCEPT !.forgotten = b]
    BY DEF OnInviteUserExpired, Remember
  <2>2. history'.raced = history.raced
    BY <2>1 DEF TypeOK, HistoryType
  <2> QED
    BY <2>2, OwnerSteps DEF OnInviteUserExpired, driveVars
<1>2. PICK g, New : g = x.folder /\ New = {}
  OBVIOUS
<1>3. Swap({x}, New, {}) /\ New \subseteq TaskType /\ {} \in SUBSET Nat /\ FoldersGrow({})
  BY <1>1, <1>2, EndMoves, FoldersSame
<1>4. \A f \in DOMAIN folders \ {g} : \A z \in {x} \union New : ~Changes(z, f)
  BY <1>2 DEF Changes
<1>5. \A f : RowsSame(f)
  BY <1>1 DEF RowsSame, RowsOf
<1>6. ASSUME g \in DOMAIN folders, TableOf(g) PROVE TableOf(g)'
  <2>1. Changes(x, g) /\ x \in Changers(g)
    BY <1>1, <1>2 DEF Changes, Changers
  <2>2. Changers(g)' = {}
    <3>1. \A z \in New : z # x
      BY <1>2
    <3>2. Changers(g)' = {z \in New : Changes(z, g)}
      BY <1>3, <1>6, <2>1, <3>1, ChangerSwaps
    <3> QED
      BY <1>2, <3>2
  <2>3. RowsOf(g) = {} /\ folders[g].is # "shared"
    BY <1>1, <1>6, <2>1 DEF TableOf
  <2>4. RowsOf(g)' = {} /\ folders'[g].is # "shared"
    BY <1>1, <1>5, <2>3 DEF RowsSame
  <2>5. ~Shown(g)'
    BY <2>4 DEF Shown
  <2> QED
    BY <2>2, <2>4, <2>5 DEF TableOf
<1>7. userState # "SignedOut" /\ g \in DOMAIN folders' \ history'.raced
        /\ (g \in DOMAIN folders => TableOf(g)) => TableOf(g)'
  BY <1>1, <1>6
<1>8. /\ \A k \in DOMAIN rows' : rows'[k].folder \in DOMAIN folders'
      /\ \A z \in New : Fits(z)' /\ Right(z)'
      /\ \A f \in DOMAIN folders \ {g} : folders'[f].is = folders[f].is /\ RowsSame(f)
      /\ DOMAIN folders' \subseteq DOMAIN folders \union {g}
      /\ history.raced \subseteq history'.raced
  BY <1>1, <1>2, <1>5 DEF TableInv, FolderInv
<1> QED
  BY <1>1, <1>3, <1>4, <1>7, <1>8, TableStays
\* The answer of an invitation: the next one is about no folder yet.
LEMMA FinishedSwaps ==
  ASSUME TypeOK, NEW x \in InFlight, Finished(x)
  PROVE  \E New \in SUBSET TaskType :
           /\ Swap({x}, New, {x.folder})
           /\ \A y \in New : y # x /\ y.kind = "invite" /\ y.at = "folder" /\ y.folder = 0
<1>1. x \in InviteType /\ x.at \in {"granted", "error"}
  BY FinishedMoves
<1>2. CASE Swap({x}, {}, {x.folder})
  BY <1>2
<1>3. CASE \E y, r, e : FirstInvite(y, r, e) /\ Swap({x}, {y}, {x.folder})
  <2>1. PICK y, r, e : FirstInvite(y, r, e) /\ Swap({x}, {y}, {x.folder})
    BY <1>3
  <2>2. PICK New : New = {y}
    OBVIOUS
  <2>3. y \in TaskType /\ y # x /\ y.kind = "invite" /\ y.at = "folder" /\ y.folder = 0
    BY <1>1, <2>1 DEF FirstInvite, InviteType, TaskType
  <2> QED
    BY <2>1, <2>2, <2>3
<1> QED
  BY <1>2, <1>3, FinishedMoves

\* The answer of an invitation adds a row exactly if the folder is shared.
LEMMA TableFinished ==
  ASSUME TypeOK, OrgInv, TableInv, NEW x \in InFlight, Finished(x)
  PROVE  TableInv'
<1>1. /\ x \in InviteType /\ x.kind = "invite" /\ x.at \in {"granted", "error"}
      /\ x.folder \in Nat /\ userState = "OrgCreated"
      /\ UNCHANGED <<userState, folders, history>>
  BY FinishedMoves DEF InviteType
<1>2. PICK New \in SUBSET TaskType :
        /\ Swap({x}, New, {x.folder})
        /\ \A y \in New : y # x /\ y.kind = "invite" /\ y.at = "folder" /\ y.folder = 0
  BY FinishedSwaps
<1>3. PICK g : g = x.folder
  OBVIOUS
<1>4. {g} \in SUBSET Nat /\ FoldersGrow({g}) /\ Swap({x}, New, {g}) /\ 0 \notin DOMAIN folders
  BY <1>1, <1>2, <1>3, FoldersSame DEF TypeOK
<1>5. x.at = "granted" => g \in DOMAIN folders
  BY <1>1, <1>3 DEF TableInv, FolderInv, Fits
<1>6. /\ x.at = "granted" => rows' = Append(rows, Row(g, "quoted"))
      /\ x.at = "error" => rows' = rows
  BY <1>1, <1>3 DEF Finished, OnInviteUserFinishedOk, OnInviteUserFinishedErr
<1>7. x.at = "granted" =>
        /\ DOMAIN rows' = DOMAIN rows \union {Len(rows) + 1} /\ Len(rows) + 1 \notin DOMAIN rows
        /\ \A k \in DOMAIN rows : rows'[k] = rows[k]
        /\ rows'[Len(rows) + 1].folder = g /\ rows'[Len(rows) + 1].id = "quoted"
  <2>1. Row(g, "quoted").folder = g /\ Row(g, "quoted").id = "quoted" /\ Row(g, "quoted") \in RowType
    BY <1>1, <1>3, RowFacts
  <2>2. rows \in Seq(RowType)
    BY DEF TypeOK
  <2> QED
    BY <1>6, <2>1, <2>2
<1>8. \A k \in DOMAIN rows' : rows'[k].folder \in DOMAIN folders'
  BY <1>1, <1>5, <1>6, <1>7 DEF TableInv, FolderInv
<1>9. \A f : f # g => RowsSame(f)
  BY <1>1, <1>6, <1>7 DEF RowsSame, RowsOf
<1>10. \A y \in New : Fits(y)' /\ Right(y)'
  <2>1. \A y \in New : Fits(y) /\ Right(y)
    BY <1>2, PlainTasks
  <2> QED
    BY <1>1, <2>1, FitsSame
<1>11. \A f \in DOMAIN folders \ {g} : \A z \in {x} \union New : ~Changes(z, f)
  BY <1>2, <1>3, <1>4 DEF Changes
<1>12. ASSUME g \in DOMAIN folders, TableOf(g) PROVE TableOf(g)'
  <2>1. Changes(x, g) /\ x \in Changers(g)
    BY <1>1, <1>3 DEF Changes, Changers
  <2>2. \A z \in New : z # x /\ ~Changes(z, g)
    BY <1>2, <1>4, <1>12 DEF Changes
  <2>3. Changers(g)' = {}
    <3>1. Changers(g)' = {z \in New : Changes(z, g)}
      BY <1>4, <1>12, <2>1, <2>2, ChangerSwaps
    <3> QED
      BY <2>2, <3>1
  <2>4. RowsOf(g) = {} /\ (x.at = "granted" <=> folders'[g].is = "shared")
    BY <1>1, <1>12, <2>1 DEF TableOf
  <2>5. CASE x.at = "granted"
    <3>1. RowsOf(g)' = {Len(rows) + 1} /\ rows'[Len(rows) + 1].id # "none"
      BY <1>7, <2>4, <2>5 DEF RowsOf
    <3>2. Shown(g)'
      BY <3>1 DEF Shown
    <3> QED
      BY <2>3, <2>4, <2>5, <3>1, <3>2 DEF TableOf
  <2>6. CASE x.at = "error"
    <3>1. RowsOf(g)' = {}
      BY <1>6, <2>4, <2>6 DEF RowsOf
    <3>2. ~Shown(g)'
      BY <3>1 DEF Shown
    <3> QED
      BY <2>3, <2>4, <2>6, <3>1, <3>2 DEF TableOf
  <2> QED
    BY <1>1, <2>5, <2>6
<1>13. userState # "SignedOut" /\ g \in DOMAIN folders' \ history'.raced
        /\ (g \in DOMAIN folders => TableOf(g)) => TableOf(g)'
  BY <1>1, <1>12
<1>14. /\ \A f \in DOMAIN folders \ {g} : folders'[f].is = folders[f].is /\ RowsSame(f)
       /\ DOMAIN folders' \subseteq DOMAIN folders \union {g}
       /\ history.raced \subseteq history'.raced
       /\ New \subseteq TaskType
       /\ userState' = userState /\ folders' = folders
  BY <1>1, <1>2, <1>9
<1> QED
  BY <1>4, <1>8, <1>10, <1>11, <1>13, <1>14, TableStays

\* The answer of a removal changes the row exactly if the folder is not shared any more.
LEMMA TableRevoked ==
  ASSUME TypeOK, OrgInv, TableInv, NEW x \in InFlight, OnPermissionRevoked(x)
  PROVE  TableInv'
<1>1. /\ x \in RevokeType /\ x.kind = "revoke" /\ x.at \in {"revoked", "error"} /\ x.folder \in Nat
      /\ UNCHANGED <<userState, folders, history>> /\ userState # "SignedIn"
  <2>1. x.kind = "revoke" /\ x.at \in {"revoked", "error"} /\ UNCHANGED <<userState, folders, history>>
    BY DEF OnPermissionRevoked, sessionVars, driveVars
  <2>2. x \in RevokeType
    BY <2>1, KindType DEF TypeOK, TasksOK
  <2> QED
    BY <2>1, <2>2, OwnerSteps DEF RevokeType
<1>2. PICK g, New : g = x.folder /\ New = {}
  OBVIOUS
<1>3. /\ {g} \in SUBSET Nat /\ FoldersGrow({g}) /\ Swap({x}, New, {g}) /\ New \subseteq TaskType
      /\ g \in DOMAIN folders
  <2>1. Swap({x}, {}, {x.folder})
    BY <1>1, SwapEndsRaced DEF OnPermissionRevoked, TypeOK
  <2>2. g \in DOMAIN folders
    BY <1>1, <1>2 DEF TableInv, FolderInv, Fits
  <2> QED
    BY <1>1, <1>2, <2>1, <2>2, FoldersSame
<1>4. /\ DOMAIN rows' = DOMAIN rows
      /\ \A k \in DOMAIN rows :
           /\ rows'[k].folder = rows[k].folder
           /\ rows[k].folder # g => rows'[k] = rows[k]
           /\ FirstRow(k, g) => rows'[k].id = IF x.at = "revoked" THEN "none" ELSE rows[k].id
  <2>1. DOMAIN rows' = DOMAIN rows
    BY DEF OnPermissionRevoked
  <2>2. ASSUME NEW k \in DOMAIN rows
        PROVE  /\ rows'[k].folder = rows[k].folder
               /\ rows[k].folder # g => rows'[k] = rows[k]
               /\ FirstRow(k, g) => rows'[k].id = IF x.at = "revoked" THEN "none" ELSE rows[k].id
    <3> DEFINE q == [rows[k] EXCEPT !.removing = FALSE]
    <3>1. rows[k] \in RowType
      BY DEF TypeOK
    <3>2. q.folder = rows[k].folder /\ q.id = rows[k].id
      BY <3>1 DEF RowType
    <3>3. Row(g, "none").folder = g /\ Row(g, "none").id = "none"
      BY <1>1, <1>2, RowFacts
    <3>4. FirstRow(k, g) => rows[k].folder = g
      BY DEF FirstRow
    <3> HIDE DEF q
    <3>5. CASE ~FirstRow(k, g)
      <4>1. rows'[k] = rows[k]
        BY <1>2, <3>5 DEF OnPermissionRevoked
      <4> QED
        BY <3>5, <4>1
    <3>6. CASE FirstRow(k, g) /\ x.at = "revoked"
      <4>1. rows'[k] = Row(g, "none")
        BY <1>2, <3>6 DEF OnPermissionRevoked
      <4> QED
        BY <3>3, <3>4, <3>6, <4>1
    <3>7. CASE FirstRow(k, g) /\ x.at = "error"
      <4>1. rows'[k] = q
        BY <1>2, <3>7 DEF OnPermissionRevoked, q
      <4> QED
        BY <3>2, <3>4, <3>7, <4>1
    <3> QED
      BY <1>1, <3>5, <3>6, <3>7
  <2> QED
    BY <2>1, <2>2
<1>5. \A k \in DOMAIN rows' : rows'[k].folder \in DOMAIN folders'
  BY <1>1, <1>4 DEF TableInv, FolderInv
<1>6. \A f : f # g => RowsSame(f)
  BY <1>4 DEF RowsSame, RowsOf
<1>7. \A f \in DOMAIN folders \ {g} : \A z \in {x} \union New : ~Changes(z, f)
  BY <1>2 DEF Changes
<1>8. ASSUME TableOf(g) PROVE TableOf(g)'
  <2>1. Changes(x, g) /\ x \in Changers(g)
    BY <1>1, <1>2 DEF Changes, Changers
  <2>2. Changers(g)' = {}
    <3>1. \A z \in New : z # x
      BY <1>2
    <3>2. Changers(g)' = {z \in New : Changes(z, g)}
      BY <1>3, <1>8, <2>1, <3>1, ChangerSwaps
    <3> QED
      BY <1>2, <3>2
  <2>3. /\ x.at = "revoked" <=> folders'[g].is # "shared"
        /\ \E k \in RowsOf(g) : rows[k].id # "none"
        /\ \A j, k \in RowsOf(g) : j = k
    BY <1>1, <1>8, <2>1 DEF TableOf
  <2>4. PICK k \in RowsOf(g) : rows[k].id # "none"
    BY <2>3
  <2>5. RowsOf(g) = {k} /\ k \in DOMAIN rows
    BY <2>3, <2>4 DEF RowsOf
  <2>6. FirstRow(k, g)
    <3>1. k \in Nat /\ \A j \in 1 .. (k - 1) : j \in DOMAIN rows /\ j # k
      BY <2>5 DEF TypeOK
    <3> QED
      BY <2>5, <3>1 DEF FirstRow, RowsOf
  <2>7. RowsOf(g)' = {k}
    BY <1>4, <2>5 DEF RowsOf
  <2>8. rows'[k].id # "none" <=> x.at = "error"
    BY <1>1, <1>4, <2>4, <2>5, <2>6
  <2>9. Shown(g)' <=> x.at = "error"
    BY <2>7, <2>8 DEF Shown
  <2> QED
    BY <1>1, <2>2, <2>3, <2>7, <2>9 DEF TableOf
<1>9. userState # "SignedOut" /\ g \in DOMAIN folders' \ history'.raced
        /\ (g \in DOMAIN folders => TableOf(g)) => TableOf(g)'
  BY <1>3, <1>8
<1>10. /\ \A f \in DOMAIN folders \ {g} : folders'[f].is = folders[f].is /\ RowsSame(f)
       /\ DOMAIN folders' \subseteq DOMAIN folders \union {g}
       /\ history.raced \subseteq history'.raced
       /\ userState' = userState /\ folders' = folders
       /\ \A z \in New : Fits(z)' /\ Right(z)'
  BY <1>1, <1>2, <1>6
<1> QED
  BY <1>3, <1>5, <1>7, <1>9, <1>10, TableStays
\* A task that concerns no folder of its own goes on.
LEMMA TablePasses ==
  ASSUME TypeOK, TableInv, NEW x \in InFlight, x.kind \in {"fetch", "create", "load"},
         NEW New, New \subseteq TaskType, Swap({x}, New, {}),
         UNCHANGED <<userState, rows, folders>>, history'.raced = history.raced,
         \A y \in New : y.kind \in {"fetch", "create", "load"} /\ Fits(y) /\ Right(y)
  PROVE  TableInv'
<1>1. \A f \in DOMAIN folders : \A z \in {x} \union New : ~Changes(z, f)
  BY DEF Changes
<1> QED
  BY <1>1, TableIdle

\* It ends.
LEMMA TableEnds ==
  ASSUME TypeOK, TableInv, NEW x \in InFlight, x.kind \in {"fetch", "create", "load"}, Ends(x),
         UNCHANGED <<userState, rows, folders>>, history'.raced = history.raced
  PROVE  TableInv'
<1>1. PICK New : New = {}
  OBVIOUS
<1>2. Swap({x}, New, {}) /\ New \subseteq TaskType
  BY <1>1, EndMoves
<1>3. \A y \in New : y.kind \in {"fetch", "create", "load"} /\ Fits(y) /\ Right(y)
  BY <1>1
<1> QED
  BY <1>2, <1>3, TablePasses

\* The tasks of an owner without organization.
LEMMA TableOrgs ==
  ASSUME TypeOK, TableInv, NEW x \in InFlight,
         \/ OrgSearched(x) \/ OrgPosted(x) \/ OnOrgCreatedErr(x) \/ InvitationsLoaded(x)
  PROVE  TableInv'
<1>1. UNCHANGED <<userState, rows, folders>> /\ x.kind \in {"fetch", "create", "load"}
  BY DEF OrgSearched, OrgPosted, OnOrgCreatedErr, InvitationsLoaded, sessionVars, driveVars
<1>2. history'.raced = history.raced
  <2>1. history' = history \/ history' = [history EXCEPT !.blind = TRUE]
    BY OrgSearchedMoves DEF OrgPosted, OnOrgCreatedErr, InvitationsLoaded
  <2> QED
    BY <2>1 DEF TypeOK, HistoryType
<1>3. CASE \E y \in CreateType : Swap({x}, {y}, {})
  <2>1. PICK y \in CreateType : Swap({x}, {y}, {})
    BY <1>3
  <2>2. PICK New : New = {y}
    OBVIOUS
  <2>3. y \in TaskType /\ y.kind = "create"
    BY DEF CreateType, TaskType
  <2>4. Fits(y) /\ Right(y)
    BY <2>3, PlainTasks
  <2>5. /\ New \subseteq TaskType /\ Swap({x}, New, {})
        /\ \A z \in New : z.kind \in {"fetch", "create", "load"} /\ Fits(z) /\ Right(z)
    BY <2>1, <2>2, <2>3, <2>4
  <2> QED
    BY <1>1, <1>2, <2>5, TablePasses
<1>4. CASE Ends(x)
  BY <1>1, <1>2, <1>4, TableEnds
<1>5. Ends(x) \/ \E y \in CreateType : Swap({x}, {y}, {})
  BY OrgSearchedMoves, OrgPostedMoves DEF OnOrgCreatedErr, InvitationsLoaded
<1> QED
  BY <1>3, <1>4, <1>5

\* A load has to read the folders that are not deleted; the others are not shared.
LEMMA TableListed ==
  ASSUME TypeOK, TableInv, NEW x \in InFlight, FoldersListed(x)
  PROVE  TableInv'
<1>1. UNCHANGED <<userState, rows, folders, history>>
  BY DEF FoldersListed, sessionVars, driveVars
<1>2. x \in LoadType /\ x.at = "list" /\ x.kind = "load"
  BY FoldersListedMoves DEF LoadType
<1>3. x.todo = {} /\ x.read = <<>> /\ x.raced = {}
  BY <1>2 DEF TableInv, FolderInv, Fits
<1>4. PICK y \in LoadType :
        /\ Swap({x}, {y}, {})
        /\ y.token = x.token /\ y.read = x.read /\ y.raced = x.raced
        /\ \/ y.at = "read" /\ y.todo = Listed
           \/ y.at = "error" /\ y.todo = x.todo
  BY FoldersListedMoves
<1>5. y.kind = "load" /\ y.at # "list" /\ y \in TaskType /\ y.todo \subseteq DOMAIN folders
  BY <1>3, <1>4 DEF LoadType, TaskType, Listed
<1>6. \A k : k \notin DOMAIN y.read
  BY <1>3, <1>4
<1>7. Fits(y)
  BY <1>5, <1>6 DEF Fits
<1>8. Right(y)
  BY <1>4, <1>6 DEF Right, Listed
<1>9. PICK New : New = {y}
  OBVIOUS
<1>10. /\ New \subseteq TaskType /\ Swap({x}, New, {})
       /\ \A z \in New : z.kind \in {"fetch", "create", "load"} /\ Fits(z) /\ Right(z)
  BY <1>4, <1>5, <1>7, <1>8, <1>9
<1> QED
  BY <1>1, <1>2, <1>10, TablePasses

\* A load reads what is so at that moment.
LEMMA TableFolderRead ==
  ASSUME TypeOK, TableInv, NEW x \in InFlight, NEW f \in DOMAIN folders, FolderRead(x, f)
  PROVE  TableInv'
<1>1. UNCHANGED <<userState, rows, folders, history>>
  BY DEF FolderRead, sessionVars, driveVars
<1>2. x \in LoadType /\ x.at = "read" /\ x.kind = "load" /\ f \in x.todo
  BY FolderReadMoves DEF LoadType
<1>3. PICK y \in LoadType :
        /\ Swap({x}, {y}, {})
        /\ y.token = x.token /\ y.raced = x.raced
        /\ \/ /\ y.at = "read"
              /\ y.todo = x.todo \ {f} /\ y.read = Append(x.read, RowRead(f))
           \/ y.at = "error" /\ y.todo = x.todo /\ y.read = x.read
  BY FolderReadMoves
<1>4. y.kind = "load" /\ y.at # "list" /\ y \in TaskType
  BY <1>3 DEF LoadType, TaskType
<1>5. /\ x.todo \subseteq DOMAIN folders
      /\ \A k \in DOMAIN x.read : x.read[k].folder \in DOMAIN folders \ x.todo
      /\ \A j, k \in DOMAIN x.read : x.read[j].folder = x.read[k].folder => j = k
  BY <1>2 DEF TableInv, FolderInv, Fits
<1>6. \A h \in DOMAIN folders \ (x.raced \union x.todo) :
        folders[h].is = "shared" <=> \E k \in DOMAIN x.read : x.read[k].folder = h /\ x.read[k].id # "none"
  BY <1>2 DEF TableInv, LoadInv, Right
<1>7. ASSUME y.at = "error" PROVE Fits(y) /\ Right(y)
  <2>1. Fits(y) /\ Right(y)
    BY <1>3, <1>4, <1>5, <1>7 DEF Fits, Right
  <2> QED
    BY <2>1
<1>8. ASSUME y.at = "read" PROVE Fits(y) /\ Right(y)
  <2>1. PICK r, n : r = RowRead(f) /\ n = Len(x.read) + 1
    OBVIOUS
  <2>2. r \in RowType /\ r.folder = f /\ (r.id # "none" <=> folders[f].is = "shared")
    <3>1. f \in Nat
      BY DEF TypeOK
    <3> QED
      BY <2>1, <3>1, RowReadFacts
  <2>3. y.todo = x.todo \ {f} /\ y.read = Append(x.read, r)
    BY <1>3, <1>8, <2>1
  <2>4. /\ DOMAIN y.read = DOMAIN x.read \union {n} /\ n \notin DOMAIN x.read
        /\ y.read[n] = r /\ \A k \in DOMAIN x.read : y.read[k] = x.read[k]
    <3>1. x.read \in Seq(RowType)
      BY <1>2 DEF LoadType
    <3> QED
      BY <2>1, <2>2, <2>3, <3>1
  <2>5. Fits(y)
    <3>1. \A k \in DOMAIN y.read : y.read[k].folder \in DOMAIN folders \ y.todo
      BY <1>5, <2>2, <2>3, <2>4
    <3>2. \A k \in DOMAIN x.read : x.read[k].folder # f
      BY <1>2, <1>5
    <3>3. \A j, k \in DOMAIN y.read : y.read[j].folder = y.read[k].folder => j = k
      BY <1>5, <2>2, <2>4, <3>2
    <3> QED
      BY <1>4, <1>5, <2>3, <3>1, <3>3 DEF Fits
  <2>6. Right(y)
    <3> SUFFICES ASSUME NEW h \in DOMAIN folders \ (y.raced \union y.todo)
                 PROVE  folders[h].is = "shared" <=>
                          \E k \in DOMAIN y.read : y.read[k].folder = h /\ y.read[k].id # "none"
      BY DEF Right
    <3>1. CASE h = f
      <4>1. \A k \in DOMAIN x.read : x.read[k].folder # f
        BY <1>2, <1>5
      <4> QED
        BY <2>2, <2>4, <3>1, <4>1
    <3>2. CASE h # f
      <4>1. h \in DOMAIN folders \ (x.raced \union x.todo)
        BY <1>3, <2>3, <3>2
      <4> QED
        BY <1>6, <2>2, <2>4, <3>2, <4>1
    <3> QED
      BY <3>1, <3>2
  <2> QED
    BY <2>5, <2>6
<1>9. PICK New : New = {y}
  OBVIOUS
<1>10. /\ New \subseteq TaskType /\ Swap({x}, New, {})
       /\ \A z \in New : z.kind \in {"fetch", "create", "load"} /\ Fits(z) /\ Right(z)
  <2>1. Fits(y) /\ Right(y)
    BY <1>3, <1>7, <1>8
  <2> QED
    BY <1>3, <1>4, <1>9, <2>1
<1> QED
  BY <1>1, <1>2, <1>10, TablePasses
\* A load that fails changes no row.
LEMMA TableLoadEnds ==
  ASSUME TypeOK, TableInv, NEW x \in InFlight, OnDashboardLoadedErr(x)
  PROVE  TableInv'
<1>1. UNCHANGED <<userState, rows, folders, history>> /\ x.kind = "load" /\ Ends(x)
  BY DEF OnDashboardLoadedErr, driveVars
<1> QED
  BY <1>1, TableEnds

\* The table that was read is the one shown.
LEMMA TableLoaded ==
  ASSUME TypeOK, OrgInv, TableInv, NEW x \in InFlight, OnDashboardLoadedOk(x)
  PROVE  TableInv'
<1>1. /\ UNCHANGED <<userState, folders>> /\ userState # "SignedIn"
      /\ x.kind = "load" /\ x.at = "read" /\ x.todo = {} /\ rows' = x.read /\ Ends(x)
  BY OwnerSteps DEF OnDashboardLoadedOk, sessionVars, driveVars
<1>2. history'.raced = x.raced \union {f \in DOMAIN folders : Changing(f)}
  BY DEF OnDashboardLoadedOk, Remember, TypeOK, HistoryType
<1>3. /\ \A k \in DOMAIN x.read : x.read[k].folder \in DOMAIN folders
      /\ \A j, k \in DOMAIN x.read : x.read[j].folder = x.read[k].folder => j = k
      /\ \A f \in DOMAIN folders \ x.raced :
           folders[f].is = "shared" <=> \E k \in DOMAIN x.read : x.read[k].folder = f /\ x.read[k].id # "none"
  BY <1>1 DEF TableInv, FolderInv, LoadInv, Fits, Right
<1>4. PICK New : New = {}
  OBVIOUS
<1>5. Swap({x}, New, {}) /\ New \subseteq TaskType /\ {} \in SUBSET Nat /\ FoldersGrow({})
  BY <1>1, <1>4, EndMoves, FoldersSame
<1>6. FolderInv' /\ LoadInv'
  <2>1. TasksOK /\ LoadInv /\ \A z \in InFlight : Fits(z)
    BY DEF TypeOK, TableInv, FolderInv
  <2>2. \A y \in New : Fits(y)' /\ Right(y)'
    BY <1>4
  <2>3. (\A z \in InFlight' : Fits(z)') /\ LoadInv'
    BY <1>5, <2>1, <2>2, LoadsKept
  <2> QED
    BY <1>1, <1>3, <2>3 DEF FolderInv
<1>7. RacedInv'
  BY <1>1 DEF RacedInv
<1>8. RowsInv'
  <2> SUFFICES ASSUME NEW f \in DOMAIN folders \ history'.raced PROVE TableOf(f)'
    BY <1>1 DEF RowsInv
  <2>1. f \notin x.raced /\ ~Changing(f)
    BY <1>2
  <2>2. Changers(f) = {}
    BY <2>1 DEF Changing, Changers, Changes, InFlightOf
  <2>3. Changers(f)' = {}
    <3>1. \A z \in {x} \union New : ~Changes(z, f)
      BY <1>1, <1>4 DEF Changes
    <3> QED
      BY <1>5, <2>2, <3>1, ChangersKept
  <2>4. \A j, k \in RowsOf(f)' : j = k
    BY <1>1, <1>3 DEF RowsOf
  <2>5. Shown(f)' <=> folders'[f].is = "shared"
    BY <1>1, <1>3, <2>1 DEF Shown, RowsOf
  <2> QED
    BY <2>3, <2>4, <2>5 DEF TableOf
<1> QED
  BY <1>6, <1>7, <1>8 DEF TableInv

\* A step after which the tasks are about no folder and no row is shown.
LEMMA TableCleared ==
  ASSUME TypeOK, TableInv, folders' = folders, rows' = <<>>,
         \A x \in InFlight' : x \in {FetchTask(token), LoadTask(token)},
         DOMAIN folders \subseteq history'.raced
  PROVE  TableInv'
<1>1. \A k : k \notin DOMAIN rows'
  OBVIOUS
<1>2. \A x \in InFlight' : Fits(x) /\ Right(x)
  <2>1. /\ FetchTask(token) \in TaskType /\ FetchTask(token).kind = "fetch"
        /\ LoadTask(token) \in TaskType /\ LoadTask(token).kind = "load"
        /\ LoadTask(token).at = "list" /\ LoadTask(token).todo = {} /\ LoadTask(token).read = <<>>
        /\ LoadTask(token).raced = {}
    BY NewTask DEF TypeOK, TaskType
  <2>2. Fits(FetchTask(token)) /\ Right(FetchTask(token)) /\ Fits(LoadTask(token)) /\ Right(LoadTask(token))
    BY <2>1, PlainTasks
  <2> QED
    BY <2>2
<1>3. \A x \in InFlight' : Fits(x)' /\ Right(x)'
  BY <1>2, FitsSame
<1> QED
  BY <1>1, <1>3 DEF TableInv, FolderInv, LoadInv, RacedInv, RowsInv

\* A restart is one.
LEMMA TableRestarts ==
  ASSUME TypeOK, TableInv, Restart
  PROVE  TableInv'
<1>1. Boot(userState) /\ userState \in {"SignedIn", "OrgCreated"} /\ folders' = folders
  BY DEF Restart, TypeOK, driveVars
<1>2. /\ InFlight' = {IF userState = "SignedIn" THEN FetchTask(token) ELSE LoadTask(token)}
      /\ rows' = <<>>
  BY <1>1, BootTypes
<1>3. history'.raced = DOMAIN folders
  <2>1. DOMAIN folders \in SUBSET Nat
    BY DEF TypeOK
  <2> QED
    BY <2>1 DEF Restart, Remember, TypeOK, HistoryType
<1> QED
  BY <1>1, <1>2, <1>3, TableCleared

\* So is the creation of the organization, which the program knows no folder of.
LEMMA TableCreated ==
  ASSUME TypeOK, OrgInv, TableInv, NEW x \in InFlight, OnOrgCreatedOk(x)
  PROVE  TableInv'
<1>1. /\ UNCHANGED folders /\ userState' = "OrgCreated" /\ InFlight' = {LoadTask(token)}
      /\ rows' = <<>> /\ history' = history
  BY CreatedClears
<1>2. DOMAIN folders \subseteq history'.raced
  <2>1. userState = "SignedIn"
    BY DEF OrgInv, KindsInv, OnOrgCreatedOk
  <2> QED
    BY <1>1, <2>1 DEF TableInv, RacedInv
<1> QED
  BY <1>1, <1>2, TableCleared
\* The tasks of a retry are about no folder.
LEMMA TableRetries ==
  ASSUME TypeOK, TokenInv, TableInv, AccessTokenRefreshedOk
  PROVE  TableInv'
<1>1. UNCHANGED <<userState, rows, folders>>
  BY DEF AccessTokenRefreshedOk, driveVars
<1>2. history'.raced = history.raced
  <2> DEFINE again == {i \in BagToSet(pendingIntents) : Runnable(i)}
             S == {i.email : i \in {j \in again : j.what = "invite"}}
             b == history.doubled \/ \E i \in again : AnsweredBefore(i)
             T == history.twice \union {e \in S : \E f \in DOMAIN folders : folders[f].email = e}
  <2>2. history' = [history EXCEPT !.doubled = b, !.twice = T]
    BY DEF AccessTokenRefreshedOk
  <2> HIDE DEF b, T
  <2> QED
    BY <2>2 DEF TypeOK, HistoryType
<1>3. /\ \A z \in InFlight' : z \in InFlight \/ \E i : Again(i) /\ z = TaskOf(i, token + 1)
      /\ \A z \in InFlight : z \in InFlight' /\ tasks'[z] = tasks[z]
  <2>1. \A x \in InFlight : x.token <= token
    BY DEF TokenInv, TokensKnown, TypeOK
  <2> QED
    BY <2>1, RetryMoves
<1>4. \A i : Again(i) =>
        LET y == TaskOf(i, token + 1) IN
        Fits(y) /\ Right(y) /\ \A f \in DOMAIN folders : ~Changes(y, f)
  <2> SUFFICES ASSUME NEW i, Again(i), NEW y, y = TaskOf(i, token + 1)
               PROVE  Fits(y) /\ Right(y) /\ \A f \in DOMAIN folders : ~Changes(y, f)
    OBVIOUS
  <2>1. i \in IntentType /\ token + 1 \in Nat
    BY DEF Again, TypeOK, IntentsOK, IntentType
  <2>2. /\ y \in TaskType /\ y.kind \in {"fetch", "create", "load", "invite"}
        /\ y.kind = "load" => y.at = "list" /\ y.todo = {} /\ y.read = <<>> /\ y.raced = {}
        /\ y.kind = "invite" => y.at = "folder" /\ y.folder = 0
    BY <2>1, TaskOfFacts, WhatType
  <2> QED
    BY <2>2, PlainTasks
<1>5. \A z \in InFlight' : Fits(z)' /\ Right(z)'
  <2>1. \A z \in InFlight' : Fits(z) /\ Right(z)
    BY <1>3, <1>4 DEF TableInv, FolderInv, LoadInv
  <2> QED
    BY <1>1, <2>1, FitsSame
<1>6. FolderInv' /\ LoadInv' /\ RacedInv'
  BY <1>1, <1>2, <1>5 DEF TableInv, FolderInv, LoadInv, RacedInv
<1>7. RowsInv'
  <2> SUFFICES ASSUME userState # "SignedOut", NEW f \in DOMAIN folders \ history.raced
               PROVE  TableOf(f)'
    BY <1>1, <1>2 DEF RowsInv
  <2>1. TableOf(f) /\ RowsSame(f) /\ folders'[f].is = folders[f].is
    BY <1>1 DEF TableInv, RowsInv, RowsSame, RowsOf
  <2>2. Changers(f)' = Changers(f) /\ \A x \in Changers(f) : tasks'[x] = tasks[x]
    BY <1>3, <1>4 DEF Changers
  <2> QED
    BY <2>1, <2>2, TableSame
<1> QED
  BY <1>6, <1>7 DEF TableInv

\* A step that changes nothing of this.
LEMMA TableUnchanged ==
  ASSUME TypeOK, TableInv, UNCHANGED <<tasks, rows, folders, history>>, userState' = userState
  PROVE  TableInv'
<1>1. FolderInv' /\ LoadInv' /\ RacedInv'
  <2>1. InFlight' = InFlight
    BY DEF InFlight
  <2>2. \A z \in InFlight : Fits(z)' /\ Right(z)'
    BY FitsSame DEF TableInv, FolderInv, LoadInv
  <2> QED
    BY <2>1, <2>2 DEF TableInv, FolderInv, LoadInv, RacedInv
<1>2. RowsInv'
  <2> SUFFICES ASSUME userState # "SignedOut", NEW f \in DOMAIN folders \ history.raced
               PROVE  TableOf(f)'
    BY DEF RowsInv
  <2>1. TableOf(f) /\ RowsSame(f) /\ folders'[f].is = folders[f].is
    BY DEF TableInv, RowsInv, RowsSame, RowsOf
  <2>2. Changers(f)' = Changers(f) /\ \A x \in Changers(f) : tasks'[x] = tasks[x]
    BY DEF Changers, InFlight
  <2> QED
    BY <2>1, <2>2, TableSame
<1> QED
  BY <1>1, <1>2 DEF TableInv

\* Signed out, nothing is shown.
LEMMA TableSignsOut ==
  ASSUME TypeOK, TableInv, AccessTokenRefreshedErr
  PROVE  TableInv'
<1>1. userState' = "SignedOut" /\ UNCHANGED <<rows, folders>> /\ InFlight' = {}
  BY DEF AccessTokenRefreshedErr, driveVars, InFlight, EmptyBag, SetToBag, BagToSet
<1> QED
  BY <1>1 DEF TableInv, FolderInv, LoadInv, RacedInv, RowsInv

\* Every step keeps the part about the table.
LEMMA TableStep ==
  ASSUME TypeOK, TokenInv, OrgInv, TableInv, [Next]_vars
  PROVE  TableInv'
<1>1. ASSUME Click PROVE TableInv'
  BY <1>1, TableCreates, TableInvites, TableLoads, TableRemoves DEF Click, InviteDoneClicked, RefreshClicked
<1>2. ASSUME NEW x \in InFlight, Step(x) PROVE TableInv'
  <2>1. CASE OrgSearched(x) \/ OrgPosted(x) \/ OnOrgCreatedErr(x) \/ InvitationsLoaded(x)
    BY <2>1, TableOrgs
  <2>2. CASE OnOrgCreatedOk(x)
    BY <2>2, TableCreated
  <2>3. CASE FolderPosted(x)
    BY <2>3, TableFolderPosted
  <2>4. CASE PermissionPosted(x)
    BY <2>4, TablePermissionPosted
  <2>5. CASE FolderDeleted(x)
    BY <2>5, TableFolderDeleted
  <2>6. CASE OnInviteUserFinishedOk(x) \/ OnInviteUserFinishedErr(x)
    BY <2>6, TableFinished DEF Finished
  <2>7. CASE OnInviteUserExpired(x)
    BY <2>7, TableExpired
  <2>8. CASE FoldersListed(x)
    BY <2>8, TableListed
  <2>9. CASE \E f \in DOMAIN folders : FolderRead(x, f)
    BY <2>9, TableFolderRead
  <2>10. CASE OnDashboardLoadedOk(x)
    BY <2>10, TableLoaded
  <2>11. CASE OnDashboardLoadedErr(x)
    BY <2>11, TableLoadEnds
  <2>12. CASE PermissionDeleted(x)
    BY <2>12, TablePermissionDeleted
  <2>13. CASE OnPermissionRevoked(x)
    BY <2>13, TableRevoked
  <2> QED
    BY <1>2, <2>1, <2>2, <2>3, <2>4, <2>5, <2>6, <2>7, <2>8, <2>9, <2>10, <2>11, <2>12, <2>13 DEF Step
<1>3. CASE RefreshAnswer
  BY <1>3, TableRetries, TableSignsOut DEF RefreshAnswer
<1>4. CASE Restart
  BY <1>4, TableRestarts
<1>5. CASE TokenExpires \/ UNCHANGED vars
  <2>1. UNCHANGED <<tasks, rows, folders, history>> /\ userState' = userState
    BY <1>5 DEF TokenExpires, vars, driveVars
  <2> QED
    BY <2>1, TableUnchanged
<1> QED
  BY <1>1, <1>2, <1>3, <1>4, <1>5 DEF Next
-----------------------------------------------------------------------------
\* The inductive invariant.
Inv == TypeOK /\ TokenInv /\ OrgInv /\ TwinsInv /\ QueueInv /\ DoneInv /\ TableInv

\* The program starts with one task and its intent.
LEMMA InitTasks ==
  ASSUME Init
  PROVE  /\ userState \in {"SignedIn", "OrgCreated"}
         /\ \E x \in TaskType, i \in IntentType :
              /\ TasksOK /\ InFlight = {x} /\ tasks[x] = 1
              /\ IntentsOK /\ Intended = {i} /\ pendingIntents[i] = 1
              /\ x.kind = i.what /\ x.token = 1
              /\ x.kind = IF userState = "SignedIn" THEN "fetch" ELSE "load"
              /\ Fits(x) /\ Right(x)
<1> DEFINE x == IF userState = "SignedIn" THEN FetchTask(1) ELSE LoadTask(1)
           i == Plain(IF userState = "SignedIn" THEN "fetch" ELSE "load")
<1>1. userState \in {"SignedIn", "OrgCreated"}
  BY DashboardAssumption DEF Init
<1>2. /\ x \in TaskType /\ x.token = 1 /\ x.kind = IF userState = "SignedIn" THEN "fetch" ELSE "load"
      /\ x.kind = "load" => x.at = "list" /\ x.todo = {} /\ x.read = <<>> /\ x.raced = {}
  BY NewTask DEF TaskType
<1>3. i \in IntentType /\ i.what = IF userState = "SignedIn" THEN "fetch" ELSE "load"
  BY NewIntents
<1>4. tasks = SetToBag({x}) /\ pendingIntents = SetToBag({i})
  BY DEF Init
<1> HIDE DEF x, i
<1>5. TasksOK /\ InFlight = {x} /\ tasks[x] = 1
  BY <1>2, <1>4 DEF TasksOK, InFlight, BagToSet, SetToBag, IsBag
<1>6. IntentsOK /\ Intended = {i} /\ pendingIntents[i] = 1
  BY <1>3, <1>4 DEF IntentsOK, Intended, BagToSet, SetToBag, IsBag, IntentType
<1>7. Fits(x) /\ Right(x)
  <2>1. \A k : k \notin DOMAIN <<>>
    OBVIOUS
  <2> QED
    BY <1>1, <1>2, <2>1 DEF Fits, Right
<1> QED
  BY <1>1, <1>2, <1>3, <1>5, <1>6, <1>7

\* The folders Drive has then are those of members.
LEMMA InitFolders ==
  ASSUME Init
  PROVE  /\ folders \in Seq(FolderType) /\ orgs \in {0, 1}
         /\ history \in HistoryType /\ history.raced = DOMAIN folders
         /\ \A f \in DOMAIN folders : folders[f].email \in history.twice
<1>1. folders \in Seq(FolderType) /\ orgs \in {0, 1}
  <2>1. orgs \in {0, 1}
    BY DEF Init
  <2>2. CASE folders = <<>>
    BY <2>1, <2>2
  <2>3. CASE \E e \in Members : folders = <<[email |-> e, is |-> "shared"]>>
    <3>1. PICK e \in Members : folders = <<[email |-> e, is |-> "shared"]>>
      BY <2>3
    <3>2. e \in Emails
      BY DashboardAssumption
    <3>3. [email |-> e, is |-> "shared"] \in FolderType
      BY <3>2 DEF FolderType
    <3> QED
      BY <2>1, <3>1, <3>3
  <2> QED
    BY <2>2, <2>3 DEF Init
<1> DEFINE S == DOMAIN folders
           T == {folders[f].email : f \in DOMAIN folders}
<1>2. S \in SUBSET Nat /\ T \in SUBSET Emails
  <2>1. \A f \in DOMAIN folders : folders[f] \in FolderType /\ f \in Nat
    BY <1>1
  <2>2. \A f \in DOMAIN folders : folders[f].email \in Emails
    BY <2>1 DEF FolderType
  <2> QED
    BY <2>1, <2>2
<1>3. history = [NewHistory EXCEPT !.raced = S, !.twice = T]
  BY DEF Init
<1>4. \A f \in DOMAIN folders : folders[f].email \in T
  OBVIOUS
<1> HIDE DEF T
<1>5. history \in HistoryType /\ history.raced = S /\ history.twice = T
  BY <1>2, <1>3 DEF NewHistory, HistoryType
<1> QED
  BY <1>1, <1>4, <1>5

\* The invariant holds initially.
LEMMA InitInv ==
  ASSUME Init
  PROVE  Inv
<1>1. /\ userState \in {"SignedIn", "OrgCreated"} /\ token = 1 /\ expired = {} /\ ~pendingRefresh
      /\ busy \in BOOLEAN /\ pendingRefresh \in BOOLEAN
      /\ busy <=> userState = "SignedIn"
      /\ rows = <<>> /\ panel = NewPanel
  BY InitTasks DEF Init
<1>2. PICK x \in TaskType, i \in IntentType :
        /\ TasksOK /\ InFlight = {x} /\ tasks[x] = 1
        /\ IntentsOK /\ Intended = {i} /\ pendingIntents[i] = 1
        /\ x.kind = i.what /\ x.token = 1
        /\ x.kind = IF userState = "SignedIn" THEN "fetch" ELSE "load"
        /\ Fits(x) /\ Right(x)
  BY InitTasks
<1>3. /\ folders \in Seq(FolderType) /\ orgs \in {0, 1}
      /\ history \in HistoryType /\ history.raced = DOMAIN folders
      /\ \A f \in DOMAIN folders : folders[f].email \in history.twice
  BY InitFolders
<1>4. TypeOK
  BY <1>1, <1>2, <1>3, PanelFacts DEF TypeOK
<1>5. TokenInv
  BY <1>1, <1>2 DEF TokenInv, TokensKnown
<1>6. OrgInv
  <2>1. AloneInv
    BY <1>1, <1>2 DEF AloneInv, InFlightOf
  <2>2. KindsInv
    BY <1>1, <1>2 DEF KindsInv
  <2>3. SearchInv
    BY <1>2, <1>3 DEF SearchInv
  <2> QED
    BY <2>1, <2>2, <2>3 DEF OrgInv
<1>7. TwinsInv /\ QueueInv
  <2>1. QueueInv /\ ToSet(panel.queue) = {}
    BY <1>1, EmptyQueue DEF QueueInv
  <2>2. ASSUME NEW e \in Emails \ history.twice PROVE TwinsOf(e)
    <3>1. FoldersOf(e) = {}
      BY <1>3 DEF FoldersOf
    <3>2. InvitesOf(e) = {} /\ IntentsOf(e) = {}
      BY <1>2 DEF InvitesOf, IntentsOf
    <3> QED
      BY <2>1, <3>1, <3>2 DEF TwinsOf, Single, Creating
  <2> QED
    BY <2>1, <2>2 DEF TwinsInv
<1>8. DoneInv
  <2>1. /\ ToSet(panel.queue) = {} /\ panel.asked = {} /\ panel.log = {}
    BY <1>1, EmptyQueue DEF NewPanel
  <2>2. Open = {} /\ \A r, e : ~IsLogged(r, e)
    BY <2>1 DEF Open, IsLogged
  <2> QED
    BY <1>2, <2>1, <2>2 DEF DoneInv, RunInv
<1>9. TableInv
  <2>1. \A k : k \notin DOMAIN rows
    BY <1>1
  <2> QED
    BY <1>2, <1>3, <2>1 DEF TableInv, FolderInv, LoadInv, RacedInv, RowsInv
<1> QED
  BY <1>4, <1>5, <1>6, <1>7, <1>8, <1>9 DEF Inv

\* Every step keeps it.
LEMMA InvStep ==
  ASSUME Inv, [Next]_vars
  PROVE  Inv'
<1>1. TypeOK'
  BY TypeStep DEF Inv, TokenInv
<1>2. TokenInv' /\ OrgInv' /\ TwinsInv' /\ QueueInv' /\ DoneInv' /\ TableInv'
  BY TokenStep, OrgStep, TwinsStep, DoneStep, TableStep DEF Inv
<1> QED
  BY <1>1, <1>2 DEF Inv

\* So it always holds.
LEMMA Inductive == Spec => []Inv
<1>1. Init => Inv
  BY InitInv
<1>2. Inv /\ [Next]_vars => Inv'
  BY InvStep
<1> QED
  BY <1>1, <1>2, PTL DEF Spec

\* A second organization is created only when a search for the first one failed: no order of
\* clicks, answers, token expiries, retries and restarts makes get_or_create_organization post
\* twice.
THEOREM OneOrganizationHolds == Spec => []OneOrganization
<1>1. Inv => OneOrganization
  BY DEF Inv, OrgInv, SearchInv, OneOrganization, TypeOK
<1> QED
  BY <1>1, Inductive, PTL

\* An address has two folders only if it was invited again, or its intent was run again after
\* its folder was created: runs, queue, expiries and retries alone never create a second one.
THEOREM TwinsHaveACause == Spec => []TwinsNeedCause
<1>1. ASSUME Inv PROVE TwinsNeedCause
  <2> SUFFICES ASSUME NEW f \in Listed, NEW g \in Listed, f # g, folders[f].email = folders[g].email,
                      folders[f].email \notin history.twice
               PROVE  FALSE
    BY DEF TwinsNeedCause
  <2>1. PICK e \in Emails : e = folders[f].email
    <3>1. folders[f] \in FolderType
      BY <1>1 DEF Inv, TypeOK, Listed
    <3> QED
      BY <3>1 DEF FolderType
  <2>2. Single(e)
    BY <1>1, <2>1 DEF Inv, TwinsInv, TwinsOf
  <2>3. f \in FoldersOf(e) /\ g \in FoldersOf(e)
    BY <2>1 DEF FoldersOf, Listed
  <2> QED
    BY <2>2, <2>3 DEF Single
<1> QED
  BY <1>1, Inductive, PTL

\* When the panel offers Done, every address of the run was sent and no invitation is in flight,
\* unless retry_intents had run an intent that was answered or at work.
THEOREM DoneIsSent == Spec => []DoneMeansSent
<1>1. ASSUME Inv PROVE DoneMeansSent
  <2> SUFFICES ASSUME CanDone, ~history.doubled
               PROVE  /\ \A e \in panel.asked : <<RunOf(panel), e, TRUE>> \in panel.log
                      /\ InFlightOf("invite") = {}
    BY DEF DoneMeansSent
  <2>1. RunInv /\ panel.queue = <<>> /\ ~panel.sending
    BY <1>1 DEF Inv, DoneInv, QueueInv, CanDone
  <2>2. Open = {} /\ ToSet(panel.queue) = {}
    BY <2>1, EmptyQueue DEF RunInv
  <2>3. InFlightOf("invite") = {}
    BY <2>1, <2>2 DEF RunInv, InFlightOf
  <2>4. ASSUME NEW e \in panel.asked PROVE <<RunOf(panel), e, TRUE>> \in panel.log
    <3>1. e \in Emails
      BY <1>1 DEF Inv, TypeOK, PanelType
    <3>2. PICK sent \in BOOLEAN : <<RunOf(panel), e, sent>> \in panel.log
      BY <2>2 DEF Open, IsLogged, Run
    <3>3. sent = TRUE
      BY <3>1, <3>2 DEF CanDone
    <3> QED
      BY <3>2, <3>3
  <2> QED
    BY <2>3, <2>4
<1> QED
  BY <1>1, Inductive, PTL

\* The table shows a member as having access exactly if Drive gives it, unless a load and a
\* change of that folder overlapped, or a change was made and answered with an error.
THEOREM TableShowsAccess == Spec => []TableIsTrue
<1>1. ASSUME Inv PROVE TableIsTrue
  <2> SUFFICES ASSUME NEW f \in Listed \ history.raced, userState = "OrgCreated", ~Changing(f)
               PROVE  folders[f].is = "shared" <=>
                        \E k \in DOMAIN rows : rows[k].folder = f /\ rows[k].id # "none"
    BY DEF TableIsTrue
  <2>1. TableOf(f)
    BY <1>1 DEF Inv, TableInv, RowsInv, Listed
  <2>2. Changers(f) = {}
    BY DEF Changing, Changers, Changes, InFlightOf
  <2> QED
    BY <2>1, <2>2 DEF TableOf, Shown, RowsOf
<1> QED
  BY <1>1, Inductive, PTL
=============================================================================
