---------------------------- MODULE ArchiveProofs ----------------------------
(***************************************************************************)
(* As long as no two tasks of Archive run at the same time: no task        *)
(* panics, none creates on Drive what is there, and what the index says of *)
(* a path is what Drive has there.  For any folders, windows of actions,   *)
(* failed calls, expired tokens and restarts.                              *)
(*                                                                         *)
(* Inv: what a task puts into the index is below something that is in it,  *)
(* and this is nowhere checked.  A walk notes the ancestors one by one,    *)
(* the missing ones are created one by one from the top, and each time the *)
(* index is built anew it must be built from the top.  So the paths of the *)
(* index are closed upwards, and the parent of what a task will put next   *)
(* is one of them.                                                         *)
(*                                                                         *)
(* SettledInv: between the walk that has found nothing and the call that   *)
(* creates it, a task has an id in hand, and this id is still that of the  *)
(* path, and nothing is there yet.                                         *)
(*                                                                         *)
(* ExactInv: the entries of the index cover the objects of Drive, but for  *)
(* those a task has deleted and is about to forget.  What is in a folder   *)
(* that was put when it was not in the watched folder stays in the index   *)
(* when the folder is removed; but then it lies in nothing that is there.  *)
(***************************************************************************)
EXTENDS Archive, SequenceTheorems, FiniteSetTheorems, TLAPS

\* The paths an index has ids for.
Keys(x) == DOMAIN x.byPath \union {<< >>}

IsPath(p) == \E S : p \in Seq(S)
Closed(paths) == \A p \in paths : IsPath(p) /\ (p = << >> \/ Front(p) \in paths)

Goals == {"source", "oldParent", "newParent", "file", "fileParent", "folder"}
Dos == {"look", "walk", "make", "move", "update", "create", "delete", "forget", "end"}
IsTask(t) ==
  t \in [act : SyncActions, token : Nat, again : BOOLEAN, goal : Goals, make : Seq(STRING),
         do : Dos, at : {t.at}, n : Nat, source : {t.source}, old : {t.old}]

\* What a task relies on, when the index has these paths.
ParentIsKnown(paths, t) ==
  /\ t.do = "walk" => /\ t.make = << >> /\ t.n \in 1..Len(Target(t))
                      /\ SubSeq(Target(t), 1, t.n - 1) \in paths
  /\ t.do = "make" => t.make # << >>
  /\ t.make # << >> => t.do \in {"look", "make", "end"} /\ Front(t.make) \in paths
  /\ t.do \in {"create", "update", "move"} => Front(t.act.to) \in paths

Fresh == {Started(a, n) : a \in SyncActions, n \in Nat}

TypeOK ==
  /\ scenario \in Scenarios /\ window \in 0..Len(scenario.windows)
  /\ token \in Nat /\ parked \in Seq(SyncActions)
  /\ chain \in Seq({Save} \union Fresh)
Alone == \A i, j \in DOMAIN tasks : i = j
IndexInv == Closed(Keys(Now))
TasksInv == \A i \in DOMAIN tasks : IsTask(tasks[i]) /\ ParentIsKnown(Keys(Now), tasks[i])

Safe == ~panicked /\ TypeOK /\ Alone /\ IndexInv /\ TasksInv
Inv == "race" \notin past => Safe
-----------------------------------------------------------------------------
(* Paths *)

\* Front, of paths and their prefixes.
LEMMA FrontOfPath ==
  ASSUME NEW S, NEW p \in Seq(S)
  PROVE  Front(p) \in Seq(S) /\ (p = << >> => Front(p) = << >>)
<1>1. CASE p = << >>
  BY <1>1 DEF Front
<1>2. CASE p # << >>
  <2>1. Len(p) \in Nat /\ Len(p) > 0
    BY <1>2, EmptySeq
  <2> QED BY <1>2, <2>1, SubSeqProperties DEF Front
<1> QED BY <1>1, <1>2

\* A prefix that is one shorter is the front of a prefix.
LEMMA FrontOfPrefix ==
  ASSUME NEW S, NEW p \in Seq(S), NEW n \in 1..Len(p)
  PROVE  /\ SubSeq(p, 1, n) \in Seq(S) /\ SubSeq(p, 1, n) # << >>
         /\ Front(SubSeq(p, 1, n)) = SubSeq(p, 1, n - 1)
BY SubSeqProperties DEF Front

\* The longest and the shortest prefix.
LEMMA PrefixEnds ==
  ASSUME NEW S, NEW p \in Seq(S)
  PROVE  SubSeq(p, 1, Len(p)) = p /\ SubSeq(p, 1, 0) = << >>
BY SubSeqProperties

\* One name more is taken off by Front.
LEMMA FrontOfLonger ==
  ASSUME NEW p, IsPath(p), NEW e
  PROVE  /\ IsPath(Append(p, e)) /\ Front(Append(p, e)) = p /\ Append(p, e) # << >>
         /\ Len(p) \in Nat /\ Len(Append(p, e)) = Len(p) + 1
<1>1. PICK S : p \in Seq(S)
  BY DEF IsPath
<1>2. p \in Seq(S \union {e}) /\ e \in S \union {e}
  BY <1>1
<1>3. /\ Append(p, e) \in Seq(S \union {e}) /\ Len(Append(p, e)) = Len(p) + 1
      /\ \A i \in 1..Len(p) : Append(p, e)[i] = p[i]
  BY <1>2, AppendProperties
<1>4. Front(Append(p, e)) = p /\ Append(p, e) # << >>
  BY <1>2, <1>3 DEF Front
<1>5. Len(p) \in Nat
  BY <1>1
<1> QED BY <1>3, <1>4, <1>5 DEF IsPath

-----------------------------------------------------------------------------
(* The index *)

\* What is one step down from pairs whose paths lead up to the top does so too.
Rooted(pairs) ==
  \A x \in pairs : IsPath(x[1]) /\ (x[1] = << >> \/ \E y \in pairs : y[1] = Front(x[1]))

\* What is one step down has a path of one name more.
LEMMA OneDownIsLonger ==
  ASSUME NEW es, NEW pairs, \A x \in pairs : IsPath(x[1]), NEW x \in OneDown(es, pairs)
  PROVE  /\ IsPath(x[1]) /\ x[1] # << >>
         /\ \E y \in pairs : /\ y[1] = Front(x[1]) /\ Len(y[1]) \in Nat
                           /\ Len(x[1]) = Len(y[1]) + 1
<1>1. PICK y \in pairs : \E o \in Children(es, y[2]) : x = <<Append(y[1], es[o].name), o>>
  BY DEF OneDown
<1>3. PICK o \in Children(es, y[2]) : x = <<Append(y[1], es[o].name), o>>
  BY <1>1
<1>2. x[1] = Append(y[1], es[o].name)
  BY <1>3
<1> QED BY <1>2, FrontOfLonger

\* What is reached from an id has a path, and the way to it is reached as well.
LEMMA ReachedIsRooted ==
  ASSUME NEW es, NEW id
  PROVE  /\ Rooted(Reached(es, id)) /\ << << >>, id >> \in Reached(es, id)
         /\ \A x \in Reached(es, id) : x[1] = << >> => x[2] = id
         /\ \A x \in Reached(es, id) : Len(x[1]) \in 0..3
<1> DEFINE top == {<< << >>, id >>}
           first == OneDown(es, top)
           second == OneDown(es, first)
           third == OneDown(es, second)
<1>0. Reached(es, id) = top \union first \union second \union third
  BY DEF Reached
<1>1. \A x \in top : IsPath(x[1]) /\ x[1] = << >> /\ x[2] = id /\ Len(x[1]) = 0
  <2>1. IsPath(<< >>)
    <3>1. << >> \in Seq({})
      OBVIOUS
    <3> QED BY <3>1 DEF IsPath
  <2>2. ASSUME NEW x \in top PROVE x[1] = << >> /\ x[2] = id /\ Len(x[1]) = 0
    OBVIOUS
  <2> QED BY <2>1, <2>2
<1>2. \A x \in first : /\ IsPath(x[1]) /\ x[1] # << >> /\ Len(x[1]) = 1
                     /\ \E y \in top : y[1] = Front(x[1])
  <2> HIDE DEF top
  <2>1. \A y \in top : IsPath(y[1]) /\ Len(y[1]) = 0
    BY <1>1
  <2>2. ASSUME NEW x \in first
        PROVE  /\ IsPath(x[1]) /\ x[1] # << >>
               /\ \E y \in top : /\ y[1] = Front(x[1]) /\ Len(y[1]) \in Nat
                             /\ Len(x[1]) = Len(y[1]) + 1
    BY <2>1, OneDownIsLonger
  <2> HIDE DEF first
  <2>3. ASSUME NEW x \in first
        PROVE  /\ IsPath(x[1]) /\ x[1] # << >> /\ Len(x[1]) = 1
               /\ \E y \in top : y[1] = Front(x[1])
    <3>1. PICK y \in top : y[1] = Front(x[1]) /\ Len(x[1]) = Len(y[1]) + 1
      BY <2>2
    <3>2. Len(y[1]) = 0
      BY <2>1
    <3> QED BY <2>2, <3>1, <3>2
  <2> QED BY <2>3
<1>3. \A x \in second : /\ IsPath(x[1]) /\ x[1] # << >> /\ Len(x[1]) = 2
                     /\ \E y \in first : y[1] = Front(x[1])
  <2> HIDE DEF first
  <2>1. \A y \in first : IsPath(y[1]) /\ Len(y[1]) = 1
    BY <1>2
  <2>2. ASSUME NEW x \in second
        PROVE  /\ IsPath(x[1]) /\ x[1] # << >>
               /\ \E y \in first : /\ y[1] = Front(x[1]) /\ Len(y[1]) \in Nat
                             /\ Len(x[1]) = Len(y[1]) + 1
    BY <2>1, OneDownIsLonger
  <2> HIDE DEF second
  <2>3. ASSUME NEW x \in second
        PROVE  /\ IsPath(x[1]) /\ x[1] # << >> /\ Len(x[1]) = 2
               /\ \E y \in first : y[1] = Front(x[1])
    <3>1. PICK y \in first : y[1] = Front(x[1]) /\ Len(x[1]) = Len(y[1]) + 1
      BY <2>2
    <3>2. Len(y[1]) = 1
      BY <2>1
    <3> QED BY <2>2, <3>1, <3>2
  <2> QED BY <2>3
<1>4. \A x \in third : /\ IsPath(x[1]) /\ x[1] # << >> /\ Len(x[1]) = 3
                     /\ \E y \in second : y[1] = Front(x[1])
  <2> HIDE DEF second
  <2>1. \A y \in second : IsPath(y[1]) /\ Len(y[1]) = 2
    BY <1>3
  <2>2. ASSUME NEW x \in third
        PROVE  /\ IsPath(x[1]) /\ x[1] # << >>
               /\ \E y \in second : /\ y[1] = Front(x[1]) /\ Len(y[1]) \in Nat
                             /\ Len(x[1]) = Len(y[1]) + 1
    BY <2>1, OneDownIsLonger
  <2> HIDE DEF third
  <2>3. ASSUME NEW x \in third
        PROVE  /\ IsPath(x[1]) /\ x[1] # << >> /\ Len(x[1]) = 3
               /\ \E y \in second : y[1] = Front(x[1])
    <3>1. PICK y \in second : y[1] = Front(x[1]) /\ Len(x[1]) = Len(y[1]) + 1
      BY <2>2
    <3>2. Len(y[1]) = 2
      BY <2>1
    <3> QED BY <2>2, <3>1, <3>2
  <2> QED BY <2>3
<1>5. << << >>, id >> \in top
  OBVIOUS
<1> HIDE DEF top, first, second, third
<1> QED BY <1>0, <1>1, <1>2, <1>3, <1>4, <1>5 DEF Rooted

\* What reload_cache_by_path gives leads up to the top.
LEMMA ReloadedIsClosed ==
  ASSUME NEW es, NEW x \in Reloaded(es)
  PROVE  Closed(Keys(x))
<1> DEFINE pairs == Reached(es, Root)
<1>1. DOMAIN x.byPath = PathsOf(pairs)
  BY DEF Reloaded, ByPath
<1>2. Rooted(pairs)
  BY ReachedIsRooted
<1> HIDE DEF pairs
<1>3. ASSUME NEW p \in PathsOf(pairs)
      PROVE  IsPath(p) /\ (p = << >> \/ Front(p) \in PathsOf(pairs))
  <2>1. PICK y \in pairs : p = y[1]
    BY DEF PathsOf
  <2>2. IsPath(p) /\ (p = << >> \/ \E z \in pairs : z[1] = Front(p))
    BY <1>2, <2>1 DEF Rooted
  <2> QED BY <2>2 DEF PathsOf
<1>4. IsPath(<< >>)
  <2>1. << >> \in Seq({})
    OBVIOUS
  <2> QED BY <2>1 DEF IsPath
<1> QED BY <1>1, <1>3, <1>4 DEF Closed, Keys

\* There is an order of the visit: below the entry that is kept for a path, what is in it
\* can be kept too.
LEMMA ReloadedIsThere ==
  ASSUME NEW es
  PROVE  Reloaded(es) # {}
<1> DEFINE pairs == Reached(es, Root)
           double == Doubled(pairs)
           Ids(p) == IdsAt(pairs, p)
           Fits(p, o, q) == (\E c \in Ids(p) : es[c].parent = q) => es[o].parent = q
           Best(p, q) == CHOOSE o \in Ids(p) : Fits(p, o, q)
           Some(p) == CHOOSE o \in Ids(p) : TRUE
           Second(p) == Best(p, Some(Front(p)))
           Third(p) == Best(p, Second(Front(p)))
           Kept(p) == CASE Len(p) = 1 -> Some(p)
                        [] Len(p) = 2 -> Second(p)
                        [] OTHER -> Third(p)
           g == [p \in double |-> Kept(p)]
<1>0. /\ << << >>, Root >> \in pairs /\ \A x \in pairs : x[1] = << >> => x[2] = Root
      /\ \A x \in pairs : IsPath(x[1]) /\ Len(x[1]) \in 0..3
  BY ReachedIsRooted DEF Rooted
<1> HIDE DEF pairs
<1>1. ASSUME NEW p \in double
      PROVE  Ids(p) # {} /\ p # << >> /\ IsPath(p) /\ Len(p) \in 0..3 /\ Cardinality(Ids(p)) > 1
  <2>1. p \in PathsOf(pairs) /\ Cardinality(Ids(p)) > 1
    BY DEF Doubled
  <2>2. PICK y \in pairs : p = y[1]
    BY <2>1 DEF PathsOf
  <2>3. y[2] \in Ids(p)
    BY <2>2 DEF IdsAt
  <2>4. ASSUME p = << >> PROVE FALSE
    <3>1. Ids(p) = {Root}
      BY <1>0, <2>4 DEF IdsAt
    <3>2. Cardinality({Root}) = 1
      BY FS_Singleton
    <3> QED BY <2>1, <3>1, <3>2
  <2> QED BY <1>0, <2>1, <2>2, <2>3, <2>4
<1>2. ASSUME NEW p \in double, NEW q PROVE Best(p, q) \in Ids(p) /\ Fits(p, Best(p, q), q)
  <2>1. \E o \in Ids(p) : Fits(p, o, q)
    <3>1. PICK o : o \in Ids(p)
      BY <1>1
    <3>2. CASE \E c \in Ids(p) : es[c].parent = q
      BY <3>2
    <3>3. CASE ~\E c \in Ids(p) : es[c].parent = q
      BY <3>1, <3>3
    <3> QED BY <3>2, <3>3
  <2> HIDE DEF Fits, Ids
  <2> QED BY <2>1
<1>3. ASSUME NEW p \in double PROVE Some(p) \in Ids(p)
  BY <1>1
<1>4. ASSUME NEW p \in double PROVE Kept(p) \in Ids(p) /\ g[p] = Kept(p)
  <2>1. Second(p) \in Ids(p) /\ Third(p) \in Ids(p)
    BY <1>2
  <2> QED BY <1>3, <2>1
<1>5. \A p :
           /\ Len(p) = 2 => Kept(p) = Best(p, Some(Front(p)))
           /\ Len(p) = 3 => Kept(p) = Best(p, Second(Front(p)))
           /\ Len(p) = 1 => Kept(p) = Some(p)
           /\ Len(p) = 2 => Kept(p) = Second(p)
  <2> HIDE DEF Best, Some
  <2> QED OBVIOUS
<1>6. g \in [double -> UNION {Ids(p) : p \in double}]
  BY <1>4
<1> HIDE DEF g, Kept, Second, Third, Best, Some
<1>7. ASSUME NEW p \in double, Front(p) \in double PROVE Fits(p, g[p], g[Front(p)])
  <2>1. Len(p) \in {2, 3} /\ Len(Front(p)) = Len(p) - 1
    <3>1. IsPath(p) /\ p # << >> /\ Front(p) # << >> /\ Len(p) \in 0..3
      BY <1>1, <1>7
    <3>2. PICK S : p \in Seq(S)
      BY <3>1 DEF IsPath
    <3>3. Len(p) \in 1..3 /\ Len(Front(p)) = Len(p) - 1 /\ Front(p) \in Seq(S)
      BY <3>1, <3>2, SubSeqProperties DEF Front
    <3> QED BY <3>1, <3>3
  <2>2. g[p] = Kept(p) /\ g[Front(p)] = Kept(Front(p))
    BY <1>4, <1>7
  <2> HIDE DEF Fits
  <2>3. CASE Len(p) = 2
    <3>1. Kept(p) = Best(p, Some(Front(p)))
      BY <1>5, <2>3
    <3>2. Len(Front(p)) = 1
      BY <2>1, <2>3
    <3>3. Kept(Front(p)) = Some(Front(p))
      BY <1>5, <3>2
    <3>4. Fits(p, Best(p, Some(Front(p))), Some(Front(p)))
      BY <1>2
    <3> QED BY <2>2, <3>1, <3>3, <3>4
  <2>4. CASE Len(p) = 3
    <3>1. Kept(p) = Best(p, Second(Front(p)))
      BY <1>5, <2>4
    <3>2. Len(Front(p)) = 2
      BY <2>1, <2>4
    <3>3. Kept(Front(p)) = Second(Front(p))
      BY <1>5, <3>2
    <3>4. Fits(p, Best(p, Second(Front(p))), Second(Front(p)))
      BY <1>2
    <3> QED BY <2>2, <3>1, <3>3, <3>4
  <2> QED BY <2>1, <2>3, <2>4
<1>8. ASSUME NEW p \in double PROVE g[p] \in Ids(p)
  BY <1>4
<1>9. g \in VisitedLast(es, pairs)
  <2>1. \A p \in Doubled(pairs) :
          /\ g[p] \in IdsAt(pairs, p)
          /\ /\ Front(p) \in Doubled(pairs)
             /\ \E o \in IdsAt(pairs, p) : es[o].parent = g[Front(p)]
             => es[g[p]].parent = g[Front(p)]
    BY <1>7, <1>8
  <2>2. g \in [Doubled(pairs) -> UNION {IdsAt(pairs, p) : p \in Doubled(pairs)}]
    BY <1>6
  <2> QED BY <2>1, <2>2 DEF VisitedLast
<1>10. Reloaded(es) = {[entries |-> es, byPath |-> ByPath(pairs, last)] :
                         last \in VisitedLast(es, pairs)}
  BY DEF Reloaded, pairs
<1> QED BY <1>9, <1>10

\* The paths the index knows are its keys.
LEMMA KnownIsKey == \A path : Known(Now, path) <=> path \in Keys(Now)
BY DEF Known, Keys, Now

\* A step that leaves by_path alone leaves the keys alone.
LEMMA KeysStay ==
  ASSUME byPath' = byPath PROVE Keys(Now)' = Keys(Now)
BY DEF Keys, Now

\* What is put below something that is known is known then, and so is all that was.
LEMMA PutIsClosed ==
  ASSUME Closed(Keys(Now)), NEW path, IsPath(path), Front(path) \in Keys(Now), NEW id
  PROVE  /\ Put(Now, path, id) # {}
         /\ \A x \in Put(Now, path, id) :
              Closed(Keys(x)) /\ path \in Keys(x) /\ Keys(Now) \subseteq Keys(x)
<1>1. Known(Now, Front(path))
  BY KnownIsKey
<1>2. \A x \in Put(Now, path, id) : DOMAIN x.byPath = DOMAIN byPath \union {path}
  BY <1>1 DEF Put, Now, With
<1>3. ASSUME NEW x \in Put(Now, path, id) PROVE Keys(x) = Keys(Now) \union {path}
  BY <1>2, <1>3 DEF Keys, Now
<1>4. Put(Now, path, id) # {}
  BY <1>1 DEF Put
<1> QED BY <1>3, <1>4 DEF Closed

\* What a reload gives is closed upwards, whatever was put before
\* (move_object_in_file_index).
LEMMA PutAndReloadIsClosed ==
  ASSUME NEW path, Front(path) \in Keys(Now), NEW id
  PROVE  /\ PutAndReload(Now, path, id) # {}
         /\ \A x \in PutAndReload(Now, path, id) : Closed(Keys(x))
<1>1. Put(Now, path, id) # {}
  BY KnownIsKey DEF Put
<1>2. PICK y : y \in Put(Now, path, id)
  BY <1>1
<1>3. Reloaded(y.entries) # {} /\ Reloaded(y.entries) \subseteq PutAndReload(Now, path, id)
  BY <1>2, ReloadedIsThere DEF PutAndReload
<1>4. \A x \in PutAndReload(Now, path, id) : \E z \in Put(Now, path, id) : x \in Reloaded(z.entries)
  BY DEF PutAndReload
<1> QED BY <1>3, <1>4, ReloadedIsClosed

\* The same after a removal (remove_from_file_index).
LEMMA RemovedIsClosed ==
  ASSUME NEW path
  PROVE  Removed(Now, path) # {} /\ \A x \in Removed(Now, path) : Closed(Keys(x))
<1>1. \E es : Removed(Now, path) = Reloaded(es)
  BY DEF Removed
<1> QED BY <1>1, ReloadedIsThere, ReloadedIsClosed

-----------------------------------------------------------------------------
(* Tasks *)

\* The paths a task asks for are paths.
LEMMA TaskPaths ==
  ASSUME NEW t, IsTask(t)
  PROVE  /\ t.act \in SyncActions /\ t.act.to \in Seq(STRING) /\ t.act.from \in Seq(STRING)
         /\ t.goal \in Goals /\ t.make \in Seq(STRING) /\ t.do \in Dos /\ t.n \in Nat
         /\ Target(t) \in Seq(STRING)
<1>1. /\ t.act \in SyncActions /\ t.goal \in Goals /\ t.make \in Seq(STRING)
      /\ t.do \in Dos /\ t.n \in Nat
  BY DEF IsTask
<1>2. t.act.to \in Seq(STRING) /\ t.act.from \in Seq(STRING)
  BY <1>1 DEF SyncActions, Paths
<1>3. \A s \in {t.make, t.act.to, t.act.from} : Front(s) \in Seq(STRING)
  BY <1>1, <1>2, FrontOfPath
<1>4. Target(t) \in Seq(STRING)
  <2>1. CASE t.make # << >>
    BY <1>3, <2>1 DEF Target
  <2>2. CASE t.make = << >>
    BY <1>1, <1>2, <1>3, <2>2 DEF Target, Goals
  <2> QED BY <2>1, <2>2
<1> QED BY <1>1, <1>2, <1>4

\* A task that begins to resolve, or ends, relies on nothing.
LEMMA StartedOK ==
  ASSUME NEW act \in SyncActions, NEW n \in Nat, NEW paths
  PROVE  IsTask(Started(act, n)) /\ ParentIsKnown(paths, Started(act, n))
<1>1. << >> \in Seq(STRING) /\ FirstGoal(act) \in Goals
  BY DEF FirstGoal, Goals, SyncActions, ActionKinds
<1>2. IsTask(Started(act, n))
  <2>1. PICK again \in BOOLEAN, goal \in Goals, empty \in Seq(STRING) :
          again = (act.kind = "MoveAndUpload") /\ goal = FirstGoal(act) /\ empty = << >>
    BY <1>1
  <2>2. PICK t : t = Started(act, n)
    OBVIOUS
  <2>3. t = [act |-> act, token |-> n, again |-> again, goal |-> goal, make |-> empty,
             do |-> "look", at |-> Root, n |-> 0, source |-> Root, old |-> Root]
    BY <2>1, <2>2 DEF Started
  <2>4. "look" \in Dos
    BY DEF Dos
  <2>5. IsTask(t)
    BY <2>3, <2>4 DEF IsTask
  <2> QED BY <2>2, <2>5
<1> QED BY <1>2 DEF Started, ParentIsKnown

\* A task that resolves another path relies on nothing yet.
LEMMA ResolveOK ==
  ASSUME NEW t, IsTask(t), NEW goal \in Goals, NEW paths
  PROVE  IsTask(Resolve(t, goal)) /\ ParentIsKnown(paths, Resolve(t, goal))
<1>1. << >> \in Seq(STRING)
  OBVIOUS
<1> QED BY <1>1 DEF IsTask, Resolve, Dos, ParentIsKnown

\* A task that ends relies on nothing but what it has created.
LEMMA EndedOK ==
  ASSUME NEW t, IsTask(t), NEW paths, t.make # << >> => Front(t.make) \in paths
  PROVE  IsTask(Ended(t)) /\ ParentIsKnown(paths, Ended(t)) /\ Ended(t).do = "end"
BY DEF IsTask, Ended, Dos, ParentIsKnown

\* After an upload or a move the task ends, or uploads once more.
LEMMA UploadedOK ==
  ASSUME NEW t, IsTask(t), NEW paths, t.make # << >> => Front(t.make) \in paths
  PROVE  IsTask(Uploaded(t)) /\ ParentIsKnown(paths, Uploaded(t))
<1>1. IsTask([t EXCEPT !.again = FALSE])
  BY DEF IsTask
<1> QED BY <1>1, ResolveOK, EndedOK DEF Uploaded, Goals

\* The watched folder itself is not a file.
LEMMA FilesAreBelow ==
  ASSUME TypeOK PROVE << >> \notin DOMAIN Local
<1>1. IsTree(Local)
  <2>1. CASE window = 0
    BY <2>1, ArchiveAssumption DEF TypeOK, Local
  <2>2. CASE window # 0
    <3>1. window \in 1..Len(scenario.windows)
      BY <2>2, ArchiveAssumption DEF TypeOK
    <3> QED BY <2>2, <3>1, ArchiveAssumption DEF TypeOK, Local
  <2> QED BY <2>1, <2>2
<1> QED BY <1>1 DEF IsTree, Paths

\* A task that goes on to a call, where it has what the call relies on.
LEMMA DoOK ==
  ASSUME NEW t, IsTask(t), t.make = << >>, NEW paths, NEW d \in Dos \ {"walk", "make"},
         d \in {"create", "update", "move"} => Front(t.act.to) \in paths
  PROVE  IsTask([t EXCEPT !.do = d]) /\ ParentIsKnown(paths, [t EXCEPT !.do = d])
<1> DEFINE r == [t EXCEPT !.do = d]
<1>1. IsTask(r) /\ r.do = d /\ r.act = t.act /\ r.make = << >>
  BY DEF IsTask
<1> HIDE DEF r
<1>2. ParentIsKnown(paths, r)
  BY <1>1 DEF ParentIsKnown
<1> QED BY <1>1, <1>2 DEF r

\* A task that finds its path in the index, or that has just put it there.
LEMMA FoundOK ==
  ASSUME TypeOK, NEW t, IsTask(t), NEW paths, Closed(paths), ParentIsKnown(paths, t),
         t.do \in {"look", "walk"}, Target(t) \in paths, NEW id
  PROVE  IsTask(Found(t, id)) /\ ParentIsKnown(paths, Found(t, id))
<1>0. PICK s : s = [t EXCEPT !.at = id]
  OBVIOUS
<1>1. IsTask(s) /\ s.act = t.act /\ s.make = t.make /\ s.goal = t.goal
  BY <1>0 DEF IsTask
<1>2. CASE t.make # << >>
  <2>1. Found(t, id) = [s EXCEPT !.do = "make"] /\ Target(t) = Front(t.make)
    BY <1>0, <1>2 DEF Found, Target
  <2>2. IsTask([s EXCEPT !.do = "make"])
    BY <1>1 DEF IsTask, Dos
  <2>3. ParentIsKnown(paths, [s EXCEPT !.do = "make"])
    BY <1>1, <1>2, <2>1, <2>2 DEF ParentIsKnown, IsTask
  <2> QED BY <2>1, <2>2, <2>3
<1>3. CASE t.make = << >>
  <2>0. s.make = << >> /\ {"delete", "move", "update", "create", "end"} \subseteq Dos
    BY <1>1, <1>3 DEF Dos
  <2>1. CASE t.goal = "source"
    <3>1. CASE Deletes(t.act)
      <4>1. Found(t, id) = [s EXCEPT !.do = "delete"]
        BY <1>0, <1>3, <2>1, <3>1 DEF Found
      <4>2. "delete" \in Dos \ {"walk", "make"} /\ "delete" \notin {"create", "update", "move"}
        BY <2>0
      <4>3. "delete" \in {"create", "update", "move"} => Front(s.act.to) \in paths
        BY <4>2
      <4>4. /\ IsTask([s EXCEPT !.do = "delete"])
            /\ ParentIsKnown(paths, [s EXCEPT !.do = "delete"])
        BY <1>1, <2>0, <4>2, <4>3, DoOK
      <4> QED BY <4>1, <4>4
    <3>2. CASE ~Deletes(t.act)
      <4>1. Found(t, id) = Resolve([s EXCEPT !.source = id], "oldParent")
        BY <1>0, <1>3, <2>1, <3>2 DEF Found
      <4>2. IsTask([s EXCEPT !.source = id])
        BY <1>1 DEF IsTask
      <4>3. "oldParent" \in Goals
        BY DEF Goals
      <4> QED BY <4>1, <4>2, <4>3, ResolveOK
    <3> QED BY <3>1, <3>2
  <2>2. CASE t.goal = "oldParent"
    <3>1. Found(t, id) = Resolve([s EXCEPT !.old = id], "newParent")
      BY <1>0, <1>3, <2>2 DEF Found
    <3>2. IsTask([s EXCEPT !.old = id])
      BY <1>1 DEF IsTask
    <3>3. "newParent" \in Goals
      BY DEF Goals
    <3> QED BY <3>1, <3>2, <3>3, ResolveOK
  <2>3. CASE t.goal = "newParent"
    <3>1. Found(t, id) = [s EXCEPT !.do = "move"]
      BY <1>0, <1>3, <2>3 DEF Found
    <3>2. Target(t) = Front(t.act.to)
      BY <1>3, <2>3 DEF Target
    <3> QED BY <1>1, <2>0, <3>1, <3>2, DoOK
  <2>4. CASE t.goal = "file"
    <3>1. Found(t, id) = Read(s, "update") /\ Target(t) = t.act.to
      BY <1>0, <1>3, <2>4 DEF Found, Target
    <3>2. CASE IsFile(t.act.to)
      <4>1. t.act.to # << >>
        BY <3>2, FilesAreBelow DEF IsFile
      <4>2. Front(t.act.to) \in paths
        BY <3>1, <4>1 DEF Closed
      <4>3. Read(s, "update") = [s EXCEPT !.do = "update"]
        BY <1>1, <3>2 DEF Read
      <4> QED BY <1>1, <2>0, <3>1, <4>2, <4>3, DoOK
    <3>3. CASE ~IsFile(t.act.to)
      <4>1. Read(s, "update") = Ended(s)
        BY <1>1, <3>3 DEF Read
      <4> QED BY <1>1, <2>0, <3>1, <4>1, EndedOK
    <3> QED BY <3>2, <3>3
  <2>5. CASE t.goal = "fileParent"
    <3>1. Found(t, id) = Read(s, "create") /\ Target(t) = Front(t.act.to)
      BY <1>0, <1>3, <2>5 DEF Found, Target
    <3>2. CASE IsFile(t.act.to)
      <4>1. Read(s, "create") = [s EXCEPT !.do = "create"]
        BY <1>1, <3>2 DEF Read
      <4> QED BY <1>1, <2>0, <3>1, <4>1, DoOK
    <3>3. CASE ~IsFile(t.act.to)
      <4>1. Read(s, "create") = Ended(s)
        BY <1>1, <3>3 DEF Read
      <4> QED BY <1>1, <2>0, <3>1, <4>1, EndedOK
    <3> QED BY <3>2, <3>3
  <2>6. CASE t.goal = "folder"
    <3>1. Found(t, id) = Ended(s)
      BY <1>0, <1>3, <2>6 DEF Found
    <3> QED BY <1>1, <2>0, <3>1, EndedOK
  <2> QED BY <2>1, <2>2, <2>3, <2>4, <2>5, <2>6, TaskPaths DEF Goals
<1> QED BY <1>2, <1>3

\* A task that has found nothing at the nth name of its path, and has the names before it.
LEMMA MissingOK ==
  ASSUME NEW t, IsTask(t), NEW paths, ParentIsKnown(paths, t), t.do = "walk"
  PROVE  LET path == SubSeq(Target(t), 1, t.n)
         IN IsTask(Missing(t, path)) /\ ParentIsKnown(paths, Missing(t, path))
<1>0. PICK path : path = SubSeq(Target(t), 1, t.n)
  OBVIOUS
<1>1. /\ path \in Seq(STRING) /\ path # << >> /\ Front(path) \in paths /\ t.make = << >>
      /\ t.act \in SyncActions
  <2>1. Target(t) \in Seq(STRING) /\ t.n \in 1..Len(Target(t)) /\ t.make = << >>
        /\ SubSeq(Target(t), 1, t.n - 1) \in paths /\ t.act \in SyncActions
    BY TaskPaths DEF ParentIsKnown
  <2> QED BY <1>0, <2>1, FrontOfPrefix
<1>2. {"file", "fileParent"} \subseteq Goals
  BY DEF Goals
<1>3. CASE Creating(t) /\ (path # Target(t) \/ IsDir(Target(t)))
  <2>1. PICK r : r = [t EXCEPT !.make = path, !.do = "look"]
    OBVIOUS
  <2>2. Missing(t, path) = r
    BY <1>3, <2>1 DEF Missing
  <2>3. IsTask(r) /\ r.do = "look" /\ r.make = path
    BY <1>1, <2>1 DEF IsTask, Dos
  <2>4. ParentIsKnown(paths, r)
    BY <1>1, <2>3 DEF ParentIsKnown
  <2> QED BY <1>0, <2>2, <2>3, <2>4
<1>4. CASE ~(Creating(t) /\ (path # Target(t) \/ IsDir(Target(t))))
  <2>1. \/ Missing(t, path) = Resolve(t, "fileParent")
        \/ Missing(t, path) = MissingSource(t)
        \/ Missing(t, path) = Ended(t)
    BY <1>4 DEF Missing
  <2>2. \/ MissingSource(t) = Resolve(t, "file")
        \/ MissingSource(t) = [t EXCEPT !.do = "forget"]
    BY DEF MissingSource
  <2>3. "forget" \in Dos \ {"walk", "make"} /\ "forget" \notin {"create", "update", "move"}
    BY DEF Dos
  <2>4. IsTask([t EXCEPT !.do = "forget"]) /\ ParentIsKnown(paths, [t EXCEPT !.do = "forget"])
    BY <1>1, <2>3, DoOK
  <2> QED BY <1>0, <1>1, <1>2, <2>1, <2>2, <2>4, ResolveOK, EndedOK
<1> QED BY <1>3, <1>4

-----------------------------------------------------------------------------
(* The invariant is inductive *)

\* The one task that runs goes on, and the index has these paths then.
LEMMA TaskGoes ==
  ASSUME Safe, NEW i \in DOMAIN tasks, NEW t, Goes(i, t), Closed(Keys(Now)'),
         IsTask(t), t.do = "end" \/ ParentIsKnown(Keys(Now)', t)
  PROVE  Alone' /\ TasksInv'
<1>1. DOMAIN tasks' \subseteq DOMAIN tasks
  BY DEF Goes, Restrict
<1>2. \A j \in DOMAIN tasks : j = i
  BY DEF Safe, Alone
<1>3. Alone'
  BY <1>1, <1>2 DEF Alone
<1>4. CASE t.do = "end"
  <2>1. DOMAIN tasks' = {}
    BY <1>2, <1>4 DEF Goes, Restrict
  <2> QED BY <1>3, <2>1 DEF TasksInv
<1>5. CASE t.do # "end"
  <2>1. tasks' = [tasks EXCEPT ![i] = t]
    BY <1>5 DEF Goes
  <2>2. \A j \in DOMAIN tasks' : j \in DOMAIN tasks /\ tasks'[j] = t
    BY <1>2, <2>1
  <2>3. ASSUME NEW j \in DOMAIN tasks'
        PROVE  IsTask(tasks'[j]) /\ ParentIsKnown(Keys(Now)', tasks'[j])
    BY <1>5, <2>2
  <2> QED BY <1>3, <2>3 DEF TasksInv
<1> QED BY <1>4, <1>5

\* A task that changes the index to one that is closed upwards, and has what it needs next,
\* is safe.
LEMMA TaskIndexed ==
  ASSUME Safe, NEW i \in DOMAIN tasks, NEW t, NEW xs, Indexed(i, xs, t), xs # {},
         \A x \in xs : Closed(Keys(x)) /\ (t.do = "end" \/ ParentIsKnown(Keys(x), t)),
         IsTask(t)
  PROVE  Alone' /\ TasksInv' /\ IndexInv' /\ ~panicked'
<1>1. PICK x \in xs : Becomes(x)
  BY DEF Indexed
<1>2. Keys(Now)' = Keys(x)
  BY <1>1 DEF Becomes, Keys, Now
<1>3. Goes(i, t) /\ panicked' = panicked
  BY DEF Indexed
<1>4. IndexInv'
  BY <1>1, <1>2 DEF IndexInv
<1>5. Closed(Keys(Now)') /\ (t.do = "end" \/ ParentIsKnown(Keys(Now)', t))
  BY <1>1, <1>2
<1> QED BY <1>3, <1>4, <1>5, TaskGoes DEF Safe

\* The types hold after a step that leaves their variables alone.
LEMMA TypesStay ==
  ASSUME TypeOK, UNCHANGED <<scenario, window, chain, token, parked>>
  PROVE  TypeOK'
BY DEF TypeOK

\* What the invariant says of one task.
LEMMA TaskIsOK ==
  ASSUME Safe, NEW i \in DOMAIN tasks
  PROVE  IsTask(tasks[i]) /\ ParentIsKnown(Keys(Now), tasks[i])
BY DEF Safe, TasksInv

\* A path is looked up: its parent is known if it is.
LEMMA LookStep ==
  ASSUME Safe, NEW i \in DOMAIN tasks, Look(i)
  PROVE  Safe'
<1>1. PICK t : t = tasks[i]
  OBVIOUS
<1>2. IsTask(t) /\ ParentIsKnown(Keys(Now), t) /\ t.do = "look"
  BY <1>1, TaskIsOK DEF Look
<1>3. UNCHANGED <<scenario, window, chain, token, parked, panicked, byPath>>
  BY DEF Look, session, index
<1>4. Keys(Now)' = Keys(Now)
  BY <1>3, KeysStay
<1>5. CASE Known(Now, Target(t))
  <2>1. PICK id : id = IdOf(Now, Target(t))
    OBVIOUS
  <2>2. Goes(i, Found(t, id))
    BY <1>1, <1>5, <2>1 DEF Look
  <2>3. IsTask(Found(t, id)) /\ ParentIsKnown(Keys(Now), Found(t, id))
    BY <1>2, <1>5, FoundOK, KnownIsKey DEF Safe, IndexInv
  <2>4. Alone' /\ TasksInv'
    BY <1>4, <2>2, <2>3, TaskGoes DEF Safe, IndexInv
  <2> QED BY <1>3, <1>4, <2>4, TypesStay DEF Safe, IndexInv
<1>6. CASE ~Known(Now, Target(t))
  <2>1. PICK r : r = [t EXCEPT !.do = "walk", !.n = 1, !.at = Root]
    OBVIOUS
  <2>2. Goes(i, r)
    BY <1>1, <1>6, <2>1 DEF Look
  <2>3. IsTask(r) /\ r.do = "walk" /\ r.n = 1 /\ r.make = t.make /\ r.act = t.act /\ r.goal = t.goal
    BY <1>2, <2>1 DEF IsTask, Dos
  <2>4. t.make = << >>
    BY <1>2, <1>6, KnownIsKey DEF ParentIsKnown, Target
  <2>5. Target(r) = Target(t) /\ Target(t) \in Seq(STRING) /\ Target(t) # << >>
    <3>1. Target(r) = Target(t)
      BY <2>3, <2>4 DEF Target
    <3>2. Target(t) # << >>
      BY <1>6 DEF Known
    <3> QED BY <1>2, <3>1, <3>2, TaskPaths
  <2>6. 1 \in 1..Len(Target(t)) /\ SubSeq(Target(t), 1, 0) = << >>
    BY <2>5, PrefixEnds
  <2>7. ParentIsKnown(Keys(Now), r)
    BY <2>3, <2>4, <2>5, <2>6 DEF ParentIsKnown, Keys
  <2>8. Alone' /\ TasksInv'
    BY <1>4, <2>2, <2>3, <2>7, TaskGoes DEF Safe, IndexInv
  <2> QED BY <1>3, <1>4, <2>8, TypesStay DEF Safe, IndexInv
<1> QED BY <1>5, <1>6

\* The walk passes by a name that is in the index.
LEMMA PassByStep ==
  ASSUME Safe, NEW i \in DOMAIN tasks, PassBy(i)
  PROVE  Safe'
<1>1. PICK t : t = tasks[i]
  OBVIOUS
<1>2. IsTask(t) /\ ParentIsKnown(Keys(Now), t) /\ PassesBy(t)
  BY <1>1, TaskIsOK DEF PassBy
<1>3. UNCHANGED <<scenario, window, chain, token, parked, panicked, byPath>>
  BY DEF PassBy, session, index
<1>4. Keys(Now)' = Keys(Now)
  BY <1>3, KeysStay
<1>a. PICK id : id = IdOf(Now, SubSeq(Target(t), 1, t.n))
  OBVIOUS
<1>5. PICK r : r = [t EXCEPT !.at = id, !.n = t.n + 1]
  OBVIOUS
<1>6. Goes(i, r)
  BY <1>1, <1>a, <1>5 DEF PassBy
<1>7. /\ t.do = "walk" /\ t.n \in 1..Len(Target(t)) /\ t.n < Len(Target(t)) /\ t.make = << >>
      /\ SubSeq(Target(t), 1, t.n) \in Keys(Now) /\ Len(Target(t)) \in Nat
  <2>1. Target(t) \in Seq(STRING)
    BY <1>2, TaskPaths
  <2> QED BY <1>2, <2>1, KnownIsKey DEF PassesBy, ParentIsKnown
<1>8. IsTask(r) /\ r.do = "walk" /\ r.n = t.n + 1 /\ r.make = << >> /\ Target(r) = Target(t)
  <2>1. IsTask(r) /\ r.do = "walk" /\ r.n = t.n + 1 /\ r.make = t.make /\ r.act = t.act
        /\ r.goal = t.goal
    <3>1. t.n + 1 \in Nat
      BY <1>7
    <3> QED BY <1>2, <1>5, <1>7, <3>1 DEF IsTask
  <2> QED BY <1>7, <2>1 DEF Target
<1>9. ParentIsKnown(Keys(Now), r)
  <2>1. r.n \in 1..Len(Target(r)) /\ r.n - 1 = t.n
    BY <1>7, <1>8
  <2> QED BY <1>7, <1>8, <2>1 DEF ParentIsKnown
<1>10. Alone' /\ TasksInv'
  BY <1>4, <1>6, <1>8, <1>9, TaskGoes DEF Safe, IndexInv
<1> QED BY <1>3, <1>4, <1>10, TypesStay DEF Safe, IndexInv

\* What a walk finds is noted below the name before it.
LEMMA FindStep ==
  ASSUME Safe, NEW i \in DOMAIN tasks, Find(i)
  PROVE  Safe'
<1>1. PICK t : t = tasks[i]
  OBVIOUS
<1>2. IsTask(t) /\ ParentIsKnown(Keys(Now), t) /\ t.do = "walk"
  BY <1>1, TaskIsOK DEF Find
<1>3. UNCHANGED <<scenario, window, chain, token, parked>>
  BY DEF Find, session
<1>4. PICK path : path = SubSeq(Target(t), 1, t.n)
  OBVIOUS
<1>5. /\ t.n \in 1..Len(Target(t)) /\ t.make = << >> /\ Target(t) \in Seq(STRING)
      /\ path \in Seq(STRING) /\ path # << >> /\ Front(path) \in Keys(Now)
      /\ Len(Target(t)) \in Nat
  <2>1. /\ t.n \in 1..Len(Target(t)) /\ t.make = << >> /\ Target(t) \in Seq(STRING)
        /\ SubSeq(Target(t), 1, t.n - 1) \in Keys(Now)
    BY <1>2, TaskPaths DEF ParentIsKnown
  <2>2. PICK whole \in Seq(STRING) : whole = Target(t)
    BY <2>1
  <2>3. path \in Seq(STRING) /\ path # << >> /\ Front(path) = SubSeq(whole, 1, t.n - 1)
    BY <1>4, <2>1, <2>2, FrontOfPrefix
  <2>4. Len(whole) \in Nat
    OBVIOUS
  <2> QED BY <2>1, <2>2, <2>3, <2>4
<1>6. CASE Goes(i, Missing(t, path)) /\ UNCHANGED <<index, panicked>>
  <2>1. Keys(Now)' = Keys(Now)
    BY <1>6, KeysStay DEF index
  <2>2. IsTask(Missing(t, path)) /\ ParentIsKnown(Keys(Now), Missing(t, path))
    BY <1>2, <1>4, MissingOK
  <2>3. Alone' /\ TasksInv'
    BY <1>6, <2>1, <2>2, TaskGoes DEF Safe, IndexInv
  <2> QED BY <1>3, <1>6, <2>1, <2>3, TypesStay DEF Safe, IndexInv
<1>7. ASSUME NEW o, Indexed(i, Noted(t, path, o), Onward(t, path, o))
      PROVE  Safe'
  <2>1. IsPath(path)
    BY <1>5 DEF IsPath
  <2>2. /\ Noted(t, path, o) # {}
        /\ \A x \in Noted(t, path, o) :
             Closed(Keys(x)) /\ path \in Keys(x) /\ Keys(Now) \subseteq Keys(x)
    BY <1>5, <2>1, PutIsClosed DEF Noted, Safe, IndexInv
  <2>3. CASE path = Target(t)
    <3>1. ASSUME NEW x \in Noted(t, path, o)
          PROVE  IsTask(Found(t, o)) /\ ParentIsKnown(Keys(x), Found(t, o))
      <4>1. ParentIsKnown(Keys(x), t)
        BY <1>2, <1>5, <2>2 DEF ParentIsKnown
      <4> QED BY <1>2, <2>2, <2>3, <4>1, FoundOK DEF Safe
    <3>2. Indexed(i, Noted(t, path, o), Found(t, o))
      BY <1>7, <2>3 DEF Onward
    <3>3. IsTask(Found(t, o))
      BY <2>2, <3>1
    <3>4. Alone' /\ TasksInv' /\ IndexInv' /\ ~panicked'
      BY <2>2, <3>1, <3>2, <3>3, TaskIndexed
    <3> QED BY <1>3, <3>4, TypesStay DEF Safe
  <2>4. CASE path # Target(t)
    <3>1. PICK r : r = [t EXCEPT !.at = o, !.n = @ + 1]
      OBVIOUS
    <3>2. IsTask(r) /\ r.do = "walk" /\ r.n = t.n + 1 /\ r.make = << >> /\ Target(r) = Target(t)
      <4>1. t.n + 1 \in Nat
        BY <1>5
      <4>2. IsTask(r) /\ r.do = "walk" /\ r.n = t.n + 1 /\ r.make = t.make /\ r.act = t.act
            /\ r.goal = t.goal
        BY <1>2, <3>1, <4>1 DEF IsTask
      <4> QED BY <1>5, <4>2 DEF Target
    <3>3. r.n \in 1..Len(Target(r)) /\ r.n - 1 = t.n
      <4>1. t.n # Len(Target(t))
        <5>1. SubSeq(Target(t), 1, Len(Target(t))) = Target(t)
          BY <1>5, PrefixEnds
        <5> QED BY <1>4, <2>4, <5>1
      <4> QED BY <1>5, <3>2, <4>1
    <3>4. ASSUME NEW x \in Noted(t, path, o) PROVE ParentIsKnown(Keys(x), r)
      BY <1>4, <2>2, <3>2, <3>3 DEF ParentIsKnown
    <3>5. Indexed(i, Noted(t, path, o), r)
      BY <1>7, <2>4, <3>1 DEF Onward
    <3>6. Alone' /\ TasksInv' /\ IndexInv' /\ ~panicked'
      BY <2>2, <3>2, <3>4, <3>5, TaskIndexed
    <3> QED BY <1>3, <3>6, TypesStay DEF Safe
  <2> QED BY <2>3, <2>4
<1> QED BY <1>1, <1>4, <1>6, <1>7 DEF Find

\* What a call made or moved is put below its parent.
LEMMA SucceedsStep ==
  ASSUME Safe, NEW i \in DOMAIN tasks, NEW do, NEW objects, NEW xs, NEW t,
         Succeeds(i, do, objects, xs, t), xs # {},
         \A x \in xs : Closed(Keys(x)) /\ (t.do = "end" \/ ParentIsKnown(Keys(x), t)),
         IsTask(t)
  PROVE  Safe'
<1>1. UNCHANGED <<scenario, window, chain, token, parked>> /\ Indexed(i, xs, t)
  BY DEF Succeeds, session
<1> QED BY <1>1, TaskIndexed, TypesStay DEF Safe

\* A missing folder is created below one that is known.
LEMMA MakeStep ==
  ASSUME Safe, NEW i \in DOMAIN tasks, Make(i)
  PROVE  Safe'
<1>1. PICK t : t = tasks[i]
  OBVIOUS
<1>2. IsTask(t) /\ ParentIsKnown(Keys(Now), t) /\ t.do = "make"
  BY <1>1, TaskIsOK DEF Make, Succeeds
<1>3. t.make \in Seq(STRING) /\ Front(t.make) \in Keys(Now) /\ t.goal \in Goals
  BY <1>2, TaskPaths DEF ParentIsKnown
<1>4. IsPath(t.make)
  BY <1>3 DEF IsPath
<1>5. /\ Put(Now, t.make, NewId) # {}
      /\ \A x \in Put(Now, t.make, NewId) : Closed(Keys(x))
  BY <1>3, <1>4, PutIsClosed DEF Safe, IndexInv
<1>6. IsTask(Resolve(t, t.goal)) /\ \A paths : ParentIsKnown(paths, Resolve(t, t.goal))
  BY <1>2, <1>3, ResolveOK
<1>7. Succeeds(i, "make", MadeOnDrive(t), Put(Now, t.make, NewId), Resolve(t, t.goal))
  BY <1>1 DEF Make
<1> QED BY <1>5, <1>6, <1>7, SucceedsStep

\* A file is created: its folder was resolved before.
LEMMA CreateStep ==
  ASSUME Safe, NEW i \in DOMAIN tasks, Create(i)
  PROVE  Safe'
<1>1. PICK t : t = tasks[i]
  OBVIOUS
<1>2. IsTask(t) /\ ParentIsKnown(Keys(Now), t) /\ t.do = "create"
  BY <1>1, TaskIsOK DEF Create, Succeeds
<1>3. t.act.to \in Seq(STRING) /\ Front(t.act.to) \in Keys(Now) /\ t.make = << >>
  BY <1>2, TaskPaths DEF ParentIsKnown
<1>4. IsPath(t.act.to)
  BY <1>3 DEF IsPath
<1>5. /\ Put(Now, t.act.to, NewId) # {}
      /\ \A x \in Put(Now, t.act.to, NewId) : Closed(Keys(x))
  BY <1>3, <1>4, PutIsClosed DEF Safe, IndexInv
<1>6. IsTask(Uploaded(t)) /\ \A paths : ParentIsKnown(paths, Uploaded(t))
  BY <1>2, <1>3, UploadedOK
<1>7. Succeeds(i, "create", CreatedOnDrive(t), Put(Now, t.act.to, NewId), Uploaded(t))
  BY <1>1 DEF Create
<1> QED BY <1>5, <1>6, <1>7, SucceedsStep

\* A file is written: its path was resolved, so its folder is known.
LEMMA UpdateStep ==
  ASSUME Safe, NEW i \in DOMAIN tasks, Update(i)
  PROVE  Safe'
<1>1. PICK t : t = tasks[i]
  OBVIOUS
<1>2. IsTask(t) /\ ParentIsKnown(Keys(Now), t) /\ t.do = "update"
  BY <1>1, TaskIsOK DEF Update, Succeeds
<1>3. t.act.to \in Seq(STRING) /\ Front(t.act.to) \in Keys(Now) /\ t.make = << >>
  BY <1>2, TaskPaths DEF ParentIsKnown
<1>4. IsPath(t.act.to)
  BY <1>3 DEF IsPath
<1>5. /\ Put(Now, t.act.to, t.at) # {}
      /\ \A x \in Put(Now, t.act.to, t.at) : Closed(Keys(x))
  BY <1>3, <1>4, PutIsClosed DEF Safe, IndexInv
<1>6. IsTask(Uploaded(t)) /\ \A paths : ParentIsKnown(paths, Uploaded(t))
  BY <1>2, <1>3, UploadedOK
<1>7. Succeeds(i, "update", UpdatedOnDrive(t), Put(Now, t.act.to, t.at), Uploaded(t))
  BY <1>1 DEF Update
<1> QED BY <1>5, <1>6, <1>7, SucceedsStep

\* An object is moved, and the index is built anew.
LEMMA MoveStep ==
  ASSUME Safe, NEW i \in DOMAIN tasks, Move(i)
  PROVE  Safe'
<1>1. PICK t : t = tasks[i]
  OBVIOUS
<1>2. IsTask(t) /\ ParentIsKnown(Keys(Now), t) /\ t.do = "move"
  BY <1>1, TaskIsOK DEF Move, Succeeds
<1>3. Front(t.act.to) \in Keys(Now) /\ t.make = << >>
  BY <1>2 DEF ParentIsKnown
<1>4. /\ PutAndReload(Now, t.act.to, t.source) # {}
      /\ \A x \in PutAndReload(Now, t.act.to, t.source) : Closed(Keys(x))
  BY <1>3, PutAndReloadIsClosed
<1>5. IsTask(Uploaded(t)) /\ \A paths : ParentIsKnown(paths, Uploaded(t))
  BY <1>2, <1>3, UploadedOK
<1>6. Succeeds(i, "move", MovedOnDrive(t), PutAndReload(Now, t.act.to, t.source), Uploaded(t))
  BY <1>1 DEF Move
<1> QED BY <1>4, <1>5, <1>6, SucceedsStep

\* An object is deleted on Drive; the index is not touched yet.
LEMMA DeleteStep ==
  ASSUME Safe, NEW i \in DOMAIN tasks, Delete(i)
  PROVE  Safe'
<1>1. PICK t : t = tasks[i]
  OBVIOUS
<1>2. IsTask(t) /\ ParentIsKnown(Keys(Now), t) /\ t.do = "delete"
  BY <1>1, TaskIsOK DEF Delete, Succeeds
<1>3. t.make = << >>
  BY <1>2 DEF ParentIsKnown
<1>4. PICK r : r = [t EXCEPT !.do = "forget"]
  OBVIOUS
<1>5. IsTask(r) /\ ParentIsKnown(Keys(Now), r)
  <2>1. "forget" \in Dos \ {"walk", "make"} /\ "forget" \notin {"create", "update", "move"}
    BY DEF Dos
  <2> QED BY <1>2, <1>3, <1>4, <2>1, DoOK
<1>6. {Now} # {} /\ \A x \in {Now} : Closed(Keys(x)) /\ ParentIsKnown(Keys(x), r)
  BY <1>5 DEF Safe, IndexInv
<1>7. Succeeds(i, "delete", DeletedOnDrive(t), {Now}, r)
  BY <1>1, <1>4 DEF Delete
<1> QED BY <1>5, <1>6, <1>7, SucceedsStep

\* What was deleted is taken out, and the index is built anew.
LEMMA ForgetStep ==
  ASSUME Safe, NEW i \in DOMAIN tasks, Forget(i)
  PROVE  Safe'
<1>1. PICK t : t = tasks[i]
  OBVIOUS
<1>2. IsTask(t) /\ ParentIsKnown(Keys(Now), t) /\ t.do = "forget"
  BY <1>1, TaskIsOK DEF Forget
<1>3. t.make = << >>
  BY <1>2 DEF ParentIsKnown
<1>4. IsTask(Ended(t)) /\ Ended(t).do = "end"
  BY <1>2, <1>3, EndedOK
<1>5. Removed(Now, t.act.to) # {} /\ \A x \in Removed(Now, t.act.to) : Closed(Keys(x))
  BY RemovedIsClosed
<1>6. /\ UNCHANGED <<scenario, window, chain, token, parked>>
      /\ Indexed(i, Removed(Now, t.act.to), Ended(t))
  BY <1>1 DEF Forget, session
<1>7. Alone' /\ TasksInv' /\ IndexInv' /\ ~panicked'
  BY <1>4, <1>5, <1>6, TaskIndexed
<1> QED BY <1>6, <1>7, TypesStay DEF Safe

\* A task that ends, the index as it is.
LEMMA TaskEnds ==
  ASSUME Safe, NEW i \in DOMAIN tasks, Goes(i, Ended(tasks[i])), UNCHANGED byPath
  PROVE  Alone' /\ TasksInv' /\ IndexInv'
<1>1. Keys(Now)' = Keys(Now)
  BY KeysStay
<1>2. IsTask(tasks[i]) /\ ParentIsKnown(Keys(Now), tasks[i])
  BY TaskIsOK
<1>3. tasks[i].make # << >> => Front(tasks[i].make) \in Keys(Now)
  BY <1>2 DEF ParentIsKnown
<1>4. IsTask(Ended(tasks[i])) /\ Ended(tasks[i]).do = "end"
  BY <1>2, <1>3, EndedOK
<1> QED BY <1>1, <1>4, TaskGoes DEF Safe, IndexInv

\* Drive refuses a call: the task ends.
LEMMA RefusedStep ==
  ASSUME Safe, NEW i \in DOMAIN tasks, Refused(i)
  PROVE  Safe'
<1>1. /\ UNCHANGED <<scenario, window, chain, token, parked, panicked, byPath>>
      /\ Goes(i, Ended(tasks[i]))
  BY DEF Refused, session, index
<1> QED BY <1>1, TaskEnds, TypesStay DEF Safe

\* A call fails, or its answer is lost: the task ends.
LEMMA FailsStep ==
  ASSUME Safe, NEW i \in DOMAIN tasks, Fails(i)
  PROVE  Safe'
<1>1. /\ UNCHANGED <<scenario, window, chain, token, parked, panicked, byPath>>
      /\ Goes(i, Ended(tasks[i]))
  BY DEF Fails, session, index
<1> QED BY <1>1, TaskEnds, TypesStay DEF Safe

\* A 401: the task ends and its action is parked.
LEMMA UnauthorizedStep ==
  ASSUME Safe, NEW i \in DOMAIN tasks, Unauthorized(i)
  PROVE  Safe'
<1>1. /\ UNCHANGED <<scenario, window, chain, token, panicked, byPath>>
      /\ Goes(i, Ended(tasks[i])) /\ parked' = Append(parked, tasks[i].act)
  BY DEF Unauthorized, index
<1>2. tasks[i].act \in SyncActions
  BY TaskIsOK, TaskPaths
<1>3. TypeOK'
  BY <1>1, <1>2 DEF Safe, TypeOK
<1> QED BY <1>1, <1>3, TaskEnds DEF Safe

\* Any step of a task is safe.
LEMMA TaskStepSafe ==
  ASSUME Safe, NEW i \in DOMAIN tasks, TaskStep(i) \/ Fails(i)
  PROVE  Safe'
BY LookStep, PassByStep, FindStep, MakeStep, CreateStep, UpdateStep, MoveStep, DeleteStep,
   ForgetStep, RefusedStep, UnauthorizedStep, FailsStep
DEF TaskStep

\* A window ends: its tasks are fresh.
LEMMA WindowEndsStep ==
  ASSUME Safe, WindowEnds
  PROVE  Safe'
<1>1. /\ window < Len(scenario.windows) /\ window' = window + 1
      /\ UNCHANGED <<scenario, tasks, token, parked, panicked, byPath>>
  BY DEF WindowEnds, session, index
<1>2. PICK actions : actions = scenario.windows[window + 1].actions
  OBVIOUS
<1>3. chain' = Append([i \in DOMAIN actions |-> Started(actions[i], token)], Save)
  BY <1>2 DEF WindowEnds
<1>4. window + 1 \in 1..Len(scenario.windows) /\ actions \in Seq(SyncActions)
  BY <1>1, <1>2, ArchiveAssumption DEF Safe, TypeOK
<1>5. PICK begun : begun = [i \in DOMAIN actions |-> Started(actions[i], token)]
  OBVIOUS
<1>6. begun \in Seq({Save} \union Fresh)
  <2>1. \A i \in DOMAIN actions : Started(actions[i], token) \in Fresh
    <3>1. \A i \in DOMAIN actions : actions[i] \in SyncActions
      BY <1>4
    <3> QED BY <3>1 DEF Safe, TypeOK, Fresh
  <2>2. DOMAIN actions = 1..Len(actions) /\ Len(actions) \in Nat
    BY <1>4
  <2> QED BY <1>5, <2>1, <2>2
<1>7. chain' \in Seq({Save} \union Fresh)
  BY <1>3, <1>5, <1>6
<1>8. TypeOK'
  BY <1>1, <1>4, <1>7 DEF Safe, TypeOK
<1>9. Keys(Now)' = Keys(Now)
  BY <1>1, KeysStay
<1> QED BY <1>1, <1>8, <1>9 DEF Safe, Alone, IndexInv, TasksInv

\* One task at a time: when there are two, it is a race.
LEMMA OneTask ==
  ASSUME NEW S, IsFiniteSet(S), ~(Cardinality(S) > 1)
  PROVE  \A i, j \in S : i = j
<1>1. ASSUME NEW i \in S, NEW j \in S, i # j PROVE FALSE
  <2>1. IsFiniteSet(S \ {i}) /\ Cardinality(S \ {i}) = Cardinality(S) - 1
    BY FS_RemoveElement
  <2>2. Cardinality(S) \in Nat /\ Cardinality(S \ {i}) \in Nat
    BY <2>1, FS_CardinalityType
  <2>3. S \ {i} # {}
    BY <1>1
  <2>4. Cardinality(S \ {i}) # 0
    BY <2>1, <2>3, FS_EmptySet
  <2> QED BY <2>1, <2>2, <2>4
<1> QED BY <1>1

\* Without a race there is one task at most.
LEMMA NoRace ==
  ASSUME NEW ts, Races(ts), "race" \notin past', IsFiniteSet(DOMAIN ts)
  PROVE  \A i, j \in DOMAIN ts : i = j
<1>1. ~(Cardinality(DOMAIN ts) > 1)
  BY DEF Races, Happens
<1> QED BY <1>1, OneTask

\* One task at most is finitely many.
LEMMA TasksFinite ==
  ASSUME Safe
  PROVE  IsFiniteSet(DOMAIN tasks)
<1>1. CASE DOMAIN tasks = {}
  BY <1>1, FS_EmptySet
<1>2. CASE DOMAIN tasks # {}
  <2>1. PICK i : DOMAIN tasks = {i}
    BY <1>2 DEF Safe, Alone
  <2> QED BY <2>1, FS_Singleton
<1> QED BY <1>1, <1>2

\* The next task of the chain begins, or the index is saved.
LEMMA NextOfChainStep ==
  ASSUME Safe, NextOfChain, "race" \notin past'
  PROVE  Safe'
<1>1. /\ chain # << >> /\ chain' = Tail(chain)
      /\ UNCHANGED <<scenario, window, token, parked, panicked, byPath>>
  BY DEF NextOfChain, session, index
<1>2. Head(chain) \in {Save} \union Fresh /\ chain' \in Seq({Save} \union Fresh)
  BY <1>1 DEF Safe, TypeOK
<1>3. TypeOK'
  BY <1>1, <1>2 DEF Safe, TypeOK
<1>4. Keys(Now)' = Keys(Now)
  BY <1>1, KeysStay
<1>5. CASE Head(chain) = Save
  <2>1. UNCHANGED tasks
    BY <1>5 DEF NextOfChain
  <2> QED BY <1>1, <1>3, <1>4, <2>1 DEF Safe, Alone, IndexInv, TasksInv
<1>6. CASE Head(chain) # Save
  <2>1. tasks' = With(tasks, InChain, Head(chain)) /\ Races(tasks')
    BY <1>6 DEF NextOfChain
  <2>2. PICK act \in SyncActions, n \in Nat : Head(chain) = Started(act, n)
    BY <1>2, <1>6 DEF Fresh
  <2>3. IsTask(Head(chain)) /\ ParentIsKnown(Keys(Now), Head(chain))
    BY <2>2, StartedOK
  <2>4. /\ DOMAIN tasks' = DOMAIN tasks \union {InChain}
        /\ \A j \in DOMAIN tasks' : tasks'[j] = IF j = InChain THEN Head(chain) ELSE tasks[j]
    BY <2>1 DEF With
  <2>5. IsFiniteSet(DOMAIN tasks')
    BY <2>4, TasksFinite, FS_AddElement
  <2>6. Alone'
    BY <2>1, <2>5, NoRace DEF Alone
  <2>7. TasksInv'
    <3>1. ASSUME NEW j \in DOMAIN tasks'
          PROVE  IsTask(tasks'[j]) /\ ParentIsKnown(Keys(Now)', tasks'[j])
      BY <1>4, <2>3, <2>4, TaskIsOK
    <3> QED BY <3>1 DEF TasksInv
  <2> QED BY <1>1, <1>3, <1>4, <2>6, <2>7 DEF Safe, IndexInv
<1> QED BY <1>5, <1>6

\* A token expires: nothing else changes.
LEMMA TokenExpiresStep ==
  ASSUME Safe, TokenExpires
  PROVE  Safe'
<1>1. UNCHANGED <<scenario, window, chain, tasks, token, parked, panicked, byPath>>
  BY DEF TokenExpires, index
<1> QED BY <1>1, TypesStay, KeysStay DEF Safe, Alone, IndexInv, TasksInv

\* What is parked starts again; without a race it is one action, and no other runs.
LEMMA RefreshedStep ==
  ASSUME Safe, Refreshed, "race" \notin past'
  PROVE  Safe'
<1>1. /\ token' = token + 1 /\ parked' = << >> /\ Races(tasks')
      /\ UNCHANGED <<scenario, window, chain, panicked, byPath>>
  BY DEF Refreshed, index
<1>2. PICK retried : retried = {<<token', j>> : j \in DOMAIN parked}
  OBVIOUS
<1>3. tasks' = [k \in DOMAIN tasks \union retried |->
                  IF k \in DOMAIN tasks THEN tasks[k] ELSE Started(parked[k[2]], token')]
  BY <1>2 DEF Refreshed
<1>4. TypeOK'
  BY <1>1 DEF Safe, TypeOK
<1>5. Keys(Now)' = Keys(Now)
  BY <1>1, KeysStay
<1>6. DOMAIN parked = 1..Len(parked) /\ Len(parked) \in Nat /\ token' \in Nat
  BY <1>1 DEF Safe, TypeOK
<1>7. IsFiniteSet(DOMAIN tasks')
  <2>1. IsFiniteSet(DOMAIN parked)
    BY <1>6, FS_Interval
  <2>2. IsFiniteSet(retried)
    <3>1. PICK n : n = token'
      OBVIOUS
    <3>2. retried = {<<n, j>> : j \in DOMAIN parked}
      BY <1>2, <3>1
    <3>3. PICK f : f = [j \in DOMAIN parked |-> <<n, j>>]
      OBVIOUS
    <3>4. f \in [DOMAIN parked -> retried] /\ \A k \in retried : \E j \in DOMAIN parked : f[j] = k
      BY <3>2, <3>3
    <3>5. f \in Surjection(DOMAIN parked, retried)
      BY <3>4 DEF Surjection
    <3> QED BY <2>1, <3>5, FS_Surjection
  <2> QED BY <1>3, <2>2, TasksFinite, FS_Union
<1>8. Alone'
  BY <1>1, <1>7, NoRace DEF Alone
<1>9. TasksInv'
  <2>1. ASSUME NEW k \in DOMAIN tasks'
        PROVE  IsTask(tasks'[k]) /\ ParentIsKnown(Keys(Now)', tasks'[k])
    <3>1. CASE k \in DOMAIN tasks
      BY <1>3, <1>5, <3>1, TaskIsOK
    <3>2. CASE k \notin DOMAIN tasks
      <4>1. PICK j \in DOMAIN parked : k = <<token', j>>
        BY <1>2, <1>3, <3>2
      <4>2. tasks'[k] = Started(parked[j], token') /\ parked[j] \in SyncActions
        BY <1>3, <3>2, <4>1 DEF Safe, TypeOK
      <4> QED BY <1>6, <4>2, StartedOK
    <3> QED BY <3>1, <3>2
  <2> QED BY <2>1 DEF TasksInv
<1> QED BY <1>1, <1>4, <1>5, <1>8, <1>9 DEF Safe, IndexInv

\* After a restart the index is built from the file, whatever is in it.
LEMMA RestartStep ==
  ASSUME Safe, Restart
  PROVE  Safe'
<1>1. /\ chain' = << >> /\ tasks' = << >> /\ parked' = << >> /\ token' = token + 1
      /\ UNCHANGED <<scenario, window, panicked>>
  BY DEF Restart
<1>2. PICK x \in Reloaded(saved) : Becomes(x)
  BY DEF Restart
<1>3. Keys(Now)' = Keys(x)
  BY <1>2 DEF Becomes, Keys, Now
<1>4. IndexInv'
  BY <1>2, <1>3, ReloadedIsClosed DEF IndexInv
<1>5. TypeOK'
  BY <1>1 DEF Safe, TypeOK
<1>6. DOMAIN tasks' = {}
  BY <1>1
<1> QED BY <1>1, <1>4, <1>5, <1>6 DEF Safe, Alone, TasksInv

-----------------------------------------------------------------------------
\* What there has been stays in the history.
LEMMA PastGrows ==
  ASSUME [Next]_vars
  PROVE  past \subseteq past'
<1>1. \A what : Happens(what) => past \subseteq past'
  BY DEF Happens
<1>2. ASSUME NEW i \in DOMAIN tasks, TaskStep(i) PROVE past \subseteq past'
  <2>1. CASE Look(i)
    BY <2>1 DEF Look, history
  <2>2. CASE PassBy(i)
    BY <2>2 DEF PassBy, history
  <2>3. CASE Find(i)
    BY <2>3 DEF Find, history
  <2>4. CASE Make(i) \/ Create(i) \/ Update(i) \/ Delete(i)
    BY <2>4 DEF Make, Create, Update, Delete, history
  <2>8. CASE Move(i)
    BY <2>8 DEF Move
  <2>5. CASE Forget(i)
    BY <2>5 DEF Forget, history
  <2>6. CASE Refused(i)
    BY <2>6 DEF Refused, history
  <2>7. CASE Unauthorized(i)
    BY <2>7 DEF Unauthorized, history
  <2> QED BY <1>2, <2>1, <2>2, <2>3, <2>4, <2>5, <2>6, <2>7, <2>8 DEF TaskStep
<1>3. ASSUME NEW i \in DOMAIN tasks, Fails(i) PROVE past \subseteq past'
  BY <1>1, <1>3 DEF Fails
<1>4. CASE WindowEnds
  BY <1>4 DEF WindowEnds
<1>5. CASE NextOfChain
  BY <1>1, <1>5 DEF NextOfChain, Races, history
<1>6. CASE TokenExpires
  BY <1>6 DEF TokenExpires, history
<1>7. CASE Refreshed
  <2>1. Races(tasks')
    BY <1>7 DEF Refreshed
  <2> QED BY <1>1, <2>1 DEF Races
<1>8. CASE Restart
  BY <1>1, <1>8 DEF Restart
<1>9. CASE UNCHANGED vars
  BY <1>9 DEF vars, history
<1> QED BY <1>2, <1>3, <1>4, <1>5, <1>6, <1>7, <1>8, <1>9 DEF Next

\* The initial sync leaves an index that is closed upwards.
LEMMA InitSafe ==
  ASSUME Init
  PROVE  Safe
<1>1. /\ scenario \in Scenarios /\ window = 0 /\ chain = << >> /\ tasks = << >> /\ parked = << >>
      /\ token = 1 /\ panicked = FALSE
  BY DEF Init
<1>2. DOMAIN byPath = DOMAIN scenario.before
  BY DEF Init
<1>3. IsTree(scenario.before) /\ Len(scenario.windows) \in Nat
  BY <1>1, ArchiveAssumption
<1>4. TypeOK
  BY <1>1, <1>3 DEF TypeOK
<1>5. Closed(Keys(Now))
  <2>1. IsPath(<< >>)
    <3>1. << >> \in Seq({})
      OBVIOUS
    <3> QED BY <3>1 DEF IsPath
  <2>2. \A p \in DOMAIN byPath : IsPath(p) /\ Front(p) \in DOMAIN byPath \union {<< >>}
    BY <1>2, <1>3 DEF IsTree, Paths, IsPath
  <2> QED BY <2>1, <2>2 DEF Closed, Keys, Now
<1>6. DOMAIN tasks = {}
  BY <1>1
<1> QED BY <1>1, <1>4, <1>5, <1>6 DEF Safe, Alone, IndexInv, TasksInv

\* Every step keeps the invariant.
LEMMA SafeStep ==
  ASSUME Inv, [Next]_vars
  PROVE  Inv'
<1> SUFFICES ASSUME "race" \notin past'
             PROVE  Safe'
  BY DEF Inv
<1>1. Safe
  BY PastGrows DEF Inv
<1>2. CASE UNCHANGED vars
  <2>1. UNCHANGED <<scenario, window, chain, tasks, token, parked, panicked, byPath>>
    BY <1>2 DEF vars, session, index
  <2> QED BY <1>1, <2>1, TypesStay, KeysStay DEF Safe, Alone, IndexInv, TasksInv
<1> QED BY <1>1, <1>2, TaskStepSafe, WindowEndsStep, NextOfChainStep, TokenExpiresStep,
           RefreshedStep, RestartStep
        DEF Next

(* A task panics only if two have run at the same time: get_parent_id finds the parent   *)
(* of all that a task puts into the index, whatever calls fail, answers are lost, tokens *)
(* expire, or restarts there are.                                                        *)
THEOREM PanicsNeedARace == Spec => []PanicNeedsRace
<1>1. Init => Inv
  BY InitSafe DEF Inv
<1>2. Inv /\ [Next]_vars => Inv'
  BY SafeStep
<1>3. Inv => PanicNeedsRace
  BY DEF Inv, Safe, PanicNeedsRace
<1> QED BY <1>1, <1>2, <1>3, PTL DEF Spec
-----------------------------------------------------------------------------
(* What a task is about to create *)

\* There is no folder, and no file, of the name below the id.
NoFolder(ds, at, name) == \A o \in Children(ds, at) : ds[o].name = name => ds[o].content # Folder
NoFile(ds, at, name) == \A o \in Children(ds, at) : ds[o].name = name => ds[o].content = Folder

\* What a task is about to create is not in the index, and nothing of its kind is there on
\* Drive.
IsNew(ds, x, t) ==
  /\ t.make # << >> => /\ ~Known(x, t.make) /\ t.goal \in {"newParent", "file", "folder"}
                       /\ NoFolder(ds, IdOf(x, Front(t.make)), Last(t.make))
  /\ t.make = << >> /\ t.goal = "fileParent" =>
       /\ ~Known(x, t.act.to) /\ Known(x, Front(t.act.to)) /\ t.do \in {"look", "create"}
       /\ NoFile(ds, IdOf(x, Front(t.act.to)), Last(t.act.to))

\* The id a task has in hand is that of the path it stands for.
Placed(ds, x, t) ==
  /\ Len(t.make) <= 3
  /\ t.do = "walk" => /\ t.at = IdOf(x, SubSeq(Target(t), 1, t.n - 1))
                      /\ ~Known(x, Target(t))
  /\ t.do = "make" => t.at = IdOf(x, Front(t.make))
  /\ t.do \in {"create", "move"} => t.at = IdOf(x, Front(t.act.to))
  /\ t.do \in {"update", "delete"} => Known(x, t.act.to) /\ t.at = IdOf(x, t.act.to)
  /\ t.do = "create" => t.goal = "fileParent" /\ t.make = << >>
  /\ IsNew(ds, x, t)

\* What is uploaded is a file.
HasFile(t) == t.do \in {"create", "update"} => IsFile(t.act.to)

Settled == \A i \in DOMAIN tasks : Placed(drive, Now, tasks[i]) /\ HasFile(tasks[i])
SettledInv == "race" \notin past => Settled

\* A path is its front with its last name.
LEMMA FrontAndLast ==
  ASSUME NEW S, NEW p \in Seq(S), p # << >>
  PROVE  /\ p = Append(Front(p), Last(p)) /\ Front(p) \in Seq(S)
         /\ Len(p) \in Nat \ {0} /\ Len(Front(p)) = Len(p) - 1
<1>1. Len(p) \in Nat \ {0} /\ \A i \in 1..Len(p) : p[i] \in S
  BY EmptySeq, ElementOfSeq
<1>2. /\ Front(p) \in Seq(S) /\ Len(Front(p)) = Len(p) - 1
      /\ \A i \in 1..Len(p) - 1 : Front(p)[i] = p[i]
  <2>1. PICK m \in Nat : m = Len(p) - 1
    BY <1>1
  <2>2. \A i \in 1..m : p[i] \in S
    BY <1>1, <2>1
  <2>3. /\ SubSeq(p, 1, m) \in Seq(S)
        /\ Len(SubSeq(p, 1, m)) = IF 1 <= m THEN m - 1 + 1 ELSE 0
        /\ \A i \in 1..m - 1 + 1 : SubSeq(p, 1, m)[i] = p[1 + i - 1]
    BY <2>1, <2>2, SubSeqProperties
  <2> QED BY <2>1, <2>3 DEF Front
<1>3. Last(p) = p[Len(p)] /\ Last(p) \in S
  BY <1>1 DEF Last
<1>4. PICK q : q = Append(Front(p), Last(p))
  OBVIOUS
<1>5. /\ q \in Seq(S) /\ Len(q) = Len(p) /\ q[Len(p)] = Last(p)
      /\ \A i \in 1..Len(p) - 1 : q[i] = Front(p)[i]
  BY <1>1, <1>2, <1>3, <1>4, AppendProperties
<1>6. \A i \in 1..Len(p) : p[i] = q[i]
  <2> TAKE i \in 1..Len(p)
  <2>1. CASE i = Len(p)
    BY <2>1, <1>3, <1>5
  <2>2. CASE i # Len(p)
    <3>1. i \in 1..Len(p) - 1
      BY <2>2, <1>1
    <3> QED BY <3>1, <1>2, <1>5
  <2> QED BY <2>1, <2>2
<1>7. p = q
  BY <1>5, <1>6, SeqEqual
<1> QED BY <1>1, <1>2, <1>4, <1>7

\* What put_file_id changes.
LEMMA PutIs ==
  ASSUME NEW x, NEW path, NEW o, NEW y \in Put(x, path, o)
  PROVE  /\ Known(x, Front(path)) /\ y = [entries |-> y.entries, byPath |-> y.byPath]
         /\ DOMAIN y.entries = DOMAIN x.entries \union {o}
         /\ y.entries[o].parent = IdOf(x, Front(path)) /\ y.entries[o].name = Last(path)
         /\ \A a \in DOMAIN x.entries : a # o => y.entries[a] = x.entries[a]
         /\ DOMAIN y.byPath = DOMAIN x.byPath \union {path} /\ y.byPath[path] = o
         /\ \A p \in DOMAIN x.byPath : p # path => y.byPath[p] = x.byPath[p]
<1>1. Known(x, Front(path))
  BY DEF Put
<1>2. PICK e : e = [parent |-> IdOf(x, Front(path)), name |-> Last(path),
                    isDir |-> IsDir(path)]
  OBVIOUS
<1>3. y = [entries |-> With(x.entries, o, e), byPath |-> With(x.byPath, path, o)]
  BY <1>1, <1>2 DEF Put
<1>4. y.entries = With(x.entries, o, e) /\ y.byPath = With(x.byPath, path, o)
  BY <1>3
<1>5. e.parent = IdOf(x, Front(path)) /\ e.name = Last(path)
  BY <1>2
<1>6. /\ DOMAIN y.entries = DOMAIN x.entries \union {o} /\ y.entries[o] = e
      /\ \A a \in DOMAIN x.entries : a # o => y.entries[a] = x.entries[a]
  BY <1>4 DEF With
<1>7. /\ DOMAIN y.byPath = DOMAIN x.byPath \union {path} /\ y.byPath[path] = o
      /\ \A p \in DOMAIN x.byPath : p # path => y.byPath[p] = x.byPath[p]
  BY <1>4 DEF With
<1> QED BY <1>1, <1>2, <1>3, <1>4, <1>5, <1>6, <1>7

\* No path of a task is longer than paths are.
LEMMA TaskLengths ==
  ASSUME NEW t, IsTask(t), Len(t.make) <= 3
  PROVE  Len(t.act.to) <= 3 /\ Len(t.act.from) <= 3 /\ Len(Target(t)) <= 3
<1>1. /\ t.act.to \in Seq(STRING) /\ t.act.from \in Seq(STRING) /\ t.make \in Seq(STRING)
      /\ t.goal \in Goals
  BY TaskPaths
<1>2. Len(t.act.to) <= 3 /\ Len(t.act.from) <= 3
  BY TaskPaths DEF SyncActions, Paths
<1>3. ASSUME NEW p \in Seq(STRING), Len(p) <= 3 PROVE Len(Front(p)) <= 3
  <2>1. CASE p = << >>
    BY <2>1, <1>3, FrontOfPath
  <2>2. CASE p # << >>
    <3>1. Len(Front(p)) = Len(p) - 1 /\ Len(p) \in Nat
      BY <2>2, FrontAndLast
    <3> QED BY <1>3, <3>1
  <2> QED BY <2>1, <2>2
<1>4. CASE t.make # << >>
  BY <1>1, <1>2, <1>3, <1>4 DEF Target
<1>5. CASE t.make = << >>
  BY <1>1, <1>2, <1>3, <1>5 DEF Target, Goals
<1> QED BY <1>2, <1>4, <1>5

\* A task that looks for what it will create, or is about to create it, is about to create
\* the same.
LEMMA SameIsNew ==
  ASSUME NEW ds, NEW x, NEW t, IsNew(ds, x, t), NEW r, r.make = t.make, r.act = t.act,
         r.goal = t.goal,
         r.do = t.do \/ r.do \in {"look", "create"} \/ t.make # << >>
  PROVE  IsNew(ds, x, r)
BY DEF IsNew

\* A task that begins to resolve a path has nothing in hand.
LEMMA NothingInHand ==
  ASSUME NEW t, t.do = "look", t.make = << >>, t.goal # "fileParent"
  PROVE  HasFile(t) /\ \A ds, x : Placed(ds, x, t)
<1>1. Len(t.make) <= 3
  <2>1. Len(<< >>) = 0
    OBVIOUS
  <2> QED BY <2>1
<1> QED BY <1>1 DEF Placed, IsNew, HasFile

\* A task that finds its path in the index has its id in hand.
LEMMA FoundIsPlaced ==
  ASSUME NEW t, IsTask(t), Len(t.make) <= 3, NEW ds, NEW x, IsNew(ds, x, t),
         Known(x, Target(t)), NEW id, id = IdOf(x, Target(t))
  PROVE  LET r == Found(t, id)
         IN r.do # "forget" /\ (r.do = "end" \/ (Placed(ds, x, r) /\ HasFile(r)))
<1>0. PICK s : s = [t EXCEPT !.at = id]
  OBVIOUS
<1>1. IsTask(s) /\ s.act = t.act /\ s.make = t.make /\ s.goal = t.goal /\ s.at = id
  BY <1>0 DEF IsTask
<1>2. CASE t.make # << >>
  <2>1. PICK r : r = [s EXCEPT !.do = "make"]
    OBVIOUS
  <2>2. Found(t, id) = r /\ Target(t) = Front(t.make)
    BY <1>0, <1>2, <2>1 DEF Found, Target
  <2>3. r.do = "make" /\ r.make = t.make /\ r.at = id /\ r.act = t.act /\ r.goal = t.goal
    BY <1>1, <2>1 DEF IsTask
  <2>4. IsNew(ds, x, r)
    BY <1>2, <2>3, SameIsNew
  <2> QED BY <2>2, <2>3, <2>4 DEF Placed, HasFile
<1>3. CASE t.make = << >>
  <2>1. s.make = << >> /\ Len(<< >>) <= 3
    BY <1>1, <1>3
  <2>2. ASSUME NEW d \in {"delete", "move", "update", "create"}, NEW r, r = [s EXCEPT !.do = d]
        PROVE  r.do = d /\ r.make = << >> /\ r.at = id /\ r.act = t.act /\ r.goal = t.goal
    BY <1>1, <2>1, <2>2 DEF IsTask
  <2>3. ASSUME NEW u, IsTask(u), NEW goal \in {"oldParent", "newParent"}
        PROVE  /\ Resolve(u, goal).do = "look"
               /\ Placed(ds, x, Resolve(u, goal)) /\ HasFile(Resolve(u, goal))
    <3>1. PICK r : r = Resolve(u, goal)
      OBVIOUS
    <3>2. r.do = "look" /\ r.make = << >> /\ r.goal = goal
      BY <2>3, <3>1 DEF Resolve, IsTask
    <3> QED BY <3>1, <3>2, NothingInHand
  <2>4. ASSUME t.goal # "fileParent", NEW r, r.make = << >>, r.goal = t.goal
        PROVE  IsNew(ds, x, r)
    BY <2>4 DEF IsNew
  <2>5. CASE t.goal = "source"
    <3>1. CASE Deletes(t.act)
      <4>1. PICK r : r = [s EXCEPT !.do = "delete"]
        OBVIOUS
      <4>2. Found(t, id) = r /\ Target(t) = t.act.from
        BY <1>0, <1>3, <2>5, <3>1, <4>1 DEF Found, Target
      <4>3. t.act.from = t.act.to
        BY <3>1, TaskPaths DEF SyncActions
      <4>4. r.do = "delete" /\ r.make = << >> /\ r.at = id /\ r.act = t.act /\ r.goal = t.goal
        BY <2>2, <4>1
      <4>5. IsNew(ds, x, r)
        BY <2>4, <2>5, <4>4
      <4> QED BY <2>1, <4>2, <4>3, <4>4, <4>5 DEF Placed, HasFile
    <3>2. CASE ~Deletes(t.act)
      <4>1. Found(t, id) = Resolve([s EXCEPT !.source = id], "oldParent")
        BY <1>0, <1>3, <2>5, <3>2 DEF Found
      <4>2. IsTask([s EXCEPT !.source = id])
        BY <1>1 DEF IsTask
      <4> QED BY <2>3, <4>1, <4>2
    <3> QED BY <3>1, <3>2
  <2>6. CASE t.goal = "oldParent"
    <3>1. Found(t, id) = Resolve([s EXCEPT !.old = id], "newParent")
      BY <1>0, <1>3, <2>6 DEF Found
    <3>2. IsTask([s EXCEPT !.old = id])
      BY <1>1 DEF IsTask
    <3> QED BY <2>3, <3>1, <3>2
  <2>7. CASE t.goal = "newParent"
    <3>1. PICK r : r = [s EXCEPT !.do = "move"]
      OBVIOUS
    <3>2. Found(t, id) = r /\ Target(t) = Front(t.act.to)
      BY <1>0, <1>3, <2>7, <3>1 DEF Found, Target
    <3>3. r.do = "move" /\ r.make = << >> /\ r.at = id /\ r.act = t.act /\ r.goal = t.goal
      BY <2>2, <3>1
    <3>4. IsNew(ds, x, r)
      BY <2>4, <2>7, <3>3
    <3> QED BY <2>1, <3>2, <3>3, <3>4 DEF Placed, HasFile
  <2>9. ASSUME NEW d PROVE ~IsFile(t.act.to) => Read(s, d).do = "end"
    BY <1>1 DEF Read, Ended, IsTask
  <2>10. CASE t.goal = "file"
    <3>1. PICK r : r = [s EXCEPT !.do = "update"]
      OBVIOUS
    <3>2. Found(t, id) = Read(s, "update") /\ Target(t) = t.act.to
      BY <1>0, <1>3, <2>10 DEF Found, Target
    <3>3. r.do = "update" /\ r.make = << >> /\ r.at = id /\ r.act = t.act /\ r.goal = t.goal
      BY <2>2, <3>1
    <3>4. CASE IsFile(t.act.to)
      <4>1. Read(s, "update") = r
        BY <1>1, <3>1, <3>4 DEF Read
      <4>2. IsNew(ds, x, r)
        BY <2>4, <2>10, <3>3
      <4> QED BY <2>1, <3>2, <3>3, <3>4, <4>1, <4>2 DEF Placed, HasFile
    <3> QED BY <2>9, <3>2, <3>4
  <2>11. CASE t.goal = "fileParent"
    <3>1. PICK r : r = [s EXCEPT !.do = "create"]
      OBVIOUS
    <3>2. Found(t, id) = Read(s, "create") /\ Target(t) = Front(t.act.to)
      BY <1>0, <1>3, <2>11 DEF Found, Target
    <3>3. r.do = "create" /\ r.make = << >> /\ r.at = id /\ r.act = t.act /\ r.goal = t.goal
      BY <2>2, <3>1
    <3>4. CASE IsFile(t.act.to)
      <4>1. Read(s, "create") = r
        BY <1>1, <3>1, <3>4 DEF Read
      <4>2. IsNew(ds, x, r)
        BY <1>3, <3>3, SameIsNew
      <4> QED BY <2>1, <2>11, <3>2, <3>3, <3>4, <4>1, <4>2 DEF Placed, HasFile
    <3> QED BY <2>9, <3>2, <3>4
  <2>12. CASE t.goal = "folder"
    <3>1. Found(t, id).do = "end"
      BY <1>0, <1>1, <1>3, <2>12 DEF Found, Ended, IsTask
    <3> QED BY <3>1
  <2> QED BY <2>5, <2>6, <2>7, <2>10, <2>11, <2>12, TaskPaths DEF Goals
<1> QED BY <1>2, <1>3

\* What a task relies on when it walks.
LEMMA WalkIs ==
  ASSUME NEW t, IsTask(t), NEW paths, ParentIsKnown(paths, t), t.do = "walk",
         NEW path, path = SubSeq(Target(t), 1, t.n)
  PROVE  /\ t.n \in 1..Len(Target(t)) /\ t.n \in Nat /\ t.make = << >>
         /\ Target(t) \in Seq(STRING) /\ Len(Target(t)) \in 0..3
         /\ path \in Seq(STRING) /\ path # << >> /\ Len(path) <= 3
         /\ Front(path) = SubSeq(Target(t), 1, t.n - 1) /\ Front(path) \in paths
         /\ path = Target(t) <=> t.n = Len(Target(t))
<1>1. /\ t.n \in 1..Len(Target(t)) /\ t.make = << >> /\ Target(t) \in Seq(STRING)
      /\ SubSeq(Target(t), 1, t.n - 1) \in paths
  BY TaskPaths DEF ParentIsKnown
<1>2. PICK whole \in Seq(STRING) : whole = Target(t)
  BY <1>1
<1>3. path \in Seq(STRING) /\ path # << >> /\ Front(path) = SubSeq(whole, 1, t.n - 1)
  BY <1>1, <1>2, FrontOfPrefix
<1>4. PICK m \in Nat : m = Len(whole) /\ m <= 3
  <2>1. Len(<< >>) <= 3 /\ Len(whole) \in Nat
    OBVIOUS
  <2>2. Len(Target(t)) <= 3
    BY <1>1, <2>1, TaskLengths
  <2> QED BY <1>2, <2>1, <2>2
<1>5. PICK n \in Nat : n = t.n /\ n >= 1 /\ n <= m
  <2>1. t.n \in 1..m
    BY <1>1, <1>2, <1>4
  <2> QED BY <2>1
<1>6. \A k \in 1..n : whole[k] \in STRING
  BY <1>4, <1>5, ElementOfSeq
<1>a. n <= 3
  BY <1>4, <1>5
<1>7. Len(SubSeq(whole, 1, n)) = IF 1 <= n THEN n - 1 + 1 ELSE 0
  BY <1>6, SubSeqProperties
<1>8. Len(path) = n /\ n \in Nat
  BY <1>2, <1>5, <1>7
<1>9. n = Len(whole) => path = whole
  BY <1>2, <1>5, PrefixEnds
<1>b. path = whole <=> n = m
  BY <1>4, <1>8, <1>9
<1>c. Len(Target(t)) = m /\ m \in 0..3 /\ (path = Target(t) <=> t.n = m)
  <2>1. Len(Target(t)) = m
    BY <1>2, <1>4
  <2>2. m \in 0..3
    BY <1>4
  <2>3. path = Target(t) <=> t.n = m
    BY <1>2, <1>5, <1>b
  <2> QED BY <2>1, <2>2, <2>3
<1>d. Len(path) <= 3 /\ t.n \in Nat
  BY <1>5, <1>8, <1>a
<1>e. Front(path) = SubSeq(Target(t), 1, t.n - 1)
  BY <1>2, <1>3
<1> QED BY <1>1, <1>3, <1>c, <1>d, <1>e

\* A task that finds nothing at the nth name of its path, which is not in the index, creates
\* it where nothing is.
LEMMA MissingIsPlaced ==
  ASSUME NEW t, IsTask(t), ParentIsKnown(Keys(Now), t), t.do = "walk", ~PassesBy(t),
         Placed(drive, Now, t), NEW path, path = SubSeq(Target(t), 1, t.n),
         Hits(t, Last(path)) = {}
  PROVE  LET r == Missing(t, path)
         IN r.do = "end" \/ (Placed(drive, Now, r) /\ HasFile(r))
<1>1. /\ t.n \in 1..Len(Target(t)) /\ t.n \in Nat /\ t.make = << >> /\ Len(Target(t)) \in 0..3
      /\ Len(path) <= 3 /\ Known(Now, Front(path)) /\ path # << >>
      /\ Front(path) = SubSeq(Target(t), 1, t.n - 1)
      /\ path = Target(t) <=> t.n = Len(Target(t))
  BY WalkIs, KnownIsKey
<1>2. t.at = IdOf(Now, Front(path)) /\ ~Known(Now, Target(t))
  BY <1>1 DEF Placed
<1>3. ~Known(Now, path)
  <2>1. CASE t.n = Len(Target(t))
    BY <1>1, <1>2, <2>1
  <2>2. CASE t.n # Len(Target(t))
    <3>1. t.n < Len(Target(t))
      BY <1>1, <2>2
    <3> QED BY <3>1 DEF PassesBy
  <2> QED BY <2>1, <2>2
<1>4. \A o \in Children(drive, t.at) :
        drive[o].name = Last(path) => ~(drive[o].content = Folder <=> AsFolder(t))
  BY DEF Hits
<1>5. CASE Creating(t) /\ (path # Target(t) \/ IsDir(Target(t)))
  <2>1. PICK r : r = [t EXCEPT !.make = path, !.do = "look"]
    OBVIOUS
  <2>2. Missing(t, path) = r
    BY <1>5, <2>1 DEF Missing
  <2>3. r.do = "look" /\ r.make = path /\ r.goal \in {"newParent", "file", "folder"}
    BY <1>5, <2>1 DEF IsTask, Creating
  <2>4. AsFolder(t)
    BY <1>1, <1>5 DEF AsFolder
  <2>5. NoFolder(drive, t.at, Last(path))
    BY <1>4, <2>4 DEF NoFolder
  <2>6. IsNew(drive, Now, r)
    BY <1>1, <1>2, <1>3, <2>3, <2>5 DEF IsNew
  <2>7. Placed(drive, Now, r) /\ HasFile(r)
    BY <1>1, <2>3, <2>6 DEF Placed, HasFile
  <2> QED BY <2>2, <2>7
<1>6. CASE ~(Creating(t) /\ (path # Target(t) \/ IsDir(Target(t))))
  <2>1. \/ Missing(t, path) = Resolve(t, "fileParent") /\ t.goal = "file"
        \/ Missing(t, path) = Resolve(t, "file")
        \/ Missing(t, path) = [t EXCEPT !.do = "forget"] /\ t.goal = "source"
        \/ Missing(t, path) = Ended(t)
    BY <1>6 DEF Missing, MissingSource
  <2>2. CASE Missing(t, path) = Ended(t)
    <3>1. Ended(t).do = "end"
      BY DEF Ended, IsTask
    <3> QED BY <2>2, <3>1
  <2>3. CASE Missing(t, path) = Resolve(t, "file")
    <3>1. PICK r : r = Resolve(t, "file")
      OBVIOUS
    <3>2. r.do = "look" /\ r.make = << >> /\ r.goal = "file"
      BY <3>1 DEF Resolve, IsTask
    <3>3. Placed(drive, Now, r) /\ HasFile(r)
      BY <3>2, NothingInHand
    <3> QED BY <2>3, <3>1, <3>3
  <2>4. CASE Missing(t, path) = [t EXCEPT !.do = "forget"] /\ t.goal = "source"
    <3>1. PICK r : r = [t EXCEPT !.do = "forget"]
      OBVIOUS
    <3>2. r.do = "forget" /\ r.make = << >> /\ r.goal = "source"
      BY <1>1, <2>4, <3>1 DEF IsTask
    <3>3. Len(<< >>) <= 3
      OBVIOUS
    <3>4. Placed(drive, Now, r) /\ HasFile(r)
      BY <3>2, <3>3 DEF Placed, IsNew, HasFile
    <3> QED BY <2>4, <3>1, <3>4
  <2>5. CASE Missing(t, path) = Resolve(t, "fileParent") /\ t.goal = "file"
    <3>1. PICK r : r = Resolve(t, "fileParent")
      OBVIOUS
    <3>2. r.do = "look" /\ r.make = << >> /\ r.goal = "fileParent" /\ r.act = t.act
      BY <3>1 DEF Resolve, IsTask
    <3>3. Target(t) = t.act.to
      BY <1>1, <2>5 DEF Target
    <3>4. path = t.act.to /\ ~AsFolder(t)
      BY <1>1, <1>6, <2>5, <3>3 DEF Creating, AsFolder
    <3>5. NoFile(drive, t.at, Last(path))
      BY <1>4, <3>4 DEF NoFile
    <3>6. IsNew(drive, Now, r)
      BY <1>1, <1>2, <1>3, <3>2, <3>4, <3>5 DEF IsNew
    <3>7. Len(<< >>) <= 3
      OBVIOUS
    <3>8. Placed(drive, Now, r) /\ HasFile(r)
      BY <3>2, <3>6, <3>7 DEF Placed, HasFile
    <3> QED BY <2>5, <3>1, <3>8
  <2> QED BY <2>1, <2>2, <2>3, <2>4, <2>5
<1> QED BY <1>5, <1>6

\* After an upload or a move nothing is in hand.
LEMMA UploadedIsPlaced ==
  ASSUME NEW t, IsTask(t)
  PROVE  LET r == Uploaded(t)
         IN r.do # "forget" /\ (r.do = "end" \/ (HasFile(r) /\ \A ds, x : Placed(ds, x, r)))
<1>1. CASE t.again
  <2>1. PICK u : u = [t EXCEPT !.again = FALSE]
    OBVIOUS
  <2>2. IsTask(u)
    BY <2>1 DEF IsTask
  <2>3. PICK r : r = Resolve(u, "file")
    OBVIOUS
  <2>4. r.do = "look" /\ r.make = << >> /\ r.goal = "file"
    BY <2>2, <2>3 DEF Resolve, IsTask
  <2>5. Uploaded(t) = r
    BY <1>1, <2>1, <2>3 DEF Uploaded
  <2> QED BY <2>4, <2>5, NothingInHand
<1>2. CASE ~t.again
  <2>1. Ended(t).do = "end" /\ Uploaded(t) = Ended(t)
    BY <1>2 DEF Ended, IsTask, Uploaded
  <2> QED BY <2>1
<1> QED BY <1>1, <1>2

\* A task that begins has nothing in hand.
LEMMA StartedIsPlaced ==
  ASSUME NEW act \in SyncActions, NEW n
  PROVE  LET t == Started(act, n)
         IN t.do = "look" /\ HasFile(t) /\ \A ds, x : Placed(ds, x, t)
<1>1. PICK t : t = Started(act, n)
  OBVIOUS
<1>2. t.do = "look" /\ t.make = << >> /\ t.goal = FirstGoal(act)
  BY <1>1 DEF Started
<1>3. FirstGoal(act) # "fileParent"
  BY DEF FirstGoal, SyncActions, ActionKinds
<1> QED BY <1>1, <1>2, <1>3, NothingInHand

\* The one task that runs goes on, with what it has in hand.
LEMMA SettledGoes ==
  ASSUME Safe, NEW i \in DOMAIN tasks, NEW r, Goes(i, r), UNCHANGED <<scenario, window>>,
         r.do = "end" \/ (Placed(drive', Now', r) /\ HasFile(r))
  PROVE  Settled'
<1>1. \A j \in DOMAIN tasks : j = i
  BY DEF Safe, Alone
<1>2. CASE r.do = "end"
  <2>1. DOMAIN tasks' = {}
    BY <1>1, <1>2 DEF Goes, Restrict
  <2> QED BY <2>1 DEF Settled
<1>3. CASE r.do # "end"
  <2>1. tasks' = [tasks EXCEPT ![i] = r]
    BY <1>3 DEF Goes
  <2>2. \A j \in DOMAIN tasks' : tasks'[j] = r
    BY <1>1, <2>1
  <2>3. ASSUME NEW j \in DOMAIN tasks' PROVE HasFile(tasks[j])'
    BY <1>3, <2>2 DEF HasFile, IsFile, Local
  <2>4. \A j \in DOMAIN tasks' : Placed(drive', Now', tasks'[j])
    BY <1>3, <2>2
  <2> QED BY <2>3, <2>4 DEF Settled
<1> QED BY <1>2, <1>3

\* A task that ends has nothing in hand.
LEMMA SettledEnds ==
  ASSUME Safe, NEW i \in DOMAIN tasks, Goes(i, Ended(tasks[i])), UNCHANGED <<scenario, window>>
  PROVE  Settled'
<1>1. Ended(tasks[i]).do = "end"
  BY TaskIsOK DEF Ended, IsTask
<1> QED BY <1>1, SettledGoes

\* A path is looked up.
LEMMA LookSettled ==
  ASSUME Safe, Settled, NEW i \in DOMAIN tasks, Look(i)
  PROVE  Settled'
<1>1. PICK t : t = tasks[i]
  OBVIOUS
<1>2. /\ IsTask(t) /\ ParentIsKnown(Keys(Now), t) /\ t.do = "look" /\ Len(t.make) <= 3
      /\ Placed(drive, Now, t) /\ IsNew(drive, Now, t)
  BY <1>1, TaskIsOK DEF Look, Settled, Placed
<1>3. Now' = Now /\ drive' = drive /\ UNCHANGED <<scenario, window>>
  BY DEF Look, remote, index, Now
<1>4. CASE Known(Now, Target(t))
  <2>1. PICK id : id = IdOf(Now, Target(t))
    OBVIOUS
  <2>2. PICK r : r = Found(t, id)
    OBVIOUS
  <2>3. r.do = "end" \/ (Placed(drive, Now, r) /\ HasFile(r))
    BY <1>2, <1>4, <2>1, <2>2, FoundIsPlaced
  <2>4. Goes(i, r)
    BY <1>1, <1>4, <2>1, <2>2 DEF Look
  <2> QED BY <1>3, <2>3, <2>4, SettledGoes
<1>5. CASE ~Known(Now, Target(t))
  <2>1. PICK r : r = [t EXCEPT !.do = "walk", !.n = 1, !.at = Root]
    OBVIOUS
  <2>2. Goes(i, r)
    BY <1>1, <1>5, <2>1 DEF Look
  <2>3. /\ r.do = "walk" /\ r.n = 1 /\ r.at = Root /\ r.make = t.make /\ r.act = t.act
        /\ r.goal = t.goal
    BY <1>2, <2>1 DEF IsTask
  <2>4. Target(r) = Target(t)
    BY <2>3 DEF Target
  <2>5. SubSeq(Target(r), 1, r.n - 1) = << >>
    BY <2>3, SubSeqEmpty
  <2>6. IdOf(Now, << >>) = Root
    BY DEF IdOf
  <2>7. t.make = << >>
    BY <1>2, <1>5, KnownIsKey DEF ParentIsKnown, Target
  <2>8. t.goal # "fileParent"
    BY <1>2, <1>5, <2>7 DEF IsNew, Target
  <2>9. IsNew(drive, Now, r)
    BY <2>3, <2>7, <2>8 DEF IsNew
  <2>10. Placed(drive, Now, r) /\ HasFile(r)
    BY <1>2, <1>5, <2>3, <2>4, <2>5, <2>6, <2>9 DEF Placed, HasFile
  <2> QED BY <1>3, <2>2, <2>10, SettledGoes
<1> QED BY <1>4, <1>5

\* The walk passes by a name that is in the index.
LEMMA PassBySettled ==
  ASSUME Safe, Settled, NEW i \in DOMAIN tasks, PassBy(i)
  PROVE  Settled'
<1>1. PICK t : t = tasks[i]
  OBVIOUS
<1>2. /\ IsTask(t) /\ t.do = "walk" /\ Placed(drive, Now, t) /\ IsNew(drive, Now, t)
      /\ t.n \in Nat
  BY <1>1, TaskIsOK, TaskPaths DEF PassBy, PassesBy, Settled, Placed
<1>3. Now' = Now /\ drive' = drive /\ UNCHANGED <<scenario, window>>
  BY DEF PassBy, remote, index, Now
<1>4. PICK r : r = [t EXCEPT !.at = IdOf(Now, SubSeq(Target(t), 1, t.n)), !.n = @ + 1]
  OBVIOUS
<1>5. Goes(i, r)
  BY <1>1, <1>4 DEF PassBy
<1>6. /\ r.do = "walk" /\ r.n = t.n + 1 /\ r.at = IdOf(Now, SubSeq(Target(t), 1, t.n))
      /\ r.make = t.make /\ r.act = t.act /\ r.goal = t.goal
  BY <1>2, <1>4 DEF IsTask
<1>7. Target(r) = Target(t) /\ r.n - 1 = t.n
  BY <1>2, <1>6 DEF Target
<1>8. IsNew(drive, Now, r)
  BY <1>2, <1>6, SameIsNew
<1>9. Placed(drive, Now, r) /\ HasFile(r)
  BY <1>2, <1>6, <1>7, <1>8 DEF Placed, HasFile
<1> QED BY <1>3, <1>5, <1>9, SettledGoes

\* The task when the index has become one of xs.
LEMMA SettledIndexed ==
  ASSUME Safe, ~panicked', NEW i \in DOMAIN tasks, NEW r, NEW xs, Indexed(i, xs, r),
         UNCHANGED <<scenario, window>>,
         \A x \in xs : x = [entries |-> x.entries, byPath |-> x.byPath],
         \A x \in xs : r.do = "end" \/ (Placed(drive', x, r) /\ HasFile(r))
  PROVE  Settled'
<1>1. PICK x \in xs : Becomes(x) /\ Goes(i, r)
  BY DEF Indexed
<1>2. Now' = [entries |-> x.entries, byPath |-> x.byPath]
  BY <1>1 DEF Becomes, Now
<1>3. Now' = x
  BY <1>2
<1> QED BY <1>1, <1>3, SettledGoes

\* What a walk finds is the id of the next name.
LEMMA FindSettled ==
  ASSUME Safe, Settled, NEW i \in DOMAIN tasks, Find(i), ~panicked'
  PROVE  Settled'
<1>1. PICK t : t = tasks[i]
  OBVIOUS
<1>2. /\ IsTask(t) /\ ParentIsKnown(Keys(Now), t) /\ t.do = "walk" /\ ~PassesBy(t)
      /\ Placed(drive, Now, t) /\ IsNew(drive, Now, t) /\ Len(t.make) <= 3
  BY <1>1, TaskIsOK DEF Find, Settled, Placed
<1>3. drive' = drive /\ UNCHANGED <<scenario, window>>
  BY DEF Find, remote
<1>4. PICK path : path = SubSeq(Target(t), 1, t.n)
  OBVIOUS
<1>5. t.n \in Nat /\ t.make = << >> /\ path # << >>
  BY <1>2, <1>4, WalkIs
<1>6. CASE Hits(t, Last(path)) = {} /\ Goes(i, Missing(t, path)) /\ UNCHANGED index
  <2>1. PICK r : r = Missing(t, path)
    OBVIOUS
  <2>2. r.do = "end" \/ (Placed(drive, Now, r) /\ HasFile(r))
    BY <1>2, <1>4, <1>6, <2>1, MissingIsPlaced
  <2>3. Now' = Now
    BY <1>6 DEF index, Now
  <2> QED BY <1>3, <1>6, <2>1, <2>2, <2>3, SettledGoes
<1>7. ASSUME NEW o, Indexed(i, Noted(t, path, o), Onward(t, path, o))
      PROVE  Settled'
  <2>1. PICK r : r = Onward(t, path, o)
    OBVIOUS
  <2>2. t.goal # "fileParent"
    BY <1>2, <1>5 DEF IsNew
  <2>3. ASSUME NEW x \in Put(Now, path, o)
        PROVE  /\ x = [entries |-> x.entries, byPath |-> x.byPath]
               /\ r.do = "end" \/ (Placed(drive, x, r) /\ HasFile(r))
    <3>0. x \in Put(Now, path, o)
      OBVIOUS
    <3>1. /\ x = [entries |-> x.entries, byPath |-> x.byPath]
          /\ DOMAIN x.byPath = DOMAIN byPath \union {path} /\ x.byPath[path] = o
      BY <3>0, PutIs DEF Now
    <3>2. o = IdOf(x, path) /\ Known(x, path)
      BY <1>5, <3>1 DEF IdOf, Known
    <3>3. CASE path = Target(t)
      <4>1. r = Found(t, o)
        BY <2>1, <3>3 DEF Onward
      <4>2. IsNew(drive, x, t)
        BY <1>5, <2>2 DEF IsNew
      <4> QED BY <1>2, <3>1, <3>2, <3>3, <4>1, <4>2, FoundIsPlaced
    <3>4. CASE path # Target(t)
      <4>1. r = [t EXCEPT !.at = o, !.n = @ + 1]
        BY <2>1, <3>4 DEF Onward
      <4>2. /\ r.do = "walk" /\ r.n = t.n + 1 /\ r.at = o
            /\ r.make = t.make /\ r.act = t.act /\ r.goal = t.goal
        BY <1>2, <4>1 DEF IsTask
      <4>3. Target(r) = Target(t) /\ r.n - 1 = t.n
        BY <1>5, <4>2 DEF Target
      <4>4. ~Known(x, Target(t))
        BY <1>2, <3>1, <3>4 DEF Placed, Known, Now
      <4>5. IsNew(drive, x, r)
        BY <1>5, <2>2, <4>2 DEF IsNew
      <4>6. Placed(drive, x, r) /\ HasFile(r)
        BY <1>2, <1>4, <3>2, <4>2, <4>3, <4>4, <4>5 DEF Placed, HasFile
      <4> QED BY <3>1, <4>6
    <3> QED BY <3>3, <3>4
  <2> QED BY <1>3, <1>7, <2>1, <2>3, SettledIndexed DEF Noted
<1> QED BY <1>1, <1>4, <1>6, <1>7 DEF Find

\* After a call that has changed Drive nothing is in hand.
LEMMA SettledAfter ==
  ASSUME Safe, NEW i \in DOMAIN tasks, ~panicked', NEW xs, NEW r, Indexed(i, xs, r),
         UNCHANGED <<scenario, window>>,
         r.do = "end" \/ (HasFile(r) /\ \A ds, x : Placed(ds, x, r))
  PROVE  Settled'
<1>1. Goes(i, r)
  BY DEF Indexed
<1> QED BY <1>1, SettledGoes

\* The same, for each of the calls.
LEMMA CallSettled ==
  ASSUME Safe, Settled, NEW i \in DOMAIN tasks, ~panicked',
         Make(i) \/ Create(i) \/ Update(i) \/ Move(i) \/ Delete(i) \/ Forget(i)
  PROVE  Settled'
<1>1. PICK t : t = tasks[i]
  OBVIOUS
<1>2. IsTask(t) /\ ParentIsKnown(Keys(Now), t) /\ IsNew(drive, Now, t) /\ TypeOK
  BY <1>1, TaskIsOK DEF Settled, Placed, Safe
<1>3. /\ UNCHANGED <<scenario, window>>
      /\ \/ \E xs : Indexed(i, xs, Uploaded(t))
         \/ \E xs : Indexed(i, xs, Resolve(t, t.goal)) /\ t.do = "make"
         \/ \E xs : Indexed(i, xs, [t EXCEPT !.do = "forget"]) /\ t.do = "delete"
         \/ \E xs : Indexed(i, xs, Ended(t))
  BY <1>1 DEF Make, Create, Update, Move, Delete, Forget, Succeeds
<1>4. CASE \E xs : Indexed(i, xs, Uploaded(t))
  BY <1>2, <1>3, <1>4, UploadedIsPlaced, SettledAfter
<1>5. CASE \E xs : Indexed(i, xs, Resolve(t, t.goal)) /\ t.do = "make"
  <2>1. PICK r : r = Resolve(t, t.goal)
    OBVIOUS
  <2>2. t.make # << >>
    BY <1>2, <1>5 DEF ParentIsKnown
  <2>3. r.do = "look" /\ r.make = << >> /\ r.goal # "fileParent"
    BY <1>2, <2>1, <2>2 DEF Resolve, IsTask, IsNew
  <2> QED BY <1>3, <1>5, <2>1, <2>3, NothingInHand, SettledAfter
<1>6. CASE \E xs : Indexed(i, xs, [t EXCEPT !.do = "forget"]) /\ t.do = "delete"
  <2>1. PICK r : r = [t EXCEPT !.do = "forget"]
    OBVIOUS
  <2>2. t.make = << >> /\ t.goal # "fileParent"
    BY <1>2, <1>6 DEF ParentIsKnown, IsNew
  <2>3. r.do = "forget" /\ r.make = << >> /\ r.goal # "fileParent" /\ Len(<< >>) <= 3
    BY <1>2, <2>1, <2>2 DEF IsTask
  <2>4. HasFile(r) /\ \A ds, x : Placed(ds, x, r)
    BY <2>3 DEF HasFile, Placed, IsNew
  <2> QED BY <1>3, <1>6, <2>1, <2>4, SettledAfter
<1>7. CASE \E xs : Indexed(i, xs, Ended(t))
  <2>1. Ended(t).do = "end"
    BY <1>2 DEF Ended, IsTask
  <2> QED BY <1>3, <1>7, <2>1, SettledAfter
<1> QED BY <1>3, <1>4, <1>5, <1>6, <1>7

\* Any step of a task.
LEMMA TaskSettled ==
  ASSUME Safe, Settled, NEW i \in DOMAIN tasks, ~panicked', TaskStep(i) \/ Fails(i)
  PROVE  Settled'
<1>1. CASE Refused(i) \/ Unauthorized(i) \/ Fails(i)
  <2>1. Goes(i, Ended(tasks[i])) /\ UNCHANGED <<scenario, window>>
    BY <1>1 DEF Refused, Unauthorized, Fails
  <2> QED BY <2>1, SettledEnds
<1> QED BY <1>1, LookSettled, PassBySettled, FindSettled, CallSettled DEF TaskStep

\* A task that begins has nothing in hand, and the others have what they had.
LEMMA SettledBegins ==
  ASSUME Settled, UNCHANGED <<scenario, window, drive, entries, byPath>>,
         \A k \in DOMAIN tasks' :
           \/ k \in DOMAIN tasks /\ tasks'[k] = tasks[k]
           \/ \E act \in SyncActions, n \in Nat : tasks'[k] = Started(act, n)
  PROVE  Settled'
<1>1. Now' = Now
  BY DEF Now
<1>2. ASSUME NEW k \in DOMAIN tasks' PROVE Placed(drive', Now', tasks'[k]) /\ HasFile(tasks[k])'
  <2>1. CASE k \in DOMAIN tasks /\ tasks'[k] = tasks[k]
    BY <1>1, <2>1 DEF Settled, HasFile, IsFile, Local
  <2>2. CASE \E act \in SyncActions, n \in Nat : tasks'[k] = Started(act, n)
    <3>1. tasks'[k].do = "look" /\ Placed(drive', Now', tasks'[k])
      BY <2>2, StartedIsPlaced
    <3> QED BY <3>1 DEF HasFile
  <2> QED BY <2>1, <2>2
<1> QED BY <1>2 DEF Settled

\* Every step keeps it so, as long as no two tasks race.
LEMMA SettledStep ==
  ASSUME Inv, Inv', SettledInv, [Next]_vars
  PROVE  SettledInv'
<1> SUFFICES ASSUME "race" \notin past'
             PROVE  Settled'
  BY DEF SettledInv
<1>1. Safe /\ Safe' /\ Settled /\ ~panicked'
  BY PastGrows DEF Inv, SettledInv, Safe
<1>2. ASSUME NEW i \in DOMAIN tasks, TaskStep(i) \/ Fails(i) PROVE Settled'
  BY <1>1, <1>2, TaskSettled
<1>3. CASE WindowEnds
  <2>1. DOMAIN tasks' = {}
    BY <1>3 DEF WindowEnds
  <2> QED BY <2>1 DEF Settled
<1>4. CASE NextOfChain
  <2>1. UNCHANGED <<scenario, window, drive, entries, byPath>>
    BY <1>4 DEF NextOfChain, remote, index
  <2>2. CASE Head(chain) = Save
    <3>1. tasks' = tasks
      BY <1>4, <2>2 DEF NextOfChain
    <3> QED BY <1>1, <2>1, <3>1, SettledBegins
  <2>3. CASE Head(chain) # Save
    <3>1. chain # << >> /\ tasks' = With(tasks, InChain, Head(chain))
      BY <1>4, <2>3 DEF NextOfChain
    <3>2. PICK act \in SyncActions, n \in Nat : Head(chain) = Started(act, n)
      <4>1. Head(chain) \in Fresh
        BY <1>1, <2>3, <3>1 DEF Safe, TypeOK
      <4> QED BY <4>1 DEF Fresh
    <3>3. /\ DOMAIN tasks' = DOMAIN tasks \union {InChain} /\ tasks'[InChain] = Head(chain)
          /\ \A k \in DOMAIN tasks : k # InChain => tasks'[k] = tasks[k]
      BY <3>1 DEF With
    <3> QED BY <1>1, <2>1, <3>2, <3>3, SettledBegins
  <2> QED BY <2>2, <2>3
<1>5. CASE TokenExpires
  <2>1. UNCHANGED <<scenario, window, drive, entries, byPath, tasks>>
    BY <1>5 DEF TokenExpires, remote, index
  <2> QED BY <1>1, <2>1, SettledBegins
<1>6. CASE Refreshed
  <2>1. UNCHANGED <<scenario, window, drive, entries, byPath>>
    BY <1>6 DEF Refreshed, remote, index
  <2>2. PICK retried : retried = {<<token', j>> : j \in DOMAIN parked}
    OBVIOUS
  <2>3. tasks' = [k \in DOMAIN tasks \union retried |->
                    IF k \in DOMAIN tasks THEN tasks[k] ELSE Started(parked[k[2]], token')]
    BY <1>6, <2>2 DEF Refreshed
  <2>4. token' \in Nat /\ \A j \in DOMAIN parked : parked[j] \in SyncActions
    BY <1>1 DEF Safe, TypeOK
  <2>5. \A k \in retried : parked[k[2]] \in SyncActions
    BY <2>2, <2>4
  <2>6. ASSUME NEW k \in DOMAIN tasks'
        PROVE  \/ k \in DOMAIN tasks /\ tasks'[k] = tasks[k]
               \/ \E act \in SyncActions, n \in Nat : tasks'[k] = Started(act, n)
    <3>1. CASE k \in DOMAIN tasks
      BY <2>3, <3>1
    <3>2. CASE k \notin DOMAIN tasks
      <4>1. k \in retried /\ tasks'[k] = Started(parked[k[2]], token')
        BY <2>3, <3>2
      <4> QED BY <2>4, <2>5, <4>1
    <3> QED BY <3>1, <3>2
  <2> QED BY <1>1, <2>1, <2>6, SettledBegins
<1>7. CASE Restart
  <2>1. DOMAIN tasks' = {}
    BY <1>7 DEF Restart
  <2> QED BY <2>1 DEF Settled
<1>8. CASE UNCHANGED vars
  <2>1. UNCHANGED <<scenario, window, drive, entries, byPath, tasks>>
    BY <1>8 DEF vars, remote, index
  <2> QED BY <1>1, <2>1, SettledBegins
<1> QED BY <1>2, <1>3, <1>4, <1>5, <1>6, <1>7, <1>8 DEF Next

\* A folder that is created has no twin.
LEMMA MakesNoTwin ==
  ASSUME Settled, NEW i \in DOMAIN tasks, tasks[i].do = "make", tasks[i].make # << >>,
         drive' = MadeOnDrive(tasks[i]), NEW o \in DOMAIN drive' \ DOMAIN drive,
         NEW q \in DOMAIN drive
  PROVE  ~Twins(drive'[o], drive[q])
<1>1. PICK t : t = tasks[i]
  OBVIOUS
<1>2. t.at = IdOf(Now, Front(t.make)) /\ NoFolder(drive, t.at, Last(t.make))
  BY <1>1 DEF Settled, Placed, IsNew
<1>3. PICK e : e = Object(t.at, Last(t.make), Folder)
  OBVIOUS
<1>4. drive' = With(drive, NewId, e)
  BY <1>1, <1>3 DEF MadeOnDrive
<1>5. drive'[o] = e
  BY <1>4 DEF With
<1>6. e.parent = t.at /\ e.name = Last(t.make) /\ e.content = Folder
  BY <1>3 DEF Object
<1> QED BY <1>2, <1>5, <1>6 DEF Twins, NoFolder, Children

\* A file that is created has no twin.
LEMMA UploadsNoTwin ==
  ASSUME Settled, NEW i \in DOMAIN tasks, tasks[i].do = "create",
         drive' = CreatedOnDrive(tasks[i]), NEW o \in DOMAIN drive' \ DOMAIN drive,
         NEW q \in DOMAIN drive
  PROVE  ~Twins(drive'[o], drive[q])
<1>1. PICK t : t = tasks[i]
  OBVIOUS
<1>2. /\ t.at = IdOf(Now, Front(t.act.to)) /\ NoFile(drive, t.at, Last(t.act.to))
      /\ IsFile(t.act.to)
  BY <1>1 DEF Settled, Placed, IsNew, HasFile
<1>3. PICK e : e = Object(t.at, Last(t.act.to), Local[t.act.to])
  OBVIOUS
<1>4. drive' = With(drive, NewId, e)
  BY <1>1, <1>3 DEF CreatedOnDrive
<1>5. drive'[o] = e
  BY <1>4 DEF With
<1>6. e.parent = t.at /\ e.name = Last(t.act.to) /\ e.content # Folder
  BY <1>2, <1>3 DEF Object, IsFile
<1> QED BY <1>2, <1>5, <1>6 DEF Twins, NoFile, Children

\* What a step creates on Drive has no twin there.
LEMMA StepMakesNoTwin ==
  ASSUME Inv, SettledInv, "race" \notin past, Next, NEW o \in DOMAIN drive' \ DOMAIN drive,
         NEW q \in DOMAIN drive
  PROVE  ~Twins(drive'[o], drive[q])
<1>1. Safe /\ Settled
  BY DEF Inv, SettledInv
<1>2. ASSUME NEW i \in DOMAIN tasks, tasks[i].do = "make" PROVE tasks[i].make # << >>
  BY <1>1, <1>2, TaskIsOK DEF ParentIsKnown
<1>3. ASSUME NEW i \in DOMAIN tasks, TaskStep(i) \/ Fails(i) PROVE ~Twins(drive'[o], drive[q])
  <2>1. drive' # drive
    OBVIOUS
  <2>2. PICK t : t = tasks[i]
    OBVIOUS
  <2>3. \/ t.do = "make" /\ drive' = MadeOnDrive(t)
        \/ t.do = "create" /\ drive' = CreatedOnDrive(t)
        \/ drive' = UpdatedOnDrive(t) \/ drive' = MovedOnDrive(t) \/ drive' = DeletedOnDrive(t)
    <3>1. CASE Fails(i)
      BY <2>1, <2>2, <3>1 DEF Fails, remote
    <3>2. CASE Make(i) \/ Create(i) \/ Update(i) \/ Move(i) \/ Delete(i)
      BY <2>2, <3>2 DEF Make, Create, Update, Move, Delete, Succeeds
    <3>3. CASE Look(i) \/ PassBy(i) \/ Find(i) \/ Forget(i) \/ Refused(i) \/ Unauthorized(i)
      BY <2>1, <3>3 DEF Look, PassBy, Find, Forget, Refused, Unauthorized, remote
    <3> QED BY <1>3, <3>1, <3>2, <3>3 DEF TaskStep
  <2>4. CASE t.do = "make" /\ drive' = MadeOnDrive(t)
    BY <1>1, <1>2, <2>2, <2>4, MakesNoTwin
  <2>5. CASE t.do = "create" /\ drive' = CreatedOnDrive(t)
    BY <1>1, <2>2, <2>5, UploadsNoTwin
  <2>6. CASE drive' = UpdatedOnDrive(t) \/ drive' = MovedOnDrive(t) \/ drive' = DeletedOnDrive(t)
    <3>1. DOMAIN drive' \subseteq DOMAIN drive
      BY <2>6 DEF UpdatedOnDrive, MovedOnDrive, DeletedOnDrive, Restrict
    <3> QED BY <3>1
  <2> QED BY <2>3, <2>4, <2>5, <2>6
<1>4. CASE WindowEnds \/ NextOfChain \/ TokenExpires \/ Refreshed \/ Restart
  <2>1. drive' = drive
    BY <1>4 DEF WindowEnds, NextOfChain, TokenExpires, Refreshed, Restart, remote
  <2> QED BY <2>1
<1> QED BY <1>3, <1>4 DEF Next

(* As long as no two tasks run at the same time, nothing is created on Drive next to an   *)
(* object of its name and kind (resolve_and_create_missing_ancestors, and the upload of a *)
(* file that is not found), whatever calls fail, answers are lost, tokens expire, or      *)
(* restarts there are: between the walk that has found nothing and the call that creates  *)
(* it, a task looks in the index only, and what is looked for there is there.             *)
THEOREM NothingIsCreatedTwice == Spec => CreatesNoTwin
<1>1. Init => Inv /\ SettledInv
  <2>1. Init => Settled
    BY DEF Init, Settled
  <2> QED BY <2>1, InitSafe DEF Inv, SettledInv
<1>2. Inv /\ [Next]_vars => Inv'
  BY SafeStep
<1>3. Inv /\ Inv' /\ SettledInv /\ [Next]_vars => SettledInv'
  BY SettledStep
<1>4. Inv /\ SettledInv /\ [Next]_vars =>
        ["race" \notin past =>
           \A o \in DOMAIN drive' \ DOMAIN drive, q \in DOMAIN drive :
             ~Twins(drive'[o], drive[q])]_vars
  BY StepMakesNoTwin
<1> QED BY <1>1, <1>2, <1>3, <1>4, PTL DEF Spec, CreatesNoTwin

-----------------------------------------------------------------------------
(* The index and Drive *)

\* Two sets of objects are alike if they have the same ids, at the same places, of the
\* same names.
Alike(ds, es) ==
  /\ DOMAIN ds = DOMAIN es
  /\ \A o \in DOMAIN es : ds[o].parent = es[o].parent /\ ds[o].name = es[o].name

\* Entries cover objects if they have their ids, at their places, and of their names, and
\* what more there is lies in nothing that the objects have.
Covers(ds, es) ==
  /\ DOMAIN ds \subseteq DOMAIN es
  /\ \A o \in DOMAIN ds : ds[o].parent = es[o].parent /\ ds[o].name = es[o].name
  /\ \A o \in DOMAIN es \ DOMAIN ds : es[o].parent # Root /\ es[o].parent \notin DOMAIN ds

NoTwin(es) ==
  \A o, q \in DOMAIN es : es[o].parent = es[q].parent /\ es[o].name = es[q].name => o = q

\* The paths of an index lead to its entries, and what leads to an entry is one of them.
Leads(x) == \A p \in DOMAIN x.byPath : <<p, x.byPath[p]>> \in Reached(x.entries, Root)
Complete(x) == \A p, o : <<p, o>> \in Reached(x.entries, Root) => Known(x, p)

\* The entries have ids of Drive, of up to m, and so have their folders.
HasIds(es, m) ==
  /\ m \in Nat /\ DOMAIN es \subseteq 1..m
  /\ \A o \in DOMAIN es : es[o].parent \in 0..m
IsSound(x, m) == HasIds(x.entries, m) /\ NoTwin(x.entries) /\ Leads(x) /\ Complete(x)

Cut(es, id) == Restrict(es, DOMAIN es \ Under(es, id))

\* The entries that are left when the task has forgotten what it has deleted.
Left(x, t) ==
  IF t.do = "forget" /\ t.act.to \in DOMAIN x.byPath THEN Erased(x.entries, x.byPath[t.act.to])
  ELSE x.entries

Exact ==
  /\ IsSound(Now, made)
  /\ DOMAIN tasks = {} => Covers(drive, entries)
  /\ \A i \in DOMAIN tasks : Covers(drive, Left(Now, tasks[i]))

ExactInv == past \subseteq {"failure"} => Exact

\* One step down, read both ways.
LEMMA OneDownIs ==
  ASSUME NEW es, NEW pairs, \A x \in pairs : x = <<x[1], x[2]>>
  PROVE  /\ \A x \in OneDown(es, pairs) :
              /\ x = <<x[1], x[2]>> /\ x[2] \in DOMAIN es
              /\ \E q : <<q, es[x[2]].parent>> \in pairs /\ x[1] = Append(q, es[x[2]].name)
         /\ \A q, o : o \in DOMAIN es /\ <<q, es[o].parent>> \in pairs
                        => <<Append(q, es[o].name), o>> \in OneDown(es, pairs)
<1>1. ASSUME NEW x \in OneDown(es, pairs)
      PROVE  /\ x = <<x[1], x[2]>> /\ x[2] \in DOMAIN es
             /\ \E q : <<q, es[x[2]].parent>> \in pairs /\ x[1] = Append(q, es[x[2]].name)
  <2>1. PICK y \in pairs : \E o \in Children(es, y[2]) : x = <<Append(y[1], es[o].name), o>>
    BY DEF OneDown
  <2>2. PICK o \in Children(es, y[2]) : x = <<Append(y[1], es[o].name), o>>
    BY <2>1
  <2>3. o \in DOMAIN es /\ es[o].parent = y[2] /\ x[2] = o /\ x[1] = Append(y[1], es[o].name)
    BY <2>2 DEF Children
  <2> QED BY <2>2, <2>3
<1>2. ASSUME NEW q, NEW o \in DOMAIN es, <<q, es[o].parent>> \in pairs
      PROVE  <<Append(q, es[o].name), o>> \in OneDown(es, pairs)
  <2>1. PICK y : y = <<q, es[o].parent>>
    OBVIOUS
  <2>2. y \in pairs /\ y[1] = q /\ o \in Children(es, y[2])
    BY <2>1, <1>2 DEF Children
  <2>3. \E z \in pairs : \E c \in Children(es, z[2]) :
          <<Append(q, es[o].name), o>> = <<Append(z[1], es[c].name), c>>
    BY <2>2
  <2> QED BY <2>3 DEF OneDown
<1> QED BY <1>1, <1>2

\* The pairs of one length, from those that are one name shorter.
LEMMA LevelIs ==
  ASSUME NEW es, NEW pairs, NEW n \in Nat,
         \A x \in pairs : x = <<x[1], x[2]>> /\ IsPath(x[1]) /\ Len(x[1]) = n
  PROVE  \A x \in OneDown(es, pairs) :
           /\ x = <<x[1], x[2]>> /\ IsPath(x[1]) /\ Len(x[1]) = n + 1
           /\ x[2] \in DOMAIN es /\ <<Front(x[1]), es[x[2]].parent>> \in pairs
           /\ x[1] = Append(Front(x[1]), es[x[2]].name)
<1> TAKE x \in OneDown(es, pairs)
<1>1. x = <<x[1], x[2]>> /\ x[2] \in DOMAIN es
  BY OneDownIs
<1>2. PICK q : <<q, es[x[2]].parent>> \in pairs /\ x[1] = Append(q, es[x[2]].name)
  BY OneDownIs
<1>3. IsPath(q) /\ Len(q) = n
  BY <1>2
<1>4. IsPath(x[1]) /\ Front(x[1]) = q /\ Len(x[1]) = n + 1
  BY <1>2, <1>3, FrontOfLonger
<1> QED BY <1>1, <1>2, <1>4

\* What is reached is the id itself, or one step down from what is reached; and the other
\* way, as deep as paths are.
LEMMA ReachedSteps ==
  ASSUME NEW es, NEW id
  PROVE  /\ \A p, o : <<p, o>> \in Reached(es, id) =>
              /\ IsPath(p) /\ Len(p) \in 0..3
              /\ \/ p = << >> /\ o = id
                 \/ /\ p # << >> /\ Len(p) \in 1..3 /\ Len(Front(p)) = Len(p) - 1
                    /\ o \in DOMAIN es
                    /\ <<Front(p), es[o].parent>> \in Reached(es, id)
                    /\ p = Append(Front(p), es[o].name)
         /\ \A q, o : /\ o \in DOMAIN es /\ <<q, es[o].parent>> \in Reached(es, id)
                      /\ Len(q) <= 2
                      => <<Append(q, es[o].name), o>> \in Reached(es, id)
         /\ \A x \in Reached(es, id) : x = <<x[1], x[2]>>
<1> DEFINE top == {<< << >>, id >>}
           first == OneDown(es, top)
           second == OneDown(es, first)
           third == OneDown(es, second)
<1>0. Reached(es, id) = top \union first \union second \union third
  BY DEF Reached
<1>1. \A x \in top : x = <<x[1], x[2]>> /\ x[1] = << >> /\ x[2] = id /\ Len(x[1]) = 0
  OBVIOUS
<1>2. \A x \in top : x = <<x[1], x[2]>> /\ IsPath(x[1]) /\ Len(x[1]) = 0
  <2>1. << >> \in Seq({})
    OBVIOUS
  <2>2. IsPath(<< >>)
    BY <2>1 DEF IsPath
  <2> QED BY <1>1, <2>2
<1> HIDE DEF top
<1>3. \A x \in first :
           /\ x = <<x[1], x[2]>> /\ IsPath(x[1]) /\ Len(x[1]) = 1
           /\ x[2] \in DOMAIN es /\ <<Front(x[1]), es[x[2]].parent>> \in top
           /\ x[1] = Append(Front(x[1]), es[x[2]].name)
  <2>1. 0 \in Nat /\ \A x \in top : x = <<x[1], x[2]>> /\ IsPath(x[1]) /\ Len(x[1]) = 0
    BY <1>2
  <2>2. \A x \in first :
           /\ x = <<x[1], x[2]>> /\ IsPath(x[1]) /\ Len(x[1]) = 0 + 1
           /\ x[2] \in DOMAIN es /\ <<Front(x[1]), es[x[2]].parent>> \in top
           /\ x[1] = Append(Front(x[1]), es[x[2]].name)
    <3> HIDE DEF top
    <3> QED BY <2>1, LevelIs DEF first
  <2> QED BY <2>2
<1> HIDE DEF first
<1>4. \A x \in second :
           /\ x = <<x[1], x[2]>> /\ IsPath(x[1]) /\ Len(x[1]) = 2
           /\ x[2] \in DOMAIN es /\ <<Front(x[1]), es[x[2]].parent>> \in first
           /\ x[1] = Append(Front(x[1]), es[x[2]].name)
  <2>1. 1 \in Nat /\ \A x \in first : x = <<x[1], x[2]>> /\ IsPath(x[1]) /\ Len(x[1]) = 1
    BY <1>3
  <2>2. \A x \in second :
           /\ x = <<x[1], x[2]>> /\ IsPath(x[1]) /\ Len(x[1]) = 1 + 1
           /\ x[2] \in DOMAIN es /\ <<Front(x[1]), es[x[2]].parent>> \in first
           /\ x[1] = Append(Front(x[1]), es[x[2]].name)
    <3> HIDE DEF first
    <3> QED BY <2>1, LevelIs DEF second
  <2> QED BY <2>2
<1> HIDE DEF second
<1>5. \A x \in third :
           /\ x = <<x[1], x[2]>> /\ IsPath(x[1]) /\ Len(x[1]) = 3
           /\ x[2] \in DOMAIN es /\ <<Front(x[1]), es[x[2]].parent>> \in second
           /\ x[1] = Append(Front(x[1]), es[x[2]].name)
  <2>1. 2 \in Nat /\ \A x \in second : x = <<x[1], x[2]>> /\ IsPath(x[1]) /\ Len(x[1]) = 2
    BY <1>4
  <2>2. \A x \in third :
           /\ x = <<x[1], x[2]>> /\ IsPath(x[1]) /\ Len(x[1]) = 2 + 1
           /\ x[2] \in DOMAIN es /\ <<Front(x[1]), es[x[2]].parent>> \in second
           /\ x[1] = Append(Front(x[1]), es[x[2]].name)
    <3> HIDE DEF second
    <3> QED BY <2>1, LevelIs DEF third
  <2> QED BY <2>2
<1>6. \A q, o : o \in DOMAIN es /\ <<q, es[o].parent>> \in top
                  => <<Append(q, es[o].name), o>> \in first
  BY <1>2, OneDownIs DEF first
<1>7. \A q, o : o \in DOMAIN es /\ <<q, es[o].parent>> \in first
                  => <<Append(q, es[o].name), o>> \in second
  BY <1>3, OneDownIs DEF second
<1>8. \A q, o : o \in DOMAIN es /\ <<q, es[o].parent>> \in second
                  => <<Append(q, es[o].name), o>> \in third
  BY <1>4, OneDownIs DEF third
<1> HIDE DEF third
<1>9. ASSUME NEW p, NEW o, <<p, o>> \in Reached(es, id)
      PROVE  /\ IsPath(p) /\ Len(p) \in 0..3
             /\ \/ p = << >> /\ o = id
                \/ /\ p # << >> /\ Len(p) \in 1..3 /\ Len(Front(p)) = Len(p) - 1
                   /\ o \in DOMAIN es
                   /\ <<Front(p), es[o].parent>> \in Reached(es, id)
                   /\ p = Append(Front(p), es[o].name)
  <2>1. PICK x : x = <<p, o>> /\ x[1] = p /\ x[2] = o /\ x \in Reached(es, id)
    BY <1>9
  <2>2. CASE x \in top
    BY <2>1, <2>2, <1>1, <1>2
  <2>3. CASE x \in first
    <3>1. /\ IsPath(p) /\ Len(p) = 1 /\ o \in DOMAIN es /\ <<Front(p), es[o].parent>> \in top
          /\ p = Append(Front(p), es[o].name)
      BY <2>1, <2>3, <1>3
    <3>2. Len(Front(p)) = 0
      BY <3>1, <1>2
    <3>3. p # << >>
      BY <3>1
    <3> QED BY <1>0, <3>1, <3>2, <3>3
  <2>4. CASE x \in second
    <3>1. /\ IsPath(p) /\ Len(p) = 2 /\ o \in DOMAIN es /\ <<Front(p), es[o].parent>> \in first
          /\ p = Append(Front(p), es[o].name)
      BY <2>1, <2>4, <1>4
    <3>2. Len(Front(p)) = 1
      BY <3>1, <1>3
    <3>3. p # << >>
      BY <3>1
    <3> QED BY <1>0, <3>1, <3>2, <3>3
  <2>5. CASE x \in third
    <3>1. /\ IsPath(p) /\ Len(p) = 3 /\ o \in DOMAIN es /\ <<Front(p), es[o].parent>> \in second
          /\ p = Append(Front(p), es[o].name)
      BY <2>1, <2>5, <1>5
    <3>2. Len(Front(p)) = 2
      BY <3>1, <1>4
    <3>3. p # << >>
      BY <3>1
    <3> QED BY <1>0, <3>1, <3>2, <3>3
  <2> QED BY <1>0, <2>1, <2>2, <2>3, <2>4, <2>5
<1>10. ASSUME NEW q, NEW o \in DOMAIN es, <<q, es[o].parent>> \in Reached(es, id), Len(q) <= 2
       PROVE  <<Append(q, es[o].name), o>> \in Reached(es, id)
  <2>1. <<q, es[o].parent>> \notin third
    <3>1. PICK x : x = <<q, es[o].parent>>
      OBVIOUS
    <3>2. x[1] = q
      BY <3>1
    <3>3. ASSUME Len(q) = 3 PROVE FALSE
      BY <3>3, <1>10
    <3> QED BY <3>1, <3>2, <3>3, <1>5
  <2> QED BY <1>0, <1>6, <1>7, <1>8, <1>10, <2>1
<1>11. \A x \in Reached(es, id) : x = <<x[1], x[2]>>
  BY <1>0, <1>1, <1>3, <1>4, <1>5
<1> QED BY <1>9, <1>10, <1>11

\* What is reached depends on the places and names of the objects only.
LEMMA AlikeReached ==
  ASSUME NEW ds, NEW es, Alike(ds, es), NEW id
  PROVE  Reached(ds, id) = Reached(es, id) /\ Under(ds, id) = Under(es, id)
<1>1. ASSUME NEW n PROVE Children(ds, n) = Children(es, n)
  BY DEF Alike, Children
<1>2. ASSUME NEW pairs PROVE OneDown(ds, pairs) = OneDown(es, pairs)
  <2> DEFINE D(x) == {<<Append(x[1], ds[o].name), o>> : o \in Children(ds, x[2])}
             E(x) == {<<Append(x[1], es[o].name), o>> : o \in Children(es, x[2])}
  <2>1. ASSUME NEW x PROVE D(x) = E(x)
    <3>1. Children(ds, x[2]) = Children(es, x[2])
      BY <1>1
    <3>2. \A o \in Children(es, x[2]) : ds[o].name = es[o].name
      BY DEF Alike, Children
    <3> QED BY <3>1, <3>2
  <2>2. OneDown(ds, pairs) = UNION {D(x) : x \in pairs}
    BY DEF OneDown
  <2>3. OneDown(es, pairs) = UNION {E(x) : x \in pairs}
    BY DEF OneDown
  <2> HIDE DEF D, E
  <2> QED BY <2>1, <2>2, <2>3
<1>3. Reached(ds, id) = Reached(es, id)
  BY <1>2 DEF Reached
<1> QED BY <1>3 DEF Under

\* From what is there, entries reach what the objects they cover reach.
LEMMA CoversReached ==
  ASSUME NEW ds, NEW es, Covers(ds, es), NEW id \in DOMAIN ds \union {Root}
  PROVE  Reached(ds, id) = Reached(es, id) /\ Under(ds, id) = Under(es, id)
<1> DEFINE There(pairs) == \A x \in pairs : x[2] \in DOMAIN ds \union {Root}
<1>1. ASSUME NEW n \in DOMAIN ds \union {Root} PROVE Children(ds, n) = Children(es, n)
  <2>1. ASSUME NEW o \in Children(es, n) PROVE o \in Children(ds, n)
    <3>1. o \in DOMAIN es /\ es[o].parent = n
      BY DEF Children
    <3>2. o \in DOMAIN ds
      BY <3>1 DEF Covers
    <3> QED BY <3>1, <3>2 DEF Covers, Children
  <2>2. ASSUME NEW o \in Children(ds, n) PROVE o \in Children(es, n)
    BY DEF Covers, Children
  <2> QED BY <2>1, <2>2
<1>2. ASSUME NEW pairs, There(pairs)
      PROVE  OneDown(ds, pairs) = OneDown(es, pairs) /\ There(OneDown(ds, pairs))
  <2> DEFINE D(x) == {<<Append(x[1], ds[o].name), o>> : o \in Children(ds, x[2])}
             E(x) == {<<Append(x[1], es[o].name), o>> : o \in Children(es, x[2])}
  <2>1. ASSUME NEW x \in pairs PROVE D(x) = E(x)
    <3>1. Children(ds, x[2]) = Children(es, x[2])
      BY <1>1, <1>2
    <3>2. \A o \in Children(ds, x[2]) : ds[o].name = es[o].name
      BY DEF Covers, Children
    <3> QED BY <3>1, <3>2
  <2>2. OneDown(ds, pairs) = UNION {D(x) : x \in pairs}
    BY DEF OneDown
  <2>3. OneDown(es, pairs) = UNION {E(x) : x \in pairs}
    BY DEF OneDown
  <2>4. ASSUME NEW x \in pairs, NEW y \in D(x) PROVE y[2] \in DOMAIN ds
    <3>1. PICK o \in Children(ds, x[2]) : y = <<Append(x[1], ds[o].name), o>>
      BY <2>4
    <3>2. y[2] = o
      BY <3>1
    <3> QED BY <3>2 DEF Children
  <2> HIDE DEF D, E
  <2> QED BY <2>1, <2>2, <2>3, <2>4
<1> DEFINE top == {<< << >>, id >>}
           first == OneDown(ds, top)
           second == OneDown(ds, first)
           third == OneDown(ds, second)
<1>3. There(top)
  OBVIOUS
<1> HIDE DEF There, top
<1>4. first = OneDown(es, top) /\ There(first)
  BY <1>2, <1>3
<1> HIDE DEF first
<1>5. second = OneDown(es, first) /\ There(second)
  BY <1>2, <1>4
<1> HIDE DEF second
<1>6. third = OneDown(es, second)
  BY <1>2, <1>5
<1>7. Reached(ds, id) = top \union first \union second \union third
  BY DEF Reached, top, first, second
<1>8. Reached(es, id) = top \union first \union second \union third
  BY <1>4, <1>5, <1>6 DEF Reached, top
<1> QED BY <1>7, <1>8 DEF Under

\* What has a path in the entries is one of the objects, at that path.
LEMMA CoversPlace ==
  ASSUME NEW ds, NEW es, Covers(ds, es), NEW p, NEW o, <<p, o>> \in Reached(es, Root)
  PROVE  /\ <<p, o>> \in Reached(ds, Root)
         /\ \/ o = Root /\ p = << >>
            \/ o \in DOMAIN ds /\ p # << >>
<1>1. Reached(ds, Root) = Reached(es, Root)
  BY CoversReached
<1> DEFINE R == Reached(ds, Root)
<1>2. \A q, b : <<q, b>> \in R =>
        \/ q = << >> /\ b = Root
        \/ /\ q # << >> /\ Len(q) \in 1..3 /\ Len(Front(q)) = Len(q) - 1
           /\ b \in DOMAIN ds /\ <<Front(q), ds[b].parent>> \in R
           /\ q = Append(Front(q), ds[b].name)
  BY ReachedSteps
<1>3. <<p, o>> \in R
  BY <1>1
<1> HIDE DEF R
<1>4. (p = << >> /\ o = Root) \/ (p # << >> /\ o \in DOMAIN ds)
  BY <1>2, <1>3
<1> QED BY <1>3, <1>4 DEF R

\* The name that was appended is the last one.
LEMMA LastOfLonger ==
  ASSUME NEW p, IsPath(p), NEW e
  PROVE  Last(Append(p, e)) = e
<1>1. PICK S : p \in Seq(S)
  BY DEF IsPath
<1>2. p \in Seq(S \union {e}) /\ e \in S \union {e}
  BY <1>1
<1>3. Len(Append(p, e)) = Len(p) + 1 /\ Append(p, e)[Len(p) + 1] = e
  BY <1>2, AppendProperties
<1> QED BY <1>3 DEF Last

\* Without twins a path leads to one object.
LEMMA OneIdAtPath ==
  ASSUME NEW es, NoTwin(es), NEW id, NEW p, NEW o, NEW q,
         <<p, o>> \in Reached(es, id), <<p, q>> \in Reached(es, id)
  PROVE  o = q
<1> DEFINE R == Reached(es, id)
           P(n) == \A r, a, b : Len(r) = n /\ <<r, a>> \in R /\ <<r, b>> \in R => a = b
<1>1. \A r, a : <<r, a>> \in R =>
              /\ IsPath(r) /\ Len(r) \in 0..3
              /\ \/ r = << >> /\ a = id
                 \/ /\ r # << >> /\ Len(r) \in 1..3 /\ Len(Front(r)) = Len(r) - 1
                    /\ a \in DOMAIN es /\ <<Front(r), es[a].parent>> \in R
                    /\ r = Append(Front(r), es[a].name)
  BY ReachedSteps
<1> HIDE DEF R
<1>2. P(0)
  <2> SUFFICES ASSUME NEW r, NEW a, NEW b, Len(r) = 0, <<r, a>> \in R, <<r, b>> \in R
               PROVE  a = b
    OBVIOUS
  <2>1. ~(Len(r) \in 1..3)
    OBVIOUS
  <2>2. a = id
    BY <1>1, <2>1
  <2>3. b = id
    BY <1>1, <2>1
  <2> QED BY <2>2, <2>3
<1>3. ASSUME NEW n \in 0..2, P(n), NEW r, NEW a, NEW b, Len(r) = n + 1, <<r, a>> \in R,
             <<r, b>> \in R
      PROVE  a = b
  <2>1. r # << >>
    BY <1>3
  <2>2. Len(Front(r)) = n
    <3>1. Len(Front(r)) = Len(r) - 1
      BY <1>1, <1>3, <2>1
    <3> QED BY <1>3, <3>1
  <2>3. /\ a \in DOMAIN es /\ <<Front(r), es[a].parent>> \in R /\ r = Append(Front(r), es[a].name)
        /\ b \in DOMAIN es /\ <<Front(r), es[b].parent>> \in R /\ r = Append(Front(r), es[b].name)
    BY <1>1, <1>3, <2>1
  <2>4. es[a].parent = es[b].parent
    BY <1>3, <2>2, <2>3
  <2>5. IsPath(Front(r))
    BY <1>1, <2>3
  <2>6. es[a].name = Last(r) /\ es[b].name = Last(r)
    BY <2>3, <2>5, LastOfLonger
  <2> QED BY <2>3, <2>4, <2>6 DEF NoTwin
<1>4. \A n \in 0..2 : P(n) => P(n + 1)
  BY <1>3
<1> HIDE DEF P
<1>5. P(0) /\ P(0 + 1) /\ P(1 + 1) /\ P(2 + 1)
  BY <1>2, <1>4
<1>6. Len(p) \in {0, 0 + 1, 1 + 1, 2 + 1}
  <2>1. Len(p) \in 0..3
    BY <1>1 DEF R
  <2> QED BY <2>1
<1>7. P(Len(p))
  BY <1>5, <1>6
<1> QED BY <1>7 DEF P, R

\* An object has one path.
LEMMA OnePathOfId ==
  ASSUME NEW es, Root \notin DOMAIN es, NEW o, NEW p, NEW r,
         <<p, o>> \in Reached(es, Root), <<r, o>> \in Reached(es, Root)
  PROVE  p = r
<1> DEFINE R == Reached(es, Root)
           P(n) == \A a, x, y : Len(x) = n /\ <<x, a>> \in R /\ <<y, a>> \in R => x = y
<1>1. \A x, a : <<x, a>> \in R =>
              /\ Len(x) \in 0..3
              /\ \/ x = << >> /\ a = Root
                 \/ /\ x # << >> /\ Len(x) \in 1..3 /\ Len(Front(x)) = Len(x) - 1
                    /\ a \in DOMAIN es /\ <<Front(x), es[a].parent>> \in R
                    /\ x = Append(Front(x), es[a].name)
  BY ReachedSteps
<1> HIDE DEF R
<1>2. P(0)
  <2> SUFFICES ASSUME NEW a, NEW x, NEW y, Len(x) = 0, <<x, a>> \in R, <<y, a>> \in R
               PROVE  x = y
    OBVIOUS
  <2>1. ~(Len(x) \in 1..3)
    OBVIOUS
  <2>2. x = << >> /\ a = Root
    BY <1>1, <2>1
  <2> QED BY <1>1, <2>2
<1>3. ASSUME NEW n \in 0..2, P(n), NEW a, NEW x, NEW y, Len(x) = n + 1, <<x, a>> \in R,
             <<y, a>> \in R
      PROVE  x = y
  <2>1. x # << >>
    BY <1>3
  <2>2. /\ Len(Front(x)) = n /\ a \in DOMAIN es /\ <<Front(x), es[a].parent>> \in R
        /\ x = Append(Front(x), es[a].name)
    BY <1>1, <1>3, <2>1
  <2>3. <<Front(y), es[a].parent>> \in R /\ y = Append(Front(y), es[a].name)
    BY <1>1, <1>3, <2>2
  <2>4. Front(x) = Front(y)
    BY <1>3, <2>2, <2>3
  <2> QED BY <2>2, <2>3, <2>4
<1>4. \A n \in 0..2 : P(n) => P(n + 1)
  BY <1>3
<1> HIDE DEF P
<1>5. P(0) /\ P(0 + 1) /\ P(1 + 1) /\ P(2 + 1)
  BY <1>2, <1>4
<1>6. Len(p) \in {0, 0 + 1, 1 + 1, 2 + 1}
  <2>1. Len(p) \in 0..3
    BY <1>1 DEF R
  <2> QED BY <2>1
<1>7. P(Len(p))
  BY <1>5, <1>6
<1> QED BY <1>7 DEF P, R

\* What is reached stays so when objects are added.
LEMMA ReachedGrows ==
  ASSUME NEW es, NEW ds,
         \A o \in DOMAIN es :
           o \in DOMAIN ds /\ ds[o].parent = es[o].parent /\ ds[o].name = es[o].name,
         NEW id, NEW p, NEW o, <<p, o>> \in Reached(es, id)
  PROVE  <<p, o>> \in Reached(ds, id)
<1> DEFINE P(n) == \A x, a : Len(x) = n /\ <<x, a>> \in Reached(es, id) => <<x, a>> \in Reached(ds, id)
<1>1. \A x, a : <<x, a>> \in Reached(es, id) =>
              /\ Len(x) \in 0..3
              /\ \/ x = << >> /\ a = id
                 \/ /\ x # << >> /\ Len(x) \in 1..3 /\ Len(Front(x)) = Len(x) - 1
                    /\ a \in DOMAIN es /\ <<Front(x), es[a].parent>> \in Reached(es, id)
                    /\ x = Append(Front(x), es[a].name)
  BY ReachedSteps
<1>2. P(0)
  <2> SUFFICES ASSUME NEW x, NEW a, Len(x) = 0, <<x, a>> \in Reached(es, id)
               PROVE  <<x, a>> \in Reached(ds, id)
    OBVIOUS
  <2>1. ~(Len(x) \in 1..3)
    OBVIOUS
  <2>2. x = << >> /\ a = id
    BY <1>1, <2>1
  <2> QED BY <2>2, ReachedIsRooted
<1>3. ASSUME NEW n \in 0..2, P(n), NEW x, NEW a, Len(x) = n + 1, <<x, a>> \in Reached(es, id)
      PROVE  <<x, a>> \in Reached(ds, id)
  <2>1. x # << >>
    BY <1>3
  <2>2. /\ Len(Front(x)) = n /\ a \in DOMAIN es /\ <<Front(x), es[a].parent>> \in Reached(es, id)
        /\ x = Append(Front(x), es[a].name)
    BY <1>1, <1>3, <2>1
  <2>3. /\ a \in DOMAIN ds /\ <<Front(x), ds[a].parent>> \in Reached(ds, id)
        /\ x = Append(Front(x), ds[a].name)
    BY <1>3, <2>2
  <2>4. Len(Front(x)) <= 2
    BY <2>2
  <2>5. <<Append(Front(x), ds[a].name), a>> \in Reached(ds, id)
    BY <2>3, <2>4, ReachedSteps
  <2> QED BY <2>3, <2>5
<1>4. \A n \in 0..2 : P(n) => P(n + 1)
  BY <1>3
<1> HIDE DEF P
<1>5. P(0) /\ P(0 + 1) /\ P(1 + 1) /\ P(2 + 1)
  BY <1>2, <1>4
<1>6. Len(p) \in {0, 0 + 1, 1 + 1, 2 + 1}
  <2>1. Len(p) \in 0..3
    BY <1>1
  <2> QED BY <2>1
<1>7. P(Len(p))
  BY <1>5, <1>6
<1> QED BY <1>7 DEF P

\* The index that is built anew leads to its entries, and to each of them.
LEMMA ReloadedLeads ==
  ASSUME NEW es, NEW x \in Reloaded(es)
  PROVE  x.entries = es /\ x = [entries |-> es, byPath |-> x.byPath] /\ Leads(x) /\ Complete(x)
<1> DEFINE pairs == Reached(es, Root)
<1>1. PICK last \in VisitedLast(es, pairs) : x = [entries |-> es, byPath |-> ByPath(pairs, last)]
  BY DEF Reloaded
<1>2. \A y \in pairs : y = <<y[1], y[2]>>
  BY ReachedSteps
<1> HIDE DEF pairs
<1>3. DOMAIN last = Doubled(pairs) /\ \A p \in Doubled(pairs) : last[p] \in IdsAt(pairs, p)
  BY DEF VisitedLast
<1>4. ASSUME NEW p \in PathsOf(pairs) PROVE ByPath(pairs, last)[p] \in IdsAt(pairs, p)
  <2>1. CASE p \in DOMAIN last
    BY <1>3, <2>1 DEF ByPath
  <2>2. CASE p \notin DOMAIN last
    <3>1. \E o : o \in IdsAt(pairs, p)
      BY DEF PathsOf, IdsAt
    <3> QED BY <2>2, <3>1 DEF ByPath
  <2> QED BY <2>1, <2>2
<1>5. \A p, o : o \in IdsAt(pairs, p) => <<p, o>> \in pairs
  BY <1>2 DEF IdsAt
<1>6. DOMAIN ByPath(pairs, last) = PathsOf(pairs)
  BY DEF ByPath
<1>7. \A p \in DOMAIN ByPath(pairs, last) : <<p, ByPath(pairs, last)[p]>> \in pairs
  BY <1>4, <1>5, <1>6
<1>8. Leads(x)
  BY <1>1, <1>7 DEF Leads, pairs
<1>9. Complete(x)
  <2>1. DOMAIN x.byPath = PathsOf(pairs) /\ x.entries = es
    BY <1>1, <1>6
  <2>2. ASSUME NEW p, NEW o, <<p, o>> \in pairs PROVE p \in PathsOf(pairs)
    <3>1. PICK y : y = <<p, o>>
      OBVIOUS
    <3>2. y \in pairs /\ p = y[1]
      BY <2>2, <3>1
    <3> QED BY <3>2 DEF PathsOf
  <2> QED BY <2>1, <2>2 DEF Complete, Known, pairs
<1> QED BY <1>1, <1>8, <1>9

\* Every path has a path to the top and itself as prefixes, and its prefixes are those of
\* what is longer.
LEMMA PrefixOfLonger ==
  ASSUME NEW p, IsPath(p)
  PROVE  /\ IsPrefix(<< >>, p) /\ IsPrefix(p, p)
         /\ \A e, to : IsPath(to) /\ IsPrefix(to, p) => IsPrefix(to, Append(p, e))
<1>1. PICK S : p \in Seq(S)
  BY DEF IsPath
<1>2. Len(p) \in Nat
  BY <1>1
<1>3. IsPrefix(p, p)
  BY <1>2 DEF IsPrefix
<1>4. IsPrefix(<< >>, p)
  <2>1. SubSeq(<< >>, 1, 0) = << >> /\ SubSeq(p, 1, 0) = << >>
    BY SubSeqEmpty
  <2>2. Len(<< >>) = 0
    OBVIOUS
  <2> QED BY <1>2, <2>1, <2>2 DEF IsPrefix
<1>5. ASSUME NEW e, NEW to, IsPath(to), IsPrefix(to, p) PROVE IsPrefix(to, Append(p, e))
  <2>1. PICK n \in Nat : n = Len(to)
    BY <1>5 DEF IsPath
  <2>2. n <= Len(p) /\ SubSeq(to, 1, n) = SubSeq(p, 1, n)
    BY <1>5, <2>1 DEF IsPrefix
  <2>3. PICK T : T = S \union {e}
    OBVIOUS
  <2>4. p \in Seq(T) /\ e \in T
    BY <1>1, <2>3
  <2>5. PICK l : l = Append(p, e)
    OBVIOUS
  <2>6. l \in Seq(T) /\ Len(l) = Len(p) + 1 /\ \A i \in 1..Len(p) : l[i] = p[i]
    BY <2>4, <2>5, AppendProperties
  <2>7. \A i \in 1..n : p[i] \in T /\ l[i] = p[i]
    BY <1>2, <2>2, <2>4, <2>6, ElementOfSeq
  <2>8. /\ SubSeq(p, 1, n) \in Seq(T) /\ Len(SubSeq(p, 1, n)) = IF 1 <= n THEN n - 1 + 1 ELSE 0
        /\ \A i \in 1..n - 1 + 1 : SubSeq(p, 1, n)[i] = p[1 + i - 1]
    BY <2>7, SubSeqProperties
  <2>9. /\ SubSeq(l, 1, n) \in Seq(T) /\ Len(SubSeq(l, 1, n)) = IF 1 <= n THEN n - 1 + 1 ELSE 0
        /\ \A i \in 1..n - 1 + 1 : SubSeq(l, 1, n)[i] = l[1 + i - 1]
    BY <2>7, SubSeqProperties
  <2>10. SubSeq(p, 1, n) = SubSeq(l, 1, n)
    <3>1. Len(SubSeq(p, 1, n)) = n /\ Len(SubSeq(l, 1, n)) = n
      BY <2>8, <2>9
    <3>2. \A i \in 1..n : SubSeq(p, 1, n)[i] = SubSeq(l, 1, n)[i]
      BY <2>7, <2>8, <2>9
    <3> QED BY <2>8, <2>9, <3>1, <3>2, SeqEqual
  <2> QED BY <1>2, <2>1, <2>2, <2>5, <2>6, <2>10 DEF IsPrefix
<1> QED BY <1>3, <1>4, <1>5

\* What is not below an object is reached also when the object is cut off.
LEMMA SurvivesCut ==
  ASSUME NEW es, Root \notin DOMAIN es, NEW to, NEW id, <<to, id>> \in Reached(es, Root),
         NEW p, NEW o, <<p, o>> \in Reached(es, Root), ~IsPrefix(to, p)
  PROVE  <<p, o>> \in Reached(Cut(es, id), Root)
<1> DEFINE R == Reached(es, Root)
           C == Reached(Cut(es, id), Root)
           P(n) == \A x, a : Len(x) = n /\ <<x, a>> \in R /\ ~IsPrefix(to, x) => <<x, a>> \in C
<1>1. \A x, a : <<x, a>> \in R =>
              /\ IsPath(x) /\ Len(x) \in 0..3
              /\ \/ x = << >> /\ a = Root
                 \/ /\ x # << >> /\ Len(x) \in 1..3 /\ Len(Front(x)) = Len(x) - 1
                    /\ a \in DOMAIN es /\ <<Front(x), es[a].parent>> \in R
                    /\ x = Append(Front(x), es[a].name)
  BY ReachedSteps
<1>2. IsPath(to)
  BY <1>1
<1>3. << << >>, Root >> \in C
  BY ReachedIsRooted
<1>4. DOMAIN Cut(es, id) = DOMAIN es \ Under(es, id) /\ \A a \in DOMAIN Cut(es, id) : Cut(es, id)[a] = es[a]
  BY DEF Cut, Restrict
<1>13. \A x, a : <<x, a>> \in Reached(es, id) =>
                    \/ x = << >> /\ a = id
                    \/ a \in DOMAIN es /\ <<Front(x), es[a].parent>> \in Reached(es, id)
  BY ReachedSteps
<1>14. \A x, a : <<x, a>> \in C => a = Root \/ a \in DOMAIN Cut(es, id)
  BY ReachedSteps
<1>5. Root \in Under(es, id) => id = Root
  <2> SUFFICES ASSUME Root \in Under(es, id) PROVE id = Root
    OBVIOUS
  <2>1. PICK x \in Reached(es, id) : x[2] = Root
    BY DEF Under
  <2>2. <<x[1], Root>> \in Reached(es, id)
    BY <2>1, ReachedSteps
  <2> QED BY <2>2, <1>13
<1>6. id = Root => to = << >>
  BY <1>1
<1>7. P(0)
  <2> SUFFICES ASSUME NEW x, NEW a, Len(x) = 0, <<x, a>> \in R PROVE <<x, a>> \in C
    OBVIOUS
  <2>1. ~(Len(x) \in 1..3)
    OBVIOUS
  <2>2. x = << >> /\ a = Root
    BY <1>1, <2>1
  <2> QED BY <2>2, <1>3
<1>8. ASSUME NEW n \in 0..2, P(n), NEW x, NEW a, Len(x) = n + 1, <<x, a>> \in R, ~IsPrefix(to, x)
      PROVE  <<x, a>> \in C
  <2>1. x # << >>
    BY <1>8
  <2>2. /\ Len(Front(x)) = n /\ a \in DOMAIN es /\ <<Front(x), es[a].parent>> \in R
        /\ x = Append(Front(x), es[a].name) /\ IsPath(Front(x)) /\ IsPath(x)
    <3>1. Len(Front(x)) = Len(x) - 1
      BY <1>1, <1>8, <2>1
    <3>2. /\ a \in DOMAIN es /\ <<Front(x), es[a].parent>> \in R
          /\ x = Append(Front(x), es[a].name) /\ IsPath(x)
      BY <1>1, <1>8, <2>1
    <3>3. IsPath(Front(x))
      BY <1>1, <3>2
    <3>4. Len(Front(x)) = n
      BY <1>8, <3>1
    <3> QED BY <3>2, <3>3, <3>4
  <2>3. ~IsPrefix(to, Front(x))
    BY <1>2, <1>8, <2>2, PrefixOfLonger
  <2>4. <<Front(x), es[a].parent>> \in C
    BY <1>8, <2>2, <2>3
  <2>5. ASSUME a \in Under(es, id) PROVE FALSE
    <3>1. PICK y \in Reached(es, id) : y[2] = a
      BY <2>5 DEF Under
    <3>2. <<y[1], a>> \in Reached(es, id)
      BY <3>1, ReachedSteps
    <3>3. ASSUME y[1] = << >> PROVE FALSE
      <4>1. a = id
        BY <3>1, <3>3, ReachedIsRooted
      <4>2. x = to
        BY <4>1, <1>8, OnePathOfId
      <4> QED BY <4>2, <1>2, <1>8, PrefixOfLonger
    <3>4. <<Front(y[1]), es[a].parent>> \in Reached(es, id)
      BY <3>2, <3>3, <1>13
    <3>5. PICK z : z = <<Front(y[1]), es[a].parent>>
      OBVIOUS
    <3>6. es[a].parent \in Under(es, id)
      BY <3>4, <3>5 DEF Under
    <3>7. es[a].parent = Root
      BY <2>4, <3>6, <1>4, <1>14
    <3>8. to = << >>
      BY <3>6, <3>7, <1>5, <1>6
    <3> QED BY <3>8, <2>2, <1>8, PrefixOfLonger
  <2>6. a \in DOMAIN Cut(es, id) /\ Cut(es, id)[a] = es[a]
    BY <1>4, <2>2, <2>5
  <2>7. <<Append(Front(x), Cut(es, id)[a].name), a>> \in C
    <3>1. Len(Front(x)) <= 2
      BY <2>2
    <3> QED BY <3>1, <2>4, <2>6, ReachedSteps
  <2> QED BY <2>2, <2>6, <2>7
<1>9. \A n \in 0..2 : P(n) => P(n + 1)
  BY <1>8
<1> HIDE DEF P
<1>10. P(0) /\ P(0 + 1) /\ P(1 + 1) /\ P(2 + 1)
  BY <1>7, <1>9
<1>11. Len(p) \in {0, 0 + 1, 1 + 1, 2 + 1}
  <2>1. Len(p) \in 0..3
    BY <1>1
  <2> QED BY <2>1
<1>12. P(Len(p))
  BY <1>10, <1>11
<1> QED BY <1>12 DEF P

\* What is erased is below the object, and it is the object itself at least.
LEMMA ErasedIs ==
  ASSUME NEW es, NEW id
  PROVE  \E gone : /\ id \in gone /\ gone \subseteq Under(es, id)
                   /\ Erased(es, id) = Restrict(es, DOMAIN es \ gone)
<1>1. PICK fs : fs = InFolders(es)
  OBVIOUS
<1>2. \A o \in DOMAIN fs : o \in DOMAIN es /\ fs[o] = es[o]
  BY <1>1 DEF InFolders, Restrict
<1>3. Erased(es, id) = Restrict(es, DOMAIN es \ Under(fs, id))
  BY <1>1 DEF Erased
<1>4. id \in Under(fs, id)
  <2>1. << << >>, id >> \in Reached(fs, id)
    BY ReachedIsRooted
  <2>2. PICK x : x = << << >>, id >>
    OBVIOUS
  <2> QED BY <2>1, <2>2 DEF Under
<1>5. ASSUME NEW o \in Under(fs, id) PROVE o \in Under(es, id)
  <2>1. PICK x \in Reached(fs, id) : x[2] = o
    BY DEF Under
  <2>2. <<x[1], o>> \in Reached(fs, id)
    BY <2>1, ReachedSteps
  <2>3. <<x[1], o>> \in Reached(es, id)
    BY <1>2, <2>2, ReachedGrows
  <2>4. PICK z : z = <<x[1], o>>
    OBVIOUS
  <2> QED BY <2>3, <2>4 DEF Under
<1> QED BY <1>3, <1>4, <1>5

\* What is not below an object is reached also when the object is erased.
LEMMA SurvivesErased ==
  ASSUME NEW es, Root \notin DOMAIN es, NEW to, NEW id, <<to, id>> \in Reached(es, Root),
         NEW p, NEW o, <<p, o>> \in Reached(es, Root), ~IsPrefix(to, p)
  PROVE  <<p, o>> \in Reached(Erased(es, id), Root)
<1>1. <<p, o>> \in Reached(Cut(es, id), Root)
  BY SurvivesCut
<1>2. PICK gone : gone \subseteq Under(es, id) /\ Erased(es, id) = Restrict(es, DOMAIN es \ gone)
  BY ErasedIs
<1>3. \A a \in DOMAIN Cut(es, id) :
        a \in DOMAIN Erased(es, id) /\ Erased(es, id)[a] = Cut(es, id)[a]
  BY <1>2 DEF Cut, Restrict
<1> QED BY <1>1, <1>3, ReachedGrows

\* Objects that are alike have no twins, or both have.
LEMMA AlikeNoTwin ==
  ASSUME NEW ds, NEW es, Alike(ds, es), NoTwin(ds)
  PROVE  NoTwin(es)
BY DEF Alike, NoTwin

\* A path that is known leads to its id.
LEMMA KnownLeads ==
  ASSUME NEW x, Leads(x), NEW path, Known(x, path)
  PROVE  <<path, IdOf(x, path)>> \in Reached(x.entries, Root)
<1>1. CASE path = << >>
  BY <1>1, ReachedIsRooted DEF IdOf
<1>2. CASE path # << >>
  BY <1>2 DEF IdOf, Known, Leads
<1> QED BY <1>1, <1>2

\* The index leads to its entries after a new one, or one that was there as it is, was put.
LEMMA PutLeads ==
  ASSUME NEW x, Leads(x), NEW S, NEW path \in Seq(S), path # << >>, Len(path) <= 3, NEW o,
         o \in DOMAIN x.entries => /\ x.entries[o].parent = IdOf(x, Front(path))
                                   /\ x.entries[o].name = Last(path),
         NEW y \in Put(x, path, o)
  PROVE  Leads(y)
<1>0. y \in Put(x, path, o)
  OBVIOUS
<1>1. /\ Known(x, Front(path))
      /\ DOMAIN y.entries = DOMAIN x.entries \union {o}
      /\ y.entries[o].parent = IdOf(x, Front(path)) /\ y.entries[o].name = Last(path)
      /\ \A a \in DOMAIN x.entries : a # o => y.entries[a] = x.entries[a]
      /\ DOMAIN y.byPath = DOMAIN x.byPath \union {path} /\ y.byPath[path] = o
      /\ \A p \in DOMAIN x.byPath : p # path => y.byPath[p] = x.byPath[p]
  BY <1>0, PutIs
<1>2. \A a \in DOMAIN x.entries :
        /\ a \in DOMAIN y.entries /\ y.entries[a].parent = x.entries[a].parent
        /\ y.entries[a].name = x.entries[a].name
  BY <1>1
<1>3. \A p, a : <<p, a>> \in Reached(x.entries, Root) => <<p, a>> \in Reached(y.entries, Root)
  BY <1>2, ReachedGrows
<1>4. <<Front(path), y.entries[o].parent>> \in Reached(y.entries, Root)
  BY <1>1, <1>3, KnownLeads
<1>5. path = Append(Front(path), y.entries[o].name) /\ Len(Front(path)) <= 2
  <2>1. path = Append(Front(path), Last(path)) /\ Len(Front(path)) = Len(path) - 1
        /\ Len(path) \in Nat
    BY FrontAndLast
  <2> QED BY <1>1, <2>1
<1>6. <<Append(Front(path), y.entries[o].name), o>> \in Reached(y.entries, Root)
  BY <1>1, <1>4, <1>5, ReachedSteps
<1>7. <<path, o>> \in Reached(y.entries, Root)
  BY <1>5, <1>6
<1>8. ASSUME NEW p \in DOMAIN y.byPath PROVE <<p, y.byPath[p]>> \in Reached(y.entries, Root)
  <2>1. CASE p = path
    BY <2>1, <1>1, <1>7
  <2>2. CASE p # path
    <3>1. p \in DOMAIN x.byPath /\ y.byPath[p] = x.byPath[p]
      BY <2>2, <1>1
    <3> QED BY <3>1, <1>3 DEF Leads
  <2> QED BY <2>1, <2>2
<1> QED BY <1>8 DEF Leads

\* What a path that is known leads to has an id of Drive, or is the watched folder.
LEMMA KnownHasId ==
  ASSUME NEW x, NEW m, IsSound(x, m), NEW path, Known(x, path)
  PROVE  IdOf(x, path) \in 0..m
<1>1. PICK o : o = IdOf(x, path)
  OBVIOUS
<1>2. <<path, o>> \in Reached(x.entries, Root)
  BY <1>1, KnownLeads DEF IsSound
<1>3. o = Root \/ o \in DOMAIN x.entries
  BY <1>2, ReachedSteps
<1> QED BY <1>1, <1>3 DEF IsSound, HasIds, Root

\* An object that Drive has is put where the index has it.
LEMMA PutIsSound ==
  ASSUME NEW x, NEW m, IsSound(x, m), NEW S, NEW path \in Seq(S), path # << >>,
         Len(path) <= 3, NEW o \in DOMAIN x.entries,
         x.entries[o].parent = IdOf(x, Front(path)), x.entries[o].name = Last(path),
         NEW y \in Put(x, path, o)
  PROVE  IsSound(y, m) /\ Alike(x.entries, y.entries)
<1>1. Leads(y)
  BY PutLeads DEF IsSound
<1>2. Alike(x.entries, y.entries)
  <2>1. y \in Put(x, path, o)
    OBVIOUS
  <2>2. /\ DOMAIN y.entries = DOMAIN x.entries \union {o}
        /\ y.entries[o].parent = IdOf(x, Front(path)) /\ y.entries[o].name = Last(path)
        /\ \A a \in DOMAIN x.entries : a # o => y.entries[a] = x.entries[a]
    BY <2>1, PutIs
  <2> QED BY <2>2 DEF Alike
<1>3. NoTwin(y.entries)
  BY <1>2, AlikeNoTwin DEF IsSound
<1>4. HasIds(y.entries, m)
  <2>1. HasIds(x.entries, m)
    BY DEF IsSound
  <2>2. \A a \in DOMAIN y.entries : y.entries[a].parent = x.entries[a].parent
    BY <1>2 DEF Alike
  <2> QED BY <1>2, <2>1, <2>2 DEF HasIds, Alike
<1>5. Complete(y)
  <2>0. y \in Put(x, path, o)
    OBVIOUS
  <2>1. Reached(x.entries, Root) = Reached(y.entries, Root)
    BY <1>2, AlikeReached
  <2>2. \A p : Known(x, p) => Known(y, p)
    BY <2>0, PutIs DEF Known
  <2> QED BY <2>1, <2>2 DEF IsSound, Complete
<1> QED BY <1>1, <1>2, <1>3, <1>4, <1>5 DEF IsSound

\* What is reached after something new was put is the new, or was reached before.
LEMMA ReachedAfterPut ==
  ASSUME NEW x, NEW m, HasIds(x.entries, m), NEW path, NEW o, o = m + 1,
         NEW y \in Put(x, path, o), NEW p, NEW a, <<p, a>> \in Reached(y.entries, Root)
  PROVE  a = o \/ <<p, a>> \in Reached(x.entries, Root)
<1> DEFINE R == Reached(x.entries, Root)
           Q == Reached(y.entries, Root)
           P(n) == \A r, b : Len(r) = n /\ <<r, b>> \in Q => b = o \/ <<r, b>> \in R
<1>0. y \in Put(x, path, o)
  OBVIOUS
<1>1. /\ DOMAIN y.entries = DOMAIN x.entries \union {o}
      /\ \A b \in DOMAIN x.entries : b # o => y.entries[b] = x.entries[b]
  BY <1>0, PutIs
<1>2. \A r, b : <<r, b>> \in Q =>
              /\ Len(r) \in 0..3
              /\ \/ r = << >> /\ b = Root
                 \/ /\ r # << >> /\ Len(r) \in 1..3 /\ Len(Front(r)) = Len(r) - 1
                    /\ b \in DOMAIN y.entries /\ <<Front(r), y.entries[b].parent>> \in Q
                    /\ r = Append(Front(r), y.entries[b].name)
  BY ReachedSteps
<1>3. << << >>, Root >> \in R
  BY ReachedIsRooted
<1>4. \A q, b : /\ b \in DOMAIN x.entries /\ <<q, x.entries[b].parent>> \in R /\ Len(q) <= 2
                => <<Append(q, x.entries[b].name), b>> \in R
  BY ReachedSteps
<1>5. \A b \in DOMAIN x.entries : x.entries[b].parent # o
  BY DEF HasIds
<1> HIDE DEF R, Q
<1>6. P(0)
  <2> SUFFICES ASSUME NEW r, NEW b, Len(r) = 0, <<r, b>> \in Q
               PROVE  <<r, b>> \in R
    OBVIOUS
  <2>1. ~(Len(r) \in 1..3)
    OBVIOUS
  <2>2. r = << >> /\ b = Root
    BY <1>2, <2>1
  <2> QED BY <1>3, <2>2
<1>7. ASSUME NEW n \in 0..2, P(n), NEW r, NEW b, Len(r) = n + 1, <<r, b>> \in Q, b # o
      PROVE  <<r, b>> \in R
  <2>1. r # << >>
    BY <1>7
  <2>2. /\ b \in DOMAIN y.entries /\ <<Front(r), y.entries[b].parent>> \in Q
        /\ r = Append(Front(r), y.entries[b].name) /\ Len(Front(r)) = Len(r) - 1
    BY <1>2, <1>7, <2>1
  <2>3. b \in DOMAIN x.entries /\ y.entries[b] = x.entries[b] /\ Len(Front(r)) = n
    BY <1>1, <1>7, <2>2
  <2>4. <<Front(r), x.entries[b].parent>> \in R
    BY <1>5, <1>7, <2>2, <2>3
  <2>5. Len(Front(r)) <= 2
    BY <2>3
  <2> QED BY <1>4, <2>2, <2>3, <2>4, <2>5
<1>8. \A n \in 0..2 : P(n) => P(n + 1)
  BY <1>7
<1> HIDE DEF P
<1>9. P(0) /\ P(0 + 1) /\ P(1 + 1) /\ P(2 + 1)
  BY <1>6, <1>8
<1>10. Len(p) \in {0, 0 + 1, 1 + 1, 2 + 1}
  <2>1. Len(p) \in 0..3
    BY <1>2 DEF Q
  <2> QED BY <2>1
<1>11. P(Len(p))
  BY <1>9, <1>10
<1> QED BY <1>11 DEF P, Q, R

\* Something new is put where nothing is.
LEMMA NewIsSound ==
  ASSUME NEW x, NEW m, IsSound(x, m), NEW path \in Seq(STRING), path # << >>, Len(path) <= 3,
         ~Known(x, path), NEW o, o = m + 1, NEW y \in Put(x, path, o)
  PROVE  IsSound(y, o)
<1>0. y \in Put(x, path, o)
  OBVIOUS
<1>1. /\ Known(x, Front(path))
      /\ DOMAIN y.entries = DOMAIN x.entries \union {o}
      /\ y.entries[o].parent = IdOf(x, Front(path)) /\ y.entries[o].name = Last(path)
      /\ \A a \in DOMAIN x.entries : a # o => y.entries[a] = x.entries[a]
      /\ DOMAIN y.byPath = DOMAIN x.byPath \union {path}
  BY <1>0, PutIs
<1>2. HasIds(x.entries, m) /\ NoTwin(x.entries) /\ Leads(x) /\ Complete(x)
  BY DEF IsSound
<1>3. /\ m \in Nat /\ DOMAIN x.entries \subseteq 1..m /\ o \notin DOMAIN x.entries
      /\ o \notin 0..m /\ Root \notin DOMAIN y.entries
      /\ \A a \in DOMAIN x.entries : x.entries[a].parent \in 0..m
  BY <1>1, <1>2 DEF HasIds, Root
<1>4. Leads(y)
  BY <1>0, <1>2, <1>3, PutLeads
<1>5. HasIds(y.entries, o)
  <2>1. IdOf(x, Front(path)) \in 0..m
    BY <1>1, KnownHasId
  <2>2. ASSUME NEW a \in DOMAIN y.entries PROVE a \in 1..o /\ y.entries[a].parent \in 0..o
    <3>1. CASE a = o
      BY <1>1, <1>3, <2>1, <3>1
    <3>2. CASE a # o
      <4>1. a \in DOMAIN x.entries /\ y.entries[a] = x.entries[a]
        BY <1>1, <3>2
      <4>2. a \in 1..m /\ x.entries[a].parent \in 0..m
        BY <1>3, <4>1
      <4> QED BY <1>3, <4>1, <4>2
    <3> QED BY <3>1, <3>2
  <2>3. o \in Nat
    BY <1>3
  <2> QED BY <2>2, <2>3 DEF HasIds
<1>6. path = Append(Front(path), Last(path)) /\ Len(Front(path)) <= 2
  <2>1. path = Append(Front(path), Last(path)) /\ Len(Front(path)) = Len(path) - 1
        /\ Len(path) \in Nat
    BY FrontAndLast
  <2> QED BY <2>1
<1>7. NoTwin(y.entries)
  <2>1. ASSUME NEW a \in DOMAIN x.entries, x.entries[a].parent = IdOf(x, Front(path)),
               x.entries[a].name = Last(path)
        PROVE  FALSE
    <3>1. <<Front(path), IdOf(x, Front(path))>> \in Reached(x.entries, Root)
      BY <1>1, <1>2, KnownLeads
    <3>2. <<Append(Front(path), x.entries[a].name), a>> \in Reached(x.entries, Root)
      BY <1>6, <2>1, <3>1, ReachedSteps
    <3>3. Known(x, path)
      BY <1>2, <1>6, <2>1, <3>2 DEF Complete
    <3> QED BY <3>3
  <2>2. ASSUME NEW a \in DOMAIN y.entries, NEW b \in DOMAIN y.entries,
               y.entries[a].parent = y.entries[b].parent, y.entries[a].name = y.entries[b].name
        PROVE  a = b
    <3>1. CASE a # o /\ b # o
      <4>1. /\ a \in DOMAIN x.entries /\ y.entries[a] = x.entries[a]
            /\ b \in DOMAIN x.entries /\ y.entries[b] = x.entries[b]
        BY <1>1, <3>1
      <4> QED BY <1>2, <2>2, <4>1 DEF NoTwin
    <3>2. CASE a = o /\ b # o
      <4>1. b \in DOMAIN x.entries /\ y.entries[b] = x.entries[b]
        BY <1>1, <3>2
      <4> QED BY <1>1, <2>1, <2>2, <3>2, <4>1
    <3>3. CASE a # o /\ b = o
      <4>1. a \in DOMAIN x.entries /\ y.entries[a] = x.entries[a]
        BY <1>1, <3>3
      <4> QED BY <1>1, <2>1, <2>2, <3>3, <4>1
    <3> QED BY <3>1, <3>2, <3>3
  <2> QED BY <2>2 DEF NoTwin
<1>8. Complete(y)
  <2>1. ASSUME NEW p, NEW a, <<p, a>> \in Reached(y.entries, Root) PROVE Known(y, p)
    <3>1. CASE a = o
      <4>1. path \in DOMAIN y.byPath /\ y.byPath[path] = o
        BY <1>0, PutIs
      <4>2. <<path, o>> \in Reached(y.entries, Root)
        BY <1>4, <4>1 DEF Leads
      <4>3. p = path
        BY <1>3, <2>1, <3>1, <4>2, OnePathOfId
      <4> QED BY <4>1, <4>3 DEF Known
    <3>2. CASE a # o
      <4>1. <<p, a>> \in Reached(x.entries, Root)
        BY <1>0, <1>2, <2>1, <3>2, ReachedAfterPut
      <4>2. Known(x, p)
        BY <1>2, <4>1 DEF Complete
      <4> QED BY <1>1, <4>2 DEF Known
    <3> QED BY <3>1, <3>2
  <2> QED BY <2>1 DEF Complete
<1> QED BY <1>4, <1>5, <1>7, <1>8 DEF IsSound

-----------------------------------------------------------------------------
(* The index stays exact *)

\* What is known of the one task that runs.
LEMMA ExactNow ==
  ASSUME Exact, Settled, NEW i \in DOMAIN tasks
  PROVE  /\ IsSound(Now, made) /\ Now.entries = entries /\ Root \notin DOMAIN entries
         /\ tasks[i].do # "forget" => Covers(drive, entries)
         /\ Covers(drive, Left(Now, tasks[i]))
         /\ Placed(drive, Now, tasks[i]) /\ HasFile(tasks[i]) /\ Len(tasks[i].make) <= 3
<1>1. IsSound(Now, made) /\ Covers(drive, Left(Now, tasks[i]))
  BY DEF Exact
<1>2. tasks[i].do # "forget" => Left(Now, tasks[i]) = entries
  BY DEF Left, Now
<1>3. Root \notin DOMAIN entries
  BY <1>1 DEF IsSound, HasIds, Now, Root
<1>4. Placed(drive, Now, tasks[i]) /\ HasFile(tasks[i])
  BY DEF Settled
<1> QED BY <1>1, <1>2, <1>3, <1>4 DEF Placed, Now

\* The one task that runs goes on.
LEMMA ExactGoes ==
  ASSUME Safe, NEW i \in DOMAIN tasks, NEW r, Goes(i, r), IsSound(Now', made'),
         Covers(drive', Left(Now', r))
  PROVE  Exact'
<1>1. \A j \in DOMAIN tasks : j = i
  BY DEF Safe, Alone
<1>2. IsSound(Now, made)'
  OBVIOUS
<1>3. CASE r.do = "end"
  <2>1. DOMAIN tasks' = {}
    BY <1>1, <1>3 DEF Goes, Restrict
  <2>2. Left(Now', r) = entries'
    BY <1>3 DEF Left, Now
  <2> QED BY <1>2, <2>1, <2>2 DEF Exact
<1>4. CASE r.do # "end"
  <2>1. tasks' = [tasks EXCEPT ![i] = r]
    BY <1>4 DEF Goes
  <2>2. DOMAIN tasks' # {} /\ \A j \in DOMAIN tasks' : tasks'[j] = r
    BY <1>1, <2>1
  <2>3. \A j \in DOMAIN tasks' : Covers(drive', Left(Now', tasks'[j]))
    BY <2>2
  <2> QED BY <1>2, <2>2, <2>3 DEF Exact
<1> QED BY <1>3, <1>4

\* The same for a step that leaves Drive and the index as they are.
LEMMA ExactStays ==
  ASSUME Safe, Exact, Settled, NEW i \in DOMAIN tasks, NEW r, Goes(i, r),
         UNCHANGED <<index, drive, made>>, tasks[i].do # "forget",
         Left(Now, r) = entries
  PROVE  Exact'
<1>1. Now' = Now /\ drive' = drive /\ made' = made
  BY DEF index, Now
<1>2. IsSound(Now', made') /\ Covers(drive', Left(Now', r))
  BY <1>1, ExactNow
<1> QED BY <1>2, ExactGoes

\* The task ends, and had deleted nothing.
LEMMA ExactEnds ==
  ASSUME Safe, Exact, Settled, NEW i \in DOMAIN tasks, Goes(i, Ended(tasks[i])),
         UNCHANGED <<index, drive, made>>, tasks[i].do # "forget"
  PROVE  Exact'
<1>1. PICK r : r = Ended(tasks[i])
  OBVIOUS
<1>2. r.do = "end"
  BY <1>1, TaskIsOK DEF Ended, IsTask
<1>3. Left(Now, r) = entries
  BY <1>2 DEF Left, Now
<1> QED BY <1>1, <1>3, ExactStays

\* A task that has found its path has deleted nothing yet.
LEMMA FoundForgetsNothing ==
  ASSUME NEW t, IsTask(t), NEW id
  PROVE  Found(t, id).do # "forget"
BY DEF Found, Resolve, Read, Ended, IsTask, Goals

\* What a task forgets that has not found its path is not in the index.
LEMMA MissingForgetsNothing ==
  ASSUME NEW t, IsTask(t), t.make = << >>, NEW x, ~Known(x, Target(t)), NEW path
  PROVE  Left(x, Missing(t, path)) = x.entries
<1>1. PICK r : r = Missing(t, path)
  OBVIOUS
<1>2. CASE r.do # "forget"
  BY <1>1, <1>2 DEF Left
<1>3. CASE r.do = "forget"
  <2>1. r = [t EXCEPT !.do = "forget"] /\ t.goal = "source" /\ Deletes(t.act)
    BY <1>1, <1>3 DEF Missing, MissingSource, Resolve, Ended, IsTask
  <2>2. r.act = t.act
    BY <2>1 DEF IsTask
  <2>3. Target(t) = t.act.from
    BY <2>1 DEF Target
  <2>4. t.act.from = t.act.to
    BY <2>1, TaskPaths DEF SyncActions
  <2>5. r.act.to \notin DOMAIN x.byPath
    BY <2>2, <2>3, <2>4 DEF Known
  <2> QED BY <1>1, <2>5 DEF Left
<1> QED BY <1>2, <1>3

\* A path is looked up.
LEMMA LookExact ==
  ASSUME Safe, Exact, Settled, NEW i \in DOMAIN tasks, Look(i)
  PROVE  Exact'
<1>1. PICK t : t = tasks[i]
  OBVIOUS
<1>2. IsTask(t) /\ t.do = "look"
  BY <1>1, TaskIsOK DEF Look
<1>3. UNCHANGED <<index, drive, made>>
  BY DEF Look, remote
<1>4. CASE Known(Now, Target(t))
  <2>1. PICK r : r = Found(t, IdOf(Now, Target(t)))
    OBVIOUS
  <2>2. Goes(i, r)
    BY <1>1, <1>4, <2>1 DEF Look
  <2>3. Left(Now, r) = entries
    BY <1>2, <2>1, FoundForgetsNothing DEF Left, Now
  <2> QED BY <1>1, <1>2, <1>3, <2>2, <2>3, ExactStays
<1>5. CASE ~Known(Now, Target(t))
  <2>1. PICK r : r = [t EXCEPT !.do = "walk", !.n = 1, !.at = Root]
    OBVIOUS
  <2>2. Goes(i, r)
    BY <1>1, <1>5, <2>1 DEF Look
  <2>3. r.do = "walk"
    BY <1>2, <2>1 DEF IsTask
  <2>4. Left(Now, r) = entries
    BY <2>3 DEF Left, Now
  <2> QED BY <1>1, <1>2, <1>3, <2>2, <2>4, ExactStays
<1> QED BY <1>4, <1>5

\* The walk passes by a name that is in the index.
LEMMA PassByExact ==
  ASSUME Safe, Exact, Settled, NEW i \in DOMAIN tasks, PassBy(i)
  PROVE  Exact'
<1>1. PICK t : t = tasks[i]
  OBVIOUS
<1>2. IsTask(t) /\ t.do = "walk"
  BY <1>1, TaskIsOK DEF PassBy, PassesBy
<1>3. UNCHANGED <<index, drive, made>>
  BY DEF PassBy, remote
<1>4. PICK r : r = [t EXCEPT !.at = IdOf(Now, SubSeq(Target(t), 1, t.n)), !.n = @ + 1]
  OBVIOUS
<1>5. Goes(i, r)
  BY <1>1, <1>4 DEF PassBy
<1>6. r.do = "walk"
  BY <1>2, <1>4 DEF IsTask
<1>7. Left(Now, r) = entries
  BY <1>6 DEF Left, Now
<1> QED BY <1>1, <1>2, <1>3, <1>5, <1>7, ExactStays

\* The index becomes one that is exact for what the task does next.
LEMMA ExactIndexed ==
  ASSUME Safe, ~panicked', NEW i \in DOMAIN tasks, NEW r, NEW xs, Indexed(i, xs, r),
         \A x \in xs : x = [entries |-> x.entries, byPath |-> x.byPath],
         \A x \in xs : IsSound(x, made') /\ Covers(drive', Left(x, r))
  PROVE  Exact'
<1>1. PICK x \in xs : Becomes(x) /\ Goes(i, r)
  BY DEF Indexed
<1>2. Now' = [entries |-> x.entries, byPath |-> x.byPath]
  BY <1>1 DEF Becomes, Now
<1>3. x = [entries |-> x.entries, byPath |-> x.byPath]
  OBVIOUS
<1>4. Now' = x
  BY <1>2, <1>3
<1>5. IsSound(x, made') /\ Covers(drive', Left(x, r))
  OBVIOUS
<1>6. IsSound(Now', made') /\ Covers(drive', Left(Now', r))
  BY <1>4, <1>5
<1> QED BY <1>1, <1>6, ExactGoes

\* What is like what covers the objects covers them.
LEMMA CoversTrans ==
  ASSUME NEW a, NEW b, NEW c, Covers(a, b), Alike(b, c)
  PROVE  Covers(a, c)
BY DEF Covers, Alike

\* What a walk finds is noted where Drive has it.
LEMMA FindExact ==
  ASSUME Safe, Exact, Settled, NEW i \in DOMAIN tasks, Find(i), ~panicked'
  PROVE  Exact'
<1>1. PICK t : t = tasks[i]
  OBVIOUS
<1>2. /\ IsTask(t) /\ ParentIsKnown(Keys(Now), t) /\ t.do = "walk"
      /\ Placed(drive, Now, t) /\ Covers(drive, entries) /\ IsSound(Now, made)
      /\ Now.entries = entries
  BY <1>1, TaskIsOK, ExactNow DEF Find
<1>3. drive' = drive /\ made' = made
  BY DEF Find, remote
<1>4. PICK path : path = SubSeq(Target(t), 1, t.n)
  OBVIOUS
<1>5. /\ t.make = << >> /\ path \in Seq(STRING) /\ path # << >> /\ Len(path) <= 3
      /\ Front(path) = SubSeq(Target(t), 1, t.n - 1)
  BY <1>2, <1>4, WalkIs
<1>6. CASE Goes(i, Missing(t, path)) /\ UNCHANGED <<index, panicked>>
  <2>1. PICK r : r = Missing(t, path)
    OBVIOUS
  <2>2. ~Known(Now, Target(t))
    BY <1>2 DEF Placed
  <2>3. Left(Now, r) = entries
    BY <1>2, <1>5, <2>1, <2>2, MissingForgetsNothing
  <2> QED BY <1>1, <1>2, <1>3, <1>6, <2>1, <2>3, ExactStays
<1>7. ASSUME NEW o \in Hits(t, Last(path)), Indexed(i, Noted(t, path, o), Onward(t, path, o))
      PROVE  Exact'
  <2>1. PICK r : r = Onward(t, path, o)
    OBVIOUS
  <2>2. r.do # "forget"
    BY <1>2, <2>1, FoundForgetsNothing DEF Onward, IsTask
  <2>3. /\ o \in DOMAIN entries /\ entries[o].parent = IdOf(Now, Front(path))
        /\ entries[o].name = Last(path)
    <3>1. o \in DOMAIN drive /\ drive[o].parent = t.at /\ drive[o].name = Last(path)
      BY DEF Hits, Children
    <3>2. t.at = IdOf(Now, Front(path))
      BY <1>2, <1>5 DEF Placed
    <3> QED BY <1>2, <3>1, <3>2 DEF Covers
  <2>4. ASSUME NEW x \in Put(Now, path, o)
        PROVE  /\ x = [entries |-> x.entries, byPath |-> x.byPath]
               /\ IsSound(x, made) /\ Covers(drive, Left(x, r))
    <3>0. x \in Put(Now, path, o)
      OBVIOUS
    <3>1. x = [entries |-> x.entries, byPath |-> x.byPath]
      BY <3>0, PutIs
    <3>2. IsSound(x, made) /\ Alike(entries, x.entries)
      BY <1>2, <1>5, <2>3, <3>0, PutIsSound
    <3>3. Covers(drive, x.entries)
      BY <1>2, <3>2, CoversTrans
    <3>4. Left(x, r) = x.entries
      BY <2>2 DEF Left
    <3> QED BY <3>1, <3>2, <3>3, <3>4
  <2> QED BY <1>3, <1>7, <2>1, <2>4, ExactIndexed DEF Noted
<1> QED BY <1>1, <1>4, <1>6, <1>7 DEF Find

\* What Drive gives a new id is put where nothing is.
LEMMA NewIsExact ==
  ASSUME Safe, Exact, Settled, ~panicked', NEW i \in DOMAIN tasks, tasks[i].do # "forget",
         NEW path \in Seq(STRING), path # << >>, Len(path) <= 3, ~Known(Now, path),
         NEW content, NEW at, at = IdOf(Now, Front(path)), made' = NewId,
         drive' = With(drive, NewId, Object(at, Last(path), content)),
         NEW r, Indexed(i, Put(Now, path, NewId), r), r.do # "forget"
  PROVE  Exact'
<1>1. IsSound(Now, made) /\ Covers(drive, entries) /\ Now.entries = entries
  BY ExactNow
<1>2. PICK id : id = NewId
  OBVIOUS
<1>3. id = made + 1 /\ made' = id
  BY <1>2 DEF NewId
<1>4. ASSUME NEW x \in Put(Now, path, id)
      PROVE  /\ x = [entries |-> x.entries, byPath |-> x.byPath]
             /\ IsSound(x, made') /\ Covers(drive', Left(x, r))
  <2>0. x \in Put(Now, path, id)
    OBVIOUS
  <2>1. /\ x = [entries |-> x.entries, byPath |-> x.byPath]
        /\ DOMAIN x.entries = DOMAIN entries \union {id}
        /\ x.entries[id].parent = at /\ x.entries[id].name = Last(path)
        /\ \A a \in DOMAIN entries : a # id => x.entries[a] = entries[a]
    BY <1>1, <2>0, PutIs
  <2>2. IsSound(x, made')
    BY <1>1, <1>3, <2>0, NewIsSound
  <2>3. Covers(drive', x.entries)
    <3>1. PICK e : e = Object(at, Last(path), content)
      OBVIOUS
    <3>2. drive' = With(drive, id, e) /\ e.parent = at /\ e.name = Last(path)
      BY <1>2, <3>1 DEF Object
    <3>3. /\ DOMAIN drive' = DOMAIN drive \union {id} /\ drive'[id] = e
          /\ \A a \in DOMAIN drive : a # id => drive'[a] = drive[a]
      BY <3>2 DEF With
    <3>4. at # id /\ \A a \in DOMAIN entries : a # id /\ entries[a].parent # id
      <4>1. at \in 0..made
        BY <1>1, <2>0, KnownHasId, PutIs
      <4>2. made \in Nat /\ \A a \in DOMAIN entries : a \in 1..made /\ entries[a].parent \in 0..made
        BY <1>1 DEF IsSound, HasIds
      <4> QED BY <1>3, <4>1, <4>2
    <3>5. ASSUME NEW a \in DOMAIN drive'
          PROVE  drive'[a].parent = x.entries[a].parent /\ drive'[a].name = x.entries[a].name
      <4>1. CASE a = id
        BY <2>1, <3>2, <3>3, <4>1
      <4>2. CASE a # id
        BY <1>1, <2>1, <3>3, <4>2 DEF Covers
      <4> QED BY <4>1, <4>2
    <3>6. ASSUME NEW a \in DOMAIN x.entries \ DOMAIN drive'
          PROVE  x.entries[a].parent # Root /\ x.entries[a].parent \notin DOMAIN drive'
      BY <1>1, <2>1, <3>3, <3>4 DEF Covers
    <3> QED BY <1>1, <2>1, <3>3, <3>5, <3>6 DEF Covers
  <2>4. Left(x, r) = x.entries
    BY DEF Left
  <2> QED BY <2>1, <2>2, <2>3, <2>4
<1> QED BY <1>2, <1>4, ExactIndexed

\* A missing folder is created.
LEMMA MakeExact ==
  ASSUME Safe, Exact, Settled, ~panicked', NEW i \in DOMAIN tasks, Make(i)
  PROVE  Exact'
<1>1. PICK t : t = tasks[i]
  OBVIOUS
<1>2. /\ IsTask(t) /\ ParentIsKnown(Keys(Now), t) /\ t.do = "make" /\ Placed(drive, Now, t)
  BY <1>1, TaskIsOK, ExactNow DEF Make, Succeeds
<1>3. PICK r : r = Resolve(t, t.goal)
  OBVIOUS
<1>4. r.do # "forget"
  BY <1>2, <1>3 DEF Resolve, IsTask
<1>5. /\ t.make \in Seq(STRING) /\ t.make # << >> /\ Len(t.make) <= 3
      /\ t.at = IdOf(Now, Front(t.make)) /\ ~Known(Now, t.make)
  BY <1>2, TaskPaths DEF ParentIsKnown, Placed, IsNew
<1>6. /\ made' = NewId /\ drive' = With(drive, NewId, Object(t.at, Last(t.make), Folder))
      /\ Indexed(i, Put(Now, t.make, NewId), r)
  BY <1>1, <1>3 DEF Make, Succeeds, MadeOnDrive
<1> QED BY <1>1, <1>2, <1>4, <1>5, <1>6, NewIsExact

\* The path of a file that is uploaded.
LEMMA UploadsBelow ==
  ASSUME Safe, NEW t, IsTask(t), Len(t.make) <= 3, HasFile(t), t.do \in {"create", "update"}
  PROVE  t.act.to \in Seq(STRING) /\ t.act.to # << >> /\ Len(t.act.to) <= 3
<1>1. t.act.to # << >>
  BY FilesAreBelow DEF Safe, HasFile, IsFile
<1> QED BY <1>1, TaskPaths, TaskLengths

\* A file is created.
LEMMA CreateExact ==
  ASSUME Safe, Exact, Settled, ~panicked', NEW i \in DOMAIN tasks, Create(i)
  PROVE  Exact'
<1>1. PICK t : t = tasks[i]
  OBVIOUS
<1>2. /\ IsTask(t) /\ t.do = "create" /\ Placed(drive, Now, t) /\ HasFile(t)
      /\ Len(t.make) <= 3
  BY <1>1, TaskIsOK, ExactNow DEF Create, Succeeds
<1>3. PICK r : r = Uploaded(t)
  OBVIOUS
<1>4. r.do # "forget"
  BY <1>2, <1>3, UploadedIsPlaced
<1>5. /\ t.act.to \in Seq(STRING) /\ t.act.to # << >> /\ Len(t.act.to) <= 3
      /\ t.at = IdOf(Now, Front(t.act.to)) /\ ~Known(Now, t.act.to)
  BY <1>2, UploadsBelow DEF Placed, IsNew
<1>6. /\ made' = NewId
      /\ drive' = With(drive, NewId, Object(t.at, Last(t.act.to), Local[t.act.to]))
      /\ Indexed(i, Put(Now, t.act.to, NewId), r)
  BY <1>1, <1>3 DEF Create, Succeeds, CreatedOnDrive
<1> QED BY <1>1, <1>2, <1>4, <1>5, <1>6, NewIsExact

\* What has a path has the name and the parent the path says.
LEMMA PlaceOfPath ==
  ASSUME NEW x, NEW m, IsSound(x, m), NEW path, path # << >>, Known(x, path),
         Known(x, Front(path))
  PROVE  /\ IdOf(x, path) \in DOMAIN x.entries
         /\ x.entries[IdOf(x, path)].parent = IdOf(x, Front(path))
         /\ x.entries[IdOf(x, path)].name = Last(path)
<1>1. PICK o : o = IdOf(x, path)
  OBVIOUS
<1>2. NoTwin(x.entries) /\ Leads(x)
  BY DEF IsSound
<1>3. <<path, o>> \in Reached(x.entries, Root)
  BY <1>1, <1>2, KnownLeads
<1>4. /\ IsPath(path) /\ o \in DOMAIN x.entries
      /\ <<Front(path), x.entries[o].parent>> \in Reached(x.entries, Root)
      /\ path = Append(Front(path), x.entries[o].name)
  BY <1>3, ReachedSteps
<1>5. <<Front(path), IdOf(x, Front(path))>> \in Reached(x.entries, Root)
  BY <1>2, KnownLeads
<1>6. x.entries[o].parent = IdOf(x, Front(path))
  BY <1>2, <1>4, <1>5, OneIdAtPath
<1>7. IsPath(Front(path))
  BY <1>5, ReachedSteps
<1>8. Last(Append(Front(path), x.entries[o].name)) = x.entries[o].name
  BY <1>7, LastOfLonger
<1> QED BY <1>1, <1>4, <1>6, <1>8

\* A file is written.
LEMMA UpdateExact ==
  ASSUME Safe, Exact, Settled, ~panicked', NEW i \in DOMAIN tasks, Update(i)
  PROVE  Exact'
<1>1. PICK t : t = tasks[i]
  OBVIOUS
<1>2. /\ IsTask(t) /\ ParentIsKnown(Keys(Now), t) /\ t.do = "update" /\ Placed(drive, Now, t)
      /\ HasFile(t) /\ Len(t.make) <= 3 /\ IsSound(Now, made) /\ Covers(drive, entries)
  BY <1>1, TaskIsOK, ExactNow DEF Update, Succeeds
<1>3. PICK r : r = Uploaded(t)
  OBVIOUS
<1>4. r.do # "forget"
  BY <1>2, <1>3, UploadedIsPlaced
<1>5. /\ t.act.to \in Seq(STRING) /\ t.act.to # << >> /\ Len(t.act.to) <= 3
      /\ t.at = IdOf(Now, t.act.to) /\ Known(Now, t.act.to)
  BY <1>2, UploadsBelow DEF Placed
<1>6. Known(Now, Front(t.act.to))
  BY <1>2, KnownIsKey DEF ParentIsKnown
<1>7. /\ t.at \in DOMAIN Now.entries /\ Now.entries[t.at].parent = IdOf(Now, Front(t.act.to))
      /\ Now.entries[t.at].name = Last(t.act.to)
  BY <1>2, <1>5, <1>6, PlaceOfPath
<1>8. /\ made' = made /\ drive' = UpdatedOnDrive(t)
      /\ Indexed(i, Put(Now, t.act.to, t.at), r)
  BY <1>1, <1>3 DEF Update, Succeeds
<1>9. Covers(drive', entries)
  <2>1. PICK e : e = Object(drive[t.at].parent, drive[t.at].name, Local[t.act.to])
    OBVIOUS
  <2>2. drive' = [drive EXCEPT ![t.at] = e] /\ e.parent = drive[t.at].parent
        /\ e.name = drive[t.at].name
    BY <1>8, <2>1 DEF UpdatedOnDrive, Object
  <2> QED BY <1>2, <2>2 DEF Covers
<1>10. ASSUME NEW x \in Put(Now, t.act.to, t.at)
       PROVE  /\ x = [entries |-> x.entries, byPath |-> x.byPath]
              /\ IsSound(x, made') /\ Covers(drive', Left(x, r))
  <2>0. x \in Put(Now, t.act.to, t.at)
    OBVIOUS
  <2>1. x = [entries |-> x.entries, byPath |-> x.byPath]
    BY <2>0, PutIs
  <2>2. IsSound(x, made) /\ Alike(entries, x.entries)
    BY <1>2, <1>5, <1>7, <2>0, PutIsSound DEF Now
  <2>3. Covers(drive', x.entries)
    BY <1>9, <2>2, CoversTrans
  <2>4. Left(x, r) = x.entries
    BY <1>4 DEF Left
  <2> QED BY <1>8, <2>1, <2>2, <2>3, <2>4
<1> QED BY <1>8, <1>10, ExactIndexed

\* What is moved is put where Drive has it then, and the index is built anew.
LEMMA MoveExact ==
  ASSUME Safe, Exact, Settled, ~panicked', past' \subseteq {"failure"},
         NEW i \in DOMAIN tasks, Move(i)
  PROVE  Exact'
<1>1. PICK t : t = tasks[i]
  OBVIOUS
<1>2. /\ IsTask(t) /\ ParentIsKnown(Keys(Now), t) /\ t.do = "move" /\ Placed(drive, Now, t)
      /\ IsSound(Now, made) /\ Covers(drive, entries) /\ t.source \in DOMAIN drive
      /\ t.at \in DOMAIN drive \union {Root}
  BY <1>1, TaskIsOK, ExactNow DEF Move, Succeeds, Accepted, Exists
<1>3. PICK r : r = Uploaded(t)
  OBVIOUS
<1>4. r.do # "forget"
  BY <1>2, <1>3, UploadedIsPlaced
<1>5. t.at = IdOf(Now, Front(t.act.to))
  BY <1>2 DEF Placed
<1>6. /\ made' = made /\ drive' = MovedOnDrive(t)
      /\ Indexed(i, PutAndReload(Now, t.act.to, t.source), r)
  BY <1>1, <1>3 DEF Move, Succeeds
<1>7. HasIds(entries, made) /\ NoTwin(entries)
  BY <1>2 DEF IsSound, Now
<1>8. t.at \in 0..made
  BY <1>2, <1>5, KnownIsKey, KnownHasId DEF ParentIsKnown
<1>9. \A o \in DOMAIN entries :
        o # t.source => ~(entries[o].parent = t.at /\ entries[o].name = Last(t.act.to))
  <2>1. ~IsTaken(t)
    BY <1>1 DEF Move
  <2>2. ASSUME NEW o \in DOMAIN entries, o # t.source, entries[o].parent = t.at,
               entries[o].name = Last(t.act.to)
        PROVE  FALSE
    <3>1. o \in DOMAIN drive
      BY <1>2, <2>2 DEF Covers
    <3>2. drive[o].parent = t.at /\ drive[o].name = Last(t.act.to)
      BY <1>2, <2>2, <3>1 DEF Covers
    <3> QED BY <2>1, <2>2, <3>1, <3>2 DEF IsTaken, Children
  <2> QED BY <2>2
<1>10. ASSUME NEW x \in PutAndReload(Now, t.act.to, t.source)
       PROVE  /\ x = [entries |-> x.entries, byPath |-> x.byPath]
              /\ IsSound(x, made') /\ Covers(drive', Left(x, r))
  <2>1. PICK y \in Put(Now, t.act.to, t.source) : x \in Reloaded(y.entries)
    BY DEF PutAndReload
  <2>2. /\ DOMAIN y.entries = DOMAIN entries \union {t.source}
        /\ y.entries[t.source].parent = t.at /\ y.entries[t.source].name = Last(t.act.to)
        /\ \A a \in DOMAIN entries : a # t.source => y.entries[a] = entries[a]
    BY <1>5, PutIs DEF Now
  <2>3. /\ x.entries = y.entries /\ x = [entries |-> y.entries, byPath |-> x.byPath]
        /\ Leads(x) /\ Complete(x)
    BY <2>1, ReloadedLeads
  <2>4. DOMAIN drive \subseteq DOMAIN entries /\ DOMAIN x.entries = DOMAIN entries
    BY <1>2, <2>2, <2>3 DEF Covers
  <2>5. Covers(drive', x.entries)
    <3>1. PICK e : e = Object(t.at, Last(t.act.to), drive[t.source].content)
      OBVIOUS
    <3>2. drive' = [drive EXCEPT ![t.source] = e] /\ e.parent = t.at /\ e.name = Last(t.act.to)
      BY <1>6, <3>1 DEF MovedOnDrive, Object
    <3>3. ASSUME NEW o \in DOMAIN drive
          PROVE  drive'[o].parent = x.entries[o].parent /\ drive'[o].name = x.entries[o].name
      <4>1. CASE o = t.source
        BY <1>2, <2>2, <2>3, <3>2, <4>1
      <4>2. CASE o # t.source
        <5>1. o \in DOMAIN entries /\ x.entries[o] = entries[o] /\ drive'[o] = drive[o]
          BY <2>2, <2>3, <2>4, <3>2, <4>2
        <5> QED BY <1>2, <5>1 DEF Covers
      <4> QED BY <4>1, <4>2
    <3>4. DOMAIN drive' = DOMAIN drive
      BY <3>2
    <3>5. ASSUME NEW o \in DOMAIN x.entries \ DOMAIN drive
          PROVE  x.entries[o].parent # Root /\ x.entries[o].parent \notin DOMAIN drive
      <4>1. o \in DOMAIN entries \ DOMAIN drive /\ x.entries[o] = entries[o]
        BY <1>2, <2>2, <2>3, <2>4
      <4> QED BY <1>2, <4>1 DEF Covers
    <3> QED BY <2>4, <3>3, <3>4, <3>5 DEF Covers
  <2>6. NoTwin(x.entries)
    <3>1. ASSUME NEW o \in DOMAIN x.entries, NEW q \in DOMAIN x.entries,
                 x.entries[o].parent = x.entries[q].parent, x.entries[o].name = x.entries[q].name
          PROVE  o = q
      <4>1. CASE o # t.source /\ q # t.source
        <5>1. x.entries[o] = entries[o] /\ x.entries[q] = entries[q]
          BY <2>2, <2>3, <2>4, <4>1
        <5> QED BY <1>7, <2>4, <3>1, <5>1 DEF NoTwin
      <4>2. CASE o = t.source /\ q # t.source
        <5>1. x.entries[q] = entries[q] /\ q \in DOMAIN entries
          BY <2>2, <2>3, <2>4, <4>2
        <5> QED BY <1>9, <2>2, <2>3, <3>1, <4>2, <5>1
      <4>3. CASE o # t.source /\ q = t.source
        <5>1. x.entries[o] = entries[o] /\ o \in DOMAIN entries
          BY <2>2, <2>3, <2>4, <4>3
        <5> QED BY <1>9, <2>2, <2>3, <3>1, <4>3, <5>1
      <4> QED BY <4>1, <4>2, <4>3
    <3> QED BY <3>1 DEF NoTwin
  <2>7. HasIds(x.entries, made)
    <3>1. ASSUME NEW o \in DOMAIN x.entries PROVE x.entries[o].parent \in 0..made
      BY <1>7, <1>8, <2>2, <2>3, <2>4 DEF HasIds
    <3> QED BY <1>7, <2>4, <3>1 DEF HasIds
  <2>8. Left(x, r) = x.entries
    BY <1>4 DEF Left
  <2> QED BY <1>6, <2>3, <2>5, <2>6, <2>7, <2>8 DEF IsSound
<1> QED BY <1>6, <1>10, ExactIndexed

\* What is deleted on Drive is what will be forgotten.
LEMMA DeleteExact ==
  ASSUME Safe, Exact, Settled, ~panicked', NEW i \in DOMAIN tasks, Delete(i)
  PROVE  Exact'
<1>1. PICK t : t = tasks[i]
  OBVIOUS
<1>2. /\ IsTask(t) /\ t.do = "delete" /\ Placed(drive, Now, t)
      /\ IsSound(Now, made) /\ Covers(drive, entries) /\ t.at \in DOMAIN drive
      /\ Root \notin DOMAIN entries
  BY <1>1, TaskIsOK, ExactNow DEF Delete, Succeeds, Accepted
<1>3. PICK r : r = [t EXCEPT !.do = "forget"]
  OBVIOUS
<1>4. r.do = "forget" /\ r.act = t.act
  BY <1>2, <1>3 DEF IsTask
<1>5. t.act.to \in DOMAIN byPath /\ t.at = byPath[t.act.to]
  <2>1. Known(Now, t.act.to) /\ t.at = IdOf(Now, t.act.to)
    BY <1>2 DEF Placed
  <2>2. t.act.to # << >>
    BY <1>2, <2>1 DEF IdOf, Covers
  <2> QED BY <2>1, <2>2 DEF Known, IdOf, Now
<1>6. made' = made /\ drive' = DeletedOnDrive(t) /\ Indexed(i, {Now}, r)
  BY <1>1, <1>3 DEF Delete, Succeeds
<1>7. Left(Now, r) = Erased(entries, t.at)
  BY <1>4, <1>5 DEF Left, Now
<1>8. Covers(drive', Erased(entries, t.at))
  <2>1. Under(drive, t.at) = Under(entries, t.at)
    BY <1>2, CoversReached
  <2>2. PICK under : under = Under(entries, t.at)
    OBVIOUS
  <2>3. drive' = Restrict(drive, DOMAIN drive \ under)
    BY <1>6, <2>1, <2>2 DEF DeletedOnDrive
  <2>4. PICK gone : /\ t.at \in gone /\ gone \subseteq under
                    /\ Erased(entries, t.at) = Restrict(entries, DOMAIN entries \ gone)
    BY <2>2, ErasedIs
  <2>5. t.at # Root
    BY <1>2 DEF Covers
  <2>6. ASSUME NEW o \in under, o # t.at PROVE entries[o].parent \in under /\ o # Root
    <3>1. PICK x \in Reached(entries, t.at) : x[2] = o
      BY <2>2 DEF Under
    <3>2. <<x[1], o>> \in Reached(entries, t.at)
      BY <3>1, ReachedSteps
    <3>3. o \in DOMAIN entries /\ <<Front(x[1]), entries[o].parent>> \in Reached(entries, t.at)
      BY <2>6, <3>2, ReachedSteps
    <3>4. PICK z : z = <<Front(x[1]), entries[o].parent>>
      OBVIOUS
    <3> QED BY <1>2, <2>2, <3>3, <3>4 DEF Under
  <2>7. Root \notin under
    BY <2>5, <2>6
  <2>8. PICK es : es = Erased(entries, t.at)
    OBVIOUS
  <2>9. DOMAIN es = DOMAIN entries \ gone /\ \A o \in DOMAIN es : es[o] = entries[o]
    BY <2>4, <2>8 DEF Restrict
  <2>10. DOMAIN drive' = DOMAIN drive \ under /\ \A o \in DOMAIN drive' : drive'[o] = drive[o]
    BY <2>3 DEF Restrict
  <2>11. ASSUME NEW o \in DOMAIN es \ DOMAIN drive'
         PROVE  es[o].parent # Root /\ es[o].parent \notin DOMAIN drive'
    <3>1. es[o] = entries[o] /\ o \in DOMAIN entries
      BY <2>9
    <3>2. CASE o \in DOMAIN drive
      <4>1. o \in under /\ o # t.at
        BY <2>4, <2>9, <2>10, <3>2
      <4>2. entries[o].parent \in under
        BY <2>6, <4>1
      <4> QED BY <2>7, <2>10, <3>1, <4>2
    <3>3. CASE o \notin DOMAIN drive
      BY <1>2, <2>10, <3>1, <3>3 DEF Covers
    <3> QED BY <3>2, <3>3
  <2>12. DOMAIN drive' \subseteq DOMAIN es
    BY <1>2, <2>4, <2>9, <2>10 DEF Covers
  <2>13. \A o \in DOMAIN drive' :
           drive'[o].parent = es[o].parent /\ drive'[o].name = es[o].name
    BY <1>2, <2>9, <2>10, <2>12 DEF Covers
  <2> QED BY <2>8, <2>11, <2>12, <2>13 DEF Covers
<1>9. Now = [entries |-> Now.entries, byPath |-> Now.byPath]
  BY DEF Now
<1> QED BY <1>2, <1>6, <1>7, <1>8, <1>9, ExactIndexed

\* What was deleted is forgotten, and the index is built anew.
LEMMA ForgetExact ==
  ASSUME Safe, Exact, Settled, ~panicked', NEW i \in DOMAIN tasks, Forget(i)
  PROVE  Exact'
<1>1. PICK t : t = tasks[i]
  OBVIOUS
<1>2. /\ IsTask(t) /\ t.do = "forget" /\ IsSound(Now, made) /\ Covers(drive, Left(Now, t))
      /\ Now.entries = entries
  BY <1>1, TaskIsOK, ExactNow DEF Forget
<1>3. PICK r : r = Ended(t)
  OBVIOUS
<1>4. r.do = "end"
  BY <1>2, <1>3 DEF Ended, IsTask
<1>5. made' = made /\ drive' = drive /\ Indexed(i, Removed(Now, t.act.to), r)
  BY <1>1, <1>3 DEF Forget, remote
<1>6. Removed(Now, t.act.to) = Reloaded(Left(Now, t))
  <2>1. CASE t.act.to \in DOMAIN byPath
    <3>1. Left(Now, t) = Erased(entries, byPath[t.act.to])
      BY <1>2, <2>1 DEF Left, Now
    <3> QED BY <2>1, <3>1 DEF Removed, Now
  <2>2. CASE t.act.to \notin DOMAIN byPath
    <3>1. Left(Now, t) = entries
      BY <2>2 DEF Left, Now
    <3> QED BY <2>2, <3>1 DEF Removed, Now
  <2> QED BY <2>1, <2>2
<1>7. /\ DOMAIN Left(Now, t) \subseteq DOMAIN entries
      /\ \A o \in DOMAIN Left(Now, t) : Left(Now, t)[o] = entries[o]
  BY DEF Left, Erased, Restrict, Now
<1>8. ASSUME NEW x \in Reloaded(Left(Now, t))
      PROVE  /\ x = [entries |-> x.entries, byPath |-> x.byPath]
             /\ IsSound(x, made') /\ Covers(drive', Left(x, r))
  <2>1. /\ x.entries = Left(Now, t) /\ x = [entries |-> x.entries, byPath |-> x.byPath]
        /\ Leads(x) /\ Complete(x)
    BY ReloadedLeads
  <2>2. HasIds(entries, made) /\ NoTwin(entries)
    BY <1>2 DEF IsSound
  <2>3. NoTwin(x.entries) /\ HasIds(x.entries, made)
    BY <1>7, <2>1, <2>2 DEF NoTwin, HasIds
  <2>4. Left(x, r) = x.entries
    BY <1>4 DEF Left
  <2> QED BY <1>2, <1>5, <2>1, <2>3, <2>4 DEF IsSound
<1> QED BY <1>5, <1>6, <1>8, ExactIndexed

\* A call is not what is left to do after a deletion.
LEMMA CallingIsNotForget ==
  ASSUME NEW t, Calling(t)
  PROVE  t.do # "forget"
BY DEF Calling

\* Drive refuses a call.
LEMMA RefusedExact ==
  ASSUME Safe, Exact, Settled, NEW i \in DOMAIN tasks, Refused(i)
  PROVE  Exact'
<1>1. Calling(tasks[i]) /\ Goes(i, Ended(tasks[i])) /\ UNCHANGED <<index, drive, made>>
  BY DEF Refused, remote
<1> QED BY <1>1, CallingIsNotForget, ExactEnds

\* A 401.
LEMMA UnauthorizedExact ==
  ASSUME Safe, Exact, Settled, NEW i \in DOMAIN tasks, Unauthorized(i)
  PROVE  Exact'
<1>1. Calling(tasks[i]) /\ Goes(i, Ended(tasks[i])) /\ UNCHANGED <<index, drive, made>>
  BY DEF Unauthorized, remote
<1> QED BY <1>1, CallingIsNotForget, ExactEnds

\* A call fails, and has changed nothing.
LEMMA FailsExact ==
  ASSUME Safe, Exact, Settled, NEW i \in DOMAIN tasks, Fails(i), past' \subseteq {"failure"}
  PROVE  Exact'
<1>1. Calling(tasks[i]) /\ Goes(i, Ended(tasks[i])) /\ UNCHANGED index
  BY DEF Fails
<1>2. ~Happens({"lostAnswer"})
  BY DEF Happens
<1>3. UNCHANGED <<drive, made>>
  BY <1>2 DEF Fails, remote
<1> QED BY <1>1, <1>3, CallingIsNotForget, ExactEnds

\* A step of a task.
LEMMA TaskExact ==
  ASSUME Safe, Exact, Settled, ~panicked', past' \subseteq {"failure"},
         NEW i \in DOMAIN tasks, TaskStep(i) \/ Fails(i)
  PROVE  Exact'
BY LookExact, PassByExact, FindExact, MakeExact, CreateExact, UpdateExact, MoveExact,
   DeleteExact, ForgetExact, RefusedExact, UnauthorizedExact, FailsExact
DEF TaskStep

\* What is exact stays so when neither the tasks, nor the index, nor Drive change.
LEMMA ExactSame ==
  ASSUME Exact, UNCHANGED <<tasks, drive, made, entries, byPath>>
  PROVE  Exact'
<1>1. Now' = Now
  BY DEF Now
<1>2. IsSound(Now, made)' /\ Covers(drive, entries)' = Covers(drive, entries)
  BY <1>1 DEF Exact
<1>3. ASSUME NEW j \in DOMAIN tasks'
      PROVE  Covers(drive', Left(Now', tasks'[j]))
  BY <1>1 DEF Exact
<1> QED BY <1>2, <1>3 DEF Exact

\* The one task that begins, when none runs.
LEMMA ExactBegins ==
  ASSUME Exact, UNCHANGED <<drive, made, entries, byPath>>, Alone',
         DOMAIN tasks \subseteq DOMAIN tasks', \A k \in DOMAIN tasks : tasks'[k] = tasks[k],
         \A k \in DOMAIN tasks' \ DOMAIN tasks :
           \E act, n : tasks'[k] = Started(act, n)
  PROVE  Exact'
<1>1. Now' = Now
  BY DEF Now
<1>2. IsSound(Now, made)'
  BY <1>1 DEF Exact
<1>3. DOMAIN tasks = {} => Covers(drive', entries')
  BY DEF Exact
<1>4. ASSUME NEW k \in DOMAIN tasks'
      PROVE  Covers(drive', Left(Now', tasks'[k]))
  <2>1. CASE k \in DOMAIN tasks
    BY <1>1, <2>1 DEF Exact
  <2>2. CASE k \notin DOMAIN tasks
    <3>1. DOMAIN tasks = {}
      BY <2>2 DEF Alone
    <3>2. PICK act, n : tasks'[k] = Started(act, n)
      BY <2>2
    <3>3. Started(act, n).do = "look"
      BY DEF Started
    <3>4. Left(Now', tasks'[k]) = entries'
      BY <3>2, <3>3 DEF Left, Now
    <3> QED BY <1>3, <3>1, <3>4
  <2> QED BY <2>1, <2>2
<1> QED BY <1>2, <1>3, <1>4 DEF Exact

\* The next task of the chain begins, or the index is saved.
LEMMA NextOfChainExact ==
  ASSUME Safe, Safe', Exact, NextOfChain
  PROVE  Exact'
<1>1. UNCHANGED <<drive, made, entries, byPath>> /\ Alone'
  BY DEF NextOfChain, remote, index, Safe
<1>2. CASE Head(chain) = Save
  <2>1. UNCHANGED tasks
    BY <1>2 DEF NextOfChain
  <2> QED BY <1>1, <2>1, ExactSame
<1>3. CASE Head(chain) # Save
  <2>1. chain # << >> /\ InChain \notin DOMAIN tasks /\ tasks' = With(tasks, InChain, Head(chain))
    BY <1>3 DEF NextOfChain
  <2>2. Head(chain) \in Fresh
    BY <1>3, <2>1 DEF Safe, TypeOK
  <2>3. PICK act, n : Head(chain) = Started(act, n)
    BY <2>2 DEF Fresh
  <2>4. /\ DOMAIN tasks' = DOMAIN tasks \union {InChain} /\ tasks'[InChain] = Head(chain)
        /\ \A k \in DOMAIN tasks : tasks'[k] = tasks[k]
    BY <2>1 DEF With
  <2>5. \A k \in DOMAIN tasks' \ DOMAIN tasks : \E a, b : tasks'[k] = Started(a, b)
    BY <2>3, <2>4
  <2> QED BY <1>1, <2>4, <2>5, ExactBegins
<1> QED BY <1>2, <1>3

\* What is parked starts again.
LEMMA RefreshedExact ==
  ASSUME Safe, Safe', Exact, Refreshed
  PROVE  Exact'
<1>1. UNCHANGED <<drive, made, entries, byPath>> /\ Alone'
  BY DEF Refreshed, remote, index, Safe
<1>2. PICK retried : retried = {<<token', j>> : j \in DOMAIN parked}
  OBVIOUS
<1>3. tasks' = [k \in DOMAIN tasks \union retried |->
                  IF k \in DOMAIN tasks THEN tasks[k] ELSE Started(parked[k[2]], token')]
  BY <1>2 DEF Refreshed
<1>4. \A k \in DOMAIN tasks' \ DOMAIN tasks : tasks'[k] = Started(parked[k[2]], token')
  BY <1>3
<1>5. \A k \in DOMAIN tasks' \ DOMAIN tasks : \E act, n : tasks'[k] = Started(act, n)
  BY <1>4
<1>6. DOMAIN tasks \subseteq DOMAIN tasks' /\ \A k \in DOMAIN tasks : tasks'[k] = tasks[k]
  BY <1>3
<1> QED BY <1>1, <1>5, <1>6, ExactBegins

\* After a restart with nothing under way and the index saved, the index is built anew.
LEMMA RestartExact ==
  ASSUME Safe, Exact, Restart, past' \subseteq {"failure"}
  PROVE  Exact'
<1>1. ~Happens({"restart"})
  BY DEF Happens
<1>2. Quiet /\ saved = entries
  BY <1>1 DEF Restart
<1>3. DOMAIN tasks = {} /\ tasks' = << >> /\ drive' = drive /\ made' = made
  BY <1>2 DEF Quiet, Restart, remote
<1>4. IsSound(Now, made) /\ Covers(drive, entries)
  BY <1>3 DEF Exact
<1>5. PICK x \in Reloaded(entries) : Becomes(x)
  BY <1>2 DEF Restart
<1>6. x.entries = entries /\ x = [entries |-> x.entries, byPath |-> x.byPath] /\ Leads(x)
      /\ Complete(x)
  BY <1>5, ReloadedLeads
<1>7. Now' = x
  BY <1>5, <1>6 DEF Becomes, Now
<1>8. IsSound(x, made)
  BY <1>4, <1>6 DEF IsSound, Now
<1>9. IsSound(Now', made') /\ Covers(drive', entries') /\ DOMAIN tasks' = {}
  BY <1>3, <1>4, <1>5, <1>6, <1>7, <1>8 DEF Becomes
<1> QED BY <1>9 DEF Exact

-----------------------------------------------------------------------------
(* The initial sync *)

\* A sequence lists a set if each element is in it once.
Lists(s, S) ==
  /\ s \in Seq(S) /\ \A i, j \in 1..Len(s) : s[i] = s[j] => i = j
  /\ \A p \in S : \E i \in 1..Len(s) : s[i] = p

\* SetToSeq lists a finite set.
LEMMA SetToSeqLists ==
  ASSUME NEW S, IsFiniteSet(S)
  PROVE  Lists(SetToSeq(S), S)
<1>1. PICK n \in Nat : n = Cardinality(S)
  BY FS_CardinalityType
<1>2. \E f \in [1..n -> S] : IsInjective(f)
  <2>1. ExistsBijection(1..n, S)
    BY <1>1, FS_CardinalityType
  <2> QED BY <2>1 DEF ExistsBijection, Bijection, Injection
<1>3. PICK f : f = SetToSeq(S)
  OBVIOUS
<1>4. f \in [1..n -> S] /\ IsInjective(f)
  BY <1>1, <1>2, <1>3 DEF SetToSeq
<1>5. IsFiniteSet(1..n) /\ Cardinality(1..n) = n
  BY FS_Interval
<1>6. f \in Surjection(1..n, S)
  BY <1>1, <1>4, <1>5, FS_Injection DEF Injection
<1>7. \A p \in S : \E i \in 1..n : f[i] = p
  BY <1>6 DEF Surjection
<1>8. f \in Seq(S) /\ Len(f) = n
  BY <1>4
<1> QED BY <1>3, <1>4, <1>7, <1>8 DEF Lists, IsInjective

\* What lists two sets that have nothing in common, one after the other.
LEMMA ConcatLists ==
  ASSUME NEW s, NEW S, Lists(s, S), NEW t, NEW T, Lists(t, T), S \intersect T = {}
  PROVE  Lists(s \o t, S \union T)
<1>1. s \in Seq(S \union T) /\ t \in Seq(S \union T)
  BY DEF Lists
<1>2. PICK st : st = s \o t
  OBVIOUS
<1>3. PICK m \in Nat, n \in Nat : m = Len(s) /\ n = Len(t)
  BY <1>1
<1>4. /\ st \in Seq(S \union T) /\ Len(st) = m + n
      /\ \A i \in 1..m : st[i] = s[i] /\ s[i] \in S
      /\ \A i \in 1..n : st[m + i] = t[i] /\ t[i] \in T
  <2>1. st \in Seq(S \union T) /\ Len(st) = m + n
    BY <1>1, <1>2, <1>3
  <2>2. \A i \in 1..(m + n) : st[i] = IF i <= m THEN s[i] ELSE t[i - m]
    BY <1>1, <1>2, <1>3
  <2>3. ASSUME NEW i \in 1..m PROVE st[i] = s[i] /\ s[i] \in S
    BY <1>3, <2>2 DEF Lists
  <2>4. ASSUME NEW i \in 1..n PROVE st[m + i] = t[i] /\ t[i] \in T
    <3>1. m + i \in 1..(m + n) /\ ~(m + i <= m) /\ (m + i) - m = i
      OBVIOUS
    <3>2. st[m + i] = t[i]
      BY <2>2, <3>1
    <3>3. t[i] \in T
      BY <1>3 DEF Lists
    <3> QED BY <3>2, <3>3
  <2> QED BY <2>1, <2>3, <2>4
<1>5. ASSUME NEW i \in 1..(m + n) PROVE i \in 1..m \/ (i - m \in 1..n /\ i = m + (i - m))
  OBVIOUS
<1>6. ASSUME NEW i \in 1..(m + n), NEW j \in 1..(m + n), st[i] = st[j] PROVE i = j
  <2>1. CASE i \in 1..m /\ j \in 1..m
    BY <1>3, <1>4, <1>6, <2>1 DEF Lists
  <2>2. CASE i - m \in 1..n /\ j - m \in 1..n
    <3>1. st[i] = t[i - m] /\ st[j] = t[j - m]
      BY <1>4, <1>5, <2>2
    <3>2. i - m = j - m
      BY <1>3, <1>6, <2>2, <3>1 DEF Lists
    <3> QED BY <3>2
  <2>3. CASE i \in 1..m /\ j - m \in 1..n
    <3>1. st[i] \in S /\ st[j] \in T
      BY <1>4, <1>5, <2>3
    <3> QED BY <1>6, <3>1
  <2>4. CASE i - m \in 1..n /\ j \in 1..m
    <3>1. st[j] \in S /\ st[i] \in T
      BY <1>4, <1>5, <2>4
    <3> QED BY <1>6, <3>1
  <2> QED BY <1>5, <2>1, <2>2, <2>3, <2>4
<1>7. ASSUME NEW p \in S \union T PROVE \E i \in 1..(m + n) : st[i] = p
  <2>1. CASE p \in S
    <3>1. PICK i \in 1..m : s[i] = p
      BY <1>3, <2>1 DEF Lists
    <3>2. i \in 1..(m + n) /\ st[i] = p
      BY <1>4, <3>1
    <3> QED BY <3>2
  <2>2. CASE p \in T
    <3>1. PICK i \in 1..n : t[i] = p
      BY <1>3, <2>2 DEF Lists
    <3>2. m + i \in 1..(m + n) /\ st[m + i] = p
      BY <1>4, <3>1
    <3> QED BY <3>2
  <2> QED BY <2>1, <2>2
<1> QED BY <1>2, <1>4, <1>6, <1>7 DEF Lists

\* The walk lists the watched folder.
LEMMA WalkedLists ==
  ASSUME NEW tree, IsTree(tree)
  PROVE  Lists(Walked(tree), DOMAIN tree)
<1> DEFINE At(n) == {p \in DOMAIN tree : Len(p) = n}
<1>1. ASSUME NEW p \in DOMAIN tree PROVE Len(p) \in {1, 2, 3}
  <2>1. p \in Seq(STRING) /\ Len(p) <= 3 /\ p # << >>
    BY DEF IsTree, Paths
  <2>2. PICK k : k = Len(p)
    OBVIOUS
  <2>3. k \in Nat \ {0} /\ k <= 3
    BY <2>1, <2>2, FrontAndLast
  <2>4. k \in {1, 2, 3}
    BY <2>3
  <2> QED BY <2>2, <2>4
<1>2. IsFiniteSet(DOMAIN tree)
  BY DEF IsTree
<1>3. ASSUME NEW n PROVE Lists(Level(tree, n), At(n))
  <2>1. At(n) \subseteq DOMAIN tree
    OBVIOUS
  <2>2. IsFiniteSet(At(n))
    BY <1>2, <2>1, FS_Subset
  <2>3. Lists(SetToSeq(At(n)), At(n))
    BY <2>2, SetToSeqLists
  <2> QED BY <2>3 DEF Level
<1>4. At(1) \intersect At(2) = {} /\ (At(1) \union At(2)) \intersect At(3) = {}
  OBVIOUS
<1>5. (At(1) \union At(2)) \union At(3) = DOMAIN tree
  BY <1>1
<1> HIDE DEF At
<1>6. Lists(Level(tree, 1) \o Level(tree, 2), At(1) \union At(2))
  BY <1>3, <1>4, ConcatLists
<1>7. Lists((Level(tree, 1) \o Level(tree, 2)) \o Level(tree, 3), (At(1) \union At(2)) \union At(3))
  BY <1>3, <1>4, <1>6, ConcatLists
<1> QED BY <1>5, <1>7 DEF Walked

\* The initial sync leaves an index that is that of Drive.
LEMMA InitExact ==
  ASSUME Init
  PROVE  Exact
<1> DEFINE D == DOMAIN scenario.before
<1>1. IsTree(scenario.before)
  BY ArchiveAssumption DEF Init
<1>2. PICK s : s = Walked(scenario.before)
  OBVIOUS
<1>3. Lists(s, D)
  BY <1>1, <1>2, WalkedLists
<1>4. PICK n \in Nat : n = Len(s) /\ DOMAIN s = 1..n
  BY <1>3 DEF Lists
<1>5. \A i \in 1..n : s[i] \in D
  BY <1>3, <1>4 DEF Lists
<1>6. \A p \in D : p \in Paths /\ p # << >> /\ (Front(p) = << >> \/ Front(p) \in D)
  BY <1>1 DEF IsTree
<1>7. /\ drive = [i \in 1..n |-> Object(IdAmong(s, Front(s[i])), Last(s[i]), scenario.before[s[i]])]
      /\ entries = [i \in 1..n |-> [parent |-> IdAmong(s, Front(s[i])), name |-> Last(s[i]),
                                    isDir |-> IsDir(s[i])]]
      /\ made = n /\ byPath = [p \in D |-> IdAmong(s, p)] /\ DOMAIN tasks = {}
  BY <1>2, <1>4 DEF Init
<1> HIDE DEF D
<1>8. /\ DOMAIN drive = 1..n /\ DOMAIN entries = 1..n /\ DOMAIN byPath = D
      /\ \A i \in 1..n : /\ drive[i].parent = IdAmong(s, Front(s[i])) /\ drive[i].name = Last(s[i])
                       /\ entries[i].parent = IdAmong(s, Front(s[i])) /\ entries[i].name = Last(s[i])
      /\ \A p \in D : byPath[p] = IdAmong(s, p)
  BY <1>7 DEF Object
<1>9. Covers(drive, entries)
  BY <1>8 DEF Covers
<1>10. ASSUME NEW p \in D PROVE IdAmong(s, p) \in 1..n /\ s[IdAmong(s, p)] = p
  <2>1. \E i \in DOMAIN s : s[i] = p
    BY <1>3, <1>4 DEF Lists
  <2> QED BY <1>4, <1>6, <2>1 DEF IdAmong
<1>11. IdAmong(s, << >>) = Root /\ Root \notin 1..n
  BY DEF IdAmong, Root
<1>12. ASSUME NEW p \in D \union {<< >>}, NEW q \in D \union {<< >>},
              IdAmong(s, p) = IdAmong(s, q)
       PROVE  p = q
  BY <1>10, <1>11, <1>12
<1>13. NoTwin(entries)
  <2>1. ASSUME NEW i \in 1..n, NEW j \in 1..n,
               IdAmong(s, Front(s[i])) = IdAmong(s, Front(s[j])), Last(s[i]) = Last(s[j])
        PROVE  i = j
    <3>1. Front(s[i]) \in D \union {<< >>} /\ Front(s[j]) \in D \union {<< >>}
      BY <1>5, <1>6
    <3>2. Front(s[i]) = Front(s[j])
      BY <1>12, <2>1, <3>1
    <3>3. s[i] \in Seq(STRING) /\ s[i] # << >> /\ s[j] \in Seq(STRING) /\ s[j] # << >>
      BY <1>5, <1>6 DEF Paths
    <3>4. s[i] = Append(Front(s[i]), Last(s[i])) /\ s[j] = Append(Front(s[j]), Last(s[j]))
      BY <3>3, FrontAndLast
    <3>5. s[i] = s[j]
      BY <2>1, <3>2, <3>4
    <3> QED BY <1>3, <1>4, <3>5 DEF Lists
  <2> QED BY <1>8, <2>1 DEF NoTwin
<1>14. Leads(Now)
  <2> DEFINE R == Reached(entries, Root)
             P(k) == \A p \in D \union {<< >>} : Len(p) = k => <<p, IdAmong(s, p)>> \in R
  <2>1. << << >>, Root >> \in R
    BY ReachedIsRooted
  <2>2. \A q, o : o \in DOMAIN entries /\ <<q, entries[o].parent>> \in R /\ Len(q) <= 2
                    => <<Append(q, entries[o].name), o>> \in R
    BY ReachedSteps
  <2> HIDE DEF R
  <2>3. ASSUME NEW p \in D
        PROVE  /\ Len(p) \in 1..3 /\ Len(Front(p)) = Len(p) - 1 /\ p = Append(Front(p), Last(p))
               /\ Front(p) \in D \union {<< >>}
    <3>1. p \in Seq(STRING) /\ p # << >> /\ Len(p) <= 3 /\ Front(p) \in D \union {<< >>}
      BY <1>6 DEF Paths
    <3>2. p = Append(Front(p), Last(p)) /\ Len(p) \in Nat \ {0} /\ Len(Front(p)) = Len(p) - 1
      BY <3>1, FrontAndLast
    <3> QED BY <3>1, <3>2
  <2>4. P(0)
    <3>1. ASSUME NEW p \in D \union {<< >>}, Len(p) = 0 PROVE p = << >>
      <4>1. p \notin D
        BY <2>3, <3>1
      <4> QED BY <4>1
    <3> QED BY <1>11, <2>1, <3>1
  <2>5. ASSUME NEW k \in 0..2, P(k) PROVE P(k + 1)
    <3>1. ASSUME NEW p \in D \union {<< >>}, Len(p) = k + 1 PROVE <<p, IdAmong(s, p)>> \in R
      <4>1. p \in D
        <5>1. Len(<< >>) = 0 /\ k + 1 # 0
          OBVIOUS
        <5> QED BY <3>1, <5>1
      <4>2. Front(p) \in D \union {<< >>} /\ Len(Front(p)) = k /\ p = Append(Front(p), Last(p))
        BY <2>3, <3>1, <4>1
      <4>3. <<Front(p), IdAmong(s, Front(p))>> \in R
        BY <2>5, <4>2
      <4>4. PICK i \in 1..n : i = IdAmong(s, p) /\ s[i] = p
        BY <1>10, <4>1
      <4>5. i \in DOMAIN entries /\ entries[i].parent = IdAmong(s, Front(p)) /\ entries[i].name = Last(p)
        BY <1>8, <4>4
      <4>6. <<Append(Front(p), entries[i].name), i>> \in R
        BY <2>2, <4>2, <4>3, <4>5
      <4> QED BY <4>2, <4>4, <4>5, <4>6
    <3> QED BY <3>1
  <2> HIDE DEF P
  <2>6. P(0) /\ P(0 + 1) /\ P(1 + 1) /\ P(2 + 1)
    BY <2>4, <2>5
  <2>7. ASSUME NEW p \in D PROVE <<p, IdAmong(s, p)>> \in R
    <3>1. Len(p) \in {0 + 1, 1 + 1, 2 + 1}
      BY <2>3
    <3>2. P(Len(p))
      BY <2>6, <3>1
    <3> QED BY <3>2 DEF P
  <2>8. \A p \in DOMAIN byPath : <<p, byPath[p]>> \in Reached(entries, Root)
    BY <1>8, <2>7 DEF R
  <2> QED BY <2>8 DEF Leads, Now
<1>15. Complete(Now)
  <2> DEFINE R == Reached(entries, Root)
             P(k) == \A p, o : Len(p) = k /\ <<p, o>> \in R
                                  => p \in D \union {<< >>} /\ o = IdAmong(s, p)
  <2>1. \A p, o : <<p, o>> \in R =>
              /\ Len(p) \in 0..3
              /\ \/ p = << >> /\ o = Root
                 \/ /\ p # << >> /\ Len(p) \in 1..3 /\ Len(Front(p)) = Len(p) - 1
                    /\ o \in DOMAIN entries /\ <<Front(p), entries[o].parent>> \in R
                    /\ p = Append(Front(p), entries[o].name)
    BY ReachedSteps
  <2> HIDE DEF R
  <2>2. P(0)
    <3>1. ASSUME NEW p, NEW o, Len(p) = 0, <<p, o>> \in R PROVE p = << >> /\ o = Root
      <4>1. ~(Len(p) \in 1..3)
        BY <3>1
      <4> QED BY <2>1, <3>1, <4>1
    <3> QED BY <1>11, <3>1
  <2>3. ASSUME NEW k \in 0..2, P(k), NEW p, NEW o, Len(p) = k + 1, <<p, o>> \in R
        PROVE  p \in D \union {<< >>} /\ o = IdAmong(s, p)
    <3>1. p # << >>
      BY <2>3
    <3>2. /\ o \in 1..n /\ <<Front(p), entries[o].parent>> \in R
          /\ p = Append(Front(p), entries[o].name) /\ Len(Front(p)) = Len(p) - 1
      BY <1>8, <2>1, <2>3, <3>1
    <3>3. Len(Front(p)) = k
      BY <2>3, <3>2
    <3>4. Front(p) \in D \union {<< >>} /\ entries[o].parent = IdAmong(s, Front(p))
      BY <2>3, <3>2, <3>3
    <3>5. s[o] \in D /\ s[o] \in Seq(STRING) /\ s[o] # << >> /\ Front(s[o]) \in D \union {<< >>}
      BY <1>5, <1>6, <3>2 DEF Paths
    <3>6. Front(s[o]) = Front(p)
      BY <1>8, <1>12, <3>2, <3>4, <3>5
    <3>7. s[o] = Append(Front(s[o]), Last(s[o]))
      BY <3>5, FrontAndLast
    <3>8. s[o] = p
      BY <1>8, <3>2, <3>6, <3>7
    <3>9. IdAmong(s, p) \in 1..n /\ s[IdAmong(s, p)] = p
      BY <1>10, <3>5, <3>8
    <3>10. o = IdAmong(s, p)
      BY <1>3, <1>4, <3>2, <3>8, <3>9 DEF Lists
    <3> QED BY <3>5, <3>8, <3>10
  <2>4. \A k \in 0..2 : P(k) => P(k + 1)
    BY <2>3
  <2> HIDE DEF P
  <2>5. P(0) /\ P(0 + 1) /\ P(1 + 1) /\ P(2 + 1)
    BY <2>2, <2>4
  <2>6. ASSUME NEW p, NEW o, <<p, o>> \in R PROVE Known(Now, p)
    <3>1. Len(p) \in 0..3
      BY <2>1, <2>6
    <3>2. Len(p) \in {0, 0 + 1, 1 + 1, 2 + 1}
      BY <3>1
    <3>3. P(Len(p))
      BY <2>5, <3>2
    <3>4. p \in D \union {<< >>}
      BY <2>6, <3>3 DEF P
    <3> QED BY <1>8, <3>4 DEF Known, Now
  <2> QED BY <2>6 DEF Complete, Now, R
<1>16. HasIds(entries, made)
  <2>1. ASSUME NEW i \in 1..n PROVE entries[i].parent \in 0..n
    <3>1. Front(s[i]) \in D \union {<< >>}
      BY <1>5, <1>6
    <3> QED BY <1>8, <1>10, <1>11, <3>1 DEF Root
  <2> QED BY <1>7, <1>8, <2>1 DEF HasIds
<1>17. IsSound(Now, made)
  BY <1>13, <1>14, <1>15, <1>16 DEF IsSound, Now
<1> QED BY <1>7, <1>9, <1>17 DEF Exact

-----------------------------------------------------------------------------
\* Every step keeps the index exact.
LEMMA ExactStep ==
  ASSUME Inv, Inv', SettledInv, ExactInv, [Next]_vars
  PROVE  ExactInv'
<1> SUFFICES ASSUME past' \subseteq {"failure"}
             PROVE  Exact'
  BY DEF ExactInv
<1>1. past \subseteq {"failure"} /\ "race" \notin past'
  BY PastGrows
<1>2. Exact /\ Settled /\ Safe /\ Safe' /\ ~panicked'
  BY <1>1 DEF Inv, SettledInv, ExactInv, Safe
<1>4. ASSUME NEW i \in DOMAIN tasks, TaskStep(i) \/ Fails(i) PROVE Exact'
  BY <1>2, <1>4, TaskExact
<1>5. CASE WindowEnds
  <2>1. UNCHANGED <<tasks, drive, made, entries, byPath>>
    BY <1>5 DEF WindowEnds, remote, index
  <2> QED BY <1>2, <2>1, ExactSame
<1>6. CASE NextOfChain
  BY <1>2, <1>6, NextOfChainExact
<1>7. CASE TokenExpires
  <2>1. UNCHANGED <<tasks, drive, made, entries, byPath>>
    BY <1>7 DEF TokenExpires, remote, index
  <2> QED BY <1>2, <2>1, ExactSame
<1>8. CASE Refreshed
  BY <1>2, <1>8, RefreshedExact
<1>9. CASE Restart
  BY <1>2, <1>9, RestartExact
<1>10. CASE UNCHANGED vars
  <2>1. UNCHANGED <<tasks, drive, made, entries, byPath>>
    BY <1>10 DEF vars, remote, index
  <2> QED BY <1>2, <2>1, ExactSame
<1> QED BY <1>4, <1>5, <1>6, <1>7, <1>8, <1>9, <1>10 DEF Next

\* An exact index leads to the objects of Drive, except to what is being forgotten.
LEMMA ExactIsTrue ==
  ASSUME Exact, Settled, NEW p \in DOMAIN byPath,
         ~\E i \in DOMAIN tasks : tasks[i].do = "forget" /\ IsPrefix(tasks[i].act.to, p)
  PROVE  <<p, byPath[p]>> \in Reached(drive, Root)
<1>1. <<p, byPath[p]>> \in Reached(entries, Root) /\ Leads(Now)
  BY DEF Exact, IsSound, Leads, Now
<1>2. CASE DOMAIN tasks = {}
  BY <1>1, <1>2, CoversReached DEF Exact
<1>3. ASSUME NEW i \in DOMAIN tasks PROVE <<p, byPath[p]>> \in Reached(drive, Root)
  <2>1. PICK t : t = tasks[i]
    OBVIOUS
  <2>2. Covers(drive, Left(Now, t)) /\ Root \notin DOMAIN entries
    BY <2>1, ExactNow
  <2>3. CASE t.do = "forget" /\ t.act.to \in DOMAIN byPath
    <3>1. Left(Now, t) = Erased(entries, byPath[t.act.to])
      BY <2>3 DEF Left, Now
    <3>2. <<t.act.to, byPath[t.act.to]>> \in Reached(entries, Root)
      BY <1>1, <2>3 DEF Leads, Now
    <3>3. ~IsPrefix(t.act.to, p)
      BY <2>1, <2>3
    <3>4. <<p, byPath[p]>> \in Reached(Erased(entries, byPath[t.act.to]), Root)
      BY <1>1, <2>2, <3>2, <3>3, SurvivesErased
    <3> QED BY <2>2, <3>1, <3>4, CoversReached
  <2>4. CASE ~(t.do = "forget" /\ t.act.to \in DOMAIN byPath)
    <3>1. Left(Now, t) = entries
      BY <2>4 DEF Left, Now
    <3> QED BY <1>1, <2>2, <3>1, CoversReached
  <2> QED BY <2>3, <2>4
<1> QED BY <1>2, <1>3

(* The index gives a path the object that is at this path on Drive, whatever calls fail,  *)
(* tokens expire, or restarts with nothing under way there are: what a walk finds, a      *)
(* folder, an upload, a move and a deletion leave in the index is what they leave on      *)
(* Drive (put_file_id, move_object_in_file_index and remove_from_file_index).  A move to  *)
(* a name that is taken on Drive is the exception the property makes: nothing in          *)
(* move_object looks for one, and the twins it leaves have one path in the index.         *)
THEOREM IndexLeadsHome == Spec => []IndexIsTrue
<1>1. Init => Inv /\ SettledInv /\ ExactInv
  <2>1. Init => Settled
    BY DEF Init, Settled
  <2> QED BY <2>1, InitSafe, InitExact DEF Inv, SettledInv, ExactInv
<1>2. Inv /\ [Next]_vars => Inv'
  BY SafeStep
<1>3. Inv /\ Inv' /\ SettledInv /\ [Next]_vars => SettledInv'
  BY SettledStep
<1>4. Inv /\ Inv' /\ SettledInv /\ ExactInv /\ [Next]_vars => ExactInv'
  BY ExactStep
<1>5. SettledInv /\ ExactInv => IndexIsTrue
  BY ExactIsTrue DEF SettledInv, ExactInv, IndexIsTrue
<1> QED BY <1>1, <1>2, <1>3, <1>4, <1>5, PTL DEF Spec
=============================================================================
