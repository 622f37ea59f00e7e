---------------------------- MODULE WindowProofs ----------------------------
(***************************************************************************)
(* What a window of Archive does to Drive, when it is one that Watcher     *)
(* gives (PlainWindows): nothing is deleted at a path that the watched     *)
(* folder still has.                                                       *)
(*                                                                         *)
(* WindowInv: what runs, is parked or waits in the chain is an action of   *)
(* the window that is going on, and a task does what its action asks for.  *)
(***************************************************************************)
EXTENDS ArchiveProofs

Moves(act) == act.kind \in {"Move", "MoveFolder", "MoveAndUpload"}

\* The actions of the window that is going on.
Acts == IF window = 0 THEN {} ELSE Range(scenario.windows[window].actions)

\* What a task resolves, and does, is what its action asks for.
Suits(t) ==
  /\ t.goal = "folder" <=> t.act.kind = "EnsureFolder"
  /\ t.goal = "source" => Deletes(t.act) \/ Moves(t.act)
  /\ t.goal \in {"oldParent", "newParent"} => Moves(t.act)
  /\ t.goal \in {"file", "fileParent"} => Moves(t.act) \/ t.act.kind = "Upload"
  /\ t.do \in {"delete", "forget"} => Deletes(t.act)
  /\ t.do = "move" => t.goal = "newParent"
  /\ t.do = "update" => t.goal = "file"
  /\ t.do = "create" => t.goal = "fileParent"
  /\ t.again => t.act.kind = "MoveAndUpload"
  /\ t.act.kind = "MoveAndUpload" /\ t.goal \in {"source", "oldParent", "newParent"} => t.again

\* A folder is created on the way to where something goes, or is the folder that goes there.
WayTo(path) == Ancestors(path) \union {path}
MakesFor(now, t) ==
  t.make # << >> =>
    /\ t.make \in WayTo(t.act.to) /\ (t.make = t.act.to => now[t.act.to] = Folder)
    /\ t.goal \in {"newParent", "file", "folder"}

\* The tasks are numbered by the tokens they were given.
KeysUpTo(n) == \A k \in DOMAIN tasks, m \in Nat : \A j : k = <<m, j>> => m <= n

Windowed ==
  /\ \A k \in DOMAIN tasks : tasks[k].act \in Acts /\ Suits(tasks[k]) /\ MakesFor(Local, tasks[k])
  /\ \A j \in DOMAIN parked : parked[j] \in Acts
  /\ \A j \in DOMAIN chain : chain[j] # Save => chain[j].act \in Acts
  /\ KeysUpTo(token)
WindowInv == past \intersect {"race", "overtaken"} = {} => Windowed

\* What is of a task that goes on.
Follows(t, r) ==
  /\ r.act = t.act
  /\ r.do = "end" \/ (Suits(r) /\ (MakesFor(Local, t) => MakesFor(Local, r)))

\* A task that resolves another path.
LEMMA ResolveIs ==
  ASSUME NEW t, IsTask(t), NEW goal
  PROVE  /\ Resolve(t, goal).act = t.act /\ Resolve(t, goal).goal = goal
         /\ Resolve(t, goal).make = << >> /\ Resolve(t, goal).do = "look"
         /\ Resolve(t, goal).again = t.again /\ Resolve(t, goal).token = t.token
         /\ Resolve(t, goal).source = t.source /\ Resolve(t, goal).old = t.old
BY DEF IsTask, Resolve

LEMMA EndedIs ==
  ASSUME NEW t, IsTask(t)
  PROVE  Ended(t).do = "end" /\ Ended(t).act = t.act
BY DEF IsTask, Ended

LEMMA DoIs ==
  ASSUME NEW t, IsTask(t), NEW d
  PROVE  LET r == [t EXCEPT !.do = d]
         IN r.do = d /\ r.act = t.act /\ r.goal = t.goal /\ r.make = t.make /\ r.again = t.again
            /\ r.token = t.token /\ r.source = t.source /\ r.old = t.old /\ r.at = t.at
BY DEF IsTask

\* A task that has found its path does what its action asks for.
LEMMA FoundSuits ==
  ASSUME NEW t, IsTask(t), Suits(t), t.do \in {"look", "walk"}, NEW id
  PROVE  Follows(t, Found(t, id))
<1>0. PICK s : s = [t EXCEPT !.at = id]
  OBVIOUS
<1>1. /\ IsTask(s) /\ s.act = t.act /\ s.make = t.make /\ s.goal = t.goal /\ s.again = t.again
      /\ s.do = t.do
  BY <1>0 DEF IsTask
<1>2. Suits(s)
  BY <1>1 DEF Suits
<1>3. MakesFor(Local, t) => MakesFor(Local, s)
  BY <1>1 DEF MakesFor
<1>5. \A q, goal : IsTask(q) => MakesFor(Local, Resolve(q, goal))
  BY ResolveIs DEF MakesFor
<1>6. \A d : MakesFor(Local, s) => MakesFor(Local, [s EXCEPT !.do = d])
  BY <1>1, DoIs DEF MakesFor
<1>7. CASE t.make # << >>
  <2>1. Found(t, id) = [s EXCEPT !.do = "make"]
    BY <1>0, <1>7 DEF Found
  <2>2. Suits([s EXCEPT !.do = "make"])
    BY <1>1, <1>2, DoIs DEF Suits
  <2>3. [s EXCEPT !.do = "make"].act = t.act
    BY <1>1, DoIs
  <2> QED BY <1>3, <1>6, <2>1, <2>2, <2>3 DEF Follows
<1>8. CASE t.make = << >>
  <2>0. t.goal \in Goals
    BY TaskPaths
  <2>1. CASE t.goal = "source" /\ Deletes(t.act)
    <3>1. Found(t, id) = [s EXCEPT !.do = "delete"]
      BY <1>0, <1>8, <2>1 DEF Found
    <3>2. Suits([s EXCEPT !.do = "delete"])
      BY <1>1, <1>2, <2>1, DoIs DEF Suits
    <3> QED BY <1>1, <1>3, <1>6, <3>1, <3>2, DoIs DEF Follows
  <2>2. CASE t.goal = "source" /\ ~Deletes(t.act)
    <3>1. PICK q : q = [s EXCEPT !.source = id]
      OBVIOUS
    <3>2. Found(t, id) = Resolve(q, "oldParent")
      BY <1>0, <1>8, <2>2, <3>1 DEF Found
    <3>3. IsTask(q) /\ q.act = t.act /\ q.again = t.again
      BY <1>1, <3>1 DEF IsTask
    <3>4. Suits(Resolve(q, "oldParent"))
      BY <2>2, <3>3, ResolveIs DEF Suits, Moves
    <3> QED BY <1>5, <3>2, <3>3, <3>4, ResolveIs DEF Follows
  <2>3. CASE t.goal = "oldParent"
    <3>1. PICK q : q = [s EXCEPT !.old = id]
      OBVIOUS
    <3>2. Found(t, id) = Resolve(q, "newParent")
      BY <1>0, <1>8, <2>3, <3>1 DEF Found
    <3>3. IsTask(q) /\ q.act = t.act /\ q.again = t.again
      BY <1>1, <3>1 DEF IsTask
    <3>4. Suits(Resolve(q, "newParent"))
      BY <2>3, <3>3, ResolveIs DEF Suits, Moves
    <3> QED BY <1>5, <3>2, <3>3, <3>4, ResolveIs DEF Follows
  <2>4. CASE t.goal = "newParent"
    <3>1. Found(t, id) = [s EXCEPT !.do = "move"]
      BY <1>0, <1>8, <2>4 DEF Found
    <3>2. Suits([s EXCEPT !.do = "move"])
      BY <1>1, <1>2, <2>4, DoIs DEF Suits
    <3> QED BY <1>1, <1>3, <1>6, <3>1, <3>2, DoIs DEF Follows
  <2>5. CASE t.goal = "file"
    <3>1. Found(t, id) = Read(s, "update")
      BY <1>0, <1>8, <2>5 DEF Found
    <3>2. CASE IsFile(s.act.to)
      <4>1. Found(t, id) = [s EXCEPT !.do = "update"]
        BY <3>1, <3>2 DEF Read
      <4>2. Suits([s EXCEPT !.do = "update"])
        BY <1>1, <1>2, <2>5, DoIs DEF Suits
      <4> QED BY <1>1, <1>3, <1>6, <4>1, <4>2, DoIs DEF Follows
    <3>3. CASE ~IsFile(s.act.to)
      BY <1>1, <3>1, <3>3, EndedIs DEF Read, Follows
    <3> QED BY <3>2, <3>3
  <2>6. CASE t.goal = "fileParent"
    <3>1. Found(t, id) = Read(s, "create")
      BY <1>0, <1>8, <2>6 DEF Found
    <3>2. CASE IsFile(s.act.to)
      <4>1. Found(t, id) = [s EXCEPT !.do = "create"]
        BY <3>1, <3>2 DEF Read
      <4>2. Suits([s EXCEPT !.do = "create"])
        BY <1>1, <1>2, <2>6, DoIs DEF Suits
      <4> QED BY <1>1, <1>3, <1>6, <4>1, <4>2, DoIs DEF Follows
    <3>3. CASE ~IsFile(s.act.to)
      BY <1>1, <3>1, <3>3, EndedIs DEF Read, Follows
    <3> QED BY <3>2, <3>3
  <2>7. CASE t.goal = "folder"
    <3>1. Found(t, id) = Ended(s)
      BY <1>0, <1>8, <2>7 DEF Found
    <3> QED BY <1>1, <3>1, EndedIs DEF Follows
  <2> QED BY <2>0, <2>1, <2>2, <2>3, <2>4, <2>5, <2>6, <2>7 DEF Goals
<1> QED BY <1>7, <1>8

\* A prefix of the path that a task resolves to create it is on the way to where its action
\* brings something.
LEMMA WalkedIsOnTheWay ==
  ASSUME NEW t, IsTask(t), NEW paths, ParentIsKnown(paths, t), t.do = "walk", Creating(t)
  PROVE  SubSeq(Target(t), 1, t.n) \in WayTo(t.act.to)
<1>1. PICK to \in Seq(STRING) : to = t.act.to
  BY TaskPaths
<1>2. t.n \in 1..Len(Target(t)) /\ t.n \in Nat /\ t.make = << >>
  BY WalkIs
<1>3. t.goal \in {"newParent", "file", "folder"}
  BY DEF Creating
<1>4. CASE t.goal = "newParent"
  <2>1. Target(t) = Front(to)
    BY <1>1, <1>2, <1>4 DEF Target
  <2>2. to # << >>
    <3>1. CASE to = << >>
      <4>1. Front(to) = << >>
        BY <3>1, FrontOfPath
      <4>2. Len(Target(t)) = 0
        BY <2>1, <4>1
      <4> QED BY <1>2, <4>2
    <3> QED BY <3>1
  <2>3. Front(to) \in Seq(STRING) /\ Len(to) \in Nat \ {0} /\ Len(Front(to)) = Len(to) - 1
    BY <2>2, FrontAndLast
  <2>4. PICK n \in Nat : n = t.n /\ n \in 1..Len(to) - 1
    BY <1>2, <2>1, <2>3
  <2>5. SubSeq(Front(to), 1, n) = SubSeq(to, 1, n)
    <3>1. Front(to) = SubSeq(to, 1, Len(to) - 1)
      BY DEF Front
    <3> QED BY <2>3, <2>4, <3>1
  <2> QED BY <1>1, <2>1, <2>4, <2>5 DEF WayTo, Ancestors
<1>5. CASE t.goal \in {"file", "folder"}
  <2>1. Target(t) = to
    BY <1>1, <1>2, <1>5 DEF Target
  <2>2. PICK n \in Nat : n = t.n /\ n \in 1..Len(to)
    BY <1>2, <2>1
  <2>3. CASE n = Len(to)
    BY <1>1, <2>1, <2>2, <2>3, PrefixEnds DEF WayTo
  <2>4. CASE n # Len(to)
    <3>1. n \in 1..Len(to) - 1
      BY <2>2, <2>4
    <3> QED BY <1>1, <2>1, <2>2, <3>1 DEF WayTo, Ancestors
  <2> QED BY <2>3, <2>4
<1> QED BY <1>3, <1>4, <1>5

\* A task that has not found its path.
LEMMA MissingSuits ==
  ASSUME NEW t, IsTask(t), Suits(t), NEW paths, ParentIsKnown(paths, t), t.do = "walk",
         NEW path, path = SubSeq(Target(t), 1, t.n)
  PROVE  Follows(t, Missing(t, path))
<1>1. t.make = << >> /\ t.goal \in Goals
  BY TaskPaths DEF ParentIsKnown
<1>2. \A goal : MakesFor(Local, Resolve(t, goal))
  BY ResolveIs DEF MakesFor
<1>3. CASE Creating(t) /\ (path # Target(t) \/ IsDir(Target(t)))
  <2>1. PICK r : r = [t EXCEPT !.make = path, !.do = "look"]
    OBVIOUS
  <2>2. /\ r.act = t.act /\ r.make = path /\ r.do = "look" /\ r.goal = t.goal
        /\ r.again = t.again
    BY <2>1 DEF IsTask
  <2>3. Suits(r)
    BY <2>2 DEF Suits
  <2>4. path \in WayTo(t.act.to) /\ t.goal \in {"newParent", "file", "folder"}
    BY <1>3, WalkedIsOnTheWay DEF Creating
  <2>5. path = t.act.to => Local[t.act.to] = Folder
    <3>1. CASE t.goal = "newParent"
      <4>1. Target(t) = Front(t.act.to) /\ t.act.to \in Seq(STRING)
        BY <1>1, <3>1, TaskPaths DEF Target
      <4>2. /\ t.n \in 1..Len(Target(t)) /\ t.n \in Nat /\ Target(t) \in Seq(STRING)
            /\ path # << >>
        BY WalkIs
      <4>3. Len(path) = t.n
        BY <4>2
      <4>4. CASE t.act.to = << >>
        BY <4>4, <4>2
      <4>5. CASE t.act.to # << >>
        <5>1. Len(t.act.to) \in Nat /\ Len(Target(t)) = Len(t.act.to) - 1
          BY <4>1, <4>5, FrontAndLast
        <5>2. PICK m \in Nat : m = Len(t.act.to) /\ Len(Target(t)) = m - 1
          BY <5>1
        <5>3. t.n \in 1..m - 1
          BY <4>2, <5>2
        <5>4. PICK n \in Nat : n = t.n /\ n # m
          BY <4>2, <5>3
        <5>5. path # t.act.to
          BY <4>3, <5>2, <5>4
        <5> QED BY <5>5
      <4> QED BY <4>4, <4>5
    <3>2. CASE t.goal \in {"file", "folder"}
      <4>1. Target(t) = t.act.to
        BY <1>1, <3>2 DEF Target
      <4>2. path # << >>
        BY WalkIs
      <4> QED BY <1>3, <4>1, <4>2 DEF IsDir
    <3> QED BY <2>4, <3>1, <3>2
  <2>6. MakesFor(Local, r)
    BY <2>2, <2>4, <2>5 DEF MakesFor
  <2>7. Missing(t, path) = r
    BY <1>3, <2>1 DEF Missing
  <2> QED BY <2>2, <2>3, <2>6, <2>7 DEF Follows
<1>4. CASE ~(Creating(t) /\ (path # Target(t) \/ IsDir(Target(t))))
  <2>1. CASE t.goal = "file"
    <3>1. Missing(t, path) = Resolve(t, "fileParent")
      BY <1>1, <1>4, <2>1 DEF Missing
    <3>2. Suits(Resolve(t, "fileParent"))
      BY <2>1, ResolveIs DEF Suits, Moves
    <3> QED BY <1>2, <3>1, <3>2, ResolveIs DEF Follows
  <2>2. CASE t.goal = "source" /\ Deletes(t.act)
    <3>1. Missing(t, path) = [t EXCEPT !.do = "forget"]
      BY <1>1, <1>4, <2>2 DEF Missing, MissingSource
    <3>2. PICK r : r = [t EXCEPT !.do = "forget"]
      OBVIOUS
    <3>3. /\ r.do = "forget" /\ r.act = t.act /\ r.goal = t.goal /\ r.make = t.make
          /\ r.again = t.again
      BY <3>2, DoIs
    <3>4. Suits(r) /\ MakesFor(Local, r)
      BY <1>1, <2>2, <3>3 DEF Suits, MakesFor
    <3> QED BY <3>1, <3>2, <3>3, <3>4 DEF Follows
  <2>3. CASE t.goal = "source" /\ ~Deletes(t.act)
    <3>1. Missing(t, path) = Resolve(t, "file")
      BY <1>1, <1>4, <2>3 DEF Missing, MissingSource
    <3>2. Suits(Resolve(t, "file"))
      BY <2>3, ResolveIs DEF Suits, Moves
    <3> QED BY <1>2, <3>1, <3>2, ResolveIs DEF Follows
  <2>4. CASE t.goal \notin {"file", "source"}
    <3>1. Missing(t, path) = Ended(t)
      BY <1>1, <1>4, <2>4 DEF Missing
    <3> QED BY <3>1, EndedIs DEF Follows
  <2> QED BY <2>1, <2>2, <2>3, <2>4
<1> QED BY <1>3, <1>4

\* A task that has uploaded or moved.
LEMMA UploadedSuits ==
  ASSUME NEW t, IsTask(t), Suits(t)
  PROVE  Follows(t, Uploaded(t))
<1>1. CASE t.again
  <2>1. PICK q : q = [t EXCEPT !.again = FALSE]
    OBVIOUS
  <2>2. IsTask(q) /\ q.act = t.act /\ q.again = FALSE
    BY <2>1 DEF IsTask
  <2>3. Uploaded(t) = Resolve(q, "file")
    BY <1>1, <2>1 DEF Uploaded
  <2>4. t.act.kind = "MoveAndUpload"
    BY <1>1 DEF Suits
  <2>5. Suits(Resolve(q, "file")) /\ MakesFor(Local, Resolve(q, "file"))
    BY <2>2, <2>4, ResolveIs DEF Suits, MakesFor, Moves
  <2> QED BY <2>2, <2>3, <2>5, ResolveIs DEF Follows
<1>2. CASE ~t.again
  BY <1>2, EndedIs DEF Uploaded, Follows
<1> QED BY <1>1, <1>2

\* A task that begins.
LEMMA StartedSuits ==
  ASSUME NEW act \in SyncActions, NEW n
  PROVE  /\ Suits(Started(act, n)) /\ MakesFor(Local, Started(act, n)) /\ Started(act, n).act = act
         /\ Started(act, n) # Save /\ Started(act, n).token = n
<1>1. act.kind \in ActionKinds
  BY DEF SyncActions
<1>2. PICK goal : goal = FirstGoal(act)
  OBVIOUS
<1>3. /\ goal \in {"source", "file", "folder"}
      /\ goal = "source" <=> Deletes(act) \/ Moves(act)
      /\ goal = "file" <=> act.kind = "Upload"
      /\ goal = "folder" <=> act.kind = "EnsureFolder"
  BY <1>1, <1>2 DEF FirstGoal, ActionKinds, Deletes, Moves
<1>4. PICK r : r = Started(act, n)
  OBVIOUS
<1>5. /\ r.act = act /\ r.goal = goal /\ r.make = << >> /\ r.do = "look" /\ r.token = n
      /\ r.again = (act.kind = "MoveAndUpload") /\ r # Save
  BY <1>2, <1>4 DEF Started, Save
<1> QED BY <1>3, <1>4, <1>5 DEF Suits, MakesFor

\* The index becomes something, and the task goes on, if it does not panic.
LEMMA IndexedGoes ==
  ASSUME ~panicked', NEW i, NEW xs, NEW r, Indexed(i, xs, r)
  PROVE  Goes(i, r) /\ \E x \in xs : Becomes(x)
BY DEF Indexed

\* A task that is further in its walk.
LEMMA FurtherSuits ==
  ASSUME NEW t, Suits(t), NEW r,
         r.act = t.act, r.make = t.make, r.goal = t.goal, r.again = t.again,
         r.do \in {"walk", "make"}
  PROVE  Follows(t, r)
BY DEF Suits, MakesFor, Follows

\* Whatever a task does, it goes on with its action.
LEMMA TaskFollows ==
  ASSUME Safe, Windowed, ~panicked', NEW i \in DOMAIN tasks, TaskStep(i) \/ Fails(i)
  PROVE  /\ \E r : Goes(i, r) /\ Follows(tasks[i], r)
         /\ UNCHANGED <<scenario, window, chain, token>>
         /\ parked' = parked \/ (parked' = Append(parked, tasks[i].act) /\ Unauthorized(i))
<1>1. PICK t : t = tasks[i]
  OBVIOUS
<1>2. IsTask(t) /\ ParentIsKnown(Keys(Now), t) /\ Suits(t)
  BY <1>1, TaskIsOK DEF Windowed
<1>3. CASE Look(i)
  <2>1. UNCHANGED <<scenario, window, chain, token, parked>> /\ t.do = "look"
    BY <1>1, <1>3 DEF Look, session
  <2>2. CASE Known(Now, Target(t))
    <3>1. Goes(i, Found(t, IdOf(Now, Target(t))))
      BY <1>1, <1>3, <2>2 DEF Look
    <3> QED BY <1>1, <1>2, <2>1, <3>1, FoundSuits
  <2>3. CASE ~Known(Now, Target(t))
    <3>1. PICK r : r = [t EXCEPT !.do = "walk", !.n = 1, !.at = Root]
      OBVIOUS
    <3>2. Goes(i, r)
      BY <1>1, <1>3, <2>3, <3>1 DEF Look
    <3>3. /\ r.act = t.act /\ r.make = t.make /\ r.goal = t.goal
          /\ r.again = t.again /\ r.do = "walk"
      BY <1>2, <3>1 DEF IsTask
    <3>4. Follows(t, r)
      BY <1>2, <3>3, FurtherSuits
    <3> QED BY <1>1, <2>1, <3>2, <3>4
  <2> QED BY <2>2, <2>3
<1>4. CASE PassBy(i)
  <2>1. UNCHANGED <<scenario, window, chain, token, parked>> /\ t.do = "walk"
    BY <1>1, <1>4 DEF PassBy, PassesBy, session
  <2>2. PICK r : r = [t EXCEPT !.at = IdOf(Now, SubSeq(Target(t), 1, t.n)), !.n = @ + 1]
    OBVIOUS
  <2>3. Goes(i, r)
    BY <1>1, <1>4, <2>2 DEF PassBy
  <2>4. /\ r.act = t.act /\ r.make = t.make /\ r.goal = t.goal
        /\ r.again = t.again /\ r.do = "walk"
    BY <1>2, <2>1, <2>2 DEF IsTask
  <2> QED BY <1>1, <1>2, <2>1, <2>3, <2>4, FurtherSuits
<1>5. CASE Find(i)
  <2>1. UNCHANGED <<scenario, window, chain, token, parked>> /\ t.do = "walk"
    BY <1>1, <1>5 DEF Find, session
  <2>2. PICK path : path = SubSeq(Target(t), 1, t.n)
    OBVIOUS
  <2>3. \/ Goes(i, Missing(t, path))
        \/ \E o : Indexed(i, Noted(t, path, o), Onward(t, path, o))
    BY <1>1, <1>5, <2>2 DEF Find
  <2>4. CASE Goes(i, Missing(t, path))
    BY <1>1, <1>2, <2>1, <2>2, <2>4, MissingSuits
  <2>5. ASSUME NEW o, Indexed(i, Noted(t, path, o), Onward(t, path, o))
        PROVE  Goes(i, Onward(t, path, o)) /\ Follows(t, Onward(t, path, o))
    <3>1. Goes(i, Onward(t, path, o))
      BY <2>5, IndexedGoes
    <3>2. CASE path = Target(t)
      BY <1>2, <2>1, <3>1, <3>2, FoundSuits DEF Onward
    <3>3. CASE path # Target(t)
      <4>1. PICK r : r = [t EXCEPT !.at = o, !.n = @ + 1]
        OBVIOUS
      <4>2. Onward(t, path, o) = r
        BY <3>3, <4>1 DEF Onward
      <4>3. /\ r.act = t.act /\ r.make = t.make /\ r.goal = t.goal
            /\ r.again = t.again /\ r.do = "walk"
        BY <1>2, <2>1, <4>1 DEF IsTask
      <4> QED BY <1>2, <3>1, <4>2, <4>3, FurtherSuits
    <3> QED BY <3>2, <3>3
  <2> QED BY <1>1, <2>1, <2>3, <2>4, <2>5
<1>6. CASE Make(i)
  <2>1. UNCHANGED <<scenario, window, chain, token, parked>> /\ Goes(i, Resolve(t, t.goal))
    BY <1>1, <1>6, IndexedGoes DEF Make, Succeeds, session
  <2>2. Suits(Resolve(t, t.goal)) /\ MakesFor(Local, Resolve(t, t.goal))
    BY <1>2, ResolveIs DEF Suits, MakesFor
  <2> QED BY <1>1, <1>2, <2>1, <2>2, ResolveIs DEF Follows
<1>7. CASE Create(i) \/ Update(i) \/ Move(i)
  <2>1. UNCHANGED <<scenario, window, chain, token, parked>> /\ Goes(i, Uploaded(t))
    BY <1>1, <1>7, IndexedGoes DEF Create, Update, Move, Succeeds, session
  <2> QED BY <1>1, <1>2, <2>1, UploadedSuits
<1>8. CASE Delete(i)
  <2>1. PICK r : r = [t EXCEPT !.do = "forget"]
    OBVIOUS
  <2>2. UNCHANGED <<scenario, window, chain, token, parked>> /\ Goes(i, r) /\ t.do = "delete"
    BY <1>1, <1>8, <2>1, IndexedGoes DEF Delete, Succeeds, session
  <2>3. /\ r.do = "forget" /\ r.act = t.act /\ r.goal = t.goal /\ r.make = t.make
        /\ r.again = t.again
    BY <1>2, <2>1, DoIs
  <2>4. Suits(r) /\ (MakesFor(Local, t) => MakesFor(Local, r))
    BY <1>2, <2>2, <2>3 DEF Suits, MakesFor
  <2> QED BY <1>1, <2>2, <2>3, <2>4 DEF Follows
<1>9. CASE Forget(i)
  <2>1. UNCHANGED <<scenario, window, chain, token, parked>> /\ Goes(i, Ended(t))
    BY <1>1, <1>9, IndexedGoes DEF Forget, session
  <2> QED BY <1>1, <1>2, <2>1, EndedIs DEF Follows
<1>10. CASE Refused(i) \/ Fails(i) \/ Unauthorized(i)
  <2>1. /\ UNCHANGED <<scenario, window, chain, token>> /\ Goes(i, Ended(t))
        /\ parked' = parked \/ (parked' = Append(parked, tasks[i].act) /\ Unauthorized(i))
    BY <1>1, <1>10 DEF Refused, Fails, Unauthorized, session
  <2> QED BY <1>1, <1>2, <2>1, EndedIs DEF Follows
<1> QED BY <1>3, <1>4, <1>5, <1>6, <1>7, <1>8, <1>9, <1>10 DEF TaskStep

\* What runs, is parked or waits is of the window after a step of a task.
LEMMA WindowedGoes ==
  ASSUME Safe, Windowed, ~panicked', NEW i \in DOMAIN tasks, TaskStep(i) \/ Fails(i)
  PROVE  Windowed'
<1>1. PICK r : Goes(i, r) /\ Follows(tasks[i], r)
  BY TaskFollows
<1>2. UNCHANGED <<scenario, window, chain>>
  BY TaskFollows
<1>3. parked' = parked \/ parked' = Append(parked, tasks[i].act)
  BY TaskFollows
<1>4. Acts' = Acts
  BY <1>2 DEF Acts
<1>11. Local' = Local
  BY <1>2 DEF Local
<1>5. \A k \in DOMAIN tasks : k = i
  BY DEF Safe, Alone
<1>6. tasks[i].act \in Acts /\ MakesFor(Local, tasks[i])
  BY DEF Windowed
<1>7. \A k \in DOMAIN tasks' : tasks'[k] = r /\ r.do # "end"
  BY <1>1, <1>5 DEF Goes, Restrict
<1>8. ASSUME NEW k \in DOMAIN tasks'
      PROVE  tasks'[k].act \in Acts' /\ Suits(tasks'[k]) /\ MakesFor(Local', tasks'[k])
  <2>1. tasks'[k] = r /\ r.do # "end"
    BY <1>7
  <2>2. Suits(r) /\ MakesFor(Local, r) /\ r.act = tasks[i].act
    BY <1>1, <1>6, <2>1 DEF Follows
  <2> QED BY <1>4, <1>6, <1>11, <2>1, <2>2
<1>9. \A j \in DOMAIN parked' : parked'[j] \in Acts'
  <2>1. CASE parked' = parked
    BY <1>4, <2>1 DEF Windowed
  <2>2. CASE parked' = Append(parked, tasks[i].act)
    <3>1. parked \in Seq(SyncActions)
      BY DEF Safe, TypeOK
    <3>2. \A j \in DOMAIN parked' : parked'[j] = tasks[i].act \/ (j \in DOMAIN parked /\ parked'[j] = parked[j])
      BY <2>2, <3>1
    <3> QED BY <1>4, <1>6, <3>2 DEF Windowed
  <2> QED BY <1>3, <2>1, <2>2
<1>10. \A j \in DOMAIN chain' : chain'[j] # Save => chain'[j].act \in Acts'
  BY <1>2, <1>4 DEF Windowed
<1>13. \A k \in DOMAIN tasks' : tasks'[k].act \in Acts' /\ Suits(tasks'[k]) /\ MakesFor(Local', tasks'[k])
  BY <1>8
<1>14. KeysUpTo(token)'
  <2>1. token' = token
    BY TaskFollows
  <2>2. DOMAIN tasks' \subseteq DOMAIN tasks
    BY <1>1 DEF Goes, Restrict
  <2> QED BY <2>1, <2>2 DEF Windowed, KeysUpTo
<1> QED BY <1>9, <1>10, <1>13, <1>14 DEF Windowed

\* A window ends: what waits in the chain is of the window that begins.
LEMMA WindowedBegins ==
  ASSUME Safe, WindowEnds, "overtaken" \notin past'
  PROVE  Windowed'
<1>1. /\ window \in Nat /\ window' = window + 1 /\ scenario' = scenario /\ tasks = << >>
      /\ UNCHANGED <<tasks, parked>> /\ window < Len(scenario.windows)
  BY ArchiveAssumption DEF WindowEnds, session, Safe, TypeOK
<1>2. PICK actions : actions = scenario.windows[window + 1].actions
  OBVIOUS
<1>3. chain' = Append([i \in DOMAIN actions |-> Started(actions[i], token)], Save)
  BY <1>2 DEF WindowEnds
<1>4. Acts' = Range(actions)
  BY <1>1, <1>2 DEF Acts
<1>5. actions \in Seq(SyncActions)
  <2>1. window + 1 \in 1..Len(scenario.windows)
    BY <1>1, ArchiveAssumption DEF Safe, TypeOK
  <2> QED BY <1>2, <2>1, ArchiveAssumption DEF Safe, TypeOK
<1>6. PICK begun : begun = [i \in DOMAIN actions |-> Started(actions[i], token)]
  OBVIOUS
<1>7. begun \in Seq(Fresh) /\ Len(begun) = Len(actions)
  <2>1. \A i \in DOMAIN actions : Started(actions[i], token) \in Fresh
    <3>1. \A i \in DOMAIN actions : actions[i] \in SyncActions
      BY <1>5
    <3> QED BY <3>1 DEF Safe, TypeOK, Fresh
  <2>2. DOMAIN actions = 1..Len(actions) /\ Len(actions) \in Nat
    BY <1>5
  <2> QED BY <1>6, <2>1, <2>2
<1>8. \A j \in DOMAIN chain' : chain'[j] # Save => j \in DOMAIN actions /\ chain'[j] = Started(actions[j], token)
  <2>1. chain' = Append(begun, Save)
    BY <1>3, <1>6
  <2>2. \A j \in DOMAIN chain' : chain'[j] # Save => j \in DOMAIN begun /\ chain'[j] = begun[j]
    BY <1>7, <2>1
  <2> QED BY <1>6, <2>2
<1>9. \A j \in DOMAIN chain' : chain'[j] # Save => chain'[j].act \in Acts'
  <2>1. \A j \in DOMAIN actions : actions[j] \in SyncActions /\ actions[j] \in Range(actions)
    BY <1>5 DEF Range
  <2>2. ASSUME NEW j \in DOMAIN chain', chain'[j] # Save PROVE chain'[j].act \in Acts'
    <3>1. j \in DOMAIN actions /\ chain'[j] = Started(actions[j], token)
      BY <1>8, <2>2
    <3>2. Started(actions[j], token).act = actions[j]
      BY <2>1, <3>1, StartedSuits
    <3> QED BY <1>4, <2>1, <3>1, <3>2
  <2> QED BY <2>2
<1>10. parked' = << >>
  BY <1>1 DEF WindowEnds
<1>11. DOMAIN tasks' = {} /\ DOMAIN parked' = {}
  BY <1>1, <1>10
<1> QED BY <1>9, <1>11 DEF Windowed, KeysUpTo

\* The next task of the chain begins.
LEMMA WindowedNext ==
  ASSUME Safe, Windowed, NextOfChain
  PROVE  Windowed'
<1>1. /\ chain # << >> /\ chain' = Tail(chain) /\ chain \in Seq({Save} \union Fresh)
      /\ UNCHANGED <<scenario, window, parked>>
  BY DEF NextOfChain, session, Safe, TypeOK
<1>2. Acts' = Acts /\ Local' = Local
  BY <1>1 DEF Acts, Local
<1>3. \A j \in DOMAIN chain' : chain'[j] # Save => chain'[j].act \in Acts
  <2>1. \A j \in DOMAIN chain' : j + 1 \in DOMAIN chain /\ chain'[j] = chain[j + 1]
    BY <1>1
  <2> QED BY <2>1 DEF Windowed
<1>4. 1 \in DOMAIN chain /\ Head(chain) = chain[1]
  BY <1>1
<1>5. ASSUME NEW k \in DOMAIN tasks'
      PROVE  tasks'[k].act \in Acts /\ Suits(tasks'[k]) /\ MakesFor(Local, tasks'[k])
  <2>1. CASE Head(chain) = Save
    <3>1. tasks' = tasks
      BY <2>1 DEF NextOfChain
    <3> QED BY <1>5, <3>1 DEF Windowed
  <2>2. CASE Head(chain) # Save
    <3>1. tasks' = With(tasks, InChain, Head(chain))
      BY <2>2 DEF NextOfChain
    <3>2. PICK act \in SyncActions, n \in Nat : Head(chain) = Started(act, n)
      BY <1>1, <1>4, <2>2 DEF Fresh
    <3>3. /\ Suits(Head(chain)) /\ MakesFor(Local, Head(chain)) /\ Head(chain).act \in Acts
      BY <1>4, <2>2, <3>2, StartedSuits DEF Windowed
    <3>4. tasks'[k] = Head(chain) \/ (k \in DOMAIN tasks /\ tasks'[k] = tasks[k])
      BY <1>5, <3>1 DEF With
    <3> QED BY <3>3, <3>4 DEF Windowed
  <2> QED BY <2>1, <2>2
<1>6. \A k \in DOMAIN tasks' :
        tasks'[k].act \in Acts' /\ Suits(tasks'[k]) /\ MakesFor(Local', tasks'[k])
  BY <1>2, <1>5
<1>7. \A j \in DOMAIN parked' : parked'[j] \in Acts'
  BY <1>1, <1>2 DEF Windowed
<1>8. KeysUpTo(token)'
  <2>1. token' = token /\ token \in Nat
    BY DEF NextOfChain, session, Safe, TypeOK
  <2>2. \A k \in DOMAIN tasks' : k \in DOMAIN tasks \/ k = <<0, 0>>
    BY DEF NextOfChain, With, InChain
  <2>3. \A m \in Nat : \A j : <<0, 0>> = <<m, j>> => m <= token
    BY <2>1
  <2> QED BY <2>1, <2>2, <2>3 DEF Windowed, KeysUpTo
<1> QED BY <1>2, <1>3, <1>6, <1>7, <1>8 DEF Windowed

\* What was parked begins again.
LEMMA WindowedRetried ==
  ASSUME Safe, Windowed, Refreshed
  PROVE  Windowed'
<1>1. /\ parked' = << >> /\ UNCHANGED <<scenario, window, chain>>
      /\ DOMAIN parked = 1..Len(parked) /\ \A j \in DOMAIN parked : parked[j] \in SyncActions
  BY DEF Refreshed, Safe, TypeOK
<1>2. Acts' = Acts /\ Local' = Local
  BY <1>1 DEF Acts, Local
<1>3. PICK retried : retried = {<<token', j>> : j \in DOMAIN parked}
  OBVIOUS
<1>4. tasks' = [k \in DOMAIN tasks \union retried |->
                  IF k \in DOMAIN tasks THEN tasks[k] ELSE Started(parked[k[2]], token')]
  BY <1>3 DEF Refreshed
<1>5. ASSUME NEW k \in DOMAIN tasks'
      PROVE  tasks'[k].act \in Acts /\ Suits(tasks'[k]) /\ MakesFor(Local, tasks'[k])
  <2>1. CASE k \in DOMAIN tasks
    BY <1>4, <2>1 DEF Windowed
  <2>2. CASE k \notin DOMAIN tasks
    <3>1. PICK j \in DOMAIN parked : k = <<token', j>>
      BY <1>3, <1>4, <2>2
    <3>2. tasks'[k] = Started(parked[j], token')
      BY <1>4, <2>2, <3>1
    <3>3. parked[j] \in Acts
      BY DEF Windowed
    <3> QED BY <1>1, <3>2, <3>3, StartedSuits
  <2> QED BY <2>1, <2>2
<1>6. \A k \in DOMAIN tasks' :
        tasks'[k].act \in Acts' /\ Suits(tasks'[k]) /\ MakesFor(Local', tasks'[k])
  BY <1>2, <1>5
<1>7. DOMAIN parked' = {}
  BY <1>1
<1>8. KeysUpTo(token)'
  <2>1. PICK n \in Nat : n = token /\ token' = n + 1
    BY DEF Refreshed, Safe, TypeOK
  <2>2. ASSUME NEW k \in DOMAIN tasks', NEW m \in Nat, NEW j, k = <<m, j>> PROVE m <= n + 1
    <3>1. CASE k \in DOMAIN tasks
      <4>1. m <= n
        BY <2>1, <2>2, <3>1 DEF Windowed, KeysUpTo
      <4> QED BY <4>1
    <3>2. CASE k \notin DOMAIN tasks
      <4>1. PICK l : k = <<n + 1, l>>
        BY <1>3, <1>4, <2>1, <3>2
      <4>2. m = n + 1
        BY <2>2, <4>1
      <4> QED BY <4>2
    <3> QED BY <3>1, <3>2
  <2> QED BY <2>1, <2>2 DEF KeysUpTo
<1> QED BY <1>1, <1>2, <1>6, <1>7, <1>8 DEF Windowed

\* Every step keeps the invariant.
LEMMA WindowStep ==
  ASSUME Inv, Inv', WindowInv, [Next]_vars
  PROVE  WindowInv'
<1> SUFFICES ASSUME past' \intersect {"race", "overtaken"} = {}
             PROVE  Windowed'
  BY DEF WindowInv
<1>1. /\ Safe /\ Windowed /\ ~panicked' /\ "race" \notin past' /\ "overtaken" \notin past'
  BY PastGrows DEF Inv, WindowInv, Safe
<1>2. CASE UNCHANGED vars \/ TokenExpires
  <2>1. UNCHANGED <<scenario, window, chain, tasks, token, parked>>
    BY <1>2 DEF vars, session, TokenExpires
  <2>2. Acts' = Acts /\ Local' = Local
    BY <2>1 DEF Acts, Local
  <2> QED BY <1>1, <2>1, <2>2 DEF Windowed, KeysUpTo
<1>3. CASE Restart
  <2>1. DOMAIN tasks' = {} /\ DOMAIN parked' = {} /\ DOMAIN chain' = {}
    BY <1>3 DEF Restart
  <2> QED BY <2>1 DEF Windowed, KeysUpTo
<1> QED BY <1>1, <1>2, <1>3, WindowedGoes, WindowedBegins, WindowedNext, WindowedRetried DEF Next

LEMMA InitWindow ==
  ASSUME Init PROVE WindowInv
<1>1. DOMAIN tasks = {} /\ DOMAIN parked = {} /\ DOMAIN chain = {}
  BY DEF Init
<1> QED BY <1>1 DEF WindowInv, Windowed, KeysUpTo

-----------------------------------------------------------------------------
(* Nothing is deleted that the folder has *)

\* What is below an object has a path that is below its path.
LEMMA UnderIsBelow ==
  ASSUME NEW es, Root \notin DOMAIN es, NEW to, NEW id, <<to, id>> \in Reached(es, Root),
         NEW p, NEW o, <<p, o>> \in Reached(es, Root), o \in Under(es, id)
  PROVE  IsPrefix(to, p)
<1> DEFINE R == Reached(es, Root)
           D == Reached(es, id)
           P(n) == \A x, a, y : Len(x) = n /\ <<x, a>> \in D /\ <<y, a>> \in R => IsPrefix(to, y)
<1>1. \A x, a : <<x, a>> \in R =>
              /\ IsPath(x)
              /\ \/ x = << >> /\ a = Root
                 \/ /\ a \in DOMAIN es /\ <<Front(x), es[a].parent>> \in R
                    /\ x = Append(Front(x), es[a].name)
  BY ReachedSteps
<1>2. \A x, a : <<x, a>> \in D =>
              /\ Len(x) \in 0..3
              /\ \/ x = << >> /\ a = id
                 \/ /\ Len(x) \in 1..3 /\ Len(Front(x)) = Len(x) - 1
                    /\ a \in DOMAIN es /\ <<Front(x), es[a].parent>> \in D
  BY ReachedSteps
<1>3. \A y : <<y, id>> \in R => y = to
  BY OnePathOfId
<1>4. IsPath(to) /\ IsPrefix(to, to)
  BY <1>1, PrefixOfLonger
<1> HIDE DEF R, D
<1>5. P(0)
  <2> SUFFICES ASSUME NEW x, NEW a, NEW y, Len(x) = 0, <<x, a>> \in D, <<y, a>> \in R
               PROVE  IsPrefix(to, y)
    OBVIOUS
  <2>1. Len(x) \notin 1..3
    OBVIOUS
  <2>2. a = id
    BY <1>2, <2>1
  <2> QED BY <1>3, <1>4, <2>2
<1>6. ASSUME NEW n \in 0..2, P(n) PROVE P(n + 1)
  <2> SUFFICES ASSUME NEW x, NEW a, NEW y, Len(x) = n + 1, <<x, a>> \in D, <<y, a>> \in R
               PROVE  IsPrefix(to, y)
    OBVIOUS
  <2>1. Len(x) # 0
    OBVIOUS
  <2>2. x # << >>
    BY <2>1
  <2>3. Len(Front(x)) = n /\ a \in DOMAIN es /\ <<Front(x), es[a].parent>> \in D
    <3>1. Len(Front(x)) = Len(x) - 1 /\ a \in DOMAIN es /\ <<Front(x), es[a].parent>> \in D
      BY <1>2, <2>2
    <3> QED BY <3>1
  <2>4. <<Front(y), es[a].parent>> \in R /\ y = Append(Front(y), es[a].name)
    BY <1>1, <2>3
  <2>5. IsPrefix(to, Front(y)) /\ IsPath(Front(y))
    BY <1>1, <1>6, <2>3, <2>4
  <2> QED BY <1>4, <2>4, <2>5, PrefixOfLonger
<1>7. P(1) /\ P(2) /\ P(3)
  <2>1. P(0 + 1)
    BY <1>5, <1>6
  <2>2. P(1 + 1)
    BY <1>6, <2>1
  <2>3. P(2 + 1)
    BY <1>6, <2>2
  <2> QED BY <2>1, <2>2, <2>3
<1>8. PICK x \in D : x[2] = o
  BY DEF Under, D
<1>9. <<x[1], o>> \in D
  BY <1>8, ReachedSteps DEF D
<1>10. Len(x[1]) \in 0..3
  BY <1>2, <1>9
<1> QED BY <1>5, <1>7, <1>9, <1>10 DEF R

\* The folder as it is, and what a plain window says of its actions.
LEMMA PlainAct ==
  ASSUME PlainWindows, TypeOK, NEW act \in Acts
  PROVE  /\ window > 0 /\ act \in SyncActions /\ IsTree(Local)
         /\ act.kind \notin {"Upload", "EnsureFolder"} =>
              \A p \in DOMAIN Local : ~IsPrefix(act.from, p)
         /\ IF Deletes(act) THEN act.to # << >> ELSE act.to \in DOMAIN Local
         /\ act.kind \in {"Upload", "MoveAndUpload"} => Local[act.to] # Folder
         /\ act.kind = "EnsureFolder" => Local[act.to] = Folder
<1>1. PICK w : w = scenario.windows[window]
  OBVIOUS
<1>2. window \in Nat /\ window # 0
  BY ArchiveAssumption DEF TypeOK, Acts
<1>3. window \in 1..Len(scenario.windows) /\ scenario \in Scenarios
  BY <1>2, ArchiveAssumption DEF TypeOK
<1>4. Plain(w.after, w.actions) /\ IsTree(w.after) /\ w.actions \in Seq(SyncActions)
  BY <1>1, <1>3, ArchiveAssumption DEF PlainWindows
<1>5. Local = w.after /\ act \in Range(w.actions)
  BY <1>1, <1>2 DEF Local, Acts
<1>6. act \in SyncActions
  BY <1>4, <1>5 DEF Range
<1> QED BY <1>2, <1>4, <1>5, <1>6 DEF Plain, Deletes

\* What a task deletes with its object was at, or below, the path that its action deletes.
LEMMA DeletedIsGone ==
  ASSUME PlainWindows, Safe, Settled, Exact, Windowed, NEW i \in DOMAIN tasks,
         tasks[i].do = "delete", tasks[i].at \in DOMAIN drive,
         NEW o \in Under(drive, tasks[i].at), NEW p, <<p, o>> \in Reached(drive, Root)
  PROVE  p \notin DOMAIN Local
<1>1. PICK t : t = tasks[i]
  OBVIOUS
<1>2. /\ IsSound(Now, made) /\ Covers(drive, entries) /\ Root \notin DOMAIN entries
      /\ Now.entries = entries /\ Placed(drive, Now, t) /\ t.do = "delete"
  BY <1>1, ExactNow
<1>3. Known(Now, t.act.to) /\ t.at = IdOf(Now, t.act.to)
  BY <1>2 DEF Placed
<1>4. <<t.act.to, t.at>> \in Reached(entries, Root)
  BY <1>2, <1>3, KnownLeads DEF IsSound
<1>5. o \in Under(entries, t.at) /\ <<p, o>> \in Reached(entries, Root)
  BY <1>1, <1>2, CoversReached
<1>6. IsPrefix(t.act.to, p)
  BY <1>2, <1>4, <1>5, UnderIsBelow
<1>7. t.act \in Acts /\ Deletes(t.act)
  BY <1>1, <1>2 DEF Windowed, Suits
<1>8. t.act.from = t.act.to
  BY <1>7, PlainAct DEF Safe, SyncActions
<1> QED BY <1>6, <1>7, <1>8, PlainAct DEF Safe, Deletes

\* Objects go from Drive when a task deletes one.
LEMMA OnlyDeleteDeletes ==
  ASSUME Safe, [Next]_vars, ~(DOMAIN drive \subseteq DOMAIN drive')
  PROVE  \E i \in DOMAIN tasks : /\ tasks[i].do = "delete" /\ tasks[i].at \in DOMAIN drive
                                 /\ drive' = DeletedOnDrive(tasks[i])
<1>1. \A a, y : DOMAIN drive \subseteq DOMAIN With(drive, a, y)
  BY DEF With
<1>2. ASSUME NEW i \in DOMAIN tasks, TaskStep(i) \/ Fails(i)
      PROVE  /\ tasks[i].do = "delete" /\ tasks[i].at \in DOMAIN drive
             /\ drive' = DeletedOnDrive(tasks[i])
  <2>1. CASE Look(i) \/ PassBy(i) \/ Find(i) \/ Forget(i) \/ Refused(i) \/ Unauthorized(i)
    BY <2>1 DEF Look, PassBy, Find, Forget, Refused, Unauthorized, remote
  <2>2. CASE Make(i)
    BY <1>1, <2>2 DEF Make, Succeeds, MadeOnDrive
  <2>3. CASE Create(i)
    BY <1>1, <2>3 DEF Create, Succeeds, CreatedOnDrive
  <2>4. CASE Update(i)
    BY <2>4 DEF Update, Succeeds, UpdatedOnDrive
  <2>5. CASE Move(i)
    BY <2>5 DEF Move, Succeeds, MovedOnDrive
  <2>6. CASE Delete(i)
    BY <2>6 DEF Delete, Succeeds, Accepted
  <2>7. CASE Fails(i)
    <3>1. PICK t : t = tasks[i]
      OBVIOUS
    <3>2. \/ drive' = drive \/ drive' = MadeOnDrive(t) \/ drive' = CreatedOnDrive(t)
          \/ drive' = UpdatedOnDrive(t) \/ drive' = MovedOnDrive(t)
          \/ t.do = "delete" /\ Accepted(t) /\ drive' = DeletedOnDrive(t)
      BY <3>1, <2>7 DEF Fails, remote
    <3>3. t.do = "delete" /\ Accepted(t) /\ drive' = DeletedOnDrive(t)
      BY <1>1, <3>2 DEF MadeOnDrive, CreatedOnDrive, UpdatedOnDrive, MovedOnDrive
    <3> QED BY <3>1, <3>3 DEF Accepted
  <2> QED BY <1>2, <2>1, <2>2, <2>3, <2>4, <2>5, <2>6, <2>7 DEF TaskStep
<1>3. CASE WindowEnds \/ NextOfChain \/ TokenExpires \/ Refreshed \/ Restart \/ UNCHANGED vars
  BY <1>3 DEF WindowEnds, NextOfChain, TokenExpires, Refreshed, Restart, vars, remote
<1> QED BY <1>2, <1>3 DEF Next

\* No step deletes what the folder has.
LEMMA StepDeletesOnlyWhatIsGone ==
  ASSUME PlainWindows, Inv, SettledInv, ExactInv, WindowInv, [Next]_vars,
         past \subseteq {"failure"}
  PROVE  \A o \in DOMAIN drive \ DOMAIN drive' :
           \A x \in Reached(drive, Root) : x[2] = o => x[1] \notin DOMAIN Local
<1> SUFFICES ASSUME NEW o \in DOMAIN drive \ DOMAIN drive', NEW x \in Reached(drive, Root),
                    x[2] = o
             PROVE  x[1] \notin DOMAIN Local
  OBVIOUS
<1>1. Safe /\ Settled /\ Exact /\ Windowed
  BY DEF Inv, SettledInv, ExactInv, WindowInv
<1>2. PICK i \in DOMAIN tasks : /\ tasks[i].do = "delete" /\ tasks[i].at \in DOMAIN drive
                                /\ drive' = DeletedOnDrive(tasks[i])
  BY <1>1, OnlyDeleteDeletes
<1>3. o \in Under(drive, tasks[i].at)
  BY <1>2 DEF DeletedOnDrive, Restrict
<1>4. <<x[1], o>> \in Reached(drive, Root)
  BY ReachedSteps
<1> QED BY <1>1, <1>2, <1>3, <1>4, DeletedIsGone

(* delete_object_if_on_remote deletes the object of a path that the watched folder does  *)
(* not have any more, and all that is below it was below this path: for any folders and  *)
(* plain windows, also after calls that failed, tokens that expired, and restarts with   *)
(* nothing under way.                                                                    *)
THEOREM DeletesWhatIsGone == ASSUME PlainWindows PROVE Spec => DeletesOnlyWhatIsGone
<1>1. Init => Inv /\ SettledInv /\ ExactInv /\ WindowInv
  <2>1. Init => Settled
    BY DEF Init, Settled
  <2> QED BY <2>1, InitSafe, InitExact, InitWindow DEF Inv, SettledInv, ExactInv
<1>2. Inv /\ [Next]_vars => Inv'
  BY SafeStep
<1>3. Inv /\ Inv' /\ SettledInv /\ [Next]_vars => SettledInv'
  BY SettledStep
<1>4. Inv /\ Inv' /\ SettledInv /\ ExactInv /\ [Next]_vars => ExactInv'
  BY ExactStep
<1>5. Inv /\ Inv' /\ WindowInv /\ [Next]_vars => WindowInv'
  BY WindowStep
<1>6. Inv /\ SettledInv /\ ExactInv /\ WindowInv /\ [Next]_vars =>
        [past \subseteq {"failure"} =>
           \A o \in DOMAIN drive \ DOMAIN drive' :
             \A x \in Reached(drive, Root) : x[2] = o => x[1] \notin DOMAIN Local]_vars
  BY StepDeletesOnlyWhatIsGone
<1> QED BY <1>1, <1>2, <1>3, <1>4, <1>5, <1>6, PTL DEF Spec, DeletesOnlyWhatIsGone

-----------------------------------------------------------------------------
(* Paths *)

\* Two paths, and a name, have an alphabet in common.
LEMMA CommonNames ==
  ASSUME NEW p, IsPath(p), NEW q, IsPath(q), NEW e
  PROVE  \E S : p \in Seq(S) /\ q \in Seq(S) /\ e \in S
<1>1. PICK A : p \in Seq(A)
  BY DEF IsPath
<1>2. PICK B : q \in Seq(B)
  BY DEF IsPath
<1>3. PICK S : S = A \union B \union {e}
  OBVIOUS
<1>4. p \in Seq(S)
  BY <1>1, <1>3
<1>5. q \in Seq(S)
  BY <1>2, <1>3
<1> QED BY <1>3, <1>4, <1>5

\* A prefix, name by name.
LEMMA PrefixIs ==
  ASSUME NEW S, NEW p \in Seq(S), NEW q \in Seq(S)
  PROVE  IsPrefix(p, q) <=> Len(p) <= Len(q) /\ \A i \in 1..Len(p) : p[i] = q[i]
<1>1. Len(p) \in Nat /\ Len(q) \in Nat
  OBVIOUS
<1>2. SubSeq(p, 1, Len(p)) = p
  BY PrefixEnds
<1>3. CASE Len(p) <= Len(q)
  <2>1. \A i \in 1..Len(p) : q[i] \in S
    BY <1>1, <1>3, ElementOfSeq
  <2>2. PICK r : r = SubSeq(q, 1, Len(p))
    OBVIOUS
  <2>3. r \in Seq(S) /\ Len(r) = Len(p) /\ \A i \in 1..Len(p) : r[i] = q[i]
    <3>1. /\ r \in Seq(S) /\ Len(r) = IF 1 <= Len(p) THEN Len(p) - 1 + 1 ELSE 0
          /\ \A i \in 1..Len(p) - 1 + 1 : r[i] = q[1 + i - 1]
      BY <1>1, <2>1, <2>2, SubSeqProperties
    <3> QED BY <1>1, <3>1
  <2>4. p = r <=> \A i \in 1..Len(p) : p[i] = q[i]
    BY <2>3, SeqEqual
  <2> QED BY <1>2, <1>3, <2>2, <2>4 DEF IsPrefix
<1>4. CASE ~(Len(p) <= Len(q))
  BY <1>4 DEF IsPrefix
<1> QED BY <1>3, <1>4

\* The names of a path that goes on.
LEMMA ConcatNames ==
  ASSUME NEW S, NEW p \in Seq(S), NEW x \in Seq(S), NEW m \in Nat, NEW n \in Nat,
         m = Len(p), n = Len(x)
  PROVE  /\ p \o x \in Seq(S) /\ Len(p \o x) = m + n
         /\ \A i \in 1..m : (p \o x)[i] = p[i]
         /\ \A i \in 1..n : (p \o x)[m + i] = x[i]
OBVIOUS

\* A path that goes on.
LEMMA ConcatIs ==
  ASSUME NEW p, IsPath(p), NEW x, IsPath(x)
  PROVE  /\ IsPath(p \o x) /\ Len(p \o x) = Len(p) + Len(x) /\ Len(p) \in Nat /\ Len(x) \in Nat
         /\ IsPrefix(p, p \o x) /\ p \o << >> = p
         /\ SubSeq(p \o x, Len(p) + 1, Len(p \o x)) = x
<1>1. PICK S : p \in Seq(S) /\ x \in Seq(S)
  BY CommonNames
<1>2. PICK q : q = p \o x
  OBVIOUS
<1>9. PICK m \in Nat, n \in Nat : m = Len(p) /\ n = Len(x)
  BY <1>1
<1>3. /\ q \in Seq(S) /\ Len(q) = m + n
      /\ \A i \in 1..m : q[i] = p[i]
      /\ \A i \in 1..n : q[m + i] = x[i]
  BY <1>1, <1>2, <1>9, ConcatNames
<1>4. IsPrefix(p, q)
  <2>1. Len(p) <= Len(q) /\ \A i \in 1..Len(p) : p[i] = q[i]
    BY <1>3, <1>9
  <2> QED BY <1>1, <1>3, <2>1, PrefixIs
<1>5. p \o << >> = p
  BY <1>1, ConcatEmptySeq
<1>6. SubSeq(q, Len(p) + 1, Len(q)) = x
  <2>2. PICK y : y = SubSeq(q, m + 1, m + n)
    OBVIOUS
  <2>3. \A i \in m + 1..m + n : q[i] \in S
    BY <1>3, ElementOfSeq
  <2>4. /\ y \in Seq(S) /\ Len(y) = IF m + 1 <= m + n THEN m + n - (m + 1) + 1 ELSE 0
        /\ \A i \in 1..m + n - (m + 1) + 1 : y[i] = q[m + 1 + i - 1]
    BY <2>2, <2>3, SubSeqProperties
  <2>5. Len(y) = n
    BY <2>4
  <2>6. ASSUME NEW i \in 1..n PROVE y[i] = x[i]
    <3>1. y[i] = q[m + i]
      BY <2>4
    <3> QED BY <1>3, <3>1
  <2>7. y = x
    BY <1>1, <1>9, <2>4, <2>5, <2>6, SeqEqual
  <2> QED BY <1>3, <1>9, <2>2, <2>7
<1>8. IsPath(q)
  BY <1>3 DEF IsPath
<1> QED BY <1>2, <1>3, <1>4, <1>5, <1>6, <1>8, <1>9

\* The same of a path with one name more.
LEMMA ConcatAppend ==
  ASSUME NEW p, IsPath(p), NEW x, IsPath(x), NEW e
  PROVE  p \o Append(x, e) = Append(p \o x, e)
<1>1. PICK T : p \in Seq(T) /\ x \in Seq(T) /\ e \in T
  BY CommonNames
<1> QED BY <1>1

\* What has a prefix is the prefix, and goes on from there.
LEMMA PrefixGoesOn ==
  ASSUME NEW p, IsPath(p), NEW q, IsPath(q), IsPrefix(p, q)
  PROVE  LET x == SubSeq(q, Len(p) + 1, Len(q))
         IN IsPath(x) /\ q = p \o x /\ Len(q) = Len(p) + Len(x)
<1>1. PICK S : p \in Seq(S) /\ q \in Seq(S)
  BY CommonNames
<1>2. PICK m \in Nat, n \in Nat : m = Len(p) /\ m + n = Len(q)
  <2>1. Len(p) \in Nat /\ Len(q) \in Nat /\ Len(p) <= Len(q)
    BY <1>1, PrefixIs
  <2>2. Len(q) - Len(p) \in Nat /\ Len(p) + (Len(q) - Len(p)) = Len(q)
    BY <2>1
  <2> QED BY <2>1, <2>2
<1>3. PICK x : x = SubSeq(q, m + 1, m + n)
  OBVIOUS
<1>4. \A i \in 1..m + n : q[i] \in S
  BY <1>1, <1>2, ElementOfSeq
<1>5. /\ x \in Seq(S) /\ Len(x) = n /\ \A i \in 1..n : x[i] = q[m + i]
  <2>1. \A i \in m + 1..m + n : q[i] \in S
    BY <1>4
  <2>2. /\ x \in Seq(S) /\ Len(x) = IF m + 1 <= m + n THEN m + n - (m + 1) + 1 ELSE 0
        /\ \A i \in 1..m + n - (m + 1) + 1 : x[i] = q[m + 1 + i - 1]
    BY <1>3, <2>1, SubSeqProperties
  <2>3. \A i \in 1..n : m + 1 + i - 1 = m + i /\ i \in 1..m + n - (m + 1) + 1
    OBVIOUS
  <2> QED BY <2>2, <2>3
<1>6. PICK r : r = p \o x
  OBVIOUS
<1>7. /\ r \in Seq(S) /\ Len(r) = m + n
      /\ \A i \in 1..m : r[i] = p[i]
      /\ \A i \in 1..n : r[m + i] = x[i]
  <2>1. x \in Seq(S) /\ n = Len(x) /\ m = Len(p)
    BY <1>2, <1>5
  <2> QED BY <1>1, <1>6, <2>1, ConcatNames
<1>10. \A i \in 1..m : p[i] = q[i]
  BY <1>1, <1>2, PrefixIs
<1>8. ASSUME NEW i \in 1..m + n PROVE r[i] = q[i]
  <2>1. CASE i <= m
    <3>1. i \in 1..m
      BY <2>1
    <3> QED BY <1>7, <1>10, <3>1
  <2>2. CASE ~(i <= m)
    <3>1. PICK j \in 1..n : i = m + j
      <4>1. i - m \in 1..n /\ i = m + (i - m)
        BY <2>2
      <4> QED BY <4>1
    <3> QED BY <1>5, <1>7, <3>1
  <2> QED BY <2>1, <2>2
<1>9. r = q
  <2>1. Len(q) = m + n
    BY <1>2
  <2> QED BY <1>1, <1>7, <1>8, <2>1, SeqEqual
<1>11. x = SubSeq(q, Len(p) + 1, Len(q)) /\ Len(q) = Len(p) + Len(x)
  BY <1>2, <1>3, <1>5
<1>12. IsPath(x)
  BY <1>5 DEF IsPath
<1> QED BY <1>6, <1>9, <1>11, <1>12

\* Prefixes of a path with one name more, and of a path that has a prefix.
LEMMA PrefixesOf ==
  ASSUME NEW p, IsPath(p), NEW q, IsPath(q)
  PROVE  /\ \A e : IsPrefix(p, Append(q, e)) => p = Append(q, e) \/ IsPrefix(p, q)
         /\ \A r : IsPath(r) /\ IsPrefix(p, q) /\ IsPrefix(q, r) => IsPrefix(p, r)
         /\ IsPrefix(p, q) /\ IsPrefix(q, p) => p = q
         /\ IsPrefix(p, q) /\ p # << >> => IsPrefix(Front(p), q) /\ q # << >>
<1>1. ASSUME NEW e, IsPrefix(p, Append(q, e)) PROVE p = Append(q, e) \/ IsPrefix(p, q)
  <2>1. PICK S : p \in Seq(S) /\ q \in Seq(S) /\ e \in S
    BY CommonNames
  <2>2. PICK l : l = Append(q, e)
    OBVIOUS
  <2>3. l \in Seq(S) /\ Len(l) = Len(q) + 1 /\ \A i \in 1..Len(q) : l[i] = q[i]
    BY <2>1, <2>2, AppendProperties
  <2>4. PICK m \in Nat, n \in Nat : m = Len(p) /\ n = Len(q)
    BY <2>1
  <2>5. m <= n + 1 /\ \A i \in 1..m : p[i] = l[i]
    <3>1. IsPrefix(p, l)
      BY <1>1, <2>2
    <3>2. Len(p) <= Len(l) /\ \A i \in 1..Len(p) : p[i] = l[i]
      BY <2>1, <2>3, <3>1, PrefixIs
    <3> QED BY <2>3, <2>4, <3>2
  <2>6. CASE m = n + 1
    <3>1. p = l
      BY <2>1, <2>3, <2>4, <2>5, <2>6, SeqEqual
    <3> QED BY <2>2, <3>1
  <2>7. CASE m # n + 1
    <3>1. m <= n
      BY <2>5, <2>7
    <3>2. \A i \in 1..m : p[i] = q[i]
      <4>1. \A i \in 1..m : i \in 1..n
        BY <3>1
      <4> QED BY <2>3, <2>4, <2>5, <4>1
    <3> QED BY <2>1, <2>4, <3>1, <3>2, PrefixIs
  <2> QED BY <2>6, <2>7
<1>2. ASSUME NEW r, IsPath(r), IsPrefix(p, q), IsPrefix(q, r) PROVE IsPrefix(p, r)
  <2>1. PICK A : p \in Seq(A) /\ q \in Seq(A)
    BY CommonNames
  <2>2. PICK B : r \in Seq(B)
    BY <1>2 DEF IsPath
  <2>3. PICK S : S = A \union B
    OBVIOUS
  <2>4. p \in Seq(S) /\ q \in Seq(S)
    BY <2>1, <2>3
  <2>5. r \in Seq(S)
    BY <2>2, <2>3
  <2>6. PICK l \in Nat, m \in Nat, n \in Nat : l = Len(p) /\ m = Len(q) /\ n = Len(r)
    BY <2>4, <2>5
  <2>7. l <= m /\ \A i \in 1..l : p[i] = q[i]
    BY <1>2, <2>4, <2>6, PrefixIs
  <2>8. m <= n /\ \A i \in 1..m : q[i] = r[i]
    BY <1>2, <2>4, <2>5, <2>6, PrefixIs
  <2>9. l <= n /\ \A i \in 1..l : i \in 1..m
    BY <2>7, <2>8
  <2>10. \A i \in 1..l : p[i] = r[i]
    BY <2>7, <2>8, <2>9
  <2> QED BY <2>4, <2>5, <2>6, <2>9, <2>10, PrefixIs
<1>3. ASSUME IsPrefix(p, q), IsPrefix(q, p) PROVE p = q
  <2>1. PICK S : p \in Seq(S) /\ q \in Seq(S)
    BY CommonNames
  <2>2. PICK m \in Nat, n \in Nat : m = Len(p) /\ n = Len(q)
    BY <2>1
  <2>3. m <= n /\ n <= m /\ \A i \in 1..m : p[i] = q[i]
    BY <1>3, <2>1, <2>2, PrefixIs
  <2>4. m = n
    BY <2>3
  <2> QED BY <2>1, <2>2, <2>3, <2>4, SeqEqual
<1>4. ASSUME IsPrefix(p, q), p # << >> PROVE IsPrefix(Front(p), q) /\ q # << >>
  <2>1. PICK S : p \in Seq(S) /\ q \in Seq(S)
    BY CommonNames
  <2>2. p = Append(Front(p), Last(p)) /\ Front(p) \in Seq(S) /\ Len(p) \in Nat \ {0}
    BY <1>4, <2>1, FrontAndLast
  <2>3. IsPath(Front(p))
    BY <2>2 DEF IsPath
  <2>4. IsPrefix(Front(p), p)
    BY <2>2, <2>3, PrefixOfLonger
  <2>5. \A r : IsPath(r) /\ IsPrefix(Front(p), p) /\ IsPrefix(p, r) => IsPrefix(Front(p), r)
    <3> SUFFICES ASSUME NEW r, IsPath(r), IsPrefix(Front(p), p), IsPrefix(p, r)
                 PROVE  IsPrefix(Front(p), r)
      OBVIOUS
    <3>1. PICK A : p \in Seq(A) /\ r \in Seq(A)
      BY CommonNames
    <3>2. Front(p) \in Seq(A)
      BY <1>4, <3>1, FrontAndLast
    <3>3. PICK l \in Nat, m \in Nat, n \in Nat : l = Len(Front(p)) /\ m = Len(p) /\ n = Len(r)
      BY <3>1, <3>2
    <3>4. l <= m /\ \A i \in 1..l : Front(p)[i] = p[i]
      BY <3>1, <3>2, <3>3, PrefixIs
    <3>5. m <= n /\ \A i \in 1..m : p[i] = r[i]
      BY <3>1, <3>3, PrefixIs
    <3>6. l <= n /\ \A i \in 1..l : i \in 1..m
      BY <3>4, <3>5
    <3>7. \A i \in 1..l : Front(p)[i] = r[i]
      BY <3>4, <3>5, <3>6
    <3> QED BY <3>1, <3>2, <3>3, <3>6, <3>7, PrefixIs
  <2>6. IsPrefix(Front(p), q)
    BY <1>4, <2>4, <2>5
  <2>7. Len(p) <= Len(q)
    BY <1>4, <2>1, PrefixIs
  <2>8. q # << >>
    BY <2>1, <2>2, <2>7
  <2> QED BY <2>6, <2>8
<1> QED BY <1>1, <1>2, <1>3, <1>4

-----------------------------------------------------------------------------
(* What is said of a task when it runs alone, on plain windows *)

\* What a plain window brings somewhere does not come from there, or from above.
LEMMA PlainPaths ==
  ASSUME PlainWindows, TypeOK, NEW act \in Acts
  PROVE  /\ act.to \in Seq(STRING) /\ act.from \in Seq(STRING)
         /\ Len(act.to) <= 3 /\ Len(act.from) <= 3 /\ act.to # << >>
         /\ Front(act.to) \in Seq(STRING) /\ Len(act.to) \in Nat \ {0}
         /\ Len(Front(act.to)) = Len(act.to) - 1
         /\ ~Deletes(act) => IsDir(Front(act.to))
         /\ Moves(act) => /\ act.from # << >>
                          /\ \A q : IsPath(q) /\ IsPrefix(q, act.to) => ~IsPrefix(act.from, q)
<1>1. act \in SyncActions /\ IsTree(Local)
  BY PlainAct
<1>2. /\ act.to \in Seq(STRING) /\ act.from \in Seq(STRING)
      /\ Len(act.to) <= 3 /\ Len(act.from) <= 3
  BY <1>1 DEF SyncActions, Paths
<1>3. ~Deletes(act) => act.to \in DOMAIN Local /\ act.to # << >>
  BY <1>1, PlainAct DEF IsTree
<1>4. act.to # << >>
  BY <1>3, PlainAct
<1>5. ~Deletes(act) => IsDir(Front(act.to))
  BY <1>1, <1>3 DEF IsTree, IsDir
<1>6. IsPath(act.from) /\ IsPath(act.to)
  BY <1>2 DEF IsPath
<1>7. ASSUME Moves(act), NEW q, IsPath(q), IsPrefix(q, act.to), IsPrefix(act.from, q)
      PROVE  FALSE
  <2>1. IsPrefix(act.from, act.to)
    BY <1>6, <1>7, PrefixesOf
  <2>2. act.to \in DOMAIN Local /\ act.kind \notin {"Upload", "EnsureFolder"}
    BY <1>3, <1>7 DEF Moves, Deletes
  <2> QED BY <2>1, <2>2, PlainAct
<1>8. Moves(act) => act.from # << >>
  <2>1. IsPrefix(<< >>, act.to) /\ IsPrefix(act.to, act.to)
    BY <1>6, PrefixOfLonger
  <2> QED BY <1>6, <1>7, <2>1
<1>9. /\ Front(act.to) \in Seq(STRING) /\ Len(act.to) \in Nat \ {0}
      /\ Len(Front(act.to)) = Len(act.to) - 1
  BY <1>2, <1>4, FrontAndLast
<1> QED BY <1>2, <1>4, <1>5, <1>7, <1>8, <1>9

\* What is above something that is reached is reached.
LEMMA PrefixReached ==
  ASSUME NEW es, NEW q, NEW b, <<q, b>> \in Reached(es, Root), NEW p, IsPath(p), IsPrefix(p, q)
  PROVE  \E o : <<p, o>> \in Reached(es, Root)
<1> DEFINE R == Reached(es, Root)
           There == \E o : <<p, o>> \in R
           P(n) == \A y, o : Len(y) = n /\ <<y, o>> \in R /\ IsPrefix(p, y) => There
<1>1. \A y, o : <<y, o>> \in R =>
              /\ IsPath(y) /\ Len(y) \in 0..3
              /\ \/ y = << >>
                 \/ /\ Len(Front(y)) = Len(y) - 1
                    /\ <<Front(y), es[o].parent>> \in R
                    /\ y = Append(Front(y), es[o].name)
  BY ReachedSteps
<1> HIDE DEF R
<1>2. \A y, o : <<y, o>> \in R /\ p = y => There
  OBVIOUS
<1> HIDE DEF There
<1>3. ASSUME NEW y, NEW o, <<y, o>> \in R, IsPrefix(p, y), y = << >> \/ p = y PROVE There
  <2>1. p = y
    <3>1. CASE y = << >>
      <4>1. IsPath(<< >>) /\ IsPrefix(<< >>, p)
        BY <1>1, <1>3, <3>1, PrefixOfLonger
      <4> QED BY <1>3, <3>1, <4>1, PrefixesOf
    <3> QED BY <1>3, <3>1
  <2> QED BY <1>2, <1>3, <2>1
<1>4. P(0)
  <2> SUFFICES ASSUME NEW y, NEW o, Len(y) = 0, <<y, o>> \in R, IsPrefix(p, y)
               PROVE  There
    OBVIOUS
  <2>1. y = << >>
    <3>1. PICK S : y \in Seq(S)
      BY <1>1 DEF IsPath
    <3> QED BY <3>1, EmptySeq
  <2> QED BY <1>3, <2>1
<1>5. ASSUME NEW n \in 0..2, P(n) PROVE P(n + 1)
  <2> SUFFICES ASSUME NEW y, NEW o, Len(y) = n + 1, <<y, o>> \in R, IsPrefix(p, y)
               PROVE  There
    OBVIOUS
  <2>1. CASE y = << >> \/ p = y
    BY <1>3, <2>1
  <2>2. CASE y # << >> /\ p # y
    <3>1. Len(Front(y)) = Len(y) - 1 /\ <<Front(y), es[o].parent>> \in R
          /\ y = Append(Front(y), es[o].name)
      BY <1>1, <2>2
    <3>2. Len(Front(y)) = n
      BY <3>1
    <3>4. IsPath(Front(y))
      BY <1>1, <3>1
    <3>3. IsPrefix(p, Front(y))
      <4>1. PICK z, e : z = Front(y) /\ y = Append(z, e) /\ IsPath(z)
        BY <3>1, <3>4
      <4>2. IsPrefix(p, Append(z, e)) /\ p # Append(z, e)
        BY <2>2, <4>1
      <4> QED BY <4>1, <4>2, PrefixesOf
    <3> QED BY <1>5, <3>1, <3>2, <3>3
  <2> QED BY <2>1, <2>2
<1>6. P(1) /\ P(2) /\ P(3)
  <2>1. P(0 + 1)
    BY <1>4, <1>5
  <2>2. P(1 + 1)
    BY <1>5, <2>1
  <2>3. P(2 + 1)
    BY <1>5, <2>2
  <2> QED BY <2>1, <2>2, <2>3
<1>7. <<q, b>> \in R
  BY DEF R
<1>8. Len(q) = 0 \/ Len(q) = 1 \/ Len(q) = 2 \/ Len(q) = 3
  <2>1. Len(q) \in 0..3
    BY <1>1, <1>7
  <2> QED BY <2>1
<1>9. There
  BY <1>4, <1>6, <1>7, <1>8
<1> QED BY <1>9 DEF There, R

\* What is above something in the index is in the index.
LEMMA KnownAbove ==
  ASSUME NEW x, NEW m, IsSound(x, m), NEW p, NEW q, Known(x, q), IsPath(p), IsPrefix(p, q)
  PROVE  Known(x, p)
<1>1. Leads(x) /\ Complete(x)
  BY DEF IsSound
<1>2. <<q, IdOf(x, q)>> \in Reached(x.entries, Root)
  BY <1>1, KnownLeads
<1>3. PICK o : <<p, o>> \in Reached(x.entries, Root)
  BY <1>2, PrefixReached
<1> QED BY <1>1, <1>3 DEF Complete

\* A walk finds nothing on Drive that the index does not have.
LEMMA NoHit ==
  ASSUME Safe, Settled, Exact, NEW i \in DOMAIN tasks, NEW t, t = tasks[i], t.do = "walk",
         ~PassesBy(t), NEW path, path = SubSeq(Target(t), 1, t.n)
  PROVE  ~Known(Now, path) /\ Hits(t, Last(path)) = {}
<1>1. /\ IsTask(t) /\ ParentIsKnown(Keys(Now), t) /\ Placed(drive, Now, t)
      /\ IsSound(Now, made) /\ Covers(drive, entries) /\ Now.entries = entries
  BY TaskIsOK, ExactNow
<1>2. /\ t.n \in 1..Len(Target(t)) /\ t.n \in Nat /\ Len(Target(t)) \in 0..3
      /\ path \in Seq(STRING) /\ path # << >> /\ Len(path) <= 3 /\ Known(Now, Front(path))
      /\ Front(path) = SubSeq(Target(t), 1, t.n - 1)
      /\ path = Target(t) <=> t.n = Len(Target(t))
  BY <1>1, WalkIs, KnownIsKey
<1>3. t.at = IdOf(Now, Front(path)) /\ ~Known(Now, Target(t))
  BY <1>1, <1>2 DEF Placed
<1>4. ~Known(Now, path)
  <2>1. CASE t.n = Len(Target(t))
    BY <1>2, <1>3, <2>1
  <2>2. CASE t.n # Len(Target(t))
    <3>1. t.n < Len(Target(t))
      BY <1>2, <2>2
    <3> QED BY <3>1 DEF PassesBy
  <2> QED BY <2>1, <2>2
<1>5. ASSUME NEW o \in Children(drive, t.at), drive[o].name = Last(path) PROVE FALSE
  <2>1. o \in DOMAIN entries /\ entries[o].parent = t.at /\ entries[o].name = Last(path)
    BY <1>1, <1>5 DEF Children, Covers
  <2>2. <<Front(path), t.at>> \in Reached(entries, Root)
    BY <1>1, <1>2, <1>3, KnownLeads DEF IsSound
  <2>3. /\ path = Append(Front(path), Last(path))
        /\ Len(path) \in Nat \ {0} /\ Len(Front(path)) = Len(path) - 1
    BY <1>2, FrontAndLast
  <2>4. Len(Front(path)) <= 2
    BY <1>2, <2>3
  <2>5. <<path, o>> \in Reached(entries, Root)
    <3>1. <<Front(path), entries[o].parent>> \in Reached(entries, Root)
      BY <2>1, <2>2
    <3>2. <<Append(Front(path), entries[o].name), o>> \in Reached(entries, Root)
      BY <2>1, <2>4, <3>1, ReachedSteps
    <3> QED BY <2>1, <2>3, <3>2
  <2> QED BY <1>1, <1>4, <2>5 DEF IsSound, Complete
<1> QED BY <1>4, <1>5 DEF Hits

\* The id of a path that is known is the watched folder's, or one of Drive.
LEMMA KnownExists ==
  ASSUME IsSound(Now, made), Covers(drive, entries), NEW p, Known(Now, p)
  PROVE  Exists(IdOf(Now, p)) /\ (p # << >> => IdOf(Now, p) \in DOMAIN drive)
<1>1. <<p, IdOf(Now, p)>> \in Reached(entries, Root)
  BY KnownLeads DEF IsSound, Now
<1>2. p = << >> => IdOf(Now, p) = Root
  BY DEF IdOf
<1>3. p # << >> => IdOf(Now, p) \in DOMAIN drive
  BY <1>1, CoversPlace
<1> QED BY <1>2, <1>3 DEF Exists

\* A task that moves has the ids of what it moves; one that uploads what was never on Drive
\* has not found it.
Sourced(x, t) ==
  /\ t.goal \in {"oldParent", "newParent"} =>
       t.act.from \in DOMAIN x.byPath /\ t.source = x.byPath[t.act.from]
  /\ t.goal = "newParent" =>
       Known(x, Front(t.act.from)) /\ t.old = IdOf(x, Front(t.act.from))
  /\ t.goal \in {"file", "fileParent"} /\ Moves(t.act) => ~Known(x, t.act.from)
Sources == \A k \in DOMAIN tasks : Sourced(Now, tasks[k])
SourcedInv == past \subseteq {"failure"} => Sources

\* The same of another index that gives the paths it knows the ids they have.
LEMMA SourcedKept ==
  ASSUME NEW x, NEW y, NEW t, Sourced(x, t),
         \A p \in DOMAIN x.byPath : p \in DOMAIN y.byPath /\ y.byPath[p] = x.byPath[p],
         Moves(t.act) => (Known(y, t.act.from) => Known(x, t.act.from)),
         NEW r, r.act = t.act, r.goal = t.goal, r.source = t.source, r.old = t.old
  PROVE  Sourced(y, r)
BY DEF Sourced, Known, IdOf

\* A task that has found its path.
LEMMA FoundSourced ==
  ASSUME NEW t, IsTask(t), Suits(t), MakesFor(Local, t), NEW x, Sourced(x, t),
         Known(x, Target(t)), Moves(t.act) => t.act.from # << >>
  PROVE  LET r == Found(t, IdOf(x, Target(t))) IN r.do = "end" \/ Sourced(x, r)
<1>0. PICK id : id = IdOf(x, Target(t))
  OBVIOUS
<1>1. PICK s : s = [t EXCEPT !.at = id]
  OBVIOUS
<1>2. /\ IsTask(s) /\ s.act = t.act /\ s.make = t.make /\ s.goal = t.goal /\ s.again = t.again
      /\ s.source = t.source /\ s.old = t.old
  BY <1>1 DEF IsTask
<1>3. ASSUME NEW d PROVE Sourced(x, [s EXCEPT !.do = d])
  <2>1. PICK r : r = [s EXCEPT !.do = d]
    OBVIOUS
  <2>2. r.act = t.act /\ r.goal = t.goal /\ r.source = t.source /\ r.old = t.old
    BY <1>2, <2>1, DoIs
  <2> QED BY <2>1, <2>2 DEF Sourced
<1>4. CASE t.make # << >>
  <2>1. Found(t, id) = [s EXCEPT !.do = "make"]
    BY <1>1, <1>4 DEF Found
  <2> QED BY <1>0, <1>3, <2>1
<1>5. CASE t.make = << >>
  <2>0. t.goal \in Goals
    BY TaskPaths
  <2>1. CASE t.goal = "source" /\ Deletes(t.act)
    <3>1. Found(t, id) = [s EXCEPT !.do = "delete"]
      BY <1>1, <1>5, <2>1 DEF Found
    <3> QED BY <1>0, <1>3, <3>1
  <2>2. CASE t.goal = "source" /\ ~Deletes(t.act)
    <3>1. PICK q : q = [s EXCEPT !.source = id]
      OBVIOUS
    <3>2. Found(t, id) = Resolve(q, "oldParent")
      BY <1>1, <1>5, <2>2, <3>1 DEF Found
    <3>3. IsTask(q) /\ q.act = t.act /\ q.source = id
      BY <1>2, <3>1 DEF IsTask
    <3>4. Moves(t.act) /\ Target(t) = t.act.from
      BY <1>5, <2>2 DEF Suits, Target
    <3>5. t.act.from \in DOMAIN x.byPath /\ id = x.byPath[t.act.from]
      BY <1>0, <3>4 DEF Known, IdOf
    <3>6. Sourced(x, Resolve(q, "oldParent"))
      BY <3>3, <3>5, ResolveIs DEF Sourced
    <3> QED BY <1>0, <3>2, <3>6
  <2>3. CASE t.goal = "oldParent"
    <3>1. PICK q : q = [s EXCEPT !.old = id]
      OBVIOUS
    <3>2. Found(t, id) = Resolve(q, "newParent")
      BY <1>1, <1>5, <2>3, <3>1 DEF Found
    <3>3. IsTask(q) /\ q.act = t.act /\ q.source = t.source /\ q.old = id
      BY <1>2, <3>1 DEF IsTask
    <3>4. Target(t) = Front(t.act.from)
      BY <1>5, <2>3 DEF Target
    <3>6. Sourced(x, Resolve(q, "newParent"))
      BY <1>0, <2>3, <3>3, <3>4, ResolveIs DEF Sourced
    <3> QED BY <1>0, <3>2, <3>6
  <2>4. CASE t.goal = "newParent"
    <3>1. Found(t, id) = [s EXCEPT !.do = "move"]
      BY <1>1, <1>5, <2>4 DEF Found
    <3> QED BY <1>0, <1>3, <3>1
  <2>5. CASE t.goal \in {"file", "fileParent"}
    <3>1. Found(t, id) = Read(s, "update") \/ Found(t, id) = Read(s, "create")
      BY <1>1, <1>5, <2>5 DEF Found
    <3> QED BY <1>0, <1>2, <1>3, <3>1, EndedIs DEF Read
  <2>6. CASE t.goal = "folder"
    BY <1>0, <1>1, <1>2, <1>5, <2>6, EndedIs DEF Found
  <2> QED BY <2>0, <2>1, <2>2, <2>3, <2>4, <2>5, <2>6 DEF Goals
<1> QED BY <1>4, <1>5

\* A task that has not found its path does not give up on a plain window.
LEMMA MissingGoesOn ==
  ASSUME PlainWindows, Safe, Settled, Exact, Windowed, Sources,
         NEW i \in DOMAIN tasks, NEW t, t = tasks[i], t.do = "walk",
         NEW path, path = SubSeq(Target(t), 1, t.n)
  PROVE  Missing(t, path).do # "end" /\ Sourced(Now, Missing(t, path))
<1>1. /\ IsTask(t) /\ ParentIsKnown(Keys(Now), t) /\ Placed(drive, Now, t) /\ Suits(t)
      /\ t.act \in Acts /\ Sourced(Now, t) /\ IsSound(Now, made)
  BY TaskIsOK, ExactNow DEF Windowed, Sources
<1>2. t.make = << >> /\ t.goal \in Goals /\ ~Known(Now, Target(t))
  BY <1>1, TaskPaths DEF ParentIsKnown, Placed
<1>3. t.goal \notin {"oldParent", "fileParent"}
  <2>1. CASE t.goal = "oldParent"
    <3>1. t.act.from \in DOMAIN byPath /\ Target(t) = Front(t.act.from)
      BY <1>1, <1>2, <2>1 DEF Sourced, Target, Now
    <3>2. Front(t.act.from) \in Keys(Now)
      <4>1. t.act.from \in Keys(Now)
        BY <3>1 DEF Keys, Now
      <4>2. t.act.from # << >>
        BY <1>1, <2>1, PlainPaths DEF Safe, Suits
      <4> QED BY <4>1, <4>2 DEF Safe, IndexInv, Closed
    <3> QED BY <1>2, <3>1, <3>2, KnownIsKey
  <2>2. CASE t.goal = "fileParent"
    BY <1>1, <1>2, <2>2 DEF Placed, IsNew
  <2> QED BY <2>1, <2>2
<1>4. CASE Creating(t) /\ (path # Target(t) \/ IsDir(Target(t)))
  <2>1. PICK r : r = [t EXCEPT !.make = path, !.do = "look"]
    OBVIOUS
  <2>2. /\ r.act = t.act /\ r.do = "look" /\ r.goal = t.goal
        /\ r.source = t.source /\ r.old = t.old
    BY <1>1, <2>1 DEF IsTask
  <2>3. Missing(t, path) = r
    BY <1>4, <2>1 DEF Missing
  <2>4. Sourced(Now, r)
    BY <1>1, <2>2 DEF Sourced
  <2> QED BY <2>2, <2>3, <2>4
<1>5. CASE ~(Creating(t) /\ (path # Target(t) \/ IsDir(Target(t))))
  <2>1. CASE t.goal = "file"
    <3>1. Missing(t, path) = Resolve(t, "fileParent")
      BY <1>2, <1>5, <2>1 DEF Missing
    <3>2. Sourced(Now, Resolve(t, "fileParent"))
      BY <1>1, <2>1, ResolveIs DEF Sourced
    <3> QED BY <1>1, <3>1, <3>2, ResolveIs
  <2>2. CASE t.goal = "source" /\ Deletes(t.act)
    <3>1. Missing(t, path) = [t EXCEPT !.do = "forget"]
      BY <1>2, <1>5, <2>2 DEF Missing, MissingSource
    <3>2. PICK r : r = [t EXCEPT !.do = "forget"]
      OBVIOUS
    <3>3. r.do = "forget" /\ r.goal = t.goal
      BY <1>1, <3>2, DoIs
    <3> QED BY <2>2, <3>1, <3>2, <3>3 DEF Sourced
  <2>3. CASE t.goal = "source" /\ ~Deletes(t.act)
    <3>1. Missing(t, path) = Resolve(t, "file")
      BY <1>2, <1>5, <2>3 DEF Missing, MissingSource
    <3>2. Target(t) = t.act.from
      BY <1>2, <2>3 DEF Target
    <3>3. Sourced(Now, Resolve(t, "file"))
      BY <1>1, <1>2, <3>2, ResolveIs DEF Sourced
    <3> QED BY <1>1, <3>1, <3>3, ResolveIs
  <2>4. CASE t.goal \in {"newParent", "folder"}
    <3>1. Creating(t)
      BY <1>2, <2>4 DEF Creating
    <3>2. IsDir(Target(t))
      <4>1. CASE t.goal = "newParent"
        <5>1. Target(t) = Front(t.act.to) /\ ~Deletes(t.act)
          BY <1>1, <1>2, <4>1 DEF Target, Suits, Moves, Deletes
        <5> QED BY <1>1, <5>1, PlainPaths DEF Safe
      <4>2. CASE t.goal = "folder"
        <5>1. Target(t) = t.act.to /\ t.act.kind = "EnsureFolder" /\ ~Deletes(t.act)
          BY <1>1, <1>2, <4>2 DEF Target, Suits, Deletes
        <5> QED BY <1>1, <5>1, PlainAct DEF Safe, IsDir
      <4> QED BY <2>4, <4>1, <4>2
    <3> QED BY <1>5, <3>1, <3>2
  <2> QED BY <1>2, <1>3, <2>1, <2>2, <2>3, <2>4 DEF Goals
<1> QED BY <1>4, <1>5

\* Drive refuses no call.
LEMMA CallAccepted ==
  ASSUME PlainWindows, Safe, Settled, Exact, Windowed, Sources, NEW i \in DOMAIN tasks,
         Calling(tasks[i])
  PROVE  Accepted(tasks[i])
<1>1. PICK t : t = tasks[i]
  OBVIOUS
<1>2. t.do # "forget" /\ (t.do = "walk" \/ t.do \in {"make", "move", "update", "create", "delete"})
  BY <1>1 DEF Calling
<1>3. /\ IsTask(t) /\ ParentIsKnown(Keys(Now), t) /\ Placed(drive, Now, t) /\ Suits(t)
      /\ t.act \in Acts /\ Sourced(Now, t) /\ IsSound(Now, made) /\ Covers(drive, entries)
      /\ Root \notin DOMAIN entries /\ Now.entries = entries
  BY <1>1, <1>2, TaskIsOK, ExactNow DEF Windowed, Sources
<1>4. CASE t.do = "walk"
  <2>1. Known(Now, SubSeq(Target(t), 1, t.n - 1)) /\ t.at = IdOf(Now, SubSeq(Target(t), 1, t.n - 1))
    BY <1>3, <1>4, KnownIsKey DEF ParentIsKnown, Placed
  <2> QED BY <1>1, <1>3, <1>4, <2>1, KnownExists DEF Accepted
<1>5. CASE t.do = "make"
  <2>1. Known(Now, Front(t.make)) /\ t.at = IdOf(Now, Front(t.make))
    BY <1>3, <1>5, KnownIsKey DEF ParentIsKnown, Placed
  <2> QED BY <1>1, <1>3, <1>5, <2>1, KnownExists DEF Accepted
<1>6. CASE t.do = "create"
  <2>1. Known(Now, Front(t.act.to)) /\ t.at = IdOf(Now, Front(t.act.to))
    BY <1>3, <1>6, KnownIsKey DEF ParentIsKnown, Placed
  <2> QED BY <1>1, <1>3, <1>6, <2>1, KnownExists DEF Accepted
<1>7. CASE t.do \in {"update", "delete"}
  <2>1. Known(Now, t.act.to) /\ t.at = IdOf(Now, t.act.to) /\ t.act.to # << >>
    BY <1>3, <1>7, PlainPaths DEF Placed, Safe
  <2> QED BY <1>1, <1>3, <1>7, <2>1, KnownExists DEF Accepted
<1>8. CASE t.do = "move"
  <2>1. t.goal = "newParent" /\ Moves(t.act)
    BY <1>3, <1>8 DEF Suits
  <2>2. /\ t.act.from \in DOMAIN byPath /\ t.source = byPath[t.act.from]
        /\ Known(Now, Front(t.act.from)) /\ t.old = IdOf(Now, Front(t.act.from))
    BY <1>3, <2>1 DEF Sourced, Now
  <2>3. t.act.from # << >> /\ t.act.to \in Seq(STRING) /\ Front(t.act.to) \in Seq(STRING)
    BY <1>3, <2>1, PlainPaths DEF Safe
  <2>4. Known(Now, t.act.from) /\ t.source = IdOf(Now, t.act.from)
    BY <2>2, <2>3 DEF Known, IdOf, Now
  <2>5. /\ t.source \in DOMAIN entries /\ entries[t.source].parent = t.old
    BY <1>3, <2>2, <2>3, <2>4, PlaceOfPath
  <2>6. t.source \in DOMAIN drive /\ drive[t.source].parent = t.old
    <3>1. t.source \in DOMAIN drive
      BY <1>3, <2>3, <2>4, KnownExists
    <3> QED BY <1>3, <2>5, <3>1 DEF Covers
  <2>7. Known(Now, Front(t.act.to)) /\ t.at = IdOf(Now, Front(t.act.to))
    BY <1>3, <1>8, KnownIsKey DEF ParentIsKnown, Placed
  <2>8. Exists(t.at)
    BY <1>3, <2>7, KnownExists
  <2>9. t.at \notin Under(drive, t.source)
    <3> SUFFICES ASSUME t.at \in Under(entries, t.source) PROVE FALSE
      BY <1>3, <2>6, CoversReached
    <3>1. /\ <<t.act.from, t.source>> \in Reached(entries, Root)
          /\ <<Front(t.act.to), t.at>> \in Reached(entries, Root)
      BY <1>3, <2>4, <2>7, KnownLeads DEF IsSound
    <3>2. IsPrefix(t.act.from, Front(t.act.to))
      BY <1>3, <3>1, UnderIsBelow
    <3>3. IsPath(t.act.to) /\ IsPath(Front(t.act.to)) /\ t.act.to # << >>
      BY <1>3, <2>3, PlainPaths DEF IsPath, Safe
    <3>4. IsPrefix(Front(t.act.to), t.act.to)
      BY <3>3, PrefixesOf, PrefixOfLonger
    <3> QED BY <1>3, <2>1, <3>2, <3>3, <3>4, PlainPaths DEF Safe
  <2> QED BY <1>1, <1>8, <2>6, <2>8, <2>9 DEF Accepted
<1> QED BY <1>2, <1>4, <1>5, <1>6, <1>7, <1>8

-----------------------------------------------------------------------------
(* What a move does to the paths *)

\* The object s goes from the path `from' to this name below the object a at the path `top'.
Relocates(es, ds, s, from, a, top, name) ==
  /\ Root \notin DOMAIN es /\ NoTwin(es) /\ s \in DOMAIN es
  /\ <<from, s>> \in Reached(es, Root) /\ <<top, a>> \in Reached(es, Root) /\ ~IsPrefix(from, top)
  /\ DOMAIN ds = DOMAIN es /\ ds[s].parent = a /\ ds[s].name = name
  /\ \A o \in DOMAIN es : o # s => ds[o].parent = es[o].parent /\ ds[o].name = es[o].name

\* This was at, or below, s, and is seen from `to' now.
Carried(es, s, to, p, o) == \E x : p = to \o x /\ <<x, o>> \in Reached(es, s)

\* An object that is not moved has the path it had, if it is not below the one that is; and
\* what is below this one is where it was, seen from there.
LEMMA AfterMove ==
  ASSUME NEW es, NEW ds, NEW s, NEW from, NEW a, NEW top, NEW name,
         Relocates(es, ds, s, from, a, top, name), NEW to, to = Append(top, name)
  PROVE  /\ \A p, o : <<p, o>> \in Reached(ds, Root) =>
              \/ <<p, o>> \in Reached(es, Root) /\ ~IsPrefix(from, p)
              \/ Carried(es, s, to, p, o)
         /\ \A p, o : <<p, o>> \in Reached(es, Root) /\ ~IsPrefix(from, p)
                        => <<p, o>> \in Reached(ds, Root)
         /\ \A x, o : <<x, o>> \in Reached(es, s) /\ Len(to) + Len(x) <= 3
                        => <<to \o x, o>> \in Reached(ds, Root)
<1> USE DEF Relocates
<1> DEFINE R == Reached(es, Root)
           D == Reached(es, s)
           N == Reached(ds, Root)
           Old(p, o) == <<p, o>> \in R /\ ~IsPrefix(from, p)
           New(p, o) == \E x : p = to \o x /\ <<x, o>> \in D
           P(n) == \A p, o : Len(p) = n /\ <<p, o>> \in N => Old(p, o) \/ New(p, o)
           Q(n) == \A x, o : Len(x) = n /\ <<x, o>> \in D /\ Len(to) + Len(x) <= 3
                               => <<to \o x, o>> \in N
<1>1. \A p, o : <<p, o>> \in R =>
              /\ IsPath(p) /\ Len(p) \in 0..3
              /\ \/ p = << >> /\ o = Root
                 \/ /\ p # << >> /\ Len(p) \in 1..3 /\ Len(Front(p)) = Len(p) - 1
                    /\ o \in DOMAIN es /\ <<Front(p), es[o].parent>> \in R
                    /\ p = Append(Front(p), es[o].name)
  BY ReachedSteps
<1>2. \A q, o : o \in DOMAIN es /\ <<q, es[o].parent>> \in R /\ Len(q) <= 2
                  => <<Append(q, es[o].name), o>> \in R
  BY ReachedSteps
<1>3. \A p, o : <<p, o>> \in D =>
              /\ IsPath(p) /\ Len(p) \in 0..3
              /\ \/ p = << >> /\ o = s
                 \/ /\ p # << >> /\ Len(p) \in 1..3 /\ Len(Front(p)) = Len(p) - 1
                    /\ o \in DOMAIN es /\ <<Front(p), es[o].parent>> \in D
                    /\ p = Append(Front(p), es[o].name)
  BY ReachedSteps
<1>4. \A q, o : o \in DOMAIN es /\ <<q, es[o].parent>> \in D /\ Len(q) <= 2
                  => <<Append(q, es[o].name), o>> \in D
  BY ReachedSteps
<1>5. \A p, o : <<p, o>> \in N =>
              /\ IsPath(p) /\ Len(p) \in 0..3
              /\ \/ p = << >> /\ o = Root
                 \/ /\ p # << >> /\ Len(p) \in 1..3 /\ Len(Front(p)) = Len(p) - 1
                    /\ o \in DOMAIN ds /\ <<Front(p), ds[o].parent>> \in N
                    /\ p = Append(Front(p), ds[o].name)
  BY ReachedSteps
<1>6. \A q, o : o \in DOMAIN ds /\ <<q, ds[o].parent>> \in N /\ Len(q) <= 2
                  => <<Append(q, ds[o].name), o>> \in N
  BY ReachedSteps
<1>7. /\ IsPath(from) /\ from # << >> /\ IsPath(top) /\ IsPath(to)
      /\ Len(top) \in Nat /\ Len(to) = Len(top) + 1
  <2>1. s # Root
    OBVIOUS
  <2> QED BY <1>1, <2>1, FrontOfLonger
<1>8. << << >>, s >> \in D /\ << << >>, Root >> \in R
  BY ReachedIsRooted
<1>9. a \notin Under(es, s)
  BY UnderIsBelow
<1>10. \A x, o : <<x, o>> \in D => o \in Under(es, s)
  <2> SUFFICES ASSUME NEW x, NEW o, <<x, o>> \in D PROVE o \in Under(es, s)
    OBVIOUS
  <2>1. PICK y : y = <<x, o>>
    OBVIOUS
  <2>2. y \in D /\ y[2] = o
    BY <2>1
  <2> QED BY <2>2 DEF Under
<1>11. ASSUME NEW p, NEW o, Old(p, o) PROVE <<p, o>> \in N
  <2>1. <<p, o>> \in Reached(Cut(es, s), Root)
    BY <1>11, SurvivesCut
  <2>2. ASSUME NEW q \in DOMAIN Cut(es, s)
        PROVE  /\ q \in DOMAIN ds /\ ds[q].parent = Cut(es, s)[q].parent
               /\ ds[q].name = Cut(es, s)[q].name
    <3>1. q \in DOMAIN es /\ q \notin Under(es, s) /\ Cut(es, s)[q] = es[q]
      BY DEF Cut, Restrict
    <3>2. q # s
      BY <1>8, <1>10, <3>1
    <3> QED BY <3>1, <3>2
  <2> QED BY <2>1, <2>2, ReachedGrows
<1>12. <<to, s>> \in N \/ Len(top) > 2
  <2>1. <<top, a>> \in N
    BY <1>11
  <2>2. Len(top) <= 2 => <<Append(top, ds[s].name), s>> \in N
    BY <1>6, <2>1
  <2> QED BY <1>7, <2>2
<1> HIDE DEF R, D, N
<1>13. ASSUME NEW x, NEW o, <<x, o>> \in D, x # << >>, IsPath(x) PROVE o # s
  <2> SUFFICES ASSUME o = s PROVE FALSE
    OBVIOUS
  <2>1. s \in DOMAIN es /\ <<Front(x), es[s].parent>> \in D
    BY <1>3, <1>13
  <2>2. <<Front(from), es[s].parent>> \in R
    <3>1. <<from, s>> \in R
      BY DEF R
    <3> QED BY <1>1, <1>7, <3>1
  <2>3. es[s].parent \in Under(es, s)
    BY <1>10, <2>1
  <2>4. IsPrefix(from, Front(from))
    BY <2>2, <2>3, UnderIsBelow DEF R
  <2>5. PICK S : from \in Seq(S)
    BY <1>7 DEF IsPath
  <2>6. Front(from) \in Seq(S) /\ Len(from) \in Nat \ {0} /\ Len(Front(from)) = Len(from) - 1
    BY <1>7, <2>5, FrontAndLast
  <2>7. Len(from) <= Len(Front(from))
    BY <2>4, <2>5, <2>6, PrefixIs
  <2> QED BY <2>6, <2>7
<1>14. ASSUME NEW p, NEW o, <<p, o>> \in N, p # << >>,
              Old(Front(p), ds[o].parent) \/ New(Front(p), ds[o].parent)
       PROVE  Old(p, o) \/ New(p, o)
  <2>1. /\ IsPath(p) /\ Len(p) \in 1..3 /\ Len(Front(p)) = Len(p) - 1 /\ o \in DOMAIN ds
        /\ p = Append(Front(p), ds[o].name) /\ IsPath(Front(p)) /\ Len(Front(p)) <= 2
    <3>1. /\ IsPath(p) /\ Len(p) \in 1..3 /\ Len(Front(p)) = Len(p) - 1 /\ o \in DOMAIN ds
          /\ p = Append(Front(p), ds[o].name) /\ <<Front(p), ds[o].parent>> \in N
      BY <1>5, <1>14
    <3>2. IsPath(Front(p))
      BY <1>5, <3>1
    <3>3. \A m \in 1..3 : m - 1 <= 2
      OBVIOUS
    <3>4. Len(Front(p)) <= 2
      <4> HIDE DEF Old, New
      <4> QED BY <3>1, <3>3
    <3> QED BY <3>1, <3>2, <3>4
  <2>2. PICK q : q = Front(p)
    OBVIOUS
  <2>3. CASE o = s
    <3>1. ds[o].parent = a /\ p = Append(q, name)
      BY <2>1, <2>2, <2>3
    <3>2. ~New(q, a)
      BY <1>9, <1>10
    <3>3. <<q, a>> \in R
      BY <1>14, <2>2, <3>1, <3>2
    <3>4. q = top
      BY <3>3, OnePathOfId DEF R
    <3>5. p = to \o << >>
      <4>1. p = to
        BY <3>1, <3>4
      <4> QED BY <1>7, <4>1, ConcatIs
    <3> QED BY <1>8, <2>3, <3>5
  <2>4. CASE o # s
    <3>1. /\ o \in DOMAIN es /\ ds[o].parent = es[o].parent /\ ds[o].name = es[o].name
          /\ p = Append(q, es[o].name)
      BY <2>1, <2>2, <2>4
    <3>2. CASE Old(q, es[o].parent)
      <4>1. <<p, o>> \in R
        BY <1>2, <2>1, <2>2, <3>1, <3>2
      <4>2. ~IsPrefix(from, p)
        <5> SUFFICES ASSUME IsPrefix(from, p) PROVE FALSE
          OBVIOUS
        <5>1. PICK e : p = Append(q, e)
          BY <3>1
        <5>2. IsPath(q)
          BY <2>1, <2>2
        <5>3. from = p
          BY <1>7, <3>2, <5>1, <5>2, PrefixesOf
        <5> QED BY <2>4, <4>1, <5>3, OneIdAtPath DEF R
      <4> QED BY <4>1, <4>2
    <3>3. CASE New(q, es[o].parent)
      <4>1. PICK x : q = to \o x /\ <<x, es[o].parent>> \in D
        BY <3>3
      <4>2. IsPath(x)
        BY <1>3, <4>1
      <4>3. Len(q) = Len(to) + Len(x) /\ Len(to) \in Nat /\ Len(x) \in Nat
        BY <1>7, <4>1, <4>2, ConcatIs
      <4>4. Len(x) <= 2
        <5>1. Len(q) <= 2
          BY <2>1, <2>2
        <5> QED BY <4>3, <5>1
      <4>5. <<Append(x, es[o].name), o>> \in D
        BY <1>4, <3>1, <4>1, <4>4
      <4>6. p = to \o Append(x, es[o].name)
        <5>1. \A e : to \o Append(x, e) = Append(to \o x, e)
          BY <1>7, <4>2, ConcatAppend
        <5> QED BY <3>1, <4>1, <5>1
      <4> QED BY <4>5, <4>6
    <3> QED BY <1>14, <2>2, <3>1, <3>2, <3>3
  <2> QED BY <2>3, <2>4
<1>15. P(0)
  <2> SUFFICES ASSUME NEW p, NEW o, Len(p) = 0, <<p, o>> \in N PROVE Old(p, o)
    OBVIOUS
  <2>1. Len(p) \notin 1..3
    OBVIOUS
  <2>2. p = << >> /\ o = Root
    BY <1>5, <2>1
  <2>3. ~IsPrefix(from, << >>)
    <3> SUFFICES ASSUME IsPrefix(from, << >>) PROVE FALSE
      OBVIOUS
    <3>1. IsPath(<< >>) /\ IsPrefix(<< >>, from)
      BY <1>1, <1>7, <1>8, PrefixOfLonger
    <3> QED BY <1>7, <3>1, PrefixesOf
  <2> QED BY <1>8, <2>2, <2>3
<1>16. ASSUME NEW n \in 0..2, P(n) PROVE P(n + 1)
  <2> SUFFICES ASSUME NEW p, NEW o, Len(p) = n + 1, <<p, o>> \in N PROVE Old(p, o) \/ New(p, o)
    OBVIOUS
  <2>1. Len(p) # 0
    OBVIOUS
  <2>2. p # << >>
    BY <2>1
  <2>3. Len(Front(p)) = n /\ <<Front(p), ds[o].parent>> \in N
    <3>1. Len(Front(p)) = Len(p) - 1 /\ <<Front(p), ds[o].parent>> \in N
      BY <1>5, <2>2
    <3> QED BY <3>1
  <2>4. Old(Front(p), ds[o].parent) \/ New(Front(p), ds[o].parent)
    BY <1>16, <2>3
  <2> QED BY <1>14, <2>2, <2>4
<1>17. P(1) /\ P(2) /\ P(3)
  <2> HIDE DEF P
  <2>1. P(0 + 1)
    BY <1>15, <1>16
  <2>2. P(1 + 1)
    BY <1>16, <2>1
  <2>3. P(2 + 1)
    BY <1>16, <2>2
  <2> QED BY <2>1, <2>2, <2>3
<1>18. ASSUME NEW x, NEW o, <<x, o>> \in D, Len(to) + Len(x) <= 3,
              x # << >> => <<to \o Front(x), es[o].parent>> \in N
       PROVE  <<to \o x, o>> \in N
  <2>1. IsPath(x) /\ Len(x) \in 0..3
    BY <1>3, <1>18
  <2>2. CASE x = << >>
    <3>1. o = s
      <4>1. Len(<< >>) \notin 1..3
        OBVIOUS
      <4> QED BY <1>3, <1>18, <2>2, <4>1
    <3>2. to \o x = to /\ Len(x) = 0
      BY <1>7, <2>2, ConcatIs
    <3>3. Len(top) <= 2
      BY <1>7, <1>18, <3>2
    <3> QED BY <1>7, <1>12, <3>1, <3>2, <3>3
  <2>3. CASE x # << >>
    <3>1. /\ Len(x) \in 1..3 /\ Len(Front(x)) = Len(x) - 1 /\ o \in DOMAIN es
          /\ <<Front(x), es[o].parent>> \in D /\ x = Append(Front(x), es[o].name)
      BY <1>3, <1>18, <2>3
    <3>2. IsPath(Front(x))
      BY <1>3, <3>1
    <3>3. o # s
      BY <1>13, <1>18, <2>1, <2>3
    <3>4. /\ to \o x = Append(to \o Front(x), es[o].name)
          /\ Len(to \o Front(x)) = Len(to) + Len(Front(x))
      <4>1. PICK y, e : y = Front(x) /\ e = es[o].name /\ x = Append(y, e)
        BY <3>1
      <4>2. IsPath(y)
        BY <3>2, <4>1
      <4>3. to \o Append(y, e) = Append(to \o y, e)
        BY <1>7, <4>2, ConcatAppend
      <4>4. Len(to \o y) = Len(to) + Len(y)
        BY <1>7, <4>2, ConcatIs
      <4> QED BY <4>1, <4>3, <4>4
    <3>5. Len(to \o Front(x)) <= 2
      <4>1. Len(to) \in Nat
        BY <1>7
      <4> QED BY <1>18, <3>1, <3>4, <4>1
    <3>6. ds[o].parent = es[o].parent /\ ds[o].name = es[o].name /\ o \in DOMAIN ds
      BY <3>1, <3>3
    <3>7. <<to \o Front(x), ds[o].parent>> \in N
      BY <1>18, <2>3, <3>6
    <3>8. <<Append(to \o Front(x), ds[o].name), o>> \in N
      BY <1>6, <3>5, <3>6, <3>7
    <3> QED BY <3>4, <3>6, <3>8
  <2> QED BY <2>2, <2>3
<1>19. Q(0)
  <2> SUFFICES ASSUME NEW x, NEW o, Len(x) = 0, <<x, o>> \in D, Len(to) + Len(x) <= 3
               PROVE  <<to \o x, o>> \in N
    OBVIOUS
  <2>1. Len(x) \notin 1..3
    OBVIOUS
  <2>2. x = << >>
    BY <1>3, <2>1
  <2> QED BY <1>18, <2>2
<1>20. ASSUME NEW n \in 0..2, Q(n) PROVE Q(n + 1)
  <2> SUFFICES ASSUME NEW x, NEW o, Len(x) = n + 1, <<x, o>> \in D, Len(to) + Len(x) <= 3
               PROVE  <<to \o x, o>> \in N
    OBVIOUS
  <2>1. Len(x) # 0
    OBVIOUS
  <2>2. x # << >>
    BY <2>1
  <2>3. Len(Front(x)) = Len(x) - 1 /\ <<Front(x), es[o].parent>> \in D
    BY <1>3, <2>2
  <2>4. Len(Front(x)) = n /\ Len(to) + Len(Front(x)) <= 3
    <3>1. Len(to) \in Nat
      BY <1>7
    <3>2. PICK m \in Nat : m = Len(to)
      BY <3>1
    <3>3. m + (n + 1) <= 3
      BY <3>2
    <3>4. m + n <= 3
      BY <3>3
    <3>5. Len(Front(x)) = n
      BY <2>3
    <3> QED BY <3>2, <3>4, <3>5
  <2>5. <<to \o Front(x), es[o].parent>> \in N
    BY <1>20, <2>3, <2>4
  <2> QED BY <1>18, <2>5
<1>21. Q(1) /\ Q(2) /\ Q(3)
  <2> HIDE DEF Q
  <2>1. Q(0 + 1)
    BY <1>19, <1>20
  <2>2. Q(1 + 1)
    BY <1>20, <2>1
  <2>3. Q(2 + 1)
    BY <1>20, <2>2
  <2> QED BY <2>1, <2>2, <2>3
<1>22. ASSUME NEW p, NEW o, <<p, o>> \in N PROVE Old(p, o) \/ New(p, o)
  <2>1. Len(p) = 0 \/ Len(p) = 1 \/ Len(p) = 2 \/ Len(p) = 3
    <3>1. Len(p) \in 0..3
      BY <1>5, <1>22
    <3> QED BY <3>1
  <2> HIDE DEF Old, New
  <2> QED BY <1>15, <1>17, <1>22, <2>1
<1>23. ASSUME NEW x, NEW o, <<x, o>> \in D, Len(to) + Len(x) <= 3 PROVE <<to \o x, o>> \in N
  <2>1. Len(x) = 0 \/ Len(x) = 1 \/ Len(x) = 2 \/ Len(x) = 3
    <3>1. Len(x) \in 0..3
      BY <1>3, <1>23
    <3> QED BY <3>1
  <2> QED BY <1>19, <1>21, <1>23, <2>1
<1> QED BY <1>11, <1>22, <1>23 DEF R, D, N, Carried


-----------------------------------------------------------------------------
(* What is moved stays what it is, and what is uploaded stays unknown *)

Sane == Safe /\ Settled /\ Exact /\ Windowed /\ Sources

\* What is known of a task that runs.
LEMMA AtHand ==
  ASSUME PlainWindows, Sane, NEW i \in DOMAIN tasks, NEW t, t = tasks[i]
  PROVE  /\ IsTask(t) /\ ParentIsKnown(Keys(Now), t) /\ Placed(drive, Now, t) /\ HasFile(t)
         /\ Suits(t) /\ MakesFor(Local, t) /\ t.act \in Acts /\ Sourced(Now, t)
         /\ Len(t.make) <= 3 /\ IsSound(Now, made) /\ Now.entries = entries
         /\ Root \notin DOMAIN entries /\ (t.do # "forget" => Covers(drive, entries))
         /\ (Moves(t.act) => t.act.from # << >>) /\ Now.byPath = byPath
<1>1. Safe /\ Settled /\ Exact /\ Windowed /\ Sources
  BY DEF Sane
<1>2. IsTask(t) /\ ParentIsKnown(Keys(Now), t)
  BY <1>1, TaskIsOK
<1>3. /\ Placed(drive, Now, t) /\ HasFile(t) /\ Len(t.make) <= 3 /\ IsSound(Now, made)
      /\ Now.entries = entries /\ Root \notin DOMAIN entries
      /\ (t.do # "forget" => Covers(drive, entries))
  BY <1>1, ExactNow
<1>4. Suits(t) /\ MakesFor(Local, t) /\ t.act \in Acts /\ Sourced(Now, t)
  BY <1>1 DEF Windowed, Sources
<1>5. Moves(t.act) => t.act.from # << >>
  BY <1>1, <1>4, PlainPaths DEF Safe
<1>6. Now.byPath = byPath
  BY DEF Now
<1> QED BY <1>2, <1>3, <1>4, <1>5, <1>6

\* Where a task is created on the way is not where its action moves something from.
LEMMA OnTheWay ==
  ASSUME PlainWindows, TypeOK, NEW act \in Acts, Moves(act), NEW p, p \in WayTo(act.to)
  PROVE  p # act.from
<1>1. act.to \in Seq(STRING) /\ act.from \in Seq(STRING)
  BY PlainPaths
<1>2. IsPath(act.to) /\ IsPath(act.from)
  BY <1>1 DEF IsPath
<1>3. IsPath(p) /\ IsPrefix(p, act.to)
  <2>1. CASE p = act.to
    BY <1>2, <2>1, PrefixOfLonger
  <2>2. CASE p # act.to
    <3>1. PICK n \in 1..Len(act.to) - 1 : p = SubSeq(act.to, 1, n)
      BY <2>2 DEF WayTo, Ancestors
    <3>2. PICK m \in Nat : m = Len(act.to)
      BY <1>1
    <3>3. n \in 1..m /\ n <= m /\ n \in Nat
      BY <3>2
    <3>4. p \in Seq(STRING) /\ Len(p) = n
      BY <1>1, <3>1, <3>2, <3>3
    <3>5. SubSeq(act.to, 1, Len(p)) = p /\ Len(p) <= Len(act.to)
      BY <3>1, <3>2, <3>3, <3>4
    <3> QED BY <3>4, <3>5 DEF IsPath, IsPrefix
  <2> QED BY <2>1, <2>2
<1>4. IsPrefix(act.from, act.from)
  BY <1>2, PrefixOfLonger
<1> QED BY <1>3, <1>4, PlainPaths

\* The task when the index is what it becomes.
LEMMA SourcesGoes ==
  ASSUME Safe, NEW i \in DOMAIN tasks, NEW r, Goes(i, r), r.do = "end" \/ Sourced(Now', r)
  PROVE  Sources'
<1>1. \A j \in DOMAIN tasks : j = i
  BY DEF Safe, Alone
<1>2. CASE r.do = "end"
  <2>1. DOMAIN tasks' = {}
    BY <1>1, <1>2 DEF Goes, Restrict
  <2> QED BY <2>1 DEF Sources
<1>3. CASE r.do # "end"
  <2>1. tasks' = [tasks EXCEPT ![i] = r]
    BY <1>3 DEF Goes
  <2>2. \A j \in DOMAIN tasks' : tasks'[j] = r
    BY <1>1, <2>1
  <2>3. \A j \in DOMAIN tasks' : Sourced(Now', tasks'[j])
    BY <1>3, <2>2
  <2> QED BY <2>3 DEF Sources
<1> QED BY <1>2, <1>3

LEMMA SourcesIndexed ==
  ASSUME Safe, ~panicked', NEW i \in DOMAIN tasks, NEW r, NEW xs, Indexed(i, xs, r),
         \A x \in xs : x = [entries |-> x.entries, byPath |-> x.byPath],
         \A x \in xs : r.do = "end" \/ Sourced(x, r)
  PROVE  Sources'
<1>1. PICK x \in xs : Becomes(x) /\ Goes(i, r)
  BY DEF Indexed
<1>2. Now' = [entries |-> x.entries, byPath |-> x.byPath]
  BY <1>1 DEF Becomes, Now
<1>3. Now' = x
  BY <1>2
<1> QED BY <1>1, <1>3, SourcesGoes


-----------------------------------------------------------------------------
(* Steps of a task on plain windows *)

Writes(act) == act.kind \in {"Upload", "MoveAndUpload"}

\* This is on Drive, at this path, with this content.
HasAt(ds, p, c) == \E o : <<p, o>> \in Reached(ds, Root) /\ p # << >> /\ ds[o].content = c

\* A task goes on with its action, and does not end before it has uploaded.
GoesOn(i) ==
  \E r : /\ Goes(i, r) /\ r.act = tasks[i].act
         /\ r.do = "end" /\ Writes(r.act) => HasAt(drive', r.act.to, Local[r.act.to])

\* A task that is to upload does not end when it has found its path.
LEMMA FoundGoesOn ==
  ASSUME NEW t, IsTask(t), Suits(t), NEW id, Writes(t.act), IsFile(t.act.to)
  PROVE  Found(t, id).do # "end"
<1>1. PICK s : s = [t EXCEPT !.at = id]
  OBVIOUS
<1>2. IsTask(s) /\ s.act = t.act /\ s.make = t.make
  BY <1>1 DEF IsTask
<1>3. \A d : [s EXCEPT !.do = d].do = d
  BY <1>2, DoIs
<1>4. t.goal \in Goals /\ t.goal # "folder"
  BY TaskPaths DEF Suits, Writes
<1>5. CASE t.make # << >>
  BY <1>1, <1>3, <1>5 DEF Found
<1>6. CASE t.make = << >>
  <2>1. CASE t.goal = "source" /\ Deletes(t.act)
    BY <1>1, <1>3, <1>6, <2>1 DEF Found
  <2>2. CASE t.goal = "source" /\ ~Deletes(t.act)
    <3>1. PICK q : q = [s EXCEPT !.source = id]
      OBVIOUS
    <3>2. Found(t, id) = Resolve(q, "oldParent") /\ IsTask(q)
      BY <1>1, <1>2, <1>6, <2>2, <3>1 DEF Found, IsTask
    <3> QED BY <3>2, ResolveIs
  <2>3. CASE t.goal = "oldParent"
    <3>1. PICK q : q = [s EXCEPT !.old = id]
      OBVIOUS
    <3>2. Found(t, id) = Resolve(q, "newParent") /\ IsTask(q)
      BY <1>1, <1>2, <1>6, <2>3, <3>1 DEF Found, IsTask
    <3> QED BY <3>2, ResolveIs
  <2>4. CASE t.goal = "newParent"
    BY <1>1, <1>3, <1>6, <2>4 DEF Found
  <2>5. CASE t.goal \in {"file", "fileParent"}
    <3>1. Found(t, id) = Read(s, "update") \/ Found(t, id) = Read(s, "create")
      BY <1>1, <1>6, <2>5 DEF Found
    <3> QED BY <1>2, <1>3, <3>1 DEF Read
  <2> QED BY <1>4, <2>1, <2>2, <2>3, <2>4, <2>5 DEF Goals
<1> QED BY <1>5, <1>6

LEMMA WritesFile ==
  ASSUME PlainWindows, TypeOK, NEW act \in Acts, Writes(act)
  PROVE  IsFile(act.to)
BY PlainAct DEF Writes, Deletes, IsFile

\* A path is looked up, or the walk passes by a name.
LEMMA LookGoes ==
  ASSUME PlainWindows, Sane, NEW i \in DOMAIN tasks, Look(i) \/ PassBy(i)
  PROVE  Sources' /\ GoesOn(i) /\ UNCHANGED <<drive, scenario, window>>
<1>1. PICK t : t = tasks[i]
  OBVIOUS
<1>2. IsTask(t) /\ Suits(t) /\ MakesFor(Local, t) /\ t.act \in Acts /\ Sourced(Now, t)
      /\ (Moves(t.act) => t.act.from # << >>)
  BY <1>1, AtHand
<1>3. Safe /\ TypeOK /\ Now' = Now /\ UNCHANGED <<drive, scenario, window>>
  BY DEF Look, PassBy, remote, index, Now, Sane, Safe
<1>4. ASSUME NEW r, Goes(i, r), r.act = t.act, r.goal = t.goal, r.source = t.source,
             r.old = t.old, r.do = "walk"
      PROVE  Sources' /\ GoesOn(i)
  <2>1. Sourced(Now', r)
    BY <1>2, <1>3, <1>4 DEF Sourced
  <2> QED BY <1>1, <1>3, <1>4, <2>1, SourcesGoes DEF GoesOn
<1>5. CASE Look(i) /\ Known(Now, Target(t))
  <2>1. PICK r : r = Found(t, IdOf(Now, Target(t)))
    OBVIOUS
  <2>2. Goes(i, r) /\ t.do = "look"
    BY <1>1, <1>5, <2>1 DEF Look
  <2>3. r.do = "end" \/ Sourced(Now, r)
    BY <1>2, <1>5, <2>1, FoundSourced
  <2>4. r.act = t.act
    BY <1>2, <2>1, <2>2, FoundSuits DEF Follows
  <2>5. r.do = "end" => ~Writes(r.act)
    BY <1>2, <1>3, <2>1, <2>4, FoundGoesOn, WritesFile
  <2> QED BY <1>1, <1>3, <2>2, <2>3, <2>4, <2>5, SourcesGoes DEF GoesOn
<1>6. CASE Look(i) /\ ~Known(Now, Target(t))
  <2>1. PICK r : r = [t EXCEPT !.do = "walk", !.n = 1, !.at = Root]
    OBVIOUS
  <2>2. Goes(i, r)
    BY <1>1, <1>6, <2>1 DEF Look
  <2>3. r.act = t.act /\ r.goal = t.goal /\ r.source = t.source /\ r.old = t.old /\ r.do = "walk"
    BY <1>2, <2>1 DEF IsTask
  <2> QED BY <1>3, <1>4, <2>2, <2>3
<1>7. CASE PassBy(i)
  <2>1. PICK r : r = [t EXCEPT !.at = IdOf(Now, SubSeq(Target(t), 1, t.n)), !.n = @ + 1]
    OBVIOUS
  <2>2. Goes(i, r) /\ t.do = "walk"
    BY <1>1, <1>7, <2>1 DEF PassBy, PassesBy
  <2>3. r.act = t.act /\ r.goal = t.goal /\ r.source = t.source /\ r.old = t.old /\ r.do = "walk"
    BY <1>2, <2>1, <2>2 DEF IsTask
  <2> QED BY <1>3, <1>4, <2>2, <2>3
<1> QED BY <1>3, <1>5, <1>6, <1>7

\* A walk finds nothing.
LEMMA FindGoes ==
  ASSUME PlainWindows, Sane, NEW i \in DOMAIN tasks, Find(i)
  PROVE  Sources' /\ GoesOn(i) /\ UNCHANGED <<drive, scenario, window, index>>
<1>1. PICK t : t = tasks[i]
  OBVIOUS
<1>2. IsTask(t) /\ ParentIsKnown(Keys(Now), t) /\ Suits(t)
  BY <1>1, AtHand
<1>3. t.do = "walk" /\ ~PassesBy(t) /\ UNCHANGED <<drive, scenario, window>>
  BY <1>1 DEF Find, remote
<1>4. PICK path : path = SubSeq(Target(t), 1, t.n)
  OBVIOUS
<1>5. Hits(t, Last(path)) = {}
  BY <1>1, <1>3, <1>4, NoHit DEF Sane
<1>6. Goes(i, Missing(t, path)) /\ UNCHANGED index
  BY <1>1, <1>4, <1>5 DEF Find
<1>7. Now' = Now /\ Safe
  BY <1>6 DEF index, Now, Sane
<1>8. Missing(t, path).do # "end" /\ Sourced(Now, Missing(t, path))
  BY <1>1, <1>3, <1>4, MissingGoesOn DEF Sane
<1>9. Missing(t, path).act = t.act
  BY <1>2, <1>3, <1>4, MissingSuits DEF Follows
<1> QED BY <1>1, <1>3, <1>6, <1>7, <1>8, <1>9, SourcesGoes DEF GoesOn


\* Where what is moved is, and where it goes.
LEMMA MovePlaces ==
  ASSUME PlainWindows, Sane, NEW i \in DOMAIN tasks, NEW t, t = tasks[i], t.do = "move",
         NEW from, from = t.act.from, NEW to, to = t.act.to
  PROVE  /\ Moves(t.act) /\ t.goal = "newParent" /\ IsPath(from) /\ IsPath(to)
         /\ to = Append(Front(to), Last(to)) /\ Len(to) <= 3 /\ from # << >>
         /\ Known(Now, from) /\ t.source = IdOf(Now, from) /\ t.source \in DOMAIN entries
         /\ Known(Now, Front(to)) /\ t.at = IdOf(Now, Front(to))
         /\ <<from, t.source>> \in Reached(entries, Root)
         /\ <<Front(to), t.at>> \in Reached(entries, Root)
         /\ ~IsPrefix(from, Front(to)) /\ ~IsPrefix(from, to)
<1>1. /\ IsTask(t) /\ ParentIsKnown(Keys(Now), t) /\ Placed(drive, Now, t) /\ Suits(t)
      /\ t.act \in Acts /\ Sourced(Now, t) /\ IsSound(Now, made) /\ Now.entries = entries
      /\ (Moves(t.act) => t.act.from # << >>) /\ Now.byPath = byPath /\ TypeOK
  BY AtHand DEF Sane, Safe
<1>2. t.goal = "newParent" /\ Moves(t.act)
  BY <1>1 DEF Suits
<1>3. from # << >> /\ from \in Seq(STRING) /\ to \in Seq(STRING) /\ to # << >> /\ Len(to) <= 3
      /\ Front(to) \in Seq(STRING)
  BY <1>1, <1>2, PlainPaths
<1>4. from \in DOMAIN byPath /\ t.source = byPath[from]
      /\ Known(Now, Front(from)) /\ t.old = IdOf(Now, Front(from))
  BY <1>1, <1>2 DEF Sourced
<1>5. Known(Now, from) /\ t.source = IdOf(Now, from)
  BY <1>1, <1>3, <1>4 DEF Known, IdOf
<1>6. t.source \in DOMAIN entries
  BY <1>1, <1>3, <1>4, <1>5, PlaceOfPath
<1>7. Known(Now, Front(to)) /\ t.at = IdOf(Now, Front(to))
  BY <1>1, KnownIsKey DEF ParentIsKnown, Placed
<1>8. /\ <<from, t.source>> \in Reached(entries, Root)
      /\ <<Front(to), t.at>> \in Reached(entries, Root)
  BY <1>1, <1>5, <1>7, KnownLeads DEF IsSound
<1>9. to = Append(Front(to), Last(to))
  BY <1>3, FrontAndLast
<1>10. IsPath(from) /\ IsPath(to) /\ IsPath(Front(to))
  BY <1>3 DEF IsPath
<1>11. IsPrefix(Front(to), to) /\ IsPrefix(to, to)
  BY <1>3, <1>10, PrefixesOf, PrefixOfLonger
<1>12. ~IsPrefix(from, Front(to)) /\ ~IsPrefix(from, to)
  BY <1>1, <1>2, <1>10, <1>11, PlainPaths
<1> QED BY <1>2, <1>3, <1>5, <1>6, <1>7, <1>8, <1>9, <1>10, <1>12

-----------------------------------------------------------------------------
(* What is at a path on Drive stays there *)

LEMMA OnDriveIs ==
  ASSUME NEW p, NEW c
  PROVE  <<p, c>> \in OnDrive <=> HasAt(drive, p, c)
<1>0. PICK ds : ds = drive
  OBVIOUS
<1>1. ASSUME <<p, c>> \in OnDrive PROVE HasAt(ds, p, c)
  <2>1. PICK x \in Reached(ds, Root) : /\ x # << << >>, Root >> /\ p = x[1]
                                       /\ c = ds[x[2]].content
    BY <1>0, <1>1 DEF OnDrive
  <2>2. x = <<x[1], x[2]>>
    BY ReachedSteps
  <2>3. PICK o : o = x[2]
    OBVIOUS
  <2>4. <<p, o>> \in Reached(ds, Root) /\ <<p, o>> # << << >>, Root >>
    BY <2>1, <2>2, <2>3
  <2>5. p # << >>
    BY <2>4, ReachedSteps
  <2> QED BY <2>1, <2>3, <2>4, <2>5 DEF HasAt
<1>2. ASSUME NEW o, <<p, o>> \in Reached(ds, Root), p # << >>, ds[o].content = c
      PROVE  <<p, c>> \in OnDrive
  <2>1. PICK x : x = <<p, o>>
    OBVIOUS
  <2>2. x \in Reached(ds, Root) /\ x # << << >>, Root >> /\ x[1] = p /\ x[2] = o
    BY <1>2, <2>1
  <2> QED BY <1>0, <1>2, <2>2 DEF OnDrive
<1> QED BY <1>0, <1>1, <1>2 DEF HasAt

\* Something is created.
LEMMA NewKeeps ==
  ASSUME NEW ds, NEW id, id \notin DOMAIN ds, NEW e, NEW p, NEW c, HasAt(ds, p, c)
  PROVE  HasAt(With(ds, id, e), p, c)
<1>1. PICK o : <<p, o>> \in Reached(ds, Root) /\ p # << >> /\ ds[o].content = c
  BY DEF HasAt
<1>2. PICK es : es = With(ds, id, e)
  OBVIOUS
<1>3. \A q \in DOMAIN ds : q \in DOMAIN es /\ es[q] = ds[q]
  BY <1>2 DEF With
<1>4. <<p, o>> \in Reached(es, Root)
  BY <1>1, <1>3, ReachedGrows
<1>5. o \in DOMAIN ds
  BY <1>1, ReachedSteps
<1> QED BY <1>1, <1>2, <1>3, <1>4, <1>5 DEF HasAt

Rewritten(ds, a, content) == [ds EXCEPT ![a] = Object(ds[a].parent, ds[a].name, content)]

\* A file gets the content it has in the folder.
LEMMA UpdatedKeeps ==
  ASSUME NEW ds, Root \notin DOMAIN ds, NEW to, NEW a, <<to, a>> \in Reached(ds, Root),
         to # << >>, NEW content, NEW es, es = Rewritten(ds, a, content)
  PROVE  /\ HasAt(es, to, content)
         /\ \A p, c : HasAt(ds, p, c) /\ (p = to => c = content) => HasAt(es, p, c)
<1>1. a \in DOMAIN ds
  BY ReachedSteps
<1>2. PICK e : e = Object(ds[a].parent, ds[a].name, content)
  OBVIOUS
<1>3. e.parent = ds[a].parent /\ e.name = ds[a].name /\ e.content = content
  BY <1>2 DEF Object
<1>4. es[a] = e /\ DOMAIN es = DOMAIN ds /\ \A o \in DOMAIN ds : o # a => es[o] = ds[o]
  BY <1>1, <1>2 DEF Rewritten
<1>5. \A o \in DOMAIN ds : /\ o \in DOMAIN es /\ es[o].parent = ds[o].parent
                           /\ es[o].name = ds[o].name
  BY <1>3, <1>4
<1>6. \A p, o : <<p, o>> \in Reached(ds, Root) => <<p, o>> \in Reached(es, Root)
  <2>1. PICK fs : fs = es
    OBVIOUS
  <2>2. \A o \in DOMAIN ds : /\ o \in DOMAIN fs /\ fs[o].parent = ds[o].parent
                             /\ fs[o].name = ds[o].name
    BY <1>5, <2>1
  <2>3. ASSUME NEW p, NEW o, <<p, o>> \in Reached(ds, Root) PROVE <<p, o>> \in Reached(fs, Root)
    BY <2>2, <2>3, ReachedGrows
  <2> QED BY <2>1, <2>3
<1>7. HasAt(es, to, content)
  <2>1. <<to, a>> \in Reached(es, Root) /\ es[a].content = content
    BY <1>3, <1>4, <1>6
  <2> QED BY <2>1 DEF HasAt
<1>8. ASSUME NEW p, NEW c, HasAt(ds, p, c), p = to => c = content
      PROVE  HasAt(es, p, c)
  <2>1. PICK o : <<p, o>> \in Reached(ds, Root) /\ p # << >> /\ ds[o].content = c
    BY <1>8 DEF HasAt
  <2>2. CASE o = a
    <3>1. p = to
      BY <2>1, <2>2, OnePathOfId
    <3> QED BY <1>7, <1>8, <3>1
  <2>3. CASE o # a
    <3>1. o \in DOMAIN ds
      BY <2>1, ReachedSteps
    <3>2. es[o].content = c
      BY <1>4, <2>1, <2>3, <3>1
    <3> QED BY <1>6, <2>1, <3>2 DEF HasAt
  <2> QED BY <2>2, <2>3
<1> QED BY <1>7, <1>8

\* Something else is deleted.
LEMMA DeletedKeeps ==
  ASSUME NEW ds, Root \notin DOMAIN ds, NEW to, NEW a, <<to, a>> \in Reached(ds, Root),
         NEW p, NEW c, HasAt(ds, p, c), ~IsPrefix(to, p)
  PROVE  HasAt(Cut(ds, a), p, c)
<1>1. PICK o : <<p, o>> \in Reached(ds, Root) /\ p # << >> /\ ds[o].content = c
  BY DEF HasAt
<1>2. <<p, o>> \in Reached(Cut(ds, a), Root)
  BY <1>1, SurvivesCut
<1>3. o \in DOMAIN Cut(ds, a)
  BY <1>1, <1>2, ReachedSteps
<1>4. Cut(ds, a)[o] = ds[o]
  BY <1>3 DEF Cut, Restrict
<1> QED BY <1>1, <1>2, <1>4 DEF HasAt


\* What the folder has at a path stays on Drive.
Keeps == \A p \in DOMAIN Local : HasAt(drive, p, Local[p]) => HasAt(drive', p, Local[p])

\* What is moved was never at a path that the folder has.
LEMMA MoveKeeps ==
  ASSUME PlainWindows, Sane, NEW i \in DOMAIN tasks, tasks[i].do = "move",
         drive' = MovedOnDrive(tasks[i])
  PROVE  Keeps
<1>1. PICK t, from, to, top, name, s, a :
        /\ t = tasks[i] /\ from = t.act.from /\ to = t.act.to /\ top = Front(to)
        /\ name = Last(to) /\ s = t.source /\ a = t.at
  OBVIOUS
<1>2. /\ Moves(t.act) /\ to = Append(top, name) /\ s \in DOMAIN entries
      /\ <<from, s>> \in Reached(entries, Root) /\ <<top, a>> \in Reached(entries, Root)
      /\ ~IsPrefix(from, top)
  BY <1>1, MovePlaces
<1>3. /\ Covers(drive, entries) /\ Root \notin DOMAIN entries /\ IsSound(Now, made)
      /\ Now.entries = entries /\ t.act \in Acts /\ TypeOK
  BY <1>1, AtHand DEF Sane, Safe
<1>4. NoTwin(drive) /\ Root \notin DOMAIN drive /\ s \in DOMAIN drive
  <2>1. s \in DOMAIN drive
    BY <1>2, <1>3, CoversPlace
  <2> QED BY <1>3, <2>1 DEF IsSound, NoTwin, Covers
<1>5. <<from, s>> \in Reached(drive, Root) /\ <<top, a>> \in Reached(drive, Root)
  BY <1>2, <1>3, CoversReached
<1>6. PICK e : e = Object(a, name, drive[s].content)
  OBVIOUS
<1>7. e.parent = a /\ e.name = name /\ e.content = drive[s].content
  BY <1>6 DEF Object
<1>8. PICK ds : ds = [drive EXCEPT ![s] = e]
  OBVIOUS
<1>9. drive' = ds
  BY <1>1, <1>6, <1>8 DEF MovedOnDrive
<1>10. /\ DOMAIN ds = DOMAIN drive /\ ds[s] = e
       /\ \A o \in DOMAIN drive : o # s => ds[o] = drive[o]
  BY <1>4, <1>8
<1>11. /\ ds[s].parent = a /\ ds[s].name = name
       /\ \A o \in DOMAIN drive : o # s => ds[o].parent = drive[o].parent /\ ds[o].name = drive[o].name
  BY <1>7, <1>10
<1>12. \A p, o : <<p, o>> \in Reached(drive, Root) /\ ~IsPrefix(from, p)
                   => <<p, o>> \in Reached(ds, Root)
  <2>1. Relocates(drive, ds, s, from, a, top, name)
    BY <1>2, <1>4, <1>5, <1>10, <1>11 DEF Relocates
  <2> QED BY <1>2, <2>1, AfterMove
<1>13. ASSUME NEW p \in DOMAIN Local, HasAt(drive, p, Local[p]) PROVE HasAt(ds, p, Local[p])
  <2>1. PICK o : <<p, o>> \in Reached(drive, Root) /\ p # << >> /\ drive[o].content = Local[p]
    BY <1>13 DEF HasAt
  <2>2. ~IsPrefix(from, p)
    BY <1>1, <1>2, <1>3, PlainAct DEF Moves
  <2>3. <<p, o>> \in Reached(ds, Root) /\ o \in DOMAIN drive
    BY <1>12, <2>1, <2>2, ReachedSteps
  <2>4. ds[o].content = drive[o].content
    BY <1>7, <1>10, <2>3
  <2> QED BY <2>1, <2>3, <2>4 DEF HasAt
<1> QED BY <1>9, <1>13 DEF Keeps

\* After a move that finds its name free nothing is where it was moved from.
LEMMA MoveLeaves ==
  ASSUME PlainWindows, Sane, NEW i \in DOMAIN tasks, tasks[i].do = "move", ~IsTaken(tasks[i]),
         NEW x \in PutAndReload(Now, tasks[i].act.to, tasks[i].source)
  PROVE  ~Known(x, tasks[i].act.from)
<1>1. PICK t, from, to, top, name, s, a :
        /\ t = tasks[i] /\ from = t.act.from /\ to = t.act.to /\ top = Front(to)
        /\ name = Last(to) /\ s = t.source /\ a = t.at
  OBVIOUS
<1>2. /\ to = Append(top, name) /\ s \in DOMAIN entries /\ IsPath(from) /\ IsPath(to)
      /\ <<from, s>> \in Reached(entries, Root) /\ <<top, a>> \in Reached(entries, Root)
      /\ ~IsPrefix(from, top) /\ ~IsPrefix(from, to) /\ from # << >> /\ Known(Now, from)
      /\ Known(Now, top) /\ a = IdOf(Now, top)
  BY <1>1, MovePlaces
<1>3. /\ Covers(drive, entries) /\ Root \notin DOMAIN entries /\ IsSound(Now, made)
      /\ Now.entries = entries /\ NoTwin(entries)
  BY <1>1, AtHand DEF IsSound
<1>4. PICK y \in Put(Now, to, s) : x \in Reloaded(y.entries)
  BY <1>1 DEF PutAndReload
<1>5. PICK ds : ds = y.entries
  OBVIOUS
<1>6. /\ DOMAIN ds = DOMAIN entries \union {s} /\ ds[s].parent = a /\ ds[s].name = name
      /\ \A o \in DOMAIN entries : o # s => ds[o] = entries[o]
  BY <1>1, <1>2, <1>3, <1>4, <1>5, PutIs
<1>7. /\ DOMAIN ds = DOMAIN entries
      /\ \A o \in DOMAIN entries :
           o # s => ds[o].parent = entries[o].parent /\ ds[o].name = entries[o].name
  BY <1>2, <1>6
<1>8. Relocates(entries, ds, s, from, a, top, name)
  BY <1>2, <1>3, <1>6, <1>7 DEF Relocates
<1>9. x.entries = ds /\ Leads(x)
  BY <1>4, <1>5, ReloadedLeads
<1> SUFFICES ASSUME Known(x, from) PROVE FALSE
  BY <1>1
<1>10. PICK o : <<from, o>> \in Reached(ds, Root)
  BY <1>9, KnownLeads
<1>11. IsPrefix(from, from)
  BY <1>2, PrefixOfLonger
<1>12. PICK z : from = to \o z /\ <<z, o>> \in Reached(entries, s)
  <2>1. Carried(entries, s, to, from, o)
    BY <1>2, <1>8, <1>10, <1>11, AfterMove
  <2> QED BY <2>1 DEF Carried
<1>13. IsPath(z)
  BY <1>12, ReachedSteps
<1>14. IsPrefix(to, from)
  BY <1>2, <1>12, <1>13, ConcatIs
<1>15. Known(Now, to)
  BY <1>2, <1>3, <1>14, KnownAbove
<1>16. to # << >> /\ Front(to) = top
  <2>1. IsPath(top)
    BY <1>2, ReachedSteps
  <2> QED BY <1>1, <1>2, <2>1, FrontOfLonger
<1>17. PICK q : q = IdOf(Now, to)
  OBVIOUS
<1>18. q \in DOMAIN entries /\ entries[q].parent = a /\ entries[q].name = name
  <2>1. Known(Now, Front(to))
    BY <1>2, <1>16
  <2> QED BY <1>1, <1>2, <1>3, <1>15, <1>16, <1>17, <2>1, PlaceOfPath
<1>19. q # s
  <2>1. <<to, q>> \in Reached(entries, Root)
    BY <1>3, <1>15, <1>17, KnownLeads DEF IsSound
  <2>2. CASE q = s
    <3>1. to = from
      BY <1>2, <1>3, <2>1, <2>2, OnePathOfId
    <3> QED BY <1>2, <1>11, <3>1
  <2> QED BY <2>2
<1>20. q \in Children(drive, a) /\ drive[q].name = name
  <2>1. a \in DOMAIN drive \union {Root}
    BY <1>2, <1>3, CoversPlace
  <2> QED BY <1>3, <1>18, <2>1 DEF Covers, Children
<1> QED BY <1>1, <1>19, <1>20 DEF IsTaken


-----------------------------------------------------------------------------
(* Calls on plain windows *)

LEMMA NewIdIsNew ==
  ASSUME IsSound(Now, made), Covers(drive, entries)
  PROVE  NewId \notin DOMAIN drive
<1>1. made \in Nat /\ DOMAIN drive \subseteq 1..made
  BY DEF IsSound, HasIds, Now, Covers
<1>2. made + 1 \notin 1..made
  BY <1>1
<1> QED BY <1>1, <1>2 DEF NewId

\* Something is created that the index does not have.
LEMMA CreatedKeeps ==
  ASSUME IsSound(Now, made), Covers(drive, entries), NEW e, drive' = With(drive, NewId, e)
  PROVE  Keeps
<1>1. PICK id : id = NewId /\ id \notin DOMAIN drive
  BY NewIdIsNew
<1>2. ASSUME NEW p \in DOMAIN Local, HasAt(drive, p, Local[p])
      PROVE  HasAt(With(drive, id, e), p, Local[p])
  BY <1>1, <1>2, NewKeeps
<1> QED BY <1>1, <1>2 DEF Keeps

\* A missing folder is created.
LEMMA MakeGoes ==
  ASSUME PlainWindows, Sane, ~panicked', NEW i \in DOMAIN tasks, Make(i)
  PROVE  Sources' /\ Keeps /\ GoesOn(i) /\ UNCHANGED <<scenario, window>>
<1>1. PICK t : t = tasks[i]
  OBVIOUS
<1>2. /\ IsTask(t) /\ ParentIsKnown(Keys(Now), t) /\ Placed(drive, Now, t)
      /\ MakesFor(Local, t) /\ t.act \in Acts /\ Sourced(Now, t) /\ IsSound(Now, made)
      /\ (t.do # "forget" => Covers(drive, entries)) /\ Now.byPath = byPath
      /\ Safe /\ TypeOK
  BY <1>1, AtHand DEF Sane, Safe
<1>3. t.do = "make" /\ t.make # << >> /\ Covers(drive, entries)
  BY <1>1, <1>2 DEF Make, Succeeds, ParentIsKnown
<1>4. PICK r : r = Resolve(t, t.goal)
  OBVIOUS
<1>5. r.act = t.act /\ r.goal = t.goal /\ r.do = "look" /\ r.source = t.source /\ r.old = t.old
  BY <1>2, <1>4, ResolveIs
<1>6. /\ drive' = MadeOnDrive(t) /\ Indexed(i, Put(Now, t.make, NewId), r)
      /\ UNCHANGED <<scenario, window>>
  BY <1>1, <1>4 DEF Make, Succeeds
<1>7. Keeps
  BY <1>2, <1>3, <1>6, CreatedKeeps DEF MadeOnDrive
<1>8. ASSUME NEW x \in Put(Now, t.make, NewId)
      PROVE  x = [entries |-> x.entries, byPath |-> x.byPath] /\ Sourced(x, r)
  <2>0. x \in Put(Now, t.make, NewId)
    OBVIOUS
  <2>1. /\ x = [entries |-> x.entries, byPath |-> x.byPath]
        /\ DOMAIN x.byPath = DOMAIN byPath \union {t.make}
        /\ \A p \in DOMAIN byPath : p # t.make => x.byPath[p] = byPath[p]
    BY <1>2, <2>0, PutIs
  <2>2. t.make \notin DOMAIN byPath
    BY <1>2, <1>3 DEF Placed, IsNew, Known
  <2>3. ASSUME Moves(t.act), Known(x, t.act.from) PROVE Known(Now, t.act.from)
    <3>1. t.make # t.act.from
      BY <1>2, <1>3, <2>3, OnTheWay DEF MakesFor
    <3> QED BY <1>2, <2>1, <2>3, <3>1 DEF Known
  <2>4. \A p \in DOMAIN Now.byPath : p \in DOMAIN x.byPath /\ x.byPath[p] = Now.byPath[p]
    BY <1>2, <2>1, <2>2
  <2> QED BY <1>2, <1>5, <2>1, <2>3, <2>4, SourcedKept
<1>9. Sources'
  BY <1>2, <1>6, <1>8, SourcesIndexed
<1>10. Goes(i, r)
  BY <1>6 DEF Indexed
<1> QED BY <1>1, <1>5, <1>6, <1>7, <1>9, <1>10 DEF GoesOn

\* After an upload the path that something was to be moved from is as unknown as before.
LEMMA UploadedSourced ==
  ASSUME PlainWindows, TypeOK, NEW t, IsTask(t), t.act \in Acts, Sourced(Now, t),
         t.goal \in {"file", "fileParent"}, NEW id, NEW x \in Put(Now, t.act.to, id)
  PROVE  Uploaded(t).do = "end" \/ Sourced(x, Uploaded(t))
<1>1. DOMAIN x.byPath = DOMAIN Now.byPath \union {t.act.to}
  <2>1. x \in Put(Now, t.act.to, id)
    OBVIOUS
  <2> QED BY <2>1, PutIs
<1>2. Moves(t.act) => ~Known(x, t.act.from)
  <2>1. t.act.to \in WayTo(t.act.to)
    BY DEF WayTo
  <2>2. Moves(t.act) => t.act.to # t.act.from
    BY <2>1, OnTheWay
  <2> QED BY <1>1, <2>2 DEF Sourced, Known
<1>3. CASE t.again
  <2>1. PICK q : q = [t EXCEPT !.again = FALSE]
    OBVIOUS
  <2>2. IsTask(q) /\ q.act = t.act
    BY <2>1 DEF IsTask
  <2>3. Uploaded(t) = Resolve(q, "file")
    BY <1>3, <2>1 DEF Uploaded
  <2>4. Sourced(x, Resolve(q, "file"))
    BY <1>2, <2>2, ResolveIs DEF Sourced
  <2> QED BY <2>3, <2>4
<1>4. CASE ~t.again
  BY <1>4, EndedIs DEF Uploaded
<1> QED BY <1>3, <1>4

LEMMA UploadedIs ==
  ASSUME NEW t, IsTask(t)
  PROVE  Uploaded(t).act = t.act /\ (t.again => Uploaded(t).do = "look")
<1>1. CASE t.again
  <2>1. PICK q : q = [t EXCEPT !.again = FALSE]
    OBVIOUS
  <2>2. IsTask(q) /\ q.act = t.act
    BY <2>1 DEF IsTask
  <2>3. Uploaded(t) = Resolve(q, "file")
    BY <1>1, <2>1 DEF Uploaded
  <2> QED BY <2>2, <2>3, ResolveIs
<1>2. CASE ~t.again
  BY <1>2, EndedIs DEF Uploaded
<1> QED BY <1>1, <1>2


\* A new object is at its path.
LEMMA NewIsThere ==
  ASSUME NEW ds, NEW id, id \notin DOMAIN ds, NEW to, NEW S, to \in Seq(S), to # << >>,
         Len(to) <= 3, NEW at, <<Front(to), at>> \in Reached(ds, Root), NEW content
  PROVE  HasAt(With(ds, id, Object(at, Last(to), content)), to, content)
<1>1. PICK e : e = Object(at, Last(to), content)
  OBVIOUS
<1>2. e.parent = at /\ e.name = Last(to) /\ e.content = content
  BY <1>1 DEF Object
<1>3. PICK es : es = With(ds, id, e)
  OBVIOUS
<1>4. DOMAIN es = DOMAIN ds \union {id} /\ es[id] = e /\ \A o \in DOMAIN ds : es[o] = ds[o]
  BY <1>3 DEF With
<1>5. <<Front(to), at>> \in Reached(es, Root)
  BY <1>4, ReachedGrows
<1>6. to = Append(Front(to), Last(to)) /\ Len(to) \in Nat \ {0} /\ Len(Front(to)) = Len(to) - 1
  BY FrontAndLast
<1>7. Len(Front(to)) <= 2
  BY <1>6
<1>8. <<Append(Front(to), es[id].name), id>> \in Reached(es, Root)
  <2>1. id \in DOMAIN es /\ <<Front(to), es[id].parent>> \in Reached(es, Root)
    BY <1>2, <1>4, <1>5
  <2> QED BY <1>7, <2>1, ReachedSteps
<1>9. <<to, id>> \in Reached(es, Root) /\ es[id].content = content
  BY <1>2, <1>4, <1>6, <1>8
<1> QED BY <1>1, <1>3, <1>9 DEF HasAt

\* A file is created, or gets the content it has in the folder.
LEMMA UploadGoes ==
  ASSUME PlainWindows, Sane, ~panicked', NEW i \in DOMAIN tasks, Create(i) \/ Update(i)
  PROVE  Sources' /\ Keeps /\ GoesOn(i) /\ UNCHANGED <<scenario, window>>
<1>1. PICK t, to, r : t = tasks[i] /\ to = t.act.to /\ r = Uploaded(t)
  OBVIOUS
<1>2. /\ IsTask(t) /\ ParentIsKnown(Keys(Now), t) /\ Placed(drive, Now, t) /\ HasFile(t)
      /\ Suits(t) /\ t.act \in Acts /\ Sourced(Now, t) /\ IsSound(Now, made)
      /\ (t.do # "forget" => Covers(drive, entries)) /\ Now.byPath = byPath
      /\ Now.entries = entries /\ Root \notin DOMAIN entries /\ Safe /\ TypeOK
  BY <1>1, AtHand DEF Sane, Safe
<1>3. t.do \in {"create", "update"} /\ UNCHANGED <<scenario, window>>
  BY <1>1 DEF Create, Update, Succeeds
<1>4. /\ Covers(drive, entries) /\ t.goal \in {"file", "fileParent"} /\ IsFile(to)
      /\ Root \notin DOMAIN drive
  BY <1>1, <1>2, <1>3 DEF Suits, HasFile, Covers
<1>5. to \in Seq(STRING) /\ to # << >> /\ Len(to) <= 3
  BY <1>1, <1>2, PlainPaths
<1>6. PICK id : Indexed(i, Put(Now, to, id), r)
  BY <1>1 DEF Create, Update, Succeeds
<1>7. ASSUME NEW x \in Put(Now, to, id)
      PROVE  x = [entries |-> x.entries, byPath |-> x.byPath] /\ (r.do = "end" \/ Sourced(x, r))
  <2>1. x \in Put(Now, to, id)
    OBVIOUS
  <2>2. x = [entries |-> x.entries, byPath |-> x.byPath]
    BY <2>1, PutIs
  <2>3. r.do = "end" \/ Sourced(x, r)
    BY <1>1, <1>2, <1>4, <2>1, UploadedSourced
  <2> QED BY <2>2, <2>3
<1>8. Sources'
  BY <1>2, <1>6, <1>7, SourcesIndexed
<1>9. Goes(i, r) /\ r.act = t.act
  BY <1>1, <1>2, <1>6, UploadedIs DEF Indexed
<1>10. CASE Create(i)
  <2>1. t.do = "create" /\ drive' = CreatedOnDrive(t)
    BY <1>1, <1>10 DEF Create, Succeeds
  <2>2. Keeps
    BY <1>2, <1>4, <2>1, CreatedKeeps DEF CreatedOnDrive
  <2>3. Known(Now, Front(to)) /\ t.at = IdOf(Now, Front(to))
    BY <1>1, <1>2, <2>1, KnownIsKey DEF ParentIsKnown, Placed
  <2>4. <<Front(to), t.at>> \in Reached(entries, Root)
    BY <1>2, <2>3, KnownLeads DEF IsSound
  <2>5. <<Front(to), t.at>> \in Reached(drive, Root)
    BY <1>4, <2>4, CoversReached
  <2>6. HasAt(With(drive, NewId, Object(t.at, Last(to), Local[to])), to, Local[to])
    BY <1>2, <1>4, <1>5, <2>5, NewIdIsNew, NewIsThere
  <2>7. HasAt(drive', to, Local[to])
    BY <1>1, <2>1, <2>6 DEF CreatedOnDrive
  <2> QED BY <1>1, <1>3, <1>8, <1>9, <2>2, <2>7 DEF GoesOn
<1>11. CASE Update(i)
  <2>1. t.do = "update" /\ drive' = UpdatedOnDrive(t)
    BY <1>1, <1>11 DEF Update, Succeeds
  <2>2. Known(Now, to) /\ t.at = IdOf(Now, to)
    BY <1>1, <1>2, <2>1 DEF Placed
  <2>3. <<to, t.at>> \in Reached(entries, Root)
    BY <1>2, <2>2, KnownLeads DEF IsSound
  <2>4. <<to, t.at>> \in Reached(drive, Root)
    BY <1>4, <2>3, CoversReached
  <2>5. PICK ds, a, c, es : ds = drive /\ a = t.at /\ c = Local[to] /\ es = Rewritten(ds, a, c)
    OBVIOUS
  <2>6. drive' = es
    BY <1>1, <2>1, <2>5 DEF UpdatedOnDrive, Rewritten
  <2>9. Root \notin DOMAIN ds /\ <<to, a>> \in Reached(ds, Root)
    BY <1>4, <2>4, <2>5
  <2>10. HasAt(es, to, c) /\ \A p, d : HasAt(ds, p, d) /\ (p = to => d = c) => HasAt(es, p, d)
    BY <1>5, <2>5, <2>9, UpdatedKeeps
  <2>7. /\ HasAt(es, to, Local[to])
        /\ \A p, d : HasAt(drive, p, d) /\ (p = to => d = Local[to]) => HasAt(es, p, d)
    BY <2>5, <2>10
  <2>8. Keeps
    BY <2>6, <2>7 DEF Keeps
  <2> QED BY <1>1, <1>3, <1>8, <1>9, <2>6, <2>7, <2>8 DEF GoesOn
<1> QED BY <1>10, <1>11

\* Something is moved.
LEMMA MoveGoes ==
  ASSUME PlainWindows, Sane, ~panicked', past' \subseteq {"failure"},
         NEW i \in DOMAIN tasks, Move(i)
  PROVE  Sources' /\ Keeps /\ GoesOn(i) /\ UNCHANGED <<scenario, window>>
<1>1. PICK t, r : t = tasks[i] /\ r = Uploaded(t)
  OBVIOUS
<1>2. IsTask(t) /\ Suits(t) /\ Safe
  BY <1>1, AtHand DEF Sane
<1>3. /\ t.do = "move" /\ drive' = MovedOnDrive(t) /\ ~IsTaken(t) /\ UNCHANGED <<scenario, window>>
      /\ Indexed(i, PutAndReload(Now, t.act.to, t.source), r)
  BY <1>1 DEF Move, Succeeds
<1>4. Keeps
  BY <1>1, <1>3, MoveKeeps
<1>5. t.goal = "newParent" /\ Moves(t.act)
  BY <1>1, <1>3, MovePlaces
<1>6. ASSUME NEW x \in PutAndReload(Now, t.act.to, t.source)
      PROVE  x = [entries |-> x.entries, byPath |-> x.byPath] /\ (r.do = "end" \/ Sourced(x, r))
  <2>1. x = [entries |-> x.entries, byPath |-> x.byPath]
    <3>1. PICK y \in Put(Now, t.act.to, t.source) : x \in Reloaded(y.entries)
      BY DEF PutAndReload
    <3> QED BY <3>1, ReloadedLeads
  <2>2. ~Known(x, t.act.from)
    BY <1>1, <1>3, MoveLeaves
  <2>3. CASE t.again
    <3>1. PICK q : q = [t EXCEPT !.again = FALSE]
      OBVIOUS
    <3>2. IsTask(q) /\ q.act = t.act
      BY <1>2, <3>1 DEF IsTask
    <3>3. r = Resolve(q, "file")
      BY <1>1, <2>3, <3>1 DEF Uploaded
    <3>4. Sourced(x, r)
      BY <2>2, <3>2, <3>3, ResolveIs DEF Sourced
    <3> QED BY <2>1, <3>4
  <2>4. CASE ~t.again
    BY <1>1, <1>2, <2>1, <2>4, EndedIs DEF Uploaded
  <2> QED BY <2>3, <2>4
<1>7. Sources'
  BY <1>2, <1>3, <1>6, SourcesIndexed
<1>8. Goes(i, r) /\ r.act = t.act /\ (t.again => r.do = "look")
  BY <1>1, <1>2, <1>3, UploadedIs DEF Indexed
<1>9. Writes(t.act) => t.again
  BY <1>2, <1>5 DEF Writes, Moves, Suits
<1> QED BY <1>1, <1>3, <1>4, <1>7, <1>8, <1>9 DEF GoesOn

\* Something is deleted, and forgotten.
LEMMA DeleteGoes ==
  ASSUME PlainWindows, Sane, ~panicked', NEW i \in DOMAIN tasks, Delete(i)
  PROVE  Sources' /\ Keeps /\ GoesOn(i) /\ UNCHANGED <<scenario, window>>
<1>1. PICK t, to, r : t = tasks[i] /\ to = t.act.to /\ r = [t EXCEPT !.do = "forget"]
  OBVIOUS
<1>2. /\ IsTask(t) /\ Placed(drive, Now, t) /\ Suits(t) /\ t.act \in Acts
      /\ IsSound(Now, made) /\ (t.do # "forget" => Covers(drive, entries))
      /\ Now.entries = entries /\ Root \notin DOMAIN entries /\ Safe /\ TypeOK
  BY <1>1, AtHand DEF Sane, Safe
<1>3. /\ t.do = "delete" /\ drive' = DeletedOnDrive(t) /\ UNCHANGED <<scenario, window>>
      /\ Indexed(i, {Now}, r)
  BY <1>1 DEF Delete, Succeeds
<1>4. /\ Covers(drive, entries) /\ Deletes(t.act) /\ Root \notin DOMAIN drive
      /\ Known(Now, to) /\ t.at = IdOf(Now, to)
  BY <1>1, <1>2, <1>3 DEF Suits, Covers, Placed
<1>5. <<to, t.at>> \in Reached(entries, Root)
  BY <1>2, <1>4, KnownLeads DEF IsSound
<1>6. <<to, t.at>> \in Reached(drive, Root)
  BY <1>4, <1>5, CoversReached
<1>7. drive' = Cut(drive, t.at)
  BY <1>3 DEF DeletedOnDrive, Cut
<1>8. Keeps
  <2>1. \A p \in DOMAIN Local : ~IsPrefix(to, p)
    <3>1. t.act \in SyncActions
      BY <1>2, PlainAct
    <3>2. t.act.from = to
      BY <1>1, <1>4, <3>1 DEF SyncActions
    <3> QED BY <1>2, <1>4, <3>2, PlainAct DEF Deletes
  <2>2. ASSUME NEW p \in DOMAIN Local, HasAt(drive, p, Local[p])
        PROVE  HasAt(Cut(drive, t.at), p, Local[p])
    BY <1>4, <1>6, <2>1, <2>2, DeletedKeeps
  <2> QED BY <1>7, <2>2 DEF Keeps
<1>9. r.act = t.act /\ r.goal = t.goal /\ r.do = "forget"
  BY <1>1, <1>2, DoIs
<1>10. \A x : Sourced(x, r)
  BY <1>2, <1>4, <1>9 DEF Suits, Sourced, Deletes, Moves
<1>11. Goes(i, r)
  BY <1>3 DEF Indexed
<1>12. Sources'
  BY <1>2, <1>10, <1>11, SourcesGoes
<1> QED BY <1>1, <1>3, <1>8, <1>9, <1>11, <1>12 DEF GoesOn

LEMMA ForgetGoes ==
  ASSUME PlainWindows, Sane, ~panicked', NEW i \in DOMAIN tasks, Forget(i)
  PROVE  Sources' /\ Keeps /\ GoesOn(i) /\ UNCHANGED <<scenario, window>>
<1>1. PICK t, r : t = tasks[i] /\ r = Ended(t)
  OBVIOUS
<1>2. IsTask(t) /\ Suits(t) /\ Safe
  BY <1>1, AtHand DEF Sane
<1>3. t.do = "forget" /\ UNCHANGED <<scenario, window, drive>> /\ Goes(i, r)
  BY <1>1 DEF Forget, remote, Indexed
<1>4. r.do = "end" /\ r.act = t.act /\ ~Writes(t.act)
  BY <1>1, <1>2, <1>3, EndedIs DEF Suits, Deletes, Writes
<1>5. Sources'
  BY <1>2, <1>3, <1>4, SourcesGoes
<1> QED BY <1>1, <1>3, <1>4, <1>5 DEF GoesOn, Keeps


-----------------------------------------------------------------------------
(* Every step *)

\* A task that begins.
LEMMA StartedSourced ==
  ASSUME NEW act \in SyncActions, NEW n, NEW x
  PROVE  Sourced(x, Started(act, n))
<1>1. act.kind \in ActionKinds
  BY DEF SyncActions
<1>2. PICK r : r = Started(act, n)
  OBVIOUS
<1>3. /\ r.act = act /\ r.goal = FirstGoal(act)
      /\ FirstGoal(act) \in {"source", "file", "folder"}
      /\ FirstGoal(act) = "file" => act.kind = "Upload"
  BY <1>1, <1>2 DEF Started, FirstGoal, ActionKinds
<1> QED BY <1>2, <1>3 DEF Sourced, Moves

\* The index stays, and tasks begin.
LEMMA SourcesBegin ==
  ASSUME Sources, UNCHANGED <<entries, byPath>>,
         \A k \in DOMAIN tasks' :
           \/ k \in DOMAIN tasks /\ tasks'[k] = tasks[k]
           \/ \E act \in SyncActions : \E n : tasks'[k] = Started(act, n)
  PROVE  Sources'
<1>1. Now' = Now
  BY DEF Now
<1>2. ASSUME NEW k \in DOMAIN tasks' PROVE Sourced(Now, tasks'[k])
  <2>1. CASE k \in DOMAIN tasks /\ tasks'[k] = tasks[k]
    BY <2>1 DEF Sources
  <2>2. CASE \E act \in SyncActions : \E n : tasks'[k] = Started(act, n)
    BY <2>2, StartedSourced
  <2> QED BY <2>1, <2>2
<1>3. \A k \in DOMAIN tasks' : Sourced(Now', tasks'[k])
  BY <1>1, <1>2
<1> QED BY <1>3 DEF Sources

\* What begins when the chain goes on, or the token is refreshed.
LEMMA BeginsStarted ==
  ASSUME Safe, NextOfChain \/ Refreshed
  PROVE  /\ \A k \in DOMAIN tasks : k \in DOMAIN tasks' /\ tasks'[k] = tasks[k]
         /\ \A k \in DOMAIN tasks' :
              \/ k \in DOMAIN tasks /\ tasks'[k] = tasks[k]
              \/ \E act \in SyncActions : \E n : tasks'[k] = Started(act, n)
<1>1. CASE NextOfChain
  <2>1. chain # << >> /\ chain \in Seq({Save} \union Fresh)
    BY <1>1 DEF NextOfChain, Safe, TypeOK
  <2>2. 1 \in DOMAIN chain /\ Head(chain) = chain[1]
    BY <2>1
  <2>3. CASE Head(chain) = Save
    <3>1. tasks' = tasks
      BY <1>1, <2>3 DEF NextOfChain
    <3> QED BY <3>1
  <2>4. CASE Head(chain) # Save
    <3>1. tasks' = With(tasks, InChain, Head(chain))
      BY <1>1, <2>4 DEF NextOfChain
    <3>2. PICK act \in SyncActions, n \in Nat : Head(chain) = Started(act, n)
      BY <2>1, <2>2, <2>4 DEF Fresh
    <3>3. PICK h : h = Head(chain)
      OBVIOUS
    <3>4. /\ DOMAIN tasks' = DOMAIN tasks \union {InChain}
          /\ \A k \in DOMAIN tasks' : tasks'[k] = h \/ (k \in DOMAIN tasks /\ tasks'[k] = tasks[k])
          /\ \A k \in DOMAIN tasks : k # InChain => tasks'[k] = tasks[k]
      BY <3>1, <3>3 DEF With
    <3>5. InChain \notin DOMAIN tasks
      BY <1>1 DEF NextOfChain
    <3> QED BY <3>2, <3>3, <3>4, <3>5
  <2> QED BY <2>3, <2>4
<1>2. CASE Refreshed
  <2>1. PICK retried : retried = {<<token', j>> : j \in DOMAIN parked}
    OBVIOUS
  <2>2. tasks' = [k \in DOMAIN tasks \union retried |->
                    IF k \in DOMAIN tasks THEN tasks[k] ELSE Started(parked[k[2]], token')]
    BY <1>2, <2>1 DEF Refreshed
  <2>3. \A j \in DOMAIN parked : parked[j] \in SyncActions
    BY DEF Safe, TypeOK
  <2>4. ASSUME NEW k \in DOMAIN tasks', k \notin DOMAIN tasks
        PROVE  \E act \in SyncActions : \E n : tasks'[k] = Started(act, n)
    <3>1. PICK j \in DOMAIN parked : k = <<token', j>>
      BY <2>1, <2>2, <2>4
    <3>2. tasks'[k] = Started(parked[j], token')
      BY <2>2, <2>4, <3>1
    <3> QED BY <2>3, <3>2
  <2> QED BY <2>2, <2>4
<1> QED BY <1>1, <1>2

\* A task that ends is of no more concern.
LEMMA SourcesEnd ==
  ASSUME Safe, NEW i \in DOMAIN tasks, Goes(i, Ended(tasks[i]))
  PROVE  Sources'
<1>1. Ended(tasks[i]).do = "end"
  BY TaskIsOK, EndedIs
<1> QED BY <1>1, SourcesGoes

\* Every step keeps what tasks know of what they move.
LEMMA SourcesStep ==
  ASSUME PlainWindows, Sane, ~panicked', past' \subseteq {"failure"}, [Next]_vars
  PROVE  Sources'
<1>0. Safe /\ Sources
  BY DEF Sane
<1>1. ASSUME NEW i \in DOMAIN tasks, TaskStep(i) \/ Fails(i) PROVE Sources'
  <2>1. CASE Refused(i) \/ Unauthorized(i) \/ Fails(i)
    BY <1>0, <2>1, SourcesEnd DEF Refused, Unauthorized, Fails
  <2>2. CASE ~(Refused(i) \/ Unauthorized(i) \/ Fails(i))
    BY <1>1, <2>2, LookGoes, FindGoes, MakeGoes, UploadGoes, MoveGoes, DeleteGoes, ForgetGoes
       DEF TaskStep
  <2> QED BY <2>1, <2>2
<1>2. CASE NextOfChain \/ Refreshed
  <2>1. UNCHANGED <<entries, byPath>>
    BY <1>2 DEF NextOfChain, Refreshed, index
  <2> QED BY <1>0, <1>2, <2>1, BeginsStarted, SourcesBegin
<1>3. CASE WindowEnds \/ TokenExpires \/ UNCHANGED vars
  <2>1. UNCHANGED <<entries, byPath, tasks>>
    BY <1>3 DEF WindowEnds, TokenExpires, vars, index
  <2> QED BY <1>0, <2>1, SourcesBegin
<1>4. CASE Restart
  <2>1. DOMAIN tasks' = {}
    BY <1>4 DEF Restart
  <2> QED BY <2>1 DEF Sources
<1> QED BY <1>1, <1>2, <1>3, <1>4 DEF Next


-----------------------------------------------------------------------------
(* What a window is to upload is under way, or on Drive *)

Underway(ts, ps, ch, act) ==
  \/ \E k \in DOMAIN ts : ts[k].act = act
  \/ \E j \in DOMAIN ps : ps[j] = act
  \/ \E j \in DOMAIN ch : ch[j] # Save /\ ch[j].act = act

Delivery ==
  \A act \in Acts :
    Writes(act) => Underway(tasks, parked, chain, act) \/ HasAt(drive, act.to, Local[act.to])
DeliveryInv == past \subseteq {"failure"} /\ calm => Delivery

\* Something uploaded stays, and what is under way stays so.
LEMMA DeliveryKept ==
  ASSUME PlainWindows, TypeOK, Delivery, Keeps, UNCHANGED <<scenario, window>>,
         \A act \in Acts : Writes(act) /\ Underway(tasks, parked, chain, act) =>
           Underway(tasks', parked', chain', act) \/ HasAt(drive', act.to, Local[act.to])
  PROVE  Delivery'
<1>1. Acts' = Acts /\ Local' = Local
  BY DEF Acts, Local
<1>2. ASSUME NEW act \in Acts, Writes(act)
      PROVE  \/ Underway(tasks', parked', chain', act)
             \/ HasAt(drive', act.to, Local[act.to])
  <2>1. CASE Underway(tasks, parked, chain, act)
    BY <1>2, <2>1
  <2>2. CASE ~Underway(tasks, parked, chain, act)
    <3>1. HasAt(drive, act.to, Local[act.to])
      BY <1>2, <2>2 DEF Delivery
    <3>2. act.to \in DOMAIN Local
      BY <1>2, WritesFile DEF IsFile
    <3> QED BY <3>1, <3>2 DEF Keeps
  <2> QED BY <2>1, <2>2
<1>3. \A act \in Acts' : Writes(act) =>
        \/ Underway(tasks', parked', chain', act)
        \/ HasAt(drive', act.to, Local'[act.to])
  BY <1>1, <1>2
<1> QED BY <1>3 DEF Delivery

\* A task takes a step.
LEMMA GoesOnDelivers ==
  ASSUME PlainWindows, Safe, Delivery, Keeps, NEW i \in DOMAIN tasks, GoesOn(i),
         UNCHANGED <<scenario, window, parked, chain>>
  PROVE  Delivery'
<1>1. PICK r : /\ Goes(i, r) /\ r.act = tasks[i].act
               /\ r.do = "end" /\ Writes(r.act) => HasAt(drive', r.act.to, Local[r.act.to])
  BY DEF GoesOn
<1>2. ASSUME NEW act \in Acts, Writes(act), Underway(tasks, parked, chain, act)
      PROVE  Underway(tasks', parked', chain', act) \/ HasAt(drive', act.to, Local[act.to])
  <2>1. CASE \E k \in DOMAIN tasks : tasks[k].act = act
    <3>1. tasks[i].act = act
      BY <2>1 DEF Safe, Alone
    <3>2. CASE r.do = "end"
      BY <1>1, <1>2, <3>1, <3>2
    <3>3. CASE r.do # "end"
      <4>1. tasks' = [tasks EXCEPT ![i] = r]
        BY <1>1, <3>3 DEF Goes
      <4>2. i \in DOMAIN tasks' /\ tasks'[i] = r
        BY <4>1
      <4> QED BY <1>1, <3>1, <4>2 DEF Underway
    <3> QED BY <3>2, <3>3
  <2>2. CASE ~\E k \in DOMAIN tasks : tasks[k].act = act
    BY <1>2, <2>2 DEF Underway
  <2> QED BY <2>1, <2>2
<1> QED BY <1>2, DeliveryKept DEF Safe

\* A task meets an expired token.
LEMMA ParkedDelivers ==
  ASSUME PlainWindows, Safe, Delivery, NEW i \in DOMAIN tasks, Unauthorized(i)
  PROVE  Delivery'
<1>1. /\ parked' = Append(parked, tasks[i].act) /\ UNCHANGED <<scenario, window, drive, chain>>
      /\ parked \in Seq(SyncActions) /\ tasks[i].act \in SyncActions
  BY TaskIsOK, TaskPaths DEF Unauthorized, remote, Safe, TypeOK
<1>2. /\ \A j \in DOMAIN parked : j \in DOMAIN parked' /\ parked'[j] = parked[j]
      /\ \E j \in DOMAIN parked' : parked'[j] = tasks[i].act
  <2>1. PICK n \in Nat : n = Len(parked)
    BY <1>1
  <2>2. /\ DOMAIN parked' = 1..n + 1 /\ DOMAIN parked = 1..n
        /\ \A j \in 1..n : parked'[j] = parked[j]
        /\ parked'[n + 1] = tasks[i].act
    BY <1>1, <2>1
  <2>3. n + 1 \in 1..n + 1 /\ \A j \in 1..n : j \in 1..n + 1
    OBVIOUS
  <2> QED BY <2>2, <2>3
<1>3. ASSUME NEW act \in Acts, Writes(act), Underway(tasks, parked, chain, act)
      PROVE  Underway(tasks', parked', chain', act)
  <2>1. CASE \E k \in DOMAIN tasks : tasks[k].act = act
    <3>1. tasks[i].act = act
      BY <2>1 DEF Safe, Alone
    <3> QED BY <1>2, <3>1 DEF Underway
  <2>2. CASE \E j \in DOMAIN parked : parked[j] = act
    BY <1>2, <2>2 DEF Underway
  <2>3. CASE \E j \in DOMAIN chain : chain[j] # Save /\ chain[j].act = act
    BY <1>1, <2>3 DEF Underway
  <2> QED BY <1>3, <2>1, <2>2, <2>3 DEF Underway
<1>4. Keeps
  BY <1>1 DEF Keeps
<1> QED BY <1>1, <1>3, <1>4, DeliveryKept DEF Safe

\* Any step of a task.
LEMMA TaskDelivers ==
  ASSUME PlainWindows, Sane, ~panicked', past' \subseteq {"failure"}, calm', Delivery,
         NEW i \in DOMAIN tasks, TaskStep(i) \/ Fails(i)
  PROVE  Delivery'
<1>1. Safe
  BY DEF Sane
<1>2. ~Fails(i)
  BY DEF Fails, Happens
<1>3. ~Refused(i)
  BY CallAccepted DEF Sane, Refused
<1>4. CASE Unauthorized(i)
  BY <1>1, <1>4, ParkedDelivers
<1>5. CASE ~Unauthorized(i)
  <2>1. GoesOn(i) /\ Keeps /\ UNCHANGED <<scenario, window>>
    <3>1. CASE Look(i) \/ PassBy(i) \/ Find(i)
      <4>1. GoesOn(i) /\ UNCHANGED <<drive, scenario, window>>
        BY <3>1, LookGoes, FindGoes
      <4> QED BY <4>1 DEF Keeps
    <3>2. CASE ~(Look(i) \/ PassBy(i) \/ Find(i))
      BY <1>2, <1>3, <1>5, <3>2, MakeGoes, UploadGoes, MoveGoes, DeleteGoes, ForgetGoes
         DEF TaskStep
    <3> QED BY <3>1, <3>2
  <2>2. UNCHANGED <<chain, parked>>
    BY <1>1, <1>2, <1>3, <1>5 DEF TaskStep, Look, PassBy, Find, Make, Create, Update, Move,
       Delete, Forget, Succeeds, session
  <2> QED BY <1>1, <2>1, <2>2, GoesOnDelivers
<1> QED BY <1>4, <1>5


\* When nothing is under way nothing is.
LEMMA QuietIs ==
  ASSUME Quiet, NEW act
  PROVE  ~Underway(tasks, parked, chain, act)
<1>1. DOMAIN tasks = {} /\ DOMAIN parked = {} /\ DOMAIN chain = {}
  BY DEF Quiet
<1> QED BY <1>1 DEF Underway

\* A window begins with everything it is to upload in the chain.
LEMMA WindowDelivers ==
  ASSUME Safe, WindowEnds
  PROVE  Delivery'
<1>1. /\ window \in Nat /\ window' = window + 1 /\ scenario' = scenario
      /\ window < Len(scenario.windows)
  BY ArchiveAssumption DEF WindowEnds, Safe, TypeOK
<1>2. PICK actions : actions = scenario.windows[window + 1].actions
  OBVIOUS
<1>3. PICK begun : begun = [i \in DOMAIN actions |-> Started(actions[i], token)]
  OBVIOUS
<1>4. chain' = Append(begun, Save)
  BY <1>2, <1>3 DEF WindowEnds
<1>5. Acts' = Range(actions)
  BY <1>1, <1>2 DEF Acts
<1>6. actions \in Seq(SyncActions)
  <2>1. window + 1 \in 1..Len(scenario.windows)
    BY <1>1, ArchiveAssumption DEF Safe, TypeOK
  <2> QED BY <1>2, <2>1, ArchiveAssumption DEF Safe, TypeOK
<1>7. DOMAIN actions = 1..Len(actions) /\ Len(actions) \in Nat
  BY <1>6
<1>8. begun \in Seq(Fresh)
  <2>1. \A i \in DOMAIN actions : actions[i] \in SyncActions
    BY <1>6
  <2>2. \A i \in DOMAIN actions : Started(actions[i], token) \in Fresh
    BY <2>1 DEF Safe, TypeOK, Fresh
  <2> QED BY <1>3, <1>7, <2>2
<1>9. \A j \in DOMAIN actions : j \in DOMAIN chain' /\ chain'[j] = Started(actions[j], token)
  <2>1. \A j \in DOMAIN begun : j \in DOMAIN chain' /\ chain'[j] = begun[j]
    BY <1>4, <1>8
  <2> QED BY <1>3, <2>1
<1>10. ASSUME NEW act \in Acts' PROVE Underway(tasks', parked', chain', act)
  <2>1. PICK j \in DOMAIN actions : actions[j] = act
    BY <1>5, <1>10 DEF Range
  <2>2. act \in SyncActions
    BY <1>6, <2>1
  <2>3. chain'[j] # Save /\ chain'[j].act = act
    BY <1>9, <2>1, <2>2, StartedSuits
  <2> QED BY <1>9, <2>3 DEF Underway
<1> QED BY <1>10 DEF Delivery

\* The next task begins.
LEMMA ChainDelivers ==
  ASSUME PlainWindows, Safe, Delivery, NextOfChain
  PROVE  Delivery'
<1>1. /\ chain # << >> /\ chain' = Tail(chain) /\ chain \in Seq({Save} \union Fresh)
      /\ UNCHANGED <<scenario, window, drive, parked>>
  BY DEF NextOfChain, session, remote, Safe, TypeOK
<1>2. \A k \in DOMAIN tasks : k \in DOMAIN tasks' /\ tasks'[k] = tasks[k]
  BY BeginsStarted
<1>3. Head(chain) # Save =>
        \E k \in DOMAIN tasks' : tasks'[k] = Head(chain)
  <2> SUFFICES ASSUME Head(chain) # Save PROVE \E k \in DOMAIN tasks' : tasks'[k] = Head(chain)
    OBVIOUS
  <2>1. PICK h : h = Head(chain)
    OBVIOUS
  <2>2. tasks' = With(tasks, InChain, h)
    BY <2>1 DEF NextOfChain
  <2>3. InChain \in DOMAIN tasks' /\ tasks'[InChain] = h
    BY <2>2 DEF With
  <2> QED BY <2>1, <2>3
<1>4. ASSUME NEW j \in DOMAIN chain
      PROVE  chain[j] = Head(chain) \/ \E l \in DOMAIN chain' : chain'[l] = chain[j]
  <2>1. PICK n \in Nat : n = Len(chain) /\ n # 0
    BY <1>1
  <2>2. CASE j = 1
    BY <1>1, <2>2
  <2>3. CASE j # 1
    <3>1. j \in 1..n
      BY <1>1, <1>4, <2>1
    <3>2. PICK l \in 1..n - 1 : j = l + 1
      <4>1. j - 1 \in 1..n - 1 /\ j = (j - 1) + 1
        BY <2>3, <3>1
      <4> QED BY <4>1
    <3>3. l \in DOMAIN chain' /\ chain'[l] = chain[l + 1]
      BY <1>1, <2>1
    <3> QED BY <3>2, <3>3
  <2> QED BY <2>2, <2>3
<1>5. ASSUME NEW act \in Acts, Underway(tasks, parked, chain, act)
      PROVE  Underway(tasks', parked', chain', act)
  <2>1. CASE \E k \in DOMAIN tasks : tasks[k].act = act
    BY <1>2, <2>1 DEF Underway
  <2>2. CASE \E j \in DOMAIN parked : parked[j] = act
    BY <1>1, <2>2 DEF Underway
  <2>3. ASSUME NEW j \in DOMAIN chain, chain[j] # Save, chain[j].act = act
        PROVE  Underway(tasks', parked', chain', act)
    <3>1. CASE chain[j] = Head(chain)
      <4>1. PICK k \in DOMAIN tasks' : tasks'[k] = Head(chain)
        BY <1>3, <2>3, <3>1
      <4> QED BY <2>3, <3>1, <4>1 DEF Underway
    <3>2. CASE \E l \in DOMAIN chain' : chain'[l] = chain[j]
      BY <2>3, <3>2 DEF Underway
    <3> QED BY <1>4, <3>1, <3>2
  <2> QED BY <1>5, <2>1, <2>2, <2>3 DEF Underway
<1>6. Keeps
  BY <1>1 DEF Keeps
<1> QED BY <1>1, <1>5, <1>6, DeliveryKept DEF Safe

\* What was parked is tried again.
LEMMA RetryDelivers ==
  ASSUME PlainWindows, Safe, Windowed, Delivery, Refreshed
  PROVE  Delivery'
<1>1. /\ UNCHANGED <<scenario, window, drive, chain>> /\ token \in Nat /\ token' = token + 1
      /\ \A j \in DOMAIN parked : parked[j] \in SyncActions
  BY DEF Refreshed, remote, Safe, TypeOK
<1>2. \A k \in DOMAIN tasks : k \in DOMAIN tasks' /\ tasks'[k] = tasks[k]
  BY BeginsStarted
<1>3. ASSUME NEW j \in DOMAIN parked
      PROVE  \E k \in DOMAIN tasks' : tasks'[k].act = parked[j]
  <2>1. PICK k, n : k = <<n, j>> /\ n = token'
    OBVIOUS
  <2>2. k \notin DOMAIN tasks
    <3>1. PICK m \in Nat : m = token /\ n = m + 1
      BY <1>1, <2>1
    <3>2. n \in Nat /\ ~(n <= m)
      BY <3>1
    <3> QED BY <2>1, <3>1, <3>2 DEF Windowed, KeysUpTo
  <2>3. PICK retried : retried = {<<token', l>> : l \in DOMAIN parked}
    OBVIOUS
  <2>4. tasks' = [q \in DOMAIN tasks \union retried |->
                    IF q \in DOMAIN tasks THEN tasks[q] ELSE Started(parked[q[2]], token')]
    BY <2>3 DEF Refreshed
  <2>5. k \in retried
    BY <2>1, <2>3
  <2>6. k \in DOMAIN tasks' /\ tasks'[k] = Started(parked[j], n)
    BY <2>1, <2>2, <2>4, <2>5
  <2>7. Started(parked[j], n).act = parked[j]
    BY <1>1, StartedSuits
  <2> QED BY <2>6, <2>7
<1>4. ASSUME NEW act \in Acts, Underway(tasks, parked, chain, act)
      PROVE  Underway(tasks', parked', chain', act)
  <2>1. CASE \E k \in DOMAIN tasks : tasks[k].act = act
    BY <1>2, <2>1 DEF Underway
  <2>2. CASE \E j \in DOMAIN parked : parked[j] = act
    BY <1>3, <2>2 DEF Underway
  <2>3. CASE \E j \in DOMAIN chain : chain[j] # Save /\ chain[j].act = act
    BY <1>1, <2>3 DEF Underway
  <2> QED BY <1>4, <2>1, <2>2, <2>3 DEF Underway
<1>5. Keeps
  BY <1>1 DEF Keeps
<1> QED BY <1>1, <1>4, <1>5, DeliveryKept DEF Safe

\* Nothing is under way that a restart loses.
LEMMA RestartDelivers ==
  ASSUME PlainWindows, Safe, Delivery, Restart, calm'
  PROVE  Delivery'
<1>1. Quiet /\ UNCHANGED <<scenario, window, drive>>
  BY DEF Restart, Happens, remote
<1>2. \A act : ~Underway(tasks, parked, chain, act)
  BY <1>1, QuietIs
<1>3. Keeps
  BY <1>1 DEF Keeps
<1> QED BY <1>1, <1>2, <1>3, DeliveryKept DEF Safe


\* Every step keeps the invariant.
LEMMA DeliveryStep ==
  ASSUME PlainWindows, Inv, Inv', SettledInv, ExactInv, WindowInv, SourcedInv, DeliveryInv,
         [Next]_vars
  PROVE  DeliveryInv'
<1> SUFFICES ASSUME past' \subseteq {"failure"}, calm'
             PROVE  Delivery'
  BY DEF DeliveryInv
<1>1. past \subseteq {"failure"} /\ Sane /\ Safe /\ Windowed /\ ~panicked'
  BY PastGrows DEF Inv, Safe, SettledInv, ExactInv, WindowInv, SourcedInv, Sane
<1>2. CASE WindowEnds
  BY <1>1, <1>2, WindowDelivers
<1>3. CASE ~WindowEnds
  <2>1. calm
    <3>1. ASSUME NEW i \in DOMAIN tasks, TaskStep(i) \/ Fails(i) PROVE calm
      BY <3>1 DEF TaskStep, Fails, Happens, Look, PassBy, Find, Make, Create, Update, Move, Delete,
         Forget, Refused, Unauthorized, history
    <3>2. CASE NextOfChain
      BY <3>2 DEF NextOfChain, Races, Happens, history
    <3>3. CASE TokenExpires \/ Refreshed \/ Restart \/ UNCHANGED vars
      BY <3>3 DEF TokenExpires, Refreshed, Restart, Races, Happens, vars, history
    <3> QED BY <1>3, <3>1, <3>2, <3>3 DEF Next
  <2>2. Delivery
    BY <1>1, <2>1 DEF DeliveryInv
  <2>3. CASE UNCHANGED vars \/ TokenExpires
    <3>1. UNCHANGED <<scenario, window, chain, tasks, parked, drive>>
      BY <2>3 DEF vars, session, remote, TokenExpires
    <3>2. Keeps
      BY <3>1 DEF Keeps
    <3> QED BY <1>1, <2>2, <3>1, <3>2, DeliveryKept DEF Safe
  <2> QED BY <1>1, <1>3, <2>2, <2>3, TaskDelivers, ChainDelivers, RetryDelivers, RestartDelivers
          DEF Next
<1> QED BY <1>2, <1>3

LEMMA SourcedStep ==
  ASSUME PlainWindows, Inv, Inv', SettledInv, ExactInv, WindowInv, SourcedInv, [Next]_vars
  PROVE  SourcedInv'
<1> SUFFICES ASSUME past' \subseteq {"failure"} PROVE Sources'
  BY DEF SourcedInv
<1>1. Sane /\ ~panicked'
  BY PastGrows DEF Inv, Safe, SettledInv, ExactInv, WindowInv, SourcedInv, Sane
<1> QED BY <1>1, SourcesStep

\* When nothing is under way, what was to be uploaded is on Drive.
LEMMA DeliveredIs ==
  ASSUME DeliveryInv PROVE DeliveredAfterFailure
<1> SUFFICES ASSUME Quiet, calm, window > 0, past \subseteq {"failure"}, NEW act \in Written
             PROVE  <<act.to, Local[act.to]>> \in OnDrive
  BY DEF DeliveredAfterFailure
<1>1. act \in Acts /\ Writes(act)
  BY DEF Written, Acts, Writes
<1>2. ~Underway(tasks, parked, chain, act)
  BY QuietIs
<1>3. HasAt(drive, act.to, Local[act.to])
  BY <1>1, <1>2 DEF DeliveryInv, Delivery
<1> QED BY <1>3, OnDriveIs

(* What a window uploads is on Drive, at its path and with its content, when the window  *)
(* has ended: resolve_and_create_missing_ancestors has created the folders above it,     *)
(* Drive has refused no call, and what met an expired token was tried again.  For any    *)
(* folders and plain windows, also when calls failed in the windows before.              *)
THEOREM DeliversAfterFailure == ASSUME PlainWindows PROVE Spec => []DeliveredAfterFailure
<1>1. Init => Inv /\ SettledInv /\ ExactInv /\ WindowInv /\ SourcedInv /\ DeliveryInv
  <2>1. Init => Settled
    BY DEF Init, Settled
  <2>2. Init => Sources
    BY DEF Init, Sources
  <2>3. Init => Delivery
    BY DEF Init, Delivery, Acts
  <2> QED BY <2>1, <2>2, <2>3, InitSafe, InitExact, InitWindow
          DEF Inv, SettledInv, ExactInv, SourcedInv, DeliveryInv
<1>2. Inv /\ [Next]_vars => Inv'
  BY SafeStep
<1>3. Inv /\ Inv' /\ SettledInv /\ [Next]_vars => SettledInv'
  BY SettledStep
<1>4. Inv /\ Inv' /\ SettledInv /\ ExactInv /\ [Next]_vars => ExactInv'
  BY ExactStep
<1>5. Inv /\ Inv' /\ WindowInv /\ [Next]_vars => WindowInv'
  BY WindowStep
<1>6. ASSUME Inv, Inv', SettledInv, ExactInv, WindowInv, SourcedInv, [Next]_vars
      PROVE  SourcedInv'
  BY <1>6, SourcedStep
<1>7. ASSUME Inv, Inv', SettledInv, ExactInv, WindowInv, SourcedInv, DeliveryInv, [Next]_vars
      PROVE  DeliveryInv'
  BY <1>7, DeliveryStep
<1>8. DeliveryInv => DeliveredAfterFailure
  BY DeliveredIs
<1> QED BY <1>1, <1>2, <1>3, <1>4, <1>5, <1>6, <1>7, <1>8, PTL DEF Spec
=============================================================================
