------------------------------- MODULE Archive -------------------------------
(***************************************************************************)
(* How the actions of an archive window reach Drive: on_sync_actions and   *)
(* the operations it starts (src/app/handlers/sync.rs), the Resolver that  *)
(* turns paths into Drive ids, and the FileIndex it keeps.                 *)
(*                                                                         *)
(* The tasks of a window run one after the other.  A task whose token has  *)
(* expired is parked, and when the token has been refreshed all that is    *)
(* parked is started again, at the same time.                              *)
(*                                                                         *)
(* A step of a task looks one path up in the index, or is one call to      *)
(* Drive with what the task does with the answer; steps of different tasks *)
(* interleave.  The watched folder changes between windows only.           *)
(***************************************************************************)
EXTENDS Effects, FiniteSets, Functions, FiniteSetsExt

CONSTANTS
  Scenarios,   \* [before, windows]: the folder when it was first synced, and for each
               \* window the folder then and the actions of the window
  MaxFaults,   \* BOUND: calls that fail for another reason than the token
  MaxExpiries, \* BOUND: tokens that expire
  MaxCrashes   \* BOUND: restarts of the program

\* BOUND: no path has more than three names.
Paths == {p \in Seq(STRING) : Len(p) <= 3}

\* Whatever is below the watched folder, the folder it is in is there as well.
IsTree(tree) ==
  /\ IsFiniteSet(DOMAIN tree)
  /\ \A p \in DOMAIN tree :
       /\ p \in Paths /\ p # << >>
       /\ Front(p) = << >> \/ (Front(p) \in DOMAIN tree /\ tree[Front(p)] = Folder)

\* A SyncAction with one path has it twice.
ActionKinds == {"Move", "MoveFolder", "MoveAndUpload", "Delete", "RemoveFolder", "Upload",
                "EnsureFolder"}
Deletes(act) == act.kind \in {"Delete", "RemoveFolder"}
SyncActions == {act \in [kind : ActionKinds, from : Paths, to : Paths] :
                  Deletes(act) => act.from = act.to}

ASSUME ArchiveAssumption ==
  /\ \A s \in Scenarios :
       /\ IsTree(s.before) /\ Len(s.windows) \in Nat
       /\ \A i \in 1..Len(s.windows) :
            IsTree(s.windows[i].after) /\ s.windows[i].actions \in Seq(SyncActions)
  /\ MaxFaults \in Nat /\ MaxExpiries \in Nat /\ MaxCrashes \in Nat

\* Each window ends as Watcher!Mirrors says of the actions Watcher gives: they are plain ...
PlainWindows ==
  \A s \in Scenarios : \A i \in 1..Len(s.windows) :
    Plain(s.windows[i].after, s.windows[i].actions)

\* ... and lead, one after the other, from the folder as it was to the folder as it is.
LeadsOn(before, w) ==
  LET course == Course(TreeOf(before), w.after, w.actions)
  IN /\ course[Len(w.actions)] = TreeOf(w.after)
     /\ \A n \in 0..Len(w.actions) : PathsOf(course[n]) \subseteq Paths
WindowsLeadOn ==
  \A s \in Scenarios : \A i \in 1..Len(s.windows) :
    LeadsOn(IF i = 1 THEN s.before ELSE s.windows[i - 1].after, s.windows[i])

VARIABLES
  scenario,    \* which of Scenarios it is
  window,      \* how many windows have begun
  drive,       \* the objects on Drive: id |-> [parent, name, content]
  made,        \* how many ids Drive has given
  entries,     \* FileIndex.entries: id |-> [parent, name, isDir]
  byPath,      \* FileIndex.by_path: path |-> id
  saved,       \* the entries in file-index.json
  chain,       \* the tasks of the window that have not begun
  tasks,       \* the tasks that run: number |-> task
  parked,      \* pending_intents: actions that met an expired token
  token,       \* the number of the current token
  live,        \* the current token has not expired
  refreshing,  \* a refresh of the token is in flight
  panicked,    \* a task has panicked
  faults, crashes, \* how many there have been
  past,        \* history: what there has been of "race" (two tasks at the same time),
               \* "failure", "lostAnswer", "restart" (with something under way, or an index
               \* that was not saved), "overtaken" (a window has ended before what was
               \* parked in an earlier one was tried again), and "taken" (a move has gone to
               \* a name that is taken on Drive, where an earlier call has failed)
  calm         \* history: nothing but "taken" in this window

remote == <<drive, made>>
index == <<entries, byPath>>
session == <<token, live, refreshing, parked>>
history == <<past, calm>>
bounded == <<faults, crashes>>
vars == <<scenario, window, remote, index, saved, chain, tasks, session, panicked, bounded,
          history>>

Happens(what) == past' = past \union what /\ calm' = (calm /\ what = {})

Root == 0

With(f, x, y) == [z \in DOMAIN f \union {x} |-> IF z = x THEN y ELSE f[z]]

\* The watched folder: path |-> content.
Local == IF window = 0 THEN scenario.before ELSE scenario.windows[window].after
IsDir(path) == path = << >> \/ (path \in DOMAIN Local /\ Local[path] = Folder)
IsFile(path) == path \in DOMAIN Local /\ Local[path] # Folder

-----------------------------------------------------------------------------
(* FileIndex.  An index is a record [entries, byPath].                        *)

Children(objects, id) == {o \in DOMAIN objects : objects[o].parent = id}

\* The pairs of a path and an id that lead down from `id', as deep as Paths are.
OneDown(objects, pairs) ==
  UNION {{<<Append(x[1], objects[o].name), o>> : o \in Children(objects, x[2])} : x \in pairs}
Reached(objects, id) ==
  LET top == {<< << >>, id >>}
      first == OneDown(objects, top)
      second == OneDown(objects, first)
      third == OneDown(objects, second)
  IN top \union first \union second \union third
Under(objects, id) == {x[2] : x \in Reached(objects, id)}

IdsAt(pairs, path) == {x[2] : x \in {y \in pairs : y[1] = path}}
Doubled(pairs) == {p \in PathsOf(pairs) : Cardinality(IdsAt(pairs, p)) > 1}

\* Of the entries with one path the one that is visited last, in the order of a hash map;
\* what is below it is visited right after it.
VisitedLast(es, pairs) ==
  LET double == Doubled(pairs)
      Stays(last, p) ==
        Front(p) \in double /\ (\E o \in IdsAt(pairs, p) : es[o].parent = last[Front(p)])
          => es[last[p]].parent = last[Front(p)]
  IN {last \in [double -> UNION {IdsAt(pairs, p) : p \in double}] :
        \A p \in double : last[p] \in IdsAt(pairs, p) /\ Stays(last, p)}

ByPath(pairs, last) ==
  [p \in PathsOf(pairs) |-> IF p \in DOMAIN last THEN last[p]
                           ELSE CHOOSE o \in IdsAt(pairs, p) : TRUE]

\* reload_cache_by_path
Reloaded(es) ==
  LET pairs == Reached(es, Root)
  IN {[entries |-> es, byPath |-> ByPath(pairs, last)] : last \in VisitedLast(es, pairs)}

Now == [entries |-> entries, byPath |-> byPath]
Known(x, path) == path = << >> \/ path \in DOMAIN x.byPath
IdOf(x, path) == IF path = << >> THEN Root ELSE x.byPath[path]

\* put_file_id, which looks in the watched folder whether the path is a folder.  There is no
\* result if the parent is not in the index: get_parent_id panics.
Put(x, path, id) ==
  IF ~Known(x, Front(path)) THEN {}
  ELSE {[entries |-> With(x.entries, id,
                          [parent |-> IdOf(x, Front(path)), name |-> Last(path),
                           isDir |-> IsDir(path)]),
         byPath |-> With(x.byPath, path, id)]}

\* Mutant: by_path is not reloaded.
PutAndReload_NoReload(x, path, id) == Put(x, path, id)

\* move_object_in_file_index
PutAndReload(x, path, id) == UNION {Reloaded(y.entries) : y \in Put(x, path, id)}

\* FileIndex::remove takes away an entry, and what is in it if it was put as a folder.  What
\* is left below one that was not stays in the index, but no path leads to it.
InFolders(es) ==
  Restrict(es, {o \in DOMAIN es : es[o].parent \in DOMAIN es /\ es[es[o].parent].isDir})
Erased(es, id) == Restrict(es, DOMAIN es \ Under(InFolders(es), id))

\* Mutant: by_path is not reloaded.
Removed_NoReload(x, path) ==
  {[x EXCEPT !.entries = IF path \notin DOMAIN x.byPath THEN @ ELSE Erased(@, x.byPath[path])]}

\* remove_from_file_index
Removed(x, path) ==
  Reloaded(IF path \notin DOMAIN x.byPath THEN x.entries ELSE Erased(x.entries, x.byPath[path]))

-----------------------------------------------------------------------------
(* Tasks.  `goal' is the path a task is resolving, for what:                   *)
(*   source, oldParent, newParent     of a move                              *)
(*   file, fileParent                 of an upload                           *)
(*   folder                           of ensure_folder_task                  *)
(* `make' is the missing folder that is created before, or << >>.  `do' is   *)
(* what comes next, at the id `at'; a walk is at the first n names of a path.*)

FirstGoal(act) ==
  CASE act.kind \in {"Move", "MoveFolder", "MoveAndUpload", "Delete", "RemoveFolder"} -> "source"
    [] act.kind = "Upload" -> "file"
    [] act.kind = "EnsureFolder" -> "folder"

\* move_then_upload_task uploads once more after move_object.
Started(act, tok) ==
  [act |-> act, token |-> tok, again |-> act.kind = "MoveAndUpload",
   goal |-> FirstGoal(act), make |-> << >>, do |-> "look", at |-> Root, n |-> 0,
   source |-> Root, old |-> Root]

Resolve(t, goal) == [t EXCEPT !.goal = goal, !.make = << >>, !.do = "look"]
Ended(t) == [t EXCEPT !.do = "end"]

Target(t) ==
  IF t.make # << >> THEN Front(t.make)
  ELSE CASE t.goal = "source" -> t.act.from
         [] t.goal = "oldParent" -> Front(t.act.from)
         [] t.goal \in {"newParent", "fileParent"} -> Front(t.act.to)
         [] t.goal \in {"file", "folder"} -> t.act.to

\* Resolved by resolve_and_create_missing_ancestors.
Creating(t) == t.make = << >> /\ t.goal \in {"newParent", "file", "folder"}

\* std::fs::read comes before the upload.
Read(t, do) == IF IsFile(t.act.to) THEN [t EXCEPT !.do = do] ELSE Ended(t)

\* The task when the path has this id, and when `missing' has none on Drive.
Found(t, id) ==
  LET s == [t EXCEPT !.at = id]
  IN IF t.make # << >> THEN [s EXCEPT !.do = "make"]
     ELSE CASE t.goal = "source" -> IF Deletes(t.act) THEN [s EXCEPT !.do = "delete"]
                                    ELSE Resolve([s EXCEPT !.source = id], "oldParent")
            [] t.goal = "oldParent" -> Resolve([s EXCEPT !.old = id], "newParent")
            [] t.goal = "newParent" -> [s EXCEPT !.do = "move"]
            [] t.goal = "file" -> Read(s, "update")
            [] t.goal = "fileParent" -> Read(s, "create")
            [] t.goal = "folder" -> Ended(s)

\* Mutant: what was never on Drive is not uploaded when it is moved.
MissingSource_Move(t) == IF Deletes(t.act) THEN [t EXCEPT !.do = "forget"] ELSE Ended(t)

\* What is not on Drive under its old name is uploaded under the new one, and upload notes
\* its id.  move_object then notes the same id at the same path once more (sync.rs:419).
\* That is no step here: it changes nothing, but what another task, in a race, does to the
\* index between the two.
MissingSource(t) == IF Deletes(t.act) THEN [t EXCEPT !.do = "forget"] ELSE Resolve(t, "file")

Missing(t, missing) ==
  IF Creating(t) /\ (missing # Target(t) \/ IsDir(Target(t)))
  THEN [t EXCEPT !.make = missing, !.do = "look"]
  ELSE CASE t.make = << >> /\ t.goal = "file" -> Resolve(t, "fileParent")
         [] t.make = << >> /\ t.goal = "source" -> MissingSource(t)
         [] OTHER -> Ended(t)

\* Mutant: a file that was moved and written is only moved.
Uploaded_Once(t) == Ended(t)

\* After an upload or a move.
Uploaded(t) == IF t.again THEN Resolve([t EXCEPT !.again = FALSE], "file") ELSE Ended(t)

-----------------------------------------------------------------------------
(* Steps of tasks *)

Expired(t) == t.token < token \/ ~live
PassesBy(t) == t.do = "walk" /\ t.n < Len(Target(t)) /\ Known(Now, SubSeq(Target(t), 1, t.n))
Calling(t) ==
  \/ t.do \in {"make", "move", "update", "create", "delete"}
  \/ t.do = "walk" /\ ~PassesBy(t)

Goes(i, t) ==
  tasks' = IF t.do = "end" THEN Restrict(tasks, DOMAIN tasks \ {i}) ELSE [tasks EXCEPT ![i] = t]
Becomes(x) == entries' = x.entries /\ byPath' = x.byPath

\* The index becomes one of xs, and the task goes on; if there is none the task panics.
Indexed(i, xs, t) ==
  IF xs = {} THEN panicked' = TRUE /\ UNCHANGED <<tasks, index>>
  ELSE (\E x \in xs : Becomes(x)) /\ Goes(i, t) /\ UNCHANGED panicked

\* resolve_path, before any call.
Look(i) ==
  LET t == tasks[i]
  IN /\ t.do = "look"
     /\ Goes(i, IF Known(Now, Target(t)) THEN Found(t, IdOf(Now, Target(t)))
                ELSE [t EXCEPT !.do = "walk", !.n = 1, !.at = Root])
     /\ UNCHANGED <<scenario, window, remote, index, saved, chain, session, panicked,
                    bounded, history>>

PassBy(i) ==
  LET t == tasks[i]
  IN /\ PassesBy(t)
     /\ Goes(i, [t EXCEPT !.at = IdOf(Now, SubSeq(Target(t), 1, t.n)), !.n = @ + 1])
     /\ UNCHANGED <<scenario, window, remote, index, saved, chain, session, panicked,
                    bounded, history>>

NewId == made + 1
Object(parent, name, content) == [parent |-> parent, name |-> name, content |-> content]

\* Drive knows the ids of the call, and the folder that is moved is where the call says.
Exists(id) == id = Root \/ id \in DOMAIN drive
Accepted(t) ==
  CASE t.do \in {"walk", "make", "create"} -> Exists(t.at)
    [] t.do = "move" -> /\ t.source \in DOMAIN drive /\ drive[t.source].parent = t.old
                        /\ Exists(t.at) /\ t.at \notin Under(drive, t.source)
    [] t.do \in {"update", "delete"} -> t.at \in DOMAIN drive

\* Mutant: the kind of the last name is taken for all of them.
AsFolder_Last(t) == IsDir(Target(t))

\* What find_by_name looks for at the nth name.
AsFolder(t) == t.n < Len(Target(t)) \/ IsDir(Target(t))

\* Mutant: the ancestors that are found are not put into the index.
Noted_Last(t, path, id) == IF path = Target(t) THEN Put(Now, path, id) ELSE {Now}
Noted(t, path, id) == Put(Now, path, id)

\* The task when the nth name is found.
Onward(t, path, id) ==
  IF path = Target(t) THEN Found(t, id) ELSE [t EXCEPT !.at = id, !.n = @ + 1]

\* find_by_name: the objects of that kind with the name, and any of them.
Hits(t, name) ==
  {o \in Children(drive, t.at) : drive[o].name = name /\ (drive[o].content = Folder <=> AsFolder(t))}
Find(i) ==
  LET t == tasks[i]
      path == SubSeq(Target(t), 1, t.n)
      hits == Hits(t, Last(path))
  IN /\ t.do = "walk" /\ ~PassesBy(t) /\ ~Expired(t) /\ Accepted(t)
     /\ \/ /\ hits = {} /\ Goes(i, Missing(t, path))
           /\ UNCHANGED <<index, panicked>>
        \/ \E o \in hits : Indexed(i, Noted(t, path, o), Onward(t, path, o))
     /\ UNCHANGED <<scenario, window, remote, saved, chain, session, bounded, history>>

\* A call that changes Drive, when it succeeds.
Succeeds(i, do, objects, xs, t) ==
  /\ tasks[i].do = do /\ ~Expired(tasks[i]) /\ Accepted(tasks[i])
  /\ drive' = objects /\ Indexed(i, xs, t)
  /\ UNCHANGED <<scenario, window, saved, chain, session, bounded>>

\* resolve_and_create_missing_ancestors creates one folder and begins again.
MadeOnDrive(t) == With(drive, NewId, Object(t.at, Last(t.make), Folder))
Make(i) ==
  LET t == tasks[i]
  IN /\ made' = NewId /\ UNCHANGED history
     /\ Succeeds(i, "make", MadeOnDrive(t), Put(Now, t.make, NewId), Resolve(t, t.goal))

CreatedOnDrive(t) == With(drive, NewId, Object(t.at, Last(t.act.to), Local[t.act.to]))
Create(i) ==
  LET t == tasks[i]
  IN /\ made' = NewId /\ UNCHANGED history
     /\ Succeeds(i, "create", CreatedOnDrive(t), Put(Now, t.act.to, NewId), Uploaded(t))

UpdatedOnDrive(t) == [drive EXCEPT ![t.at] = Object(@.parent, @.name, Local[t.act.to])]
Update(i) ==
  LET t == tasks[i]
  IN /\ UNCHANGED <<made, history>>
     /\ Succeeds(i, "update", UpdatedOnDrive(t), Put(Now, t.act.to, t.at), Uploaded(t))

MovedOnDrive(t) ==
  [drive EXCEPT ![t.source] = Object(t.at, Last(t.act.to), drive[t.source].content)]

\* Another object has the name the move is to.
IsTaken(t) ==
  \E o \in Children(drive, t.at) : o # t.source /\ drive[o].name = Last(t.act.to)
Move(i) ==
  LET t == tasks[i]
  IN /\ UNCHANGED made /\ UNCHANGED calm
     /\ past' = past \union (IF IsTaken(t) THEN {"taken"} ELSE {})
     /\ Succeeds(i, "move", MovedOnDrive(t), PutAndReload(Now, t.act.to, t.source), Uploaded(t))

DeletedOnDrive(t) == Restrict(drive, DOMAIN drive \ Under(drive, t.at))
Delete(i) ==
  LET t == tasks[i]
  IN /\ UNCHANGED <<made, history>>
     /\ Succeeds(i, "delete", DeletedOnDrive(t), {Now}, [t EXCEPT !.do = "forget"])

\* delete_object_if_on_remote, deleted or not there.
Forget(i) ==
  LET t == tasks[i]
  IN /\ t.do = "forget" /\ Indexed(i, Removed(Now, t.act.to), Ended(t))
     /\ UNCHANGED <<scenario, window, remote, saved, chain, session, bounded, history>>

\* Drive does not know an id of the call: the task ends with an error, which is logged.
Refused(i) ==
  LET t == tasks[i]
  IN /\ Calling(t) /\ ~Expired(t) /\ ~Accepted(t)
     /\ Goes(i, Ended(t))
     /\ UNCHANGED <<scenario, window, remote, index, saved, chain, session, panicked,
                    bounded, history>>

\* The call fails, or it succeeds and the answer is lost.
Fails(i) ==
  LET t == tasks[i]
  IN /\ Calling(t) /\ ~Expired(t) /\ faults < MaxFaults /\ faults' = faults + 1
     /\ \/ UNCHANGED remote /\ Happens({"failure"})
        \/ /\ Accepted(t)
           /\ \/ t.do = "make" /\ drive' = MadeOnDrive(t) /\ made' = NewId
              \/ t.do = "create" /\ drive' = CreatedOnDrive(t) /\ made' = NewId
              \/ t.do = "update" /\ drive' = UpdatedOnDrive(t) /\ UNCHANGED made
              \/ t.do = "move" /\ drive' = MovedOnDrive(t) /\ UNCHANGED made
              \/ t.do = "delete" /\ drive' = DeletedOnDrive(t) /\ UNCHANGED made
           /\ Happens({"lostAnswer"})
     /\ Goes(i, Ended(t))
     /\ UNCHANGED <<scenario, window, index, saved, chain, session, panicked, crashes>>

\* The answer is 401: the action is parked, and a refresh starts if the token is the
\* current one and none is in flight.
Unauthorized(i) ==
  LET t == tasks[i]
  IN /\ Calling(t) /\ Expired(t)
     /\ parked' = Append(parked, t.act)
     /\ refreshing' = (refreshing \/ t.token = token)
     /\ Goes(i, Ended(t))
     /\ UNCHANGED <<scenario, window, remote, index, saved, chain, token, live, panicked,
                    bounded, history>>

TaskStep(i) ==
  \/ Look(i) \/ PassBy(i) \/ Find(i) \/ Make(i) \/ Create(i) \/ Update(i) \/ Move(i)
  \/ Delete(i) \/ Forget(i) \/ Refused(i) \/ Unauthorized(i)

-----------------------------------------------------------------------------
(* Windows, tokens and restarts *)

Save == [do |-> "save"]

\* ActionsReady: the tasks get the token of this moment, and the index is saved after
\* the last of them.
WindowEnds ==
  /\ ~panicked /\ window < Len(scenario.windows) /\ chain = << >> /\ tasks = << >>
  /\ window' = window + 1
  /\ LET actions == scenario.windows[window + 1].actions
     IN chain' = Append([i \in DOMAIN actions |-> Started(actions[i], token)], Save)
  /\ past' = past \union (IF parked = << >> THEN {} ELSE {"overtaken"}) /\ calm' = TRUE
  /\ UNCHANGED <<scenario, remote, index, saved, tasks, session, panicked, bounded>>

InChain == <<0, 0>>
Races(ts) == Happens(IF Cardinality(DOMAIN ts) > 1 THEN {"race"} ELSE {})

\* The next task of the chain begins when the one before it has ended, however it did.
NextOfChain ==
  /\ ~panicked /\ chain # << >> /\ InChain \notin DOMAIN tasks
  /\ chain' = Tail(chain)
  /\ IF Head(chain) = Save THEN saved' = entries /\ UNCHANGED <<tasks, history>>
     ELSE /\ tasks' = With(tasks, InChain, Head(chain)) /\ Races(tasks')
          /\ UNCHANGED saved
  /\ UNCHANGED <<scenario, window, remote, index, session, panicked, bounded>>

TokenExpires ==
  /\ live /\ token <= MaxExpiries /\ live' = FALSE
  /\ UNCHANGED <<scenario, window, remote, index, saved, chain, tasks, token, refreshing,
                 parked, panicked, bounded, history>>

\* AccessTokenRefreshed, and retry_intents: everything that is parked starts at once.
Refreshed ==
  /\ ~panicked /\ refreshing /\ refreshing' = FALSE
  /\ token' = token + 1 /\ live' = TRUE /\ parked' = << >>
  /\ tasks' = [k \in DOMAIN tasks \union {<<token', j>> : j \in DOMAIN parked} |->
                IF k \in DOMAIN tasks THEN tasks[k] ELSE Started(parked[k[2]], token')]
  /\ Races(tasks')
  /\ UNCHANGED <<scenario, window, remote, index, saved, chain, panicked, bounded>>

\* Nothing is under way.
Quiet == ~panicked /\ chain = << >> /\ tasks = << >> /\ parked = << >>

\* Boot refreshes the token and loads the index; what was under way is lost.
Restart ==
  /\ ~panicked /\ crashes < MaxCrashes /\ crashes' = crashes + 1
  /\ chain' = << >> /\ tasks' = << >> /\ parked' = << >>
  /\ refreshing' = FALSE /\ token' = token + 1 /\ live' = TRUE
  /\ (\E x \in Reloaded(saved) : Becomes(x))
  /\ Happens(IF Quiet /\ saved = entries THEN {} ELSE {"restart"})
  /\ UNCHANGED <<scenario, window, remote, saved, panicked, faults>>

-----------------------------------------------------------------------------
\* walk_directory_to_actions_bfs.  It passes over names that begin with a dot or contain
\* " .archived "; no folder of Scenarios has one.
Level(tree, n) == SetToSeq({p \in DOMAIN tree : Len(p) = n})
Walked(tree) == Level(tree, 1) \o Level(tree, 2) \o Level(tree, 3)

\* initial_sync has created every file and folder, and noted its id: Drive numbers them
\* as they are created.
IdAmong(paths, path) ==
  IF path = << >> THEN Root ELSE CHOOSE i \in DOMAIN paths : paths[i] = path
Init ==
  /\ scenario \in Scenarios /\ window = 0
  /\ LET paths == Walked(scenario.before)
         At(i) == IdAmong(paths, Front(paths[i]))
     IN /\ drive = [i \in DOMAIN paths |->
                      Object(At(i), Last(paths[i]), scenario.before[paths[i]])]
        /\ made = Len(paths)
        /\ entries = [i \in DOMAIN paths |->
                        [parent |-> At(i), name |-> Last(paths[i]), isDir |-> IsDir(paths[i])]]
        /\ byPath = [p \in DOMAIN scenario.before |-> IdAmong(paths, p)]
  /\ saved = entries /\ chain = << >> /\ tasks = << >> /\ parked = << >>
  /\ token = 1 /\ live = TRUE /\ refreshing = FALSE
  /\ panicked = FALSE /\ faults = 0 /\ crashes = 0 /\ past = {} /\ calm = TRUE

Next ==
  \/ ~panicked /\ \E i \in DOMAIN tasks : TaskStep(i) \/ Fails(i)
  \/ WindowEnds \/ NextOfChain \/ TokenExpires \/ Refreshed \/ Restart

Spec == Init /\ [][Next]_vars

-----------------------------------------------------------------------------
(* Properties *)

(* The unwrap of the parent in get_parent_id is "safe to unwrap here", says its comment: *)
(* the parent of what is put into the index is in the index, as long as no other task   *)
(* runs at the same time; failures, lost answers and restarts do not matter.            *)
PanicNeedsRace == panicked => "race" \in past

(* What is created on Drive was looked for: as long as no two tasks race, nothing is     *)
(* created next to an object of its name and kind.  What was created by a call whose     *)
(* answer was lost, or before a restart, is found again and not created twice.           *)
Twins(o, q) == /\ o.parent = q.parent /\ o.name = q.name
               /\ (o.content = Folder <=> q.content = Folder)
CreatesNoTwin ==
  []["race" \notin past =>
       \A o \in DOMAIN drive' \ DOMAIN drive, q \in DOMAIN drive : ~Twins(drive'[o], drive[q])]_vars

(* The index gives a path the object that is at this path on Drive; only what was just  *)
(* deleted is forgotten one step later.  Calls that fail do not matter; one that         *)
(* succeeds and seems to fail does, and a move to a name that a failed one has left      *)
(* taken.                                                                               *)
IndexIsTrue ==
  past \subseteq {"failure"} =>
    \A p \in DOMAIN byPath :
      \/ <<p, byPath[p]>> \in Reached(drive, Root)
      \/ \E i \in DOMAIN tasks : tasks[i].do = "forget" /\ IsPrefix(tasks[i].act.to, p)

OnDrive == {<<x[1], drive[x[2]].content>> : x \in Reached(drive, Root) \ {<< << >>, Root >>}}

(* When nothing is under way, and nothing went wrong but tokens that expired, Drive has *)
(* the files and folders of the watched folder, with their content: a task that was     *)
(* parked and tried again, alone and in its window, has the effect it would have had in *)
(* its place.                                                                           *)
Mirrors == Quiet /\ past = {} => OnDrive = TreeOf(Local)

(* A failed call costs the change it was made for, and no later one: what a later       *)
(* window uploads is on Drive when the window has ended, with its folders.  Excepted is *)
(* what comes after a move to a name that a failed call has left taken.                 *)
Written == {act \in Range(scenario.windows[window].actions) :
              act.kind \in {"Upload", "MoveAndUpload"}}
DeliveredAfterFailure ==
  Quiet /\ calm /\ window > 0 /\ past \subseteq {"failure"} =>
    \A act \in Written : <<act.to, Local[act.to]>> \in OnDrive

(* "Deletes the Drive object at `path`", says the comment of delete_object_if_on_remote. *)
(* Nothing is deleted from Drive at a path that the watched folder still has, also when *)
(* a call failed, and when the program was started again with nothing under way and its *)
(* index saved.  A move to a name that a failed call has left taken is excepted.         *)
DeletesOnlyWhatIsGone ==
  [][past \subseteq {"failure"} =>
     \A o \in DOMAIN drive \ DOMAIN drive' :
       \A x \in Reached(drive, Root) : x[2] = o => x[1] \notin DOMAIN Local]_vars
=============================================================================
