# A formal model of archive-client-rs

`archive-client-rs` is a desktop program (Rust, iced) that watches a local folder and keeps
a copy of it in a folder of Google Drive. An extension of the Windows Explorer (C++) and one
of the macOS Finder (Swift) ask it for the archived versions of a file. These TLA+ modules
model the session of the program, what it keeps on disk, how it turns file system events
into actions, how the actions reach Drive, how an owner manages an organization, and both
ends of the connection to the Explorer. TLC checks them on small instances; TLAPS proves the
invariants of seven of them, and one refinement, for every value of the constants. Paths
below are relative to the repository's `src/`, and to `src/app/` where only a file of the
handlers is named.

## 1. The system

### Components, their state and operations

| Component | Source | State | Operations | What makes it correct |
|---|---|---|---|---|
| Session | `src/app/update.rs`, `message_handler.rs`, `handlers/auth.rs`, `handlers/org.rs`, `src/main.rs` | user state (signed out, signed in, owner, member, synced), screen, access token, `pending_refresh`, `pending_intents` | one handler per message; `handle_error` starts a refresh at a 401, `retry_intents` starts again what was parked | one refresh at a time; a change is run once, parked once, or settled; what is parked is tried again |
| Local storage, boot | `src/services/local_storage.rs`, `src/main.rs` | `auth.json`, `org.json`, `file-index.json` | `save_object`, `update_object`, `load_object`, `boot` | a restart comes back to the state the handlers left |
| Coalescing | `src/app/coalesce.rs` | the transaction of one archive window: entries by path and by inode | `append_*`, `to_sync_actions` | the actions give what the events gave; no "Impossible case" |
| Folder watcher | `src/app/subscriptions.rs`, `src/app/fs_index.rs` | batch of events, index of inodes | receive an event, end a window | no change is lost between windows |
| Archiving | `src/app/handlers/sync.rs`, `src/app/tasks.rs`, `src/services/drive.rs`, `http.rs` | a chain of tasks, the calls in flight | upload, move, delete, ensure folder, initial sync | Drive mirrors the folder; nothing else is touched |
| Resolver, file index | `src/services/resolver.rs`, `src/services/file_index.rs` | ids by path, entries by id, both behind one lock | resolve, resolve and create, put, move, remove, save, load | a path leads to its own object; no object twice |
| TCP server, external commands, revisions cache | `subscriptions.rs:20-120`, `handlers/external_commands.rs`, `tasks.rs`, `services/revisions_cache.rs` | the client being served, one-shot senders, tasks in flight, cache | accept, read, ask `update`, answer; list revisions; retry after a 401 | the server outlives its clients; a client gets its own answer; the cache has the newest list |
| Explorer extension, client | `windows/ArchiveContextMenu/ContextMenuHandler.cpp`, `SocketClient.cpp` | one handler per menu, one `last_status` for all | connect, send, receive, parse, build the menu, click | a menu shows the answer to its own request, whole |
| Explorer extension, library | `dllmain.cpp`, `ContextMenuHandler.cpp` | reference counts, count of the library, registry | COM calls of any thread; register, unregister | nothing is deleted twice, or unloaded while in use; a registration is whole |
| Organization service, dashboard | `services/org.rs`, `screens/org_dashboard.rs`, `handlers/org.rs` | Drive folders and permissions; rows, panel and queue of invitations on the screen | create, invite, load, remove access | one organization per owner; one folder per member; the table is that of Drive |
| OAuth server, notifications, views, Finder extension, JSON parser, logger, installers | `services/auth.rs`, `services/notify.rs`, `screens/`, `macos/`, `windows/` | - | - | not modelled, see section 7 |

### How they interact

The iced runtime calls `update` with one message at a time. A handler changes the state and
returns Tasks; these run concurrently on tokio and each delivers one message when it ends.
A Task captures the access token of the moment it was created. The watcher is a
subscription: it collects events, and when an archive window ends it sends `ActionsReady`,
which starts the actions of the window as one chain of Tasks, one after the other. The
tasks share the resolver and its index. The index is saved when the chain has ended.

The TCP server is a second subscription. It reads a command from one client at a time, sends
`update` a message that carries a one-shot sender, and waits for what comes out of it. The
handler of the message answers from the cache, or starts a Task, polls it once, and answers
"loading" when it is not done; the Task goes on and fills the cache. The Explorer
runs a handler per context menu, on a thread per window. All of them share the static
`SocketClient::last_status`. The extension reads `org.json` by itself to learn which folder
is watched.

### What is hard

* A 401 can come at any call of any task, several at once, early or late; all that is
  parked is started again at the same time, whatever order it had.
* Every call may fail, or succeed and lose its answer; nothing is tried again but 401s.
* The program may stop between two writes, two calls, or before the index is saved.
* A window may end in the middle of a change; a path or an inode may come again.
* The resolver decides with an index that other tasks, and earlier runs, have written.
* A client may stop waiting, die, or read a part of an answer, at any step of the server.
* Threads of the Explorer share objects, counts and a status without a lock.
* A load, a removal and a run of invitations overlap on one table and one Drive folder.

`PROJECT.json` lists each hazard at its line, with the properties that watch it.

## 2. Modules

| Module | Models | State and actions |
|---|---|---|
| `Session` | session, token refresh, intents | A task in flight is a pair of an intent and the token it captured; `running` and `pendingIntents` are bags. One action per handler, named after its message. Intents are either recorded before the request (`EagerIntents`) or after its 401 (`LazyIntents`). `fate` and `parkedLate` are history. |
| `Delivery` | what a session promises for its changes | Abstract: the `place` of each change (unseen, working, waiting, done, failed, dropped), and whether the session is synced. No tokens, tasks or refreshes. |
| `SessionProofs` | theorems about `Session` | section 5 |
| `Lifecycle`, `MCLifecycle` | local storage and boot | `disk` has three files; a save is two writes, the truncation and the content. A handler queues its writes; `Restart` may come between any two and is `boot`. The index has a second writer, the thread at the end of a batch. |
| `LifecycleProofs` | theorems about `Lifecycle` | section 5 |
| `Coalesce` | `EventsTransaction` | Pure operators, one per `append_*` method, and `ToSyncActions` with the covered moves, the covered deletes and the sort in the code's order. Panics are a field of the transaction. |
| `Watcher`, `MCWatcher` | `fs_watch` on top of `Coalesce` | The user's changes with their events are the environment; `Scanned`, `EventReceived` and `WindowEnds` are the code. `remote` is what the actions give if each does what its name says. |
| `Effects` | what the actions of a window are for | No code: what each action does to a tree at once (`Performed`, `Course`), and when the actions of a window are `Plain`. `Watcher` says with it what its actions are worth, `Archive` supposes it. |
| `Archive`, `MCArchive` | archiving, resolver, index | Drive is a function from ids to `[parent, name, content]`. A task is a small machine: which path it resolves (`goal`), how far (`n`, `at`), what comes next (`do`). A step is one lookup in the index or one call to Drive and the use of its answer. `MCArchive` computes the actions of its windows with `Coalesce`. |
| `ArchiveProofs`, `WindowProofs`, `MirrorProofs` | theorems about `Archive` | section 5 |
| `RevisionServer` | TCP server, external commands, cache | `server` is where the loop of `tcp_subscription` stands, `answer` the one-shot channel, `task` the tasks, `cache` the lists. A list of revisions is the number of revisions Drive had. A connection is a record the client shares with the server; its number also names the message, the answer and the task that come of it. |
| `ContextMenu` | the Explorer's handlers as clients | A handler goes step by step through `sendReceive` and the menu; `lastStatus` is shared, and `mixed` tells who reads in it what another request has left. |
| `Shell`, `MCShell` | the two above, composed | `ShellNext` is a step of the extension or of the program; they share connections, the backlog and `org.json`. |
| `ShellProofs` | theorems about `Shell` | section 5 |
| `Extension` | the library as a COM server | Threads call it on pointers; a step ends with an interlocked operation. The place of a deleted object is used again. |
| `Registration`, `MCExtension` | `DllRegisterServer`, `DllUnregisterServer` | Both are sequences of calls to the registry; each may fail unnoticed, and regsvr32 may be ended between two. `MCExtension` puts registration and library together. |
| `ExtensionProofs` | theorems about `Extension` and `MCExtension` | section 5 |
| `Dashboard`, `MCDashboard` | organization service, invitations, table | A task is a sequence of requests, in a bag; each step of it acts on Drive (`orgs`, `folders`), the last one is its message. `rows` and `panel` are the screen; `pendingIntents` is a bag, since an intent may be there twice. |
| `DashboardProofs` | theorems about `Dashboard` | section 5 |

`Coalesce` is written by hand from the code. It was compared with the 124 cases of the table
tests in `coalesce.rs`: it gives the expected actions in 118. The other six expect what the
code at this commit does not compute (their names:
parent_folder_renamed_then_nested_folder_renamed, parent_replaced_nested_folder_gone,
nested_folder_added_then_renamed, rename_parent_then_modify_file_in_nested,
nested_folder_created_file_created_then_parent_removed,
file_replaced_in_nested_folder_then_parent_renamed); there the module follows the code.

Deviations from the code, all deliberate:

* `Session` does not follow the content of operations: an operation is a name.
* `Coalesce` visits the children of a folder in a fixed order, the code in the order of a
  hash map; the sort is the insertion sort that the standard library uses up to 20 elements.
* `Watcher` leaves out that an empty window makes the next one longer. It starts when events
  can come; the scan is one step of its own, some time later: `FsIndex::scan` reads the folder
  entry by entry, and a change in the middle of it is as one before or after it.
* In `Archive` the upload's two requests are one call, the watched folder changes between
  windows only, and a window begins when the tasks of the one before have ended (what is
  parked may still be parked). Drive answers with an error when a call names an id it does
  not have. No path, of the folder or of an action, has more than three names. The initial
  sync is the initial state; it passes over names with a dot in front or " .archived " in them
  (`handlers/sync.rs:604`), and no scenario has one. `move_object` notes the id of what it has
  uploaded once more than `upload` does (`handlers/sync.rs:419`), which is no step of its own: it
  changes nothing unless another task, in a race, has changed the index in between, and every
  property excepts the race. A panic stops the model.
* A saved file that was cut off is in `Lifecycle` only; `Archive` restarts from a whole index.
* In `Shell` opening and connecting are one step; handlers are taken lowest number first; a
  cache entry that is too old is no entry; a folder is selected in the running session at
  most once; a sign-out counts as one of the faults. The command that asks for the
  watched folder has no state and is sent by the Finder only: it is left out. A first write to
  a client that is gone succeeds, as TCP takes it before the peer can refuse it.
* In `Extension` the answer of `DllCanUnloadNow` and the `FreeLibrary` that follows are one
  step. COM asks under its own locks, and keeps calls out between the two; nothing in this
  code does, and a call that a client made then on a factory it still has would find the
  library gone, counted or not.
* In `Dashboard` a request that meets a 401 and its answer are one step, a refresh that is
  in flight is `pendingRefresh`, and folders are read in the order of the list. The address
  shown at work, the error text, whether the panel is open, the audit log and the
  `active` column are left out; the model ends at a sign-out.

## 3. What is checked

| Run | Bounds | Properties |
|---|---|---|
| `session` | 3 operations, 3 tokens | `TypeOK`, `ScreenFollowsUserState`, `SingleRefresh`, `OwedExactlyOnce`, `ParkedHasRefresh`, `NotRunInNextSession`, `ImplementsDelivery`; under fairness `ParkedIsRetried`, `SettledOrNamedException` |
| `lifecycle` | 2 accounts, 2 folders, 2 dialogs, 2 restarts; accounts and folders are symmetric | `RoleBelongsToUser`, `RestartKeepsState`, `PanicNeedsCutOffWrite`, `IndexOfRoot` |
| `watcher` | one window, 4 changes of every kind in a tree of three levels, up to 2 of them before the scan, no path taken twice | `PanicNeedsReuse`, `Mirrors`, `FolderMovesFirst` |
| `watcher_split` | 3 windows that may end between any events, 3 changes, up to 2 of them before the scan, paths taken again, no renames, Windows | `PanicNeedsReuse`, `Mirrors` |
| `archive` | 5 scenarios of up to 3 windows; one token that expires, one call that fails or loses its answer and one restart, each at any moment | `IndexIsTrue`, `Mirrors`, `DeletesOnlyWhatIsGone` |
| `archive_faults` | 6 scenarios of up to 4 windows, 3 calls that fail or lose their answer, 2 restarts | `PanicNeedsRace`, `CreatesNoTwin`, `DeliveredAfterFailure` |
| `shell` | 2 menus, 2 files (one outside the root), 2 connections, 3 or 4 revisions, 1 fault | `PanicNeedsBrokenClient`, `ShowsOwnAnswer`, `ShownListIsWhole`, `MissingNeedsCause`, `CacheIsNewest` |
| `shell_live` | as before with 1 menu | `LoadingIsFollowedUp`, `ServerComesBack` |
| `extension` | 2 threads, 3 objects, 4 pointers, 1 lock; 1 failing call of each registration | `DeletedOnce`, `CountIsRight`, `HandlersKeepLibrary`, `RegistrationIsWhole` |
| `dashboard` | 2 addresses, 3 tokens, 1 run of invitations | `TwinsNeedCause`, `DoneMeansSent`; under fairness `InviteRunEnds` |
| `dashboard_table` | 2 addresses, 1 load by a click, 1 run, 1 removal, 1 failing request, 1 restart | `OneOrganization`, `TableIsTrue` |
| `session_wedged` | 1 operation, 3 tokens | `SettledAfterNewSignIn` (violated, see below) |

`ImplementsDelivery` is the refinement: `Session` implements `Delivery` when the place of an
operation is read off its fate, the parked intents and the running tasks (`Place`).

Why the bounds are enough to be of interest. Three tokens give an expired one, its
refreshed successor, and one of a later refresh or sign-in, so that a late 401, a failed
refresh and a new session all occur; a third operation is needed for one that is parked
late while another is retried. Two restarts give a state that was itself rebuilt by
`boot`. Four changes let an entry of the coalescing be changed by three events after it was
made. One expired token gives every cut of a chain into what was served, what was parked
and tried again, and what was parked too late. Two connections, two menus and one status
give every order of two writes and the reads between them; a list longer than the menu
shows (`MaxShown` is 1, `MAX_ELEMENTS_SHOWN` is 3 in the code) leads to the submenu entry
for the rest. Three objects are a factory and two handlers, four pointers leave one more than
there are objects, so that a count reaches two. Two addresses make a run with a first and a
next invitation, and with two expiries one that meets a second 401 after its retry.

The properties name their exceptions in their premise, through history variables
(`parkedLate`, `past`, `mixed`, `raced`, `broken`, `history`): each exception was first met
as a counterexample and then named as narrowly as the counterexample allowed. Section 6
tells what is behind each. So a property says nothing of the case it excepts: where a hazard has
such a case, its note in `PROJECT.json` says which, and the properties listed with it are those
that constrain the rest.

`PanicNeedsReuse` excepts paths that are taken again and files that come back on Windows; the run
`watcher` has neither, so there it says that no panic is met at all. `PanicNeedsCutOffWrite`
excepts one stop only, the one between the truncation and the write of the profile; stops anywhere
else are among those it speaks of. `ShowsOwnAnswer` excepts a menu that reads what another
request has left in `last_status`: because a handler has changed it since, or because its own
request got no socket and so left it as it was.

Fairness. `Session`: every task in flight ends with some answer and the refresh request is
answered (HTTP calls return or fail), and the runtime delivers messages. `Shell`
(`ShellFairness`): the loop of the server, the handler of its messages and the tasks go on,
and so does a menu, whose calls have timeouts (`SocketClient.cpp:40`, `:64`); nothing is
assumed of the user, of the refresh, or of the end of the session. `Dashboard`: requests
are answered and messages delivered. Nothing is assumed of file events or of tokens that
expire. The other modules state safety only, which needs no fairness.

Deadlock is not checked: the bounds on changes, windows, tokens, connections and restarts
make each model stop, and so may the real program, which has nothing to do until its user
acts. That a client waits for the server, and the server for `update`, cannot end
in a standstill is `ServerComesBack`.

### What the code does and its README excludes

* `session_wedged` - a refresh that fails signs the user out and leaves `pending_refresh`
  set (`update.rs:16`). In the next session no 401 starts a refresh, and every change that
  meets one stays parked until the program is restarted.

## 4. Mutants

For every property of a passing run `PROJECT.json` has a mutant: an operator next to a
definition, marked "Mutant:", which is that definition with a plausible bug (a flag that is
not reset, a cache that is not reloaded, an answer that is not sent, a count that is changed
too late). With the mutant in its place TLC finds the property violated.

## 5. What is proved

Each theorem holds for any value of the constants that the assumption of its module allows.
None uses fairness.

| Module | Theorem | Property |
|---|---|---|
| `SessionProofs` | `TypeCorrect` | `TypeOK` |
| | `ScreenCorrect` | `ScreenFollowsUserState` |
| | `RefreshIsSingle` | `SingleRefresh` |
| | `NothingLostOrDoubled` | `OwedExactlyOnce` |
| | `ParkedIsCovered` | `ParkedHasRefresh` |
| | `ParkedStaysBehind` | `NotRunInNextSession` |
| | `SessionImplementsDelivery` | `ImplementsDelivery` |
| `LifecycleProofs` | `TypeCorrect`, `Invariant` | `TypeOK`, the inductive invariant |
| | `PanicNeedsCutOff` | `PanicNeedsCutOffWrite` |
| | `RestartKeeps` | `RestartKeepsState` |
| | `RoleBelongs` | `RoleBelongsToUser` |
| | `IndexIsOfRoot` | `IndexOfRoot` |
| `ExtensionProofs` | `TypeCorrect` | `TypeOK` |
| | `ObjectsDeletedOnce` | `DeletedOnce` |
| | `LibraryCountIsRight` | `CountIsRight` |
| | `LibraryStays` | `HandlersKeepLibrary` |
| | `RegistrationLeavesAllOrNothing` | `RegistrationIsWhole` |
| `ArchiveProofs` | `PanicsNeedARace` | `PanicNeedsRace` |
| | `NothingIsCreatedTwice` | `CreatesNoTwin` |
| | `IndexLeadsHome` | `IndexIsTrue` |
| `WindowProofs` | `DeletesWhatIsGone` | `DeletesOnlyWhatIsGone` |
| | `DeliversAfterFailure` | `DeliveredAfterFailure` |
| `MirrorProofs` | `DriveMirrorsFolder` | `Mirrors` |
| `ShellProofs` | `PanicsHaveCause` | `PanicNeedsBrokenClient` |
| | `MenusShowTheirAnswer` | `ShowsOwnAnswer` |
| | `ListsAreWhole` | `ShownListIsWhole` |
| | `MenusAreThere` | `MissingNeedsCause` |
| | `CacheKeepsNewest` | `CacheIsNewest` |
| `DashboardProofs` | `OneOrganizationHolds` | `OneOrganization` |
| | `TwinsHaveACause` | `TwinsNeedCause` |
| | `DoneIsSent` | `DoneMeansSent` |
| | `TableShowsAccess` | `TableIsTrue` |

**Session** (`SessionAssumption`: the bounds are positive, and operations are no other
intents). The inductive invariant is `IInv`: `TypeOK`, `AuthInv`, `ParkedHasRefresh` and
`OwedExactlyOnce`. `SingleRefresh` is not inductive by itself: that the token of a running
refresh has expired needs `TokenInv` (tokens in use and tokens that have expired were
issued; a signed-in user has one; during a browser sign-in the user is signed out), and
that no refresh survives a sign-out needs the screen to follow the user state.
`TypeStep`, `AuthStep`, `ParkedStep` and `OwedStep` show for each part that every action
keeps it; frame lemmas (`AuthFrame`, `ParkedFrame`, `OwedFrame`) handle the many actions
that do not touch a part. `OwedStep` relies on lemmas about the bags: starting or
answering the task of one intent leaves the counts of the others alone.

`NotRunInNextSession` is about two moments, a sign-out and any later time, so it needs an
invariant of its own for the time between (`Stuck`): the change is parked, `pending_refresh` is set
and no refresh is in flight, so that `retry_intents`, the only one to start it, is never
called. That this is so at the sign-out is `OutInv`: a signed-out session that has something
parked has `pending_refresh` set. Were the flag reset without the intents, which is what the
violated run `session_wedged` asks for, the changes of one account would be run under
the token of the next; the mutant of the property is that change.

**Session implements Delivery.** The invariant above says for each operation where it is
(`PlacesRead`). Each action then moves a set of operations to a place, or none
(`MovedTo`, `SamePlaces`), and lemmas map these to the steps of `Delivery`. Only a retry,
which takes up all that is parked, and a new batch move several operations in one step.

**Lifecycle** (`LifecycleAssumption`: `Unreadable` is no profile, organization or folder).
What boot reads is what was written last, but the handlers' writes are still in a queue when
the state in memory is already the new one. So the invariant does not speak of `disk` but of
what a file finally holds (`FinalIn`): its last write in the queue, or what is on disk when
there is none. `ProfileInv`: a profile that cannot be read is written next (`ProfileNext`), and there is no
organization before its truncation, so that a stop either is inside `save_object` of the profile
or leaves files that boot takes. `StateInv`: the profile and the organization, once written, agree with the user
state, the mapped folder and the account. `ReadyInv`: an organization that is ready has a
folder. `RoleInv`: what is queued is of the account in memory, and no profile with a role is
written before its organization. `IndexOfRoot` needs `RootInv` (the folder in memory) and
`IndexInv` (both writers of the index leave the folder's own index, whatever they
interleave) on top.

**Extension** (`ExtensionAssumption`: finitely many objects and pointers, with `NoObject`
and `NoPointer` apart). `CountIsRight` is not inductive by itself: `RefInv` says that a
reference count is the number of pointers to the object, `CallInv` what each call in
progress holds, that no two calls create one object, and that an object without a pointer
is being deleted by exactly one thread; `UnloadedIsUncounted` that a library that is gone is
not counted.

**Registration.** Each function is a sequence of calls, so the invariant says what the calls
that are done have left: while none has failed, their entries are there (`WrittenInv`), or
their keys are empty (`DeletedInv`), whatever was there before. A registration never deletes,
so that what is there is no more than `Complete` is all that has to be known of its past.

**Archive** (`ArchiveAssumption`: the watched folder has finitely many files and folders, and
whatever is in it, its folder is there too; actions have a kind and paths; no path has more than three names, which is how deep the model
unrolls the recursion of `reload_cache_by_path`). `get_parent_id` unwraps the id of a parent
that nothing in it checks. So the invariant says why it is there: the paths of the index are
closed upwards (`IndexInv`), and the parent of what a task will put next is one of them
(`TasksInv`, `ParentIsKnown`). A walk keeps the second, since it puts every ancestor it finds; so
does the creation of ancestors from the top; and the first survives a reload, whatever ids
it starts from, because every path it gives was reached through its parent. All
of this holds for a task that runs alone (`Alone`): the invariant is void once there has
been a race, because between two steps of one task the other may take the parent out.
Failed calls, lost answers and restarts are covered.

`CreatesNoTwin` is about two moments: a walk has found nothing, and some steps later, when the
parent has been looked up, the call that creates is made. `SettledInv` carries the first
to the second: what a task will create is not in the index and not on Drive below the id the
index has for the parent (`IsNew`), and the id a task has in hand is that of the path it stands for
(`Placed`). No invariant on Drive is needed, so that also here lost answers and stale indexes
are covered.

`IndexIsTrue` needs to know what is on Drive. `ExactInv` says that the entries of the index cover
the objects of Drive (`Covers`), but for those a task has deleted and is about to forget (`Left`);
that no two entries have the same name in the same folder (`NoTwin`); and that the cache by path
has the paths of the entries and no other (`Leads`, `Complete`). What is not in the cache is
then not on Drive either, so that a new entry gets no twin; and what is below a path that is
forgotten is what is below the object that was deleted (`SurvivesErased`). `Covers` is no
equality: `FileIndex::remove` goes down from an entry only if it was a folder when it was put
(`is_dir`), so entries of objects that are gone may stay. Their folder is not in the index
any more, so no path leads to them (`CoversReached`). The paths of `Reached`
are followed down name by name, three times. That the initial sync leaves such an index
is proved as well (`InitExact`): the walk lists each path once, and the numbers of Drive are
their places in the list.

**What a window does to Drive** (`WindowProofs`; besides `ArchiveAssumption` both theorems
suppose `PlainWindows`). What is deleted or uploaded depends on the actions, so something has
to be known of them. `Plain` (in `Effects`) says it: after a window nothing is at, or below,
a path that one of its actions deletes or moves something from, and what one of them brings
somewhere is there, as a file or as a folder. It is the second half of `Watcher!Mirrors`:
TLC finds it of the actions that `Watcher` gives in the two runs of `Watcher`, with the
exceptions that property names, and TLC evaluates `PlainWindows` of the scenarios of `MCArchive`.

`DeletesOnlyWhatIsGone` looks at the moment of a delete call, but the path was resolved
some steps before. `WindowInv` says that what runs, is parked or waits in the chain is an
action of the window that is going on, and that a task does what its action asks for; `ExactInv`
gives the path at which Drive has the object. What goes with the object was below this path,
where a plain window leaves nothing.

`DeliveredAfterFailure` is about the end of a window. `DeliveryInv`: each action of the window
that uploads is under way (a task, parked, or in the chain), or Drive has what it uploads, at
its path and with its content. Two things have to be known for it. A task does not end
before it has uploaded: Drive refuses none of its calls, because of `SourcedInv` (the object a
task moves, and the folder it was in, are what the task found, and the new folder is not
below it). And no later step undoes it: another task may move a folder around the object,
write a file or delete another path, and for each call a lemma says where objects are
afterwards (`NewKeeps`, `UpdatedKeeps`, `DeletedKeeps`, `MoveKeeps`); a plain window deletes
and moves nothing from above what it uploads. Ids that Drive gives are new (`NewIdIsNew`),
but a task in hand may hold one that is gone, so the invariants are kept through failed calls too.
The exception "taken" was met in this proof (section 6).

**Drive mirrors the folder** (`MirrorProofs`; `DriveMirrorsFolder` supposes `PlainWindows` and
`WindowsLeadOn`, both of which TLC evaluates of the scenarios). `LeadsOn` is the first half of
`Watcher!Mirrors`: the actions of a window, each done at once, lead from the folder as it was
to the folder as it is, by trees that are no deeper than `Archive` unrolls. The theorem says
that the tasks, which do an action in several calls and may be parked between two of
them, come to the same. The invariant `CourseInv`: the list of what is parked, what runs
and what waits leads by `Course` from what is on Drive to the folder. At the end of a
window the list is empty, and what leads by no action to the folder is the folder.

That a step of a task keeps it is `StepsOn`: after a call as much is left for the action to do as
before, or the action has been done (`Performed`). For this `Performed` is proved to give
the same tree after its first calls as before them (a folder on the way may have been
created already, a move may have been made and its upload not yet), and
`TreeAfterNew`, `TreeAfterUpdate`, `TreeAfterCut` and `TreeAfterMove` say what the calls do to the
whole tree of Drive: it is not enough to follow one object, as it is in `DeliveryInv`.
`AllRooted` keeps it a tree: every object is reached from the root.

Tokens that expire make the order a question. An action is parked and those behind it go on;
`Mirrors` holds because none of them can succeed. What waits in the chain has the token
of the moment the window ended (`Elder`), so while something is parked everything behind it has
an expired one (`Held`). Only a task that makes no call can end then, and that is an
`EnsureFolder` whose folder is there; it can be left out of the list (`FolderLeftOut`). So
everything is parked in its order; what is tried again runs alone
(`past = {}` excludes "race", two at a time) and before the next window ("overtaken").

**Shell** (`ServerAssumption`: the bounds are numbers, and there is a file). `QueueInv`: a connection
is in one place, the backlog, at the server, or in the inbox, so that no answer can go to
another client. `LineInv`: a handler and its connection agree on the request.
`CauseInv` and `ErrorInv`: why a server has ended and why a client is told of an error.
`MenuInv`: what a menu shows, by the step its handler is at. `CacheInv`: the tasks of a file
that no two requests have fetched at once bring a list that is newer than the cached one.
The numbers of connections are handed out in order, the lowest first, so the proof takes
the minimum of those that are free (`NextIsFree`, from the well-foundedness of `<`).

**Dashboard** (`DashboardAssumption`: the lists that are invited are not empty and have no
address twice, as `parse_emails` leaves them). The invariant `Inv` has a part per concern.
`TokenInv`: which tokens have expired. `OrgInv`: while there is no organization one task runs
at a time, so that two searches never overlap. `TwinsInv`: an address that is not invited again
has one folder, or one request or intent that will create it. `QueueInv` and `DoneInv`: the run
at work has one address open, and the others are in the queue or in the log. `TableInv`:
the row of a member, the change that is under way and the folder on Drive agree, and so do
the rows a load has read so far, for every folder that no load has raced with. A load keeps
this although Drive changes under it, because each change notes its folder in all
loads that are reading (`Raced`, `RacedBag`); the bags of tasks and intents are handled by
lemmas on adding, removing and replacing one element.

Only model-checked:

* Liveness, which TLAPS does not reach: `ParkedIsRetried`, `SettledOrNamedException`,
  `LoadingIsFollowedUp`, `ServerComesBack`, `InviteRunEnds`.
* `Watcher`: `PanicNeedsReuse`, `Mirrors`, `FolderMovesFirst`. `Coalesce` has a recursive
  operator (the children of a removed folder), so `Coalesce`, `Watcher` and `MCArchive` are
  for TLC only.

## 6. What was met while modelling

These are the exceptions the properties name, and what is behind them.

Session and storage:

* A 401 that arrives after the token was replaced parks its action and starts no refresh
  (`update.rs:216`). A chain makes this likely: its tasks keep the token of the moment it
  was started (`SettledOrNamedException`: `parkedLate`).
* `boot` takes the role of a profile that has none from the `org.json` on disk, which may be
  another account's (`main.rs:170`; `past` has "roleInferred").
* Ready is saved before the index (`handlers/sync.rs:33`): a stop in between leaves a
  synced session with the default index, whose `root_dir` is empty ("unwritten"). A member whose
  folder was mapped and not synced is never synced after a restart (`main.rs:236`). A stop
  inside `save_object` of the profile (`local_storage.rs:18`) leaves the file empty, and `boot`
  panics at the organization that has no profile (`main.rs:287`; "cutOff").
* A second folder that is selected while one is mapped starts a second initial sync, and the
  index is of the one that ends last (`message_handler.rs:319`; "reselected"). The result of a
  sync of an earlier session is applied to the current one (`handlers/sync.rs:27`;
  "lateResult").
* A failed initial sync has uploaded a part, and the next one uploads it again
  (`handlers/sync.rs:426`). The batch of the watcher is in memory only: a stop loses it
  (`subscriptions.rs:167`).

Watcher and coalescing:

* A file that is removed, created again and then written makes the watcher panic with
  "Impossible case": `append_created_file` does not record the new inode (`coalesce.rs:666`;
  "reused").
* The sort of the actions leaves a folder's move behind an action on what it contains,
  when an action that has nothing to do with the folder is between them: its comparison is
  not transitive (`coalesce.rs:886`; "late").
* When a folder is renamed in the window in which something in it is removed, replaced or
  renamed, the actions of the children name paths by which Drive does not know them any
  more. An `EnsureFolder` or an upload below the new name may come before the move and
  create the folder a second time. A delete that the removal of a folder covers is left out
  also when its subfolder was moved out before ("nested").
* The inodes are scanned once (`subscriptions.rs:168`): a folder that is replaced is
  expanded with what was in it at the start ("unscanned"). The scan comes some time after the
  start of the watcher, whose events it overtakes: a folder that goes or is replaced in the window
  of such an event, in it or around it, is expanded to what it had at the scan, or to nothing
  ("early"). The other changes before the scan come out right in both runs.
* On Windows a file that leaves the folder and returns under another name is uploaded, and
  its copy under the old name stays (`coalesce.rs:658`; "came back").
* A path that is taken again while a window ends is not uploaded ("reused" with "cut").

Archiving:

* Two actions that are tried again at once: the move of a folder takes the parent of an
  upload out of the index, and `get_parent_id` unwraps it (`file_index.rs:145`). They
  may also create a folder twice, or leave the copy of a file at its old path ("race").
* An action that was parked late is tried again when the next token expires, after later
  windows: a removal then deletes what was made again at its path meanwhile ("overtaken").
* What `retry_intents` starts again (`update.rs:22`) is not saved in the index
  (`handlers/sync.rs:354`). After a restart the old name of a folder that was moved leads to
  the moved folder; when the user makes a folder of that name again and removes it, the
  moved one is deleted on Drive ("restart").
* A move does not look for its new name on Drive (`handlers/sync.rs:372`, `drive.rs:235`). Where an
  earlier call has failed and left something there, two objects have one name, the index keeps
  one of them under the path, and what is below the other cannot be reached ("taken"). The
  attempt to prove `IndexIsTrue` showed it; `NameLeftTaken` is the scenario. The attempts to
  prove the two properties of a window showed what comes of it, and TLC found both: an upload
  goes to the folder that the index does not keep, and the move of that file in the next
  window is refused; or an upload overwrites an object that was moved elsewhere, and its
  removal deletes it there.
* A name that is a file and becomes a folder in one window, or the other way, keeps its first
  kind (`append_created_folder`, `coalesce.rs:683`). The upload of a file that is no file ends,
  and Drive lacks what is there. No scenario of `MCArchive` has such a change.
* The answer to a delete call that is lost leaves a dead id in the index; every later
  action on that path ends with an error, until the index is thrown away.

TCP server and Explorer:

* A client that closes before its two bytes of length have arrived makes `read_u16_le` fail
  and its unwrap panic (`subscriptions.rs:44`); there is no server until the next session
  (`broken`).
* `last_status` is one static for all menus (`SocketClient.cpp:13`): the answer of one
  decides what another shows, and a request that gets no socket shows that of the one before it
  (`mixed`).
* A receive that times out after 200 ms ends the reading; what has arrived by then cannot be
  parsed, and is shown as an empty list.
* A revision without a size is sent as `null`; the parser throws at it and the list ends
  there (`Incomplete`).
* A folder that is selected in a running session changes `org.json`, which the Explorer
  reads, and not the root of the session: the task for a file outside of that root panics
  (`resolver.rs:159`), and the client is told of an error.
* Two requests of one file fetch its list at the same time, and the older one may be cached
  last (`raced`).
* The class factory is not counted in `g_dllRefCount`, nor is a handler between its `new`
  and its count: the library may be unloaded under them. `HandlersKeepLibrary` leaves
  exactly these out.

Dashboard:

* An intent recorded before its request stays after the request has succeeded: the next
  refresh sends the invitation again, which makes a second folder for the member and a
  second worker on the queue (`history.twice`, `history.doubled`).
* A retried invitation has no intent any more: when it meets a second 401 the run does not
  end, and the panel stays busy (`history.forgotten`).
* A 401 or an error between the requests of one invitation leaves a folder without its
  permission (`org.rs:126`).
* An error of the search for the organization is taken for its absence (`org.rs:226`), and a
  second one is made (`history.blind`).
* The id of a new permission is kept with the quotation marks of its JSON (`org.rs:158`):
  removing the access of a member invited a moment ago fails, until the table is loaded.
* An intent of an invitation may be parked when the owner clicks again for the same address:
  both create a folder. The model did not count this as a second invitation at first;
  the proof of `TwinsNeedCause` showed it, for two runs and one fault.
* A load that overlaps an invitation or a removal shows the older state, or a row twice
  (`history.raced`).
* `OrgCreated(Err)` is not handled while signed in: the screen stays loading
  (`handlers/org.rs:131`). The errors of the audit log and of a removal are shown, and a 401
  among them starts no refresh. Every 400 is taken for an address that cannot be invited.

## 7. Not modelled

* `windows/ArchiveContextMenu/json.hpp` is a third-party parser, 25 526 of the 26 094 lines
  of C and C++. The extension calls its `parse` and `value` once; `ContextMenu` has what
  the call gives (a list, a list that ends early, or nothing). The rest of the extension is
  modelled but for its drawing, its string conversions and its logger.
* The OAuth listener and the token exchange: one HTTP exchange without state of its own.
  `Session` has their two answers.
* Notifications and views: output. The buttons the views enable are guards in `Session`,
  `Lifecycle` and `Dashboard`.
* The Finder extension: a second client of the same server, with the same commands one at a
  time. The server is modelled, the Explorer stands for its clients.
* The audit log: a list that is shown as it comes.
* The installers: scripts around the two registration functions.

## 8. Plan

Done: all modules of section 2, and the proofs of section 5.

1. An abstract request (asked, answered, given up) that `Shell` implements.
2. `Watcher` with restarts and the batch that is lost; `Archive` with a folder that changes
   while its window is archived.
