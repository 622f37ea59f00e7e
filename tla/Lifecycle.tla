----------------------------- MODULE Lifecycle -----------------------------
(***************************************************************************)
(* What survives a restart: the three files of local_storage.rs            *)
(* (auth.json, org.json, file-index.json), the handlers that write them,   *)
(* and `boot', which rebuilds the user state from them.                    *)
(*                                                                         *)
(* save_object truncates a file and then writes it, a handler may save     *)
(* several files, and the program may stop between any two of these steps. *)
(* A file that is absent or was cut off does not parse, and load_object    *)
(* treats both alike: Unreadable.                                          *)
(***************************************************************************)
EXTENDS Naturals, Sequences

CONSTANTS
  Accounts,     \* Google accounts that sign in
  Folders,      \* local folders the user may select
  NoFolder,     \* no folder: local_folder_path = None, root_dir of the default index
  Unreadable,   \* a file that load_object cannot read
  MaxDialogs,   \* how many folder dialogs may be open at the same time
  MaxRestarts   \* how often the program is started again

VARIABLES
  disk,         \* the content of the files
  writes,       \* what the running handler has still to write, in order
  indexWrites,  \* what the task that saves the file index has still to write
  userState,    \* UserState, or "Panicked" when boot has panicked
  account,      \* UserData.email
  rootDir,      \* OrgSynced.root_dir
  indexRoot,    \* FileIndex.root_dir of the resolver
  mapped,       \* OrgSyncScreen.mapped_folder
  dialogs,      \* open folder dialogs
  syncing,      \* the initial syncs in flight, each with the session it is of
  batches,      \* the index roots of the batches that are in flight
  restarts,
  past          \* history: which of these happened, see Oddities

files == <<disk, writes, indexWrites>>
screenVars == <<mapped, dialogs>>
syncVars == <<rootDir, indexRoot, syncing, batches>>
history == <<restarts, past>>
vars == <<files, userState, account, screenVars, syncVars, history>>

-----------------------------------------------------------------------------
(* Files *)

Auth == [account : Accounts, role : {"None", "Owner", "User"}]
Org == [status : {"Created", "Ready"}, path : Folders \union {NoFolder},
        by : Accounts]  \* history: the account that created or joined it
FileName == {"auth", "org", "index"}
MaybeFolder == Folders \union {NoFolder}

\* What is in a file can be told from a file that cannot be read.
ASSUME LifecycleAssumption ==
  /\ NoFolder \notin Folders
  /\ Unreadable \notin Auth \union Org \union MaybeFolder
  /\ MaxDialogs \in Nat /\ MaxRestarts \in Nat

Sync == [folder : Folders, session : {"this", "earlier"}]

\* What a property may have to except: a stop with something not written yet; one inside
\* save_object of the profile, which leaves the file empty; a second folder selected while
\* one was mapped; an initial sync or a batch that ended when its session was over; a
\* role that boot took from the organization.
Oddities == {"unwritten", "cutOff", "reselected", "lateResult", "roleInferred"}

Readable(f) == disk[f] # Unreadable

\* save_object: File::create, then write_all.
Save(f, content) == << <<f, Unreadable>>, <<f, content>> >>

\* The next handler runs when the last one has written everything.
Idle == writes = << >>

WriteNext ==
  /\ ~Idle
  /\ disk' = [disk EXCEPT ![Head(writes)[1]] = Head(writes)[2]]
  /\ writes' = Tail(writes)
  /\ UNCHANGED <<indexWrites, userState, account, screenVars, syncVars, history>>

WriteIndexNext ==
  /\ indexWrites # << >>
  /\ disk' = [disk EXCEPT ![Head(indexWrites)[1]] = Head(indexWrites)[2]]
  /\ indexWrites' = Tail(indexWrites)
  /\ UNCHANGED <<writes, userState, account, screenVars, syncVars, history>>

-----------------------------------------------------------------------------
(* boot *)

\* The role boot takes the user to have, when both files can be read.
BootRole(d) ==
  IF d["auth"].role # "None" THEN d["auth"].role
  ELSE IF d["org"].path # NoFolder THEN "User" ELSE "Owner"

BootsSynced(d) ==
  BootRole(d) = "User" /\ d["org"].path # NoFolder /\ d["org"].status = "Ready"

BootState(d) ==
  CASE d["auth"] = Unreadable /\ d["org"] = Unreadable -> "SignedOut"
    [] d["auth"] # Unreadable /\ d["org"] = Unreadable -> "SignedIn"
    [] d["auth"] = Unreadable /\ d["org"] # Unreadable -> "Panicked"
    [] OTHER -> IF BootRole(d) = "Owner" THEN "OrgCreated"
                ELSE IF BootsSynced(d) THEN "OrgSynced" ELSE "OrgJoined"

\* The folder the sync screen shows as mapped after boot.
BootMapped(d) ==
  IF BootState(d) \in {"OrgJoined", "OrgSynced"} THEN d["org"].path ELSE NoFolder

\* FileIndex::load: the default index has an empty root_dir.
LoadedIndexRoot(d) == IF d["index"] = Unreadable THEN NoFolder ELSE d["index"]

\* The profile says nothing of a role.
RoleIsMissing(d) ==
  d["auth"] # Unreadable /\ d["org"] # Unreadable /\ d["auth"].role = "None"

\* save_object has truncated the profile and not written it.
InsideProfile == ~Idle /\ Head(writes)[1] = "auth" /\ Head(writes)[2] # Unreadable

\* The program stops at any moment, with whatever is written by then, and boots.
Restart ==
  /\ userState # "Panicked" /\ restarts < MaxRestarts
  /\ restarts' = restarts + 1
  /\ past' = past \union (IF Idle /\ indexWrites = << >> THEN {} ELSE {"unwritten"})
                  \union (IF InsideProfile THEN {"cutOff"} ELSE {})
                  \union (IF RoleIsMissing(disk) THEN {"roleInferred"} ELSE {})
  /\ userState' = BootState(disk)
  /\ account' = IF Readable("auth") THEN disk["auth"].account ELSE account
  /\ mapped' = BootMapped(disk)
  /\ dialogs' = 0
  /\ syncing' = {} /\ batches' = {}
  /\ IF BootState(disk) = "OrgSynced"
     THEN /\ rootDir' = disk["org"].path
          /\ indexRoot' = LoadedIndexRoot(disk)
     ELSE rootDir' = NoFolder /\ indexRoot' = NoFolder
  /\ writes' = IF RoleIsMissing(disk)
               THEN Save("auth", [disk["auth"] EXCEPT !.role = BootRole(disk)])
               ELSE << >>
  /\ indexWrites' = << >>
  /\ UNCHANGED disk

-----------------------------------------------------------------------------
(* Handlers *)

\* Mutant: the profile keeps the role of the one before.
SignIn_KeepsRole(a) ==
  /\ Idle /\ userState = "SignedOut"
  /\ userState' = "SignedIn"
  /\ account' = a
  /\ writes' = Save("auth", [account |-> a,
                             role |-> IF Readable("auth") THEN disk["auth"].role ELSE "None"])
  /\ UNCHANGED <<disk, indexWrites, screenVars, syncVars, history>>

\* on_access_token_received_ok: the profile is saved without a role; what org.json
\* holds from an earlier session stays.
SignIn(a) ==
  /\ Idle /\ userState = "SignedOut"
  /\ userState' = "SignedIn"
  /\ account' = a
  /\ writes' = Save("auth", [account |-> a, role |-> "None"])
  /\ UNCHANGED <<disk, indexWrites, screenVars, syncVars, history>>

\* Mutant: the files are removed, the profile before the organization.
SignOut_RemovesFiles ==
  /\ Idle /\ userState \in {"SignedIn", "OrgCreated", "OrgJoined", "OrgSynced"}
  /\ userState' = "SignedOut"
  /\ mapped' = NoFolder
  /\ rootDir' = NoFolder /\ indexRoot' = NoFolder
  /\ syncing' = {[s EXCEPT !.session = "earlier"] : s \in syncing}
  /\ writes' = << <<"auth", Unreadable>>, <<"org", Unreadable>> >>
  /\ UNCHANGED <<disk, indexWrites, account, dialogs, batches, history>>

\* re_auth, when the refresh has failed: nothing on disk changes.
SignOut ==
  /\ Idle /\ userState \in {"SignedIn", "OrgCreated", "OrgJoined", "OrgSynced"}
  /\ userState' = "SignedOut"
  /\ mapped' = NoFolder
  /\ rootDir' = NoFolder /\ indexRoot' = NoFolder
  /\ syncing' = {[s EXCEPT !.session = "earlier"] : s \in syncing}
  /\ UNCHANGED <<files, account, dialogs, batches, history>>

\* on_access_token_refreshed_ok: the new token is saved in the profile.
TokenRefreshed ==
  /\ Idle /\ userState \in {"SignedIn", "OrgCreated", "OrgJoined", "OrgSynced"}
  /\ writes' = IF Readable("auth") THEN Save("auth", disk["auth"]) ELSE << >>
  /\ UNCHANGED <<disk, indexWrites, userState, account, screenVars, syncVars, history>>

WithRole_Forgotten(role) == << >> \* mutant: the role is not saved

\* update_object of the profile, by which a handler saves the role.
WithRole(role) ==
  IF Readable("auth") THEN Save("auth", [disk["auth"] EXCEPT !.role = role]) ELSE << >>

\* update_object of the organization.
SetStatus(status) ==
  IF Readable("org") THEN Save("org", [disk["org"] EXCEPT !.status = status]) ELSE << >>
SetPath(f) ==
  IF Readable("org") THEN Save("org", [disk["org"] EXCEPT !.path = f]) ELSE << >>

OrgCreated ==
  /\ Idle /\ userState = "SignedIn"
  /\ userState' = "OrgCreated"
  /\ writes' = Save("org", [status |-> "Created", path |-> NoFolder, by |-> account])
               \o WithRole("Owner")
  /\ UNCHANGED <<disk, indexWrites, account, screenVars, syncVars, history>>

\* An existing mapping is kept, and shown as mapped.
JoinOrgClicked ==
  /\ Idle /\ userState = "SignedIn"
  /\ userState' = "OrgJoined"
  /\ LET path == IF Readable("org") THEN disk["org"].path ELSE NoFolder
     IN /\ writes' = Save("org", [status |-> "Created", path |-> path, by |-> account])
                     \o WithRole("User")
        /\ mapped' = path
  /\ UNCHANGED <<disk, indexWrites, account, dialogs, syncVars, history>>

\* The button is shown until a folder is mapped; the dialog runs beside the program.
BrowseFolderClicked ==
  /\ Idle /\ userState \in {"OrgJoined", "OrgSynced"}
  /\ mapped = NoFolder /\ dialogs < MaxDialogs
  /\ dialogs' = dialogs + 1
  /\ UNCHANGED <<files, userState, account, mapped, syncVars, history>>

FolderSelected(f) ==
  /\ Idle /\ dialogs > 0
  /\ dialogs' = dialogs - 1
  /\ IF userState \in {"OrgJoined", "OrgSynced"}
     THEN /\ mapped' = f
          /\ past' = past \union IF mapped \in {NoFolder, f} THEN {} ELSE {"reselected"}
          /\ writes' = SetPath(f)
          /\ syncing' = IF userState = "OrgJoined"
                        THEN syncing \union {[folder |-> f, session |-> "this"]} ELSE syncing
     ELSE UNCHANGED <<mapped, past, writes, syncing>>
  /\ UNCHANGED <<disk, indexWrites, userState, account, rootDir, indexRoot,
                 batches, restarts>>

SyncedWrites_NoIndex(f) == SetStatus("Ready") \* mutant: the index is not saved

\* Ready is saved first, then the index, then Ready again.
SyncedWrites(f) == SetStatus("Ready") \o Save("index", f) \o SetStatus("Ready")

\* The result does not say which session started the sync.
InitialSyncOk(s) ==
  /\ Idle /\ s \in syncing
  /\ syncing' = syncing \ {s}
  /\ IF userState = "OrgJoined"
     THEN /\ writes' = SyncedWrites(s.folder)
          /\ userState' = "OrgSynced"
          /\ rootDir' = s.folder /\ indexRoot' = s.folder
          /\ past' = past \union IF s.session = "earlier" \/ indexWrites # << >>
                                 THEN {"lateResult"} ELSE {}
     ELSE UNCHANGED <<writes, userState, rootDir, indexRoot, past>>
  /\ UNCHANGED <<disk, indexWrites, account, screenVars, batches, restarts>>

\* A failure other than an expired token: handle_error does nothing.
InitialSyncErr(s) ==
  /\ Idle /\ s \in syncing
  /\ syncing' = syncing \ {s}
  /\ UNCHANGED <<files, userState, account, screenVars, rootDir, indexRoot, batches,
                 history>>

\* on_sync_actions starts the tasks of a batch; the chain holds the resolver, and runs
\* on whatever becomes of the user state.
ActionsReady ==
  /\ Idle /\ userState = "OrgSynced"
  /\ batches' = batches \union {indexRoot}
  /\ UNCHANGED <<files, userState, account, screenVars, rootDir, indexRoot, syncing,
                 history>>

\* save_on_local, the last task of the chain, on a thread of its own.
SaveOnLocal(r) ==
  /\ r \in batches /\ indexWrites = << >>
  /\ batches' = batches \ {r}
  /\ indexWrites' = Save("index", r)
  /\ past' = past \union IF r = rootDir THEN {} ELSE {"lateResult"}
  /\ UNCHANGED <<disk, writes, userState, account, screenVars, rootDir, indexRoot,
                 syncing, restarts>>

-----------------------------------------------------------------------------
Init ==
  /\ disk = [f \in FileName |-> Unreadable]
  /\ writes = << >> /\ indexWrites = << >>
  /\ userState = BootState(disk)
  /\ account \in Accounts
  /\ rootDir = NoFolder /\ indexRoot = NoFolder /\ mapped = NoFolder
  /\ dialogs = 0 /\ syncing = {} /\ batches = {} /\ restarts = 0
  /\ past = {}

SyncAnswer(s) == InitialSyncOk(s) \/ InitialSyncErr(s)

Next ==
  \/ WriteNext \/ WriteIndexNext \/ Restart
  \/ \E a \in Accounts : SignIn(a)
  \/ SignOut \/ TokenRefreshed \/ OrgCreated \/ JoinOrgClicked \/ BrowseFolderClicked
  \/ \E f \in Folders : FolderSelected(f)
  \/ \E s \in Sync : SyncAnswer(s)
  \/ ActionsReady \/ \E r \in Folders \union {NoFolder} : SaveOnLocal(r)

Spec == Init /\ [][Next]_vars

-----------------------------------------------------------------------------
(* Properties *)

UserStates == {"SignedOut", "SignedIn", "OrgCreated", "OrgJoined", "OrgSynced"}
Contents ==
  [auth |-> Auth \union {Unreadable}, org |-> Org \union {Unreadable},
   index |-> MaybeFolder \union {Unreadable}]
Write == UNION {{f} \X Contents[f] : f \in FileName}

\* The types.
TypeOK ==
  /\ DOMAIN disk = FileName /\ \A f \in FileName : disk[f] \in Contents[f]
  /\ writes \in Seq(Write)
  /\ indexWrites \in Seq({"index"} \X Contents["index"])
  /\ userState \in UserStates \union {"Panicked"}
  /\ account \in Accounts
  /\ {rootDir, indexRoot, mapped} \subseteq MaybeFolder
  /\ dialogs \in 0 .. MaxDialogs
  /\ syncing \subseteq Sync /\ batches \subseteq MaybeFolder
  /\ restarts \in 0 .. MaxRestarts
  /\ past \subseteq Oddities

HasOrg == userState \in {"OrgCreated", "OrgJoined", "OrgSynced"}

\* Between two handlers, a program that has an organization comes back from a restart
\* in the same user state, showing the same folder: each handler has saved all that
\* boot reads, in whatever order sign-ins, orgs and folders came before. The exception
\* is a result of an earlier session, which may make a member synced with no folder.
RestartKeepsState ==
  Idle /\ HasOrg /\ "lateResult" \notin past
    => BootState(disk) = userState /\ BootMapped(disk) = mapped

\* boot panics (main.rs:287, "Impossible") only if an earlier stop fell inside save_object
\* of the profile, between File::create and write_all. A handler saves the organization
\* and the profile one after the other, and a stop anywhere else, between the two saves or
\* inside the one of the organization, leaves no organization without a profile, whatever
\* sign-ins, sign-outs and restarts came before.
PanicNeedsCutOffWrite == userState = "Panicked" => "cutOff" \in past

\* The file index belongs to the folder that is synced, unless a stop lost a write, a
\* second folder was selected or a result of another session was applied.
IndexOfRoot ==
  userState = "OrgSynced" /\ past \subseteq {"roleInferred"} => indexRoot = rootDir

\* "Role belongs to the user, not the organization" (main.rs:170): who is shown an
\* organization has created or joined it, across sign-outs, sign-ins of other accounts and
\* restarts. The exception is the heuristic of boot for a profile without a role: a
\* restart between a sign-in and the choice of an organization takes the one on disk for
\* the account's own, whoever made it.
RoleBelongsToUser ==
  Idle /\ HasOrg /\ "roleInferred" \notin past => disk["org"].by = account
=============================================================================
