----------------------------- MODULE Dashboard -----------------------------
(***************************************************************************)
(* The owner's side of the program: creating the organization, inviting    *)
(* members, loading the dashboard and removing access (src/app/handlers/   *)
(* org.rs, src/services/org.rs, src/screens/org_dashboard.rs).             *)
(*                                                                         *)
(* A task is a sequence of requests to Drive; its answer is a message.     *)
(* Between any two of these steps other tasks advance, the token expires   *)
(* or the program stops.  The organization is a root folder of the owner,  *)
(* a member is a folder in it with a permission for the member's address.  *)
(* The model ends when the owner is signed out.                            *)
(***************************************************************************)
EXTENDS Naturals, Sequences, FiniteSets, SequencesExt, BagsExt

CONSTANTS
  Starts,       \* the user states the program is started in
  Emails,       \* the addresses
  Lists,        \* what the owner types: lists of addresses, each once
  Members,      \* those among them that may have been invited before
  NoAccount,    \* those among them that Drive does not accept
  MaxToken,     \* how many access tokens there are; the last one does not expire
  MaxLoads,     \* how often the dashboard is refreshed by a click
  MaxRuns,      \* how often invitations are sent
  MaxRevokes,   \* how often access is removed
  MaxFaults,    \* how many requests fail for another reason than the token
  MaxRestarts   \* how often the program is stopped and started again

ASSUME DashboardAssumption ==
  /\ Starts \subseteq {"SignedIn", "OrgCreated"}
  /\ \A list \in Lists : list \in Seq(Emails) /\ list # <<>> /\ IsInjective(list)
  /\ NoAccount \subseteq Emails
  /\ Members \subseteq Emails \ NoAccount
  /\ {MaxToken, MaxLoads, MaxRuns, MaxRevokes, MaxFaults, MaxRestarts} \subseteq Nat

VARIABLES
  userState,       \* UserState: "SignedIn", "OrgCreated" or "SignedOut"
  busy,            \* OrgSelectionScreen.loading
  token,           \* UserData.access_token
  expired,         \* the tokens Drive answers with 401
  pendingRefresh,  \* AppState.pending_refresh; here also: the refresh is in flight
  pendingIntents,  \* AppState.pending_intents, as a bag
  tasks,           \* the tasks in flight, as a bag
  rows,            \* OrgDashboardScreen.rows
  panel,           \* OrgDashboardScreen.invite_*
  orgs,            \* Drive: how many folders find_root_folder would find
  folders,         \* Drive: the folders of the organization
  used,            \* how often each bounded step was taken
  history          \* what the properties remember, see below

vars == <<userState, busy, token, expired, pendingRefresh, pendingIntents, tasks,
          rows, panel, orgs, folders, used, history>>

sessionVars == <<userState, token, expired, pendingRefresh>>
driveVars == <<orgs, folders>>

-----------------------------------------------------------------------------
(* Intents, tasks, rows *)

Plain(what) == [what |-> what]
SendInvitations(run, email) == [what |-> "invite", run |-> run, email |-> email]

FetchTask(t) == [kind |-> "fetch", token |-> t]
CreateTask(t) == [kind |-> "create", token |-> t, at |-> "search"]
LoadTask(t) ==
  [kind |-> "load", token |-> t, at |-> "list", todo |-> {}, read |-> <<>>, raced |-> {}]
InviteTask(t, run, email) ==
  [kind |-> "invite", token |-> t, at |-> "folder", run |-> run, email |-> email, folder |-> 0]
RevokeTask(t, f, id) ==
  [kind |-> "revoke", token |-> t, at |-> "delete", folder |-> f, id |-> id]

\* What run_intent starts for an intent.
TaskOf(i, t) ==
  CASE i.what = "fetch" -> FetchTask(t)
    [] i.what = "create" -> CreateTask(t)
    [] i.what = "load" -> LoadTask(t)
    [] OTHER -> InviteTask(t, i.run, i.email)

\* The intents run_intent has a case for in the present user state.
Runnable(i) ==
  \/ userState = "SignedIn" /\ i.what \in {"fetch", "create"}
  \/ userState = "OrgCreated" /\ i.what \in {"load", "invite"}

InFlight == BagToSet(tasks)
InFlightOf(kind) == {x \in InFlight : x.kind = kind}
Becomes(x, y) == tasks' = BagAdd(BagRemove(tasks, x), y)
Ends(x) == tasks' = BagRemove(tasks, x)

\* A row of the table.  The id of a permission is the one Drive lists, or, after an
\* invitation, the same with quotes: invite_user takes json_value["id"].to_string().
Row(f, id) == [folder |-> f, id |-> id, removing |-> FALSE]
FirstRow(k, f) == rows[k].folder = f /\ \A j \in 1 .. (k - 1) : rows[j].folder # f

\* OrgDashboardScreen::new, and the addresses of the run at work, which the screen
\* itself does not keep.
NewPanel == [sending |-> FALSE, queue |-> <<>>, nextRun |-> 1, log |-> {}, asked |-> {}]
RunOf(p) == p.nextRun - 1

Use(what) == used' = [used EXCEPT ![what] = @ + 1]

-----------------------------------------------------------------------------
(* What the properties remember *)

NewHistory ==
  [ raced |-> {},         \* folders a load and a change overlapped on, or whose change
                          \* was made but answered with an error
    twice |-> {},         \* addresses invited again: by the owner, or by a retry after
                          \* their folder had been created
    doubled |-> FALSE,    \* an intent was run again while or after it was answered
    forgotten |-> FALSE,  \* an invitation was refused and nothing will send it again
    blind |-> FALSE ]     \* a search for the organization failed

Remember(field, value) == [history EXCEPT ![field] = value]

\* A change of folder f, or of its row, while a load that has listed the folders is in
\* flight: the load may have read what is no longer so.
Reading(x) == x.kind = "load" /\ x.at # "list"
Race(x, f) == IF Reading(x) THEN [x EXCEPT !.raced = @ \union {f}] ELSE x

Copies(x, bag) == IF BagIn(x, bag) THEN bag[x] ELSE 0

\* All the loads of a bag of tasks.  Two that differ in f only are two of one kind then.
Raced(bag, f) ==
  [y \in {Race(x, f) : x \in BagToSet(bag)} |->
     Copies(y, bag) + IF Reading(y) THEN Copies([y EXCEPT !.raced = @ \ {f}], bag) ELSE 0]

\* A folder that is being shared, or unshared.
Changing(f) == \E x \in InFlightOf("invite") \union InFlightOf("revoke") : x.folder = f

-----------------------------------------------------------------------------
(* boot: as an owner with the dashboard, or signed in without an organization *)

Boot(u) ==
  /\ busy' = (u = "SignedIn")
  /\ pendingRefresh' = FALSE
  /\ pendingIntents' = SetToBag({Plain(IF u = "SignedIn" THEN "fetch" ELSE "load")})
  /\ tasks' = SetToBag({IF u = "SignedIn" THEN FetchTask(token) ELSE LoadTask(token)})
  /\ rows' = <<>>
  /\ panel' = NewPanel

Init ==
  /\ userState \in Starts
  /\ busy = (userState = "SignedIn")
  /\ token = 1
  /\ expired = {}
  /\ pendingRefresh = FALSE
  /\ pendingIntents = SetToBag({Plain(IF userState = "SignedIn" THEN "fetch" ELSE "load")})
  /\ tasks = SetToBag({IF userState = "SignedIn" THEN FetchTask(1) ELSE LoadTask(1)})
  /\ rows = <<>>
  /\ panel = NewPanel
  /\ orgs \in IF userState = "SignedIn" THEN {0, 1} ELSE {1}
  /\ \/ folders = <<>>
     \/ orgs = 1 /\ \E e \in Members : folders = <<[email |-> e, is |-> "shared"]>>
  /\ used = [what \in {"load", "run", "revoke", "fault", "restart"} |-> 0]
  /\ history = [NewHistory EXCEPT !.raced = DOMAIN folders,
                                  !.twice = {folders[f].email : f \in DOMAIN folders}]

\* The program is stopped, with whatever it has in flight, and started again.
Restart ==
  /\ userState # "SignedOut" /\ used["restart"] < MaxRestarts
  /\ Use("restart")
  /\ Boot(userState)
  /\ history' = Remember("raced", DOMAIN folders)
  /\ UNCHANGED <<userState, token, expired, driveVars>>

-----------------------------------------------------------------------------
(* The token *)

TokenExpires ==
  /\ userState # "SignedOut" /\ token < MaxToken /\ token \notin expired
  /\ expired' = expired \union {token}
  /\ UNCHANGED <<userState, busy, token, pendingRefresh, pendingIntents, tasks, rows,
                 panel, driveVars, used, history>>

\* handle_error for a 401 of token t.
HandleTokenExpired(t) == pendingRefresh' = (pendingRefresh \/ t = token)

\* An intent is run again although its request was answered, or is still at work.
AnsweredBefore(i) ==
  /\ i.what = "invite"
  /\ \/ \E ok \in BOOLEAN : <<i.run, i.email, ok>> \in panel.log
     \/ \E x \in InFlightOf("invite") : x.run = i.run /\ x.email = i.email

\* retry_intents: all are drained, the ones that fit the user state are run.
AccessTokenRefreshedOk ==
  /\ pendingRefresh /\ userState # "SignedOut"
  /\ token' = token + 1
  /\ pendingRefresh' = FALSE
  /\ pendingIntents' = EmptyBag
  /\ LET again == {i \in BagToSet(pendingIntents) : Runnable(i)}
         invited == {i.email : i \in {j \in again : j.what = "invite"}}
         started == [x \in {TaskOf(i, token + 1) : i \in again} |->
                       pendingIntents[CHOOSE i \in again : TaskOf(i, token + 1) = x]]
     IN  /\ tasks' = tasks (+) started
         /\ history' = [history EXCEPT
              !.doubled = @ \/ \E i \in again : AnsweredBefore(i),
              !.twice = @ \union {e \in invited : \E f \in DOMAIN folders : folders[f].email = e}]
  /\ UNCHANGED <<userState, busy, expired, rows, panel, driveVars, used>>

\* re_auth.  What the tasks do afterwards is not followed.
AccessTokenRefreshedErr ==
  /\ pendingRefresh /\ userState # "SignedOut"
  /\ userState' = "SignedOut"
  /\ tasks' = EmptyBag
  /\ UNCHANGED <<busy, token, expired, pendingRefresh, pendingIntents, rows, panel,
                 driveVars, used, history>>

\* A request of task x is answered 401 and changes nothing.  Until the answer is handled
\* the request might as well not have arrived, so both are one step.
Refused(x) == x.token \in expired /\ UNCHANGED used

\* A request is served, or fails for another reason, which may be that its answer was lost
\* after it had been served.
Served(x) == x.token \notin expired /\ UNCHANGED used
Fails(x) == x.token \notin expired /\ used["fault"] < MaxFaults /\ Use("fault")

-----------------------------------------------------------------------------
(* Creating the organization: get_or_create_organization *)

CreateOrgClicked ==
  /\ userState = "SignedIn" /\ ~busy
  /\ busy' = TRUE
  /\ pendingIntents' = BagAdd(pendingIntents, Plain("create"))
  /\ tasks' = BagAdd(tasks, CreateTask(token))
  /\ UNCHANGED <<sessionVars, rows, panel, driveVars, used, history>>

\* Mutant: the search asks for the folders of an application the program does not create.
OrgSearched_Miss(x) ==
  /\ x.kind = "create" /\ x.at = "search"
  /\ Served(x)
  /\ Becomes(x, [x EXCEPT !.at = "post"])
  /\ UNCHANGED <<sessionVars, busy, pendingIntents, rows, panel, driveVars, history>>

\* Any error of find_root_folder is taken for its absence.
OrgSearched(x) ==
  /\ x.kind = "create" /\ x.at = "search"
  /\ \/ Served(x) /\ Becomes(x, [x EXCEPT !.at = IF orgs > 0 THEN "created" ELSE "post"])
                  /\ UNCHANGED history
     \/ Fails(x) /\ Becomes(x, [x EXCEPT !.at = "post"]) /\ history' = Remember("blind", TRUE)
  /\ UNCHANGED <<sessionVars, busy, pendingIntents, rows, panel, driveVars>>

OrgPosted(x) ==
  /\ x.kind = "create" /\ x.at = "post"
  /\ \/ Served(x) /\ Becomes(x, [x EXCEPT !.at = "created"]) /\ orgs' = orgs + 1
     \/ Fails(x) /\ Becomes(x, [x EXCEPT !.at = "error"]) /\ orgs' \in {orgs, orgs + 1}
  /\ UNCHANGED <<sessionVars, busy, pendingIntents, rows, panel, folders, history>>

\* OrgCreated(Ok): org.json is written and the dashboard is loaded.
OnOrgCreatedOk(x) ==
  /\ x.kind = "create" /\ x.at = "created"
  /\ IF userState = "SignedIn"
     THEN /\ userState' = "OrgCreated"
          /\ rows' = <<>> /\ panel' = NewPanel
          /\ pendingIntents' = BagAdd(pendingIntents, Plain("load"))
          /\ Becomes(x, LoadTask(token))
     ELSE Ends(x) /\ UNCHANGED <<userState, rows, panel, pendingIntents>>
  /\ UNCHANGED <<busy, token, expired, pendingRefresh, driveVars, used, history>>

\* OrgCreated(Err) is handled in OrgCreated only.  When the search is refused, so is the
\* request to create a folder that follows it.
OnOrgCreatedErr(x) ==
  /\ x.kind = "create"
  /\ Ends(x)
  /\ \/ x.at = "error" /\ UNCHANGED <<pendingRefresh, used>>
     \/ /\ x.at \in {"search", "post"} /\ Refused(x)
        /\ IF userState = "OrgCreated" THEN HandleTokenExpired(x.token) ELSE UNCHANGED pendingRefresh
  /\ UNCHANGED <<userState, busy, token, expired, pendingIntents, rows, panel, driveVars, history>>

\* InvitationsLoaded, for an owner without invitations.
InvitationsLoaded(x) ==
  /\ x.kind = "fetch"
  /\ Ends(x)
  /\ \/ Served(x) /\ busy' = (busy /\ userState # "SignedIn") /\ UNCHANGED pendingRefresh
     \/ Fails(x) /\ UNCHANGED <<busy, pendingRefresh>>
     \/ /\ Refused(x) /\ UNCHANGED busy
        /\ IF userState = "SignedIn" THEN HandleTokenExpired(x.token) ELSE UNCHANGED pendingRefresh
  /\ UNCHANGED <<userState, token, expired, pendingIntents, rows, panel, driveVars, history>>

-----------------------------------------------------------------------------
(* Inviting: invite_user *)

\* InviteSendClicked: the button is disabled while a run is at work.  parse_emails keeps
\* each address once.
InviteSendClicked ==
  /\ userState = "OrgCreated" /\ ~panel.sending /\ used["run"] < MaxRuns
  /\ \E queue \in Lists :
       LET run == panel.nextRun
           known == {folders[f].email : f \in DOMAIN folders}
                      \union {x.email : x \in InFlightOf("invite")}
                      \union {i.email : i \in {j \in BagToSet(pendingIntents) : j.what = "invite"}}
       IN  /\ panel' = [panel EXCEPT !.sending = TRUE, !.queue = Tail(queue),
                                     !.nextRun = run + 1, !.asked = ToSet(queue)]
           /\ pendingIntents' = BagAdd(pendingIntents, SendInvitations(run, Head(queue)))
           /\ tasks' = BagAdd(tasks, InviteTask(token, run, Head(queue)))
           /\ history' = Remember("twice", history.twice \union (ToSet(queue) \intersect known))
  /\ Use("run")
  /\ UNCHANGED <<sessionVars, busy, rows, driveVars>>

NewFolder(email) == Append(folders, [email |-> email, is |-> "private"])

\* The folder of the member; an error may hide that it was created.
FolderPosted(x) ==
  /\ x.kind = "invite" /\ x.at = "folder"
  /\ \/ /\ Served(x)
        /\ folders' = NewFolder(x.email)
        /\ Becomes(x, [x EXCEPT !.at = "permission", !.folder = Len(folders) + 1])
     \/ /\ Fails(x)
        /\ Becomes(x, [x EXCEPT !.at = "error"])
        /\ folders' \in {folders, NewFolder(x.email)}
  /\ UNCHANGED <<sessionVars, busy, pendingIntents, rows, panel, orgs, history>>

\* The folder of x is shared, unshared or deleted while x goes on to `at'.
Change(x, at, is) ==
  /\ folders' = [folders EXCEPT ![x.folder].is = is]
  /\ tasks' = Raced(BagAdd(BagRemove(tasks, x), [x EXCEPT !.at = at]), x.folder)

\* A request of x fails: nothing has changed, or the change was made all the same.
FailsAt(x, is) ==
  /\ Fails(x)
  /\ \/ Becomes(x, [x EXCEPT !.at = "error"]) /\ UNCHANGED <<folders, history>>
     \/ /\ Change(x, "error", is)
        /\ history' = Remember("raced", history.raced \union {x.folder})

\* The permission for the member.
PermissionPosted(x) ==
  /\ x.kind = "invite" /\ x.at = "permission"
  /\ IF x.email \in NoAccount
     THEN /\ \/ Served(x) /\ Becomes(x, [x EXCEPT !.at = "undo"])
             \/ Fails(x) /\ Becomes(x, [x EXCEPT !.at = "error"])
          /\ UNCHANGED <<folders, history>>
     ELSE \/ Served(x) /\ Change(x, "granted", "shared") /\ UNCHANGED history
          \/ FailsAt(x, "shared")
  /\ UNCHANGED <<sessionVars, busy, pendingIntents, rows, panel, orgs>>

\* The address is not one of an account: the folder is deleted again, if that works.
FolderDeleted(x) ==
  /\ x.kind = "invite" /\ x.at = "undo"
  /\ \/ Served(x) /\ Change(x, "error", "deleted")
     \/ /\ Refused(x) \/ Fails(x)
        /\ Becomes(x, [x EXCEPT !.at = "error"])
        /\ UNCHANGED folders
  /\ UNCHANGED <<sessionVars, busy, pendingIntents, rows, panel, orgs, history>>

\* Mutant: the next address is looked at and not taken out of the queue.
Continue_Front(x, p) ==
  /\ IF p.queue = <<>>
     THEN /\ panel' = [p EXCEPT !.sending = FALSE]
          /\ UNCHANGED pendingIntents
          /\ tasks' = BagRemove(tasks, x)
     ELSE /\ panel' = p
          /\ pendingIntents' = BagAdd(pendingIntents, SendInvitations(x.run, Head(p.queue)))
          /\ tasks' = BagAdd(BagRemove(tasks, x), InviteTask(token, x.run, Head(p.queue)))

\* Mutant: the run is over as soon as the queue is empty, with the last address under way.
Continue_EndsEarly(x, p) ==
  IF p.queue = <<>>
  THEN panel' = p /\ UNCHANGED pendingIntents /\ tasks' = BagRemove(tasks, x)
  ELSE /\ panel' = [p EXCEPT !.queue = Tail(@), !.sending = Tail(p.queue) # <<>>]
       /\ pendingIntents' = BagAdd(pendingIntents, SendInvitations(x.run, Head(p.queue)))
       /\ tasks' = BagAdd(BagRemove(tasks, x), InviteTask(token, x.run, Head(p.queue)))

\* on_dashboard_invite_user_finished_continue: the next address of the queue, under the
\* number of the run that was answered, or the end of the run.
Continue(x, p) ==
  IF p.queue = <<>>
  THEN /\ panel' = [p EXCEPT !.sending = FALSE]
       /\ UNCHANGED pendingIntents
       /\ tasks' = Raced(BagRemove(tasks, x), x.folder)
  ELSE /\ panel' = [p EXCEPT !.queue = Tail(@)]
       /\ pendingIntents' = BagAdd(pendingIntents, SendInvitations(x.run, Head(p.queue)))
       /\ tasks' = Raced(BagAdd(BagRemove(tasks, x), InviteTask(token, x.run, Head(p.queue))),
                         x.folder)

Logged(x, sent) == [panel EXCEPT !.log = @ \union {<<x.run, x.email, sent>>}]

OnInviteUserFinishedOk(x) ==
  /\ x.kind = "invite" /\ x.at = "granted" /\ userState = "OrgCreated"
  /\ rows' = Append(rows, Row(x.folder, "quoted"))
  /\ Continue(x, Logged(x, TRUE))
  /\ UNCHANGED <<sessionVars, busy, driveVars, used, history>>

OnInviteUserFinishedErr(x) ==
  /\ x.kind = "invite" /\ x.at = "error" /\ userState = "OrgCreated"
  /\ Continue(x, Logged(x, FALSE))
  /\ UNCHANGED <<sessionVars, busy, rows, driveVars, used, history>>

\* Mutant: the error is taken off the screen's list and handle_error is not called.
OnInviteUserExpired_Silent(x) ==
  /\ x.kind = "invite" /\ x.at \in {"folder", "permission"} /\ userState = "OrgCreated"
  /\ Refused(x)
  /\ Ends(x)
  /\ UNCHANGED <<sessionVars, busy, pendingIntents, rows, panel, driveVars, history>>

\* The run waits for the retry of the intent, if it is still in the list.
OnInviteUserExpired(x) ==
  /\ x.kind = "invite" /\ x.at \in {"folder", "permission"} /\ userState = "OrgCreated"
  /\ Refused(x) /\ HandleTokenExpired(x.token)
  /\ Ends(x)
  /\ LET i == SendInvitations(x.run, x.email)
         waits == \/ BagIn(i, pendingIntents)
                  \/ \E y \in InFlightOf("invite") : y # x /\ y.run = x.run /\ y.email = x.email
                  \/ \E sent \in BOOLEAN : <<x.run, x.email, sent>> \in panel.log
     IN  history' = Remember("forgotten", history.forgotten \/ ~waits)
  /\ UNCHANGED <<userState, busy, token, expired, pendingIntents, rows, panel, driveVars>>

-----------------------------------------------------------------------------
(* The table: load_dashboard and revoke_user_folder_permission *)

StartLoad ==
  /\ used["load"] < MaxLoads
  /\ Use("load")
  /\ pendingIntents' = BagAdd(pendingIntents, Plain("load"))
  /\ tasks' = BagAdd(tasks, LoadTask(token))
  /\ UNCHANGED <<sessionVars, busy, rows, panel, driveVars, history>>

RefreshClicked == userState = "OrgCreated" /\ StartLoad

\* invite_can_done: the run has sent something and met no error.
CanDone ==
  /\ ~panel.sending
  /\ \E e \in Emails : <<RunOf(panel), e, TRUE>> \in panel.log
  /\ \A e \in Emails : <<RunOf(panel), e, FALSE>> \notin panel.log

InviteDoneClicked == userState = "OrgCreated" /\ CanDone /\ StartLoad

Listed == {f \in DOMAIN folders : folders[f].is # "deleted"}

FoldersListed(x) ==
  /\ x.kind = "load" /\ x.at = "list"
  /\ \/ Served(x) /\ Becomes(x, [x EXCEPT !.at = "read", !.todo = Listed])
     \/ Fails(x) /\ Becomes(x, [x EXCEPT !.at = "error"])
  /\ UNCHANGED <<sessionVars, busy, pendingIntents, rows, panel, driveVars, history>>

\* find_permission_id of one folder; a folder that is gone ends the load.
FolderRead(x, f) ==
  /\ x.kind = "load" /\ x.at = "read" /\ f \in x.todo /\ \A g \in x.todo : f <= g
  /\ \/ /\ Served(x) /\ f \in Listed
        /\ Becomes(x, [x EXCEPT !.todo = @ \ {f},
                                !.read = Append(@, Row(f, IF folders[f].is = "shared"
                                                          THEN "id" ELSE "none"))])
     \/ Served(x) /\ f \notin Listed /\ Becomes(x, [x EXCEPT !.at = "error"])
     \/ Fails(x) /\ Becomes(x, [x EXCEPT !.at = "error"])
  /\ UNCHANGED <<sessionVars, busy, pendingIntents, rows, panel, driveVars, history>>

\* DashboardLoaded(Ok): the rows are replaced.  They are sorted by the address; here their
\* order is that of the folders.
OnDashboardLoadedOk(x) ==
  /\ x.kind = "load" /\ x.at = "read" /\ x.todo = {}
  /\ rows' = x.read
  /\ history' = Remember("raced", x.raced \union {f \in DOMAIN folders : Changing(f)})
  /\ Ends(x)
  /\ UNCHANGED <<sessionVars, busy, pendingIntents, panel, driveVars, used>>

OnDashboardLoadedErr(x) ==
  /\ x.kind = "load"
  /\ Ends(x)
  /\ \/ x.at = "error" /\ UNCHANGED <<pendingRefresh, used>>
     \/ /\ x.at = "list" \/ x.todo # {}
        /\ Refused(x) /\ HandleTokenExpired(x.token)
  /\ UNCHANGED <<userState, busy, token, expired, pendingIntents, rows, panel, driveVars, history>>

\* set_removing changes the first row of the folder.
RemoveAccessClicked(k) ==
  /\ userState = "OrgCreated" /\ used["revoke"] < MaxRevokes
  /\ ~rows[k].removing /\ rows[k].id # "none"
  /\ rows' = [j \in DOMAIN rows |-> IF FirstRow(j, rows[k].folder)
                                   THEN [rows[j] EXCEPT !.removing = TRUE] ELSE rows[j]]
  /\ tasks' = BagAdd(tasks, RevokeTask(token, rows[k].folder, rows[k].id))
  /\ Use("revoke")
  /\ UNCHANGED <<sessionVars, busy, pendingIntents, panel, driveVars, history>>

\* Drive does not know the quoted id, nor one that was removed before.
PermissionDeleted(x) ==
  /\ x.kind = "revoke" /\ x.at = "delete"
  /\ LET known == x.id = "id" /\ folders[x.folder].is = "shared"
     IN  \/ known /\ Served(x) /\ Change(x, "revoked", "private") /\ UNCHANGED history
         \/ known /\ FailsAt(x, "private")
         \/ /\ ~known \/ x.token \in expired
            /\ Becomes(x, [x EXCEPT !.at = "error"])
            /\ UNCHANGED <<folders, history, used>>
  /\ UNCHANGED <<sessionVars, busy, pendingIntents, rows, panel, orgs>>

\* Mutant: the row is marked as revoked whatever the answer.
OnPermissionRevoked_AnyAnswer(x) ==
  /\ x.kind = "revoke" /\ x.at \in {"revoked", "error"}
  /\ rows' = [k \in DOMAIN rows |->
                IF FirstRow(k, x.folder) THEN Row(x.folder, "none") ELSE rows[k]]
  /\ tasks' = Raced(BagRemove(tasks, x), x.folder)
  /\ UNCHANGED <<sessionVars, busy, pendingIntents, panel, driveVars, used, history>>

\* Any error is shown, a 401 too: it starts no refresh.
OnPermissionRevoked(x) ==
  /\ x.kind = "revoke" /\ x.at \in {"revoked", "error"}
  /\ rows' = [k \in DOMAIN rows |->
                CASE FirstRow(k, x.folder) /\ x.at = "revoked" -> Row(x.folder, "none")
                  [] FirstRow(k, x.folder) /\ x.at = "error" -> [rows[k] EXCEPT !.removing = FALSE]
                  [] OTHER -> rows[k]]
  /\ tasks' = Raced(BagRemove(tasks, x), x.folder)
  /\ UNCHANGED <<sessionVars, busy, pendingIntents, panel, driveVars, used, history>>

-----------------------------------------------------------------------------
\* The next step of task x.
Step(x) ==
  \/ OrgSearched(x) \/ OrgPosted(x) \/ OnOrgCreatedOk(x) \/ OnOrgCreatedErr(x)
  \/ InvitationsLoaded(x)
  \/ FolderPosted(x) \/ PermissionPosted(x) \/ FolderDeleted(x)
  \/ OnInviteUserFinishedOk(x) \/ OnInviteUserFinishedErr(x) \/ OnInviteUserExpired(x)
  \/ FoldersListed(x) \/ \E f \in DOMAIN folders : FolderRead(x, f)
  \/ OnDashboardLoadedOk(x) \/ OnDashboardLoadedErr(x)
  \/ PermissionDeleted(x) \/ OnPermissionRevoked(x)

Click ==
  \/ CreateOrgClicked \/ InviteSendClicked \/ InviteDoneClicked \/ RefreshClicked
  \/ \E k \in DOMAIN rows : RemoveAccessClicked(k)

RefreshAnswer == AccessTokenRefreshedOk \/ AccessTokenRefreshedErr

Next ==
  \/ Click
  \/ \E x \in InFlight : Step(x)
  \/ RefreshAnswer
  \/ TokenExpires
  \/ Restart

\* Every request is answered and every message is delivered.  There are only so many of
\* them, so that whichever step is taken, all of them are taken in the end.
Fairness == WF_vars(RefreshAnswer \/ \E x \in InFlight : Step(x))

Spec == Init /\ [][Next]_vars /\ Fairness

-----------------------------------------------------------------------------
(* Properties *)

\* However a click, a retry and a restart overlap, a second organization is created only
\* when a search for the first one failed.
OneOrganization == orgs > 1 => history.blind

\* Two folders of one address: the owner invited it again, or its intent was run again
\* after its folder had been created.
TwinsNeedCause ==
  \A f, g \in Listed :
    f # g /\ folders[f].email = folders[g].email => folders[f].email \in history.twice

\* The table shows a member as having access exactly if Drive gives it, unless a load and
\* a change of that folder overlapped.
TableIsTrue ==
  \A f \in Listed \ history.raced :
    userState = "OrgCreated" /\ ~Changing(f)
      => (folders[f].is = "shared" <=> \E k \in DOMAIN rows : rows[k].folder = f /\ rows[k].id # "none")

\* When the panel offers Done, every address of the run was sent, and none is at work,
\* unless an intent had been run once too often.
DoneMeansSent ==
  CanDone /\ ~history.doubled
    => /\ \A e \in panel.asked : <<RunOf(panel), e, TRUE>> \in panel.log
       /\ InFlightOf("invite") = {}

\* A run of invitations ends, whatever token expires meanwhile, unless the intent of an
\* address had been used up when its request was refused.
InviteRunEnds ==
  panel.sending ~> \/ ~panel.sending
                   \/ history.forgotten \/ userState = "SignedOut"
=============================================================================
