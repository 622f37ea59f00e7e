------------------------------ MODULE Session ------------------------------
(***************************************************************************)
(* The session of the archive client: the user state machine of main.rs,   *)
(* the access token, the refresh of an expired token and the intents that  *)
(* are parked until the refresh has answered (src/app/update.rs and        *)
(* src/app/handlers).                                                      *)
(*                                                                         *)
(* The iced runtime calls `update' with one message at a time, so an       *)
(* action is one message handler.  The Tasks a handler returns run         *)
(* concurrently: `running' is the bag of tasks in flight, each with the    *)
(* access token it captured when it was started, and they answer in any    *)
(* order.  Drive answers 401 only to a token that has expired, but a task  *)
(* whose request was served in time may report success after its token     *)
(* has expired.                                                            *)
(***************************************************************************)
EXTENDS Naturals

CONSTANTS
  Ops,        \* the sync actions and external requests of one run of the program
  MaxToken,   \* how many access tokens the authorization server issues
  MaxCopies   \* how often a click may request the same thing at the same time

ASSUME SessionAssumption ==
  /\ MaxToken \in Nat \ {0}
  /\ MaxCopies \in Nat \ {0}
  /\ Ops \cap {"FetchInvitations", "CreateOrg", "LoadDashboard",
               "SendInvitations", "InitialSync"} = {}

VARIABLES
  userState,       \* UserState
  screen,          \* Screen
  busy,            \* SignInScreen.busy, OrgSelectionScreen.loading
  token,           \* UserData.access_token, 0 before the first sign-in
  pendingRefresh,  \* AppState.pending_refresh
  pendingIntents,  \* AppState.pending_intents, as a bag
  running,         \* the tasks in flight, as a bag of <<intent, token>>
  refreshing,      \* the token refresh requests in flight
  signingIn,       \* the browser sign-in is in flight
  minted,          \* how many tokens have been issued
  expired,         \* the tokens Drive answers with 401
  (* History: what became of each operation, and whether one was parked    *)
  (* by a 401 that started no refresh since the intents were last retried. *)
  fate,
  parkedLate

vars == <<userState, screen, busy, token, pendingRefresh, pendingIntents,
          running, refreshing, signingIn, minted, expired, fate, parkedLate>>

uiVars == <<userState, screen, busy>>
authVars == <<token, pendingRefresh, refreshing, signingIn, minted, expired>>

-----------------------------------------------------------------------------
(* Data *)

UserStates == {"SignedOut", "SignedIn", "OrgCreated", "OrgJoined", "OrgSynced"}
Screens == {"SignIn", "OrgSelection", "OrgDashboard", "OrgSync"}

\* Recorded before the request is sent, whatever it answers.
EagerIntents == {"FetchInvitations", "CreateOrg", "LoadDashboard", "SendInvitations"}

\* Recorded when the request has answered 401.
LazyIntents == {"InitialSync"} \union Ops

Intents == EagerIntents \union LazyIntents
Tokens == 1 .. MaxToken
Tasks == Intents \X Tokens
Fates == {"unseen", "owed", "done", "failed", "dropped"}

\* The user state in which run_intent runs an intent.
HomeState(i) ==
  CASE i \in {"FetchInvitations", "CreateOrg"} -> "SignedIn"
    [] i \in {"LoadDashboard", "SendInvitations"} -> "OrgCreated"
    [] i = "InitialSync" -> "OrgJoined"
    [] OTHER -> "OrgSynced"

\* The user state in which a 401 of the intent's task is handled.  The failure
\* of get_or_create_organization is matched in OrgCreated only, although the
\* request is made in SignedIn.
ErrorState(i) == IF i = "CreateOrg" THEN "OrgCreated" ELSE HomeState(i)

ScreenOf(u) ==
  CASE u = "SignedOut" -> "SignIn"
    [] u = "SignedIn" -> "OrgSelection"
    [] u = "OrgCreated" -> "OrgDashboard"
    [] OTHER -> "OrgSync"

Push(i) == [pendingIntents EXCEPT ![i] = @ + 1]
Started(tasks, i, t) == [tasks EXCEPT ![<<i, t>>] = @ + 1]
Answered(i, t) == [running EXCEPT ![<<i, t>>] = @ - 1]

\* A refresh was started, none is in flight: nothing will reset the flag.
Wedged == pendingRefresh /\ refreshing = 0

-----------------------------------------------------------------------------
(* The states `boot' can return: signed out, signed in without an org, owner *)
(* of an org, member before and after the initial sync.                      *)

BootIntents(u) ==
  CASE u = "SignedIn" -> {"FetchInvitations"}
    [] u = "OrgCreated" -> {"LoadDashboard"}
    [] OTHER -> {}

Init ==
  /\ userState \in UserStates
  /\ screen = ScreenOf(userState)
  /\ busy = (userState = "SignedIn")
  /\ token = IF userState = "SignedOut" THEN 0 ELSE 1
  /\ minted = token
  /\ pendingRefresh = FALSE
  /\ pendingIntents = [i \in Intents |-> IF i \in BootIntents(userState) THEN 1 ELSE 0]
  /\ running = [task \in Tasks |->
                  IF task[1] \in BootIntents(userState) /\ task[2] = token THEN 1 ELSE 0]
  /\ refreshing = 0
  /\ signingIn = FALSE
  /\ expired = {}
  /\ fate = [o \in Ops |-> "unseen"]
  /\ parkedLate = FALSE

-----------------------------------------------------------------------------
(* Signing in *)

SignInClicked ==
  /\ userState = "SignedOut" /\ screen = "SignIn" /\ ~busy
  /\ busy' = TRUE
  /\ signingIn' = TRUE
  /\ UNCHANGED <<userState, screen, token, pendingRefresh, pendingIntents,
                 running, refreshing, minted, expired, fate, parkedLate>>

AccessTokenReceivedOk ==
  /\ signingIn /\ userState = "SignedOut" /\ minted < MaxToken
  /\ signingIn' = FALSE
  /\ minted' = minted + 1
  /\ token' = minted + 1
  /\ userState' = "SignedIn"
  /\ screen' = "OrgSelection"
  /\ busy' = TRUE
  /\ pendingIntents' = Push("FetchInvitations")
  /\ running' = Started(running, "FetchInvitations", minted + 1)
  /\ UNCHANGED <<pendingRefresh, refreshing, expired, fate, parkedLate>>

\* The error is shown; the button stays disabled until it is dismissed.
AccessTokenReceivedErr ==
  /\ signingIn /\ userState = "SignedOut" /\ screen = "SignIn"
  /\ signingIn' = FALSE
  /\ UNCHANGED <<uiVars, token, pendingRefresh, pendingIntents, running,
                 refreshing, minted, expired, fate, parkedLate>>

ClearError ==
  /\ userState = "SignedOut" /\ screen = "SignIn" /\ busy /\ ~signingIn
  /\ busy' = FALSE
  /\ UNCHANGED <<userState, screen, authVars, pendingIntents, running, fate, parkedLate>>

-----------------------------------------------------------------------------
(* Requests made by a click, and by the watcher *)

\* The intent is pushed and its request sent with the current token.
RequestEagerly(i) ==
  /\ pendingIntents[i] < MaxCopies /\ running[<<i, token>>] < MaxCopies
  /\ pendingIntents' = Push(i)
  /\ running' = Started(running, i, token)

CreateOrgClicked ==
  /\ userState = "SignedIn" /\ screen = "OrgSelection" /\ ~busy
  /\ busy' = TRUE
  /\ RequestEagerly("CreateOrg")
  /\ UNCHANGED <<userState, screen, authVars, fate, parkedLate>>

\* Mutant: the flow comment of main.rs names a state that UserState does not have.
JoinOrgClicked_Syncing ==
  /\ userState = "SignedIn" /\ screen = "OrgSelection" /\ ~busy
  /\ userState' = "OrgSyncing"
  /\ screen' = "OrgSync"
  /\ UNCHANGED <<busy, authVars, pendingIntents, running, fate, parkedLate>>

JoinOrgClicked ==
  /\ userState = "SignedIn" /\ screen = "OrgSelection" /\ ~busy
  /\ userState' = "OrgJoined"
  /\ screen' = "OrgSync"
  /\ UNCHANGED <<busy, authVars, pendingIntents, running, fate, parkedLate>>

\* RefreshClicked and InviteDoneClicked.
LoadDashboardClicked ==
  /\ userState = "OrgCreated" /\ screen = "OrgDashboard"
  /\ RequestEagerly("LoadDashboard")
  /\ UNCHANGED <<uiVars, authVars, fate, parkedLate>>

InviteSendClicked ==
  /\ userState = "OrgCreated" /\ screen = "OrgDashboard"
  /\ RequestEagerly("SendInvitations")
  /\ UNCHANGED <<uiVars, authVars, fate, parkedLate>>

\* Starts the initial sync; selecting a folder again starts another one.
FolderSelected ==
  /\ userState = "OrgJoined" /\ screen = "OrgSync"
  /\ pendingIntents["InitialSync"] + running[<<"InitialSync", token>>] < MaxCopies
  /\ running' = Started(running, "InitialSync", token)
  /\ UNCHANGED <<uiVars, authVars, pendingIntents, fate, parkedLate>>

\* A batch of the watcher, or requests of the shell extensions: one task each,
\* with the token of this moment.  The tasks of a batch run one after the other
\* in the code; here a task that waits for its turn is a task that is slow.
ActionsReady(batch) ==
  /\ userState = "OrgSynced" /\ screen = "OrgSync"
  /\ batch # {} /\ \A o \in batch : fate[o] = "unseen"
  /\ fate' = [o \in Ops |-> IF o \in batch THEN "owed" ELSE fate[o]]
  /\ running' = [task \in Tasks |->
                   IF task[1] \in batch /\ task[2] = token
                   THEN running[task] + 1 ELSE running[task]]
  /\ UNCHANGED <<uiVars, authVars, pendingIntents, parkedLate>>

-----------------------------------------------------------------------------
(* Answers that are not 401 *)

InvitationsLoaded(t) ==
  /\ running[<<"FetchInvitations", t>>] > 0
  /\ running' = Answered("FetchInvitations", t)
  /\ busy' = IF userState = "SignedIn" THEN FALSE ELSE busy
  /\ UNCHANGED <<userState, screen, authVars, pendingIntents, fate, parkedLate>>

OrgCreated(t) ==
  /\ running[<<"CreateOrg", t>>] > 0
  /\ IF userState = "SignedIn"
     THEN /\ userState' = "OrgCreated"
          /\ screen' = "OrgDashboard"
          /\ busy' = FALSE
          /\ pendingIntents' = Push("LoadDashboard")
          /\ running' = Started(Answered("CreateOrg", t), "LoadDashboard", token)
     ELSE /\ running' = Answered("CreateOrg", t)
          /\ UNCHANGED <<uiVars, pendingIntents>>
  /\ UNCHANGED <<authVars, fate, parkedLate>>

\* An invitation was sent, or failed for another reason than the token: the
\* next address of the run is taken, if there is one.
InviteUserFinished(t, next) ==
  /\ running[<<"SendInvitations", t>>] > 0
  /\ IF userState = "OrgCreated" /\ next
     THEN /\ pendingIntents["SendInvitations"] < MaxCopies
          /\ pendingIntents' = Push("SendInvitations")
          /\ running' = Started(Answered("SendInvitations", t), "SendInvitations", token)
     ELSE /\ running' = Answered("SendInvitations", t)
          /\ UNCHANGED pendingIntents
  /\ UNCHANGED <<uiVars, authVars, fate, parkedLate>>

InitialSyncCompleted(t) ==
  /\ running[<<"InitialSync", t>>] > 0
  /\ running' = Answered("InitialSync", t)
  /\ userState' = IF userState = "OrgJoined" THEN "OrgSynced" ELSE userState
  /\ UNCHANGED <<screen, busy, authVars, pendingIntents, fate, parkedLate>>

\* The dashboard was loaded, or one of these requests failed for another reason
\* than the token: handle_error does nothing, so the session does not change.
AnsweredWithoutEffect(i, t) ==
  /\ i \in {"FetchInvitations", "CreateOrg", "LoadDashboard", "InitialSync"}
  /\ running[<<i, t>>] > 0
  /\ running' = Answered(i, t)
  /\ UNCHANGED <<uiVars, authVars, pendingIntents, fate, parkedLate>>

\* The change reached Drive, or failed for good: the failure is only logged.
OpFinished(o, t, outcome) ==
  /\ running[<<o, t>>] > 0
  /\ running' = Answered(o, t)
  /\ fate' = [fate EXCEPT ![o] = outcome]
  /\ UNCHANGED <<uiVars, authVars, pendingIntents, parkedLate>>

-----------------------------------------------------------------------------
(* Expired tokens *)

TokenExpires(t) ==
  /\ t <= minted /\ t < MaxToken /\ t \notin expired
  /\ expired' = expired \union {t}
  /\ UNCHANGED <<uiVars, token, pendingRefresh, pendingIntents, running,
                 refreshing, signingIn, minted, fate, parkedLate>>

\* Mutant: every 401 of the current token starts a refresh of its own.
HandleTokenExpired_NoFlag(t) ==
  IF t = token
  THEN pendingRefresh' = TRUE /\ refreshing' = refreshing + 1
  ELSE UNCHANGED <<pendingRefresh, refreshing>>

\* Mutant: the comparison of the tokens is the wrong way round.
HandleTokenExpired_OtherToken(t) ==
  IF t # token /\ ~pendingRefresh
  THEN pendingRefresh' = TRUE /\ refreshing' = refreshing + 1
  ELSE UNCHANGED <<pendingRefresh, refreshing>>

\* handle_error for a 401 of token t.  Its callers are signed in.
HandleTokenExpired(t) ==
  IF t = token /\ ~pendingRefresh
  THEN pendingRefresh' = TRUE /\ refreshing' = refreshing + 1
  ELSE UNCHANGED <<pendingRefresh, refreshing>>

\* A 401 in the user state that handles it: a sync action is parked, then the
\* refresh is started if the token is still the current one.
Unauthorized(i, t) ==
  /\ t \in expired /\ running[<<i, t>>] > 0
  /\ userState = ErrorState(i) /\ screen = ScreenOf(ErrorState(i))
  /\ running' = Answered(i, t)
  /\ pendingIntents' = IF i \in LazyIntents THEN Push(i) ELSE pendingIntents
  /\ parkedLate' = (parkedLate \/ (i \in LazyIntents /\ t # token))
  /\ HandleTokenExpired(t)
  /\ UNCHANGED <<uiVars, token, signingIn, minted, expired, fate>>

\* A 401 in any other user state is not handled: nothing remembers the request.
UnauthorizedIgnored(i, t) ==
  /\ t \in expired /\ running[<<i, t>>] > 0
  /\ userState # ErrorState(i)
  /\ running' = Answered(i, t)
  /\ fate' = [o \in Ops |-> IF o = i THEN "dropped" ELSE fate[o]]
  /\ UNCHANGED <<uiVars, authVars, pendingIntents, parkedLate>>

\* Mutant: the intents are run again but stay in the list (iter instead of drain).
RetryIntents_NoDrain(new) ==
  /\ UNCHANGED <<pendingIntents, parkedLate, fate>>
  /\ running' = [task \in Tasks |->
                   IF task[2] = new /\ HomeState(task[1]) = userState
                   THEN running[task] + pendingIntents[task[1]]
                   ELSE running[task]]

\* Mutant: the intents are drained and nothing is run.
RetryIntents_Forget(new) ==
  /\ pendingIntents' = [i \in Intents |-> 0]
  /\ parkedLate' = FALSE
  /\ UNCHANGED <<running, fate>>

\* retry_intents: every intent is drained; the ones that fit the user state are
\* started with the new token, the others are lost with a warning.
RetryIntents(new) ==
  /\ pendingIntents' = [i \in Intents |-> 0]
  /\ running' = [task \in Tasks |->
                   IF task[2] = new /\ HomeState(task[1]) = userState
                   THEN running[task] + pendingIntents[task[1]]
                   ELSE running[task]]
  /\ fate' = [o \in Ops |-> IF pendingIntents[o] > 0 /\ userState # "OrgSynced"
                            THEN "dropped" ELSE fate[o]]
  /\ parkedLate' = FALSE

AccessTokenRefreshedOk ==
  /\ refreshing > 0 /\ userState # "SignedOut" /\ minted < MaxToken
  /\ refreshing' = refreshing - 1
  /\ minted' = minted + 1
  /\ token' = minted + 1
  /\ pendingRefresh' = FALSE
  /\ RetryIntents(minted + 1)
  /\ UNCHANGED <<uiVars, signingIn, expired>>

\* Mutant: re_auth signs out and leaves the screen.
AccessTokenRefreshedErr_SameScreen ==
  /\ refreshing > 0 /\ userState # "SignedOut"
  /\ refreshing' = refreshing - 1
  /\ userState' = "SignedOut"
  /\ UNCHANGED <<screen, busy, token, pendingRefresh, pendingIntents, running,
                 signingIn, minted, expired, fate, parkedLate>>

\* Mutant: re_auth resets pending_refresh, and forgets the intents that wait for it.
AccessTokenRefreshedErr_ResetsFlag ==
  /\ refreshing > 0 /\ userState # "SignedOut"
  /\ refreshing' = refreshing - 1
  /\ pendingRefresh' = FALSE
  /\ userState' = "SignedOut"
  /\ screen' = "SignIn"
  /\ busy' = FALSE
  /\ UNCHANGED <<token, pendingIntents, running, signingIn, minted, expired, fate,
                 parkedLate>>

\* re_auth: sign out and show the sign-in screen.  Neither the flag nor the
\* intents are reset.
AccessTokenRefreshedErr ==
  /\ refreshing > 0 /\ userState # "SignedOut"
  /\ refreshing' = refreshing - 1
  /\ userState' = "SignedOut"
  /\ screen' = "SignIn"
  /\ busy' = FALSE
  /\ UNCHANGED <<token, pendingRefresh, pendingIntents, running, signingIn,
                 minted, expired, fate, parkedLate>>

-----------------------------------------------------------------------------
Click ==
  \/ SignInClicked \/ ClearError \/ CreateOrgClicked \/ JoinOrgClicked
  \/ LoadDashboardClicked \/ InviteSendClicked \/ FolderSelected

SignInAnswer == AccessTokenReceivedOk \/ AccessTokenReceivedErr

\* Everything the task <<i, t>> can answer.
Answer(i, t) ==
  \/ i = "FetchInvitations" /\ InvitationsLoaded(t)
  \/ i = "CreateOrg" /\ OrgCreated(t)
  \/ i = "SendInvitations" /\ \E next \in BOOLEAN : InviteUserFinished(t, next)
  \/ i = "InitialSync" /\ InitialSyncCompleted(t)
  \/ AnsweredWithoutEffect(i, t)
  \/ i \in Ops /\ \E outcome \in {"done", "failed"} : OpFinished(i, t, outcome)
  \/ Unauthorized(i, t)
  \/ UnauthorizedIgnored(i, t)

RefreshAnswer == AccessTokenRefreshedOk \/ AccessTokenRefreshedErr

Next ==
  \/ Click
  \/ SignInAnswer
  \/ \E batch \in SUBSET Ops : ActionsReady(batch)
  \/ \E i \in Intents, t \in Tokens : Answer(i, t)
  \/ \E t \in Tokens : TokenExpires(t)
  \/ RefreshAnswer

\* Every task runs to its end and its message is delivered; clicks, sign-ins,
\* file changes and the expiry of a token need not happen.
Fairness ==
  /\ \A i \in Intents, t \in Tokens : WF_vars(Answer(i, t))
  /\ WF_vars(RefreshAnswer)

Spec == Init /\ [][Next]_vars
FairSpec == Spec /\ Fairness

-----------------------------------------------------------------------------
(* Properties *)

TypeOK ==
  /\ userState \in UserStates
  /\ screen \in Screens
  /\ busy \in BOOLEAN
  /\ token \in 0 .. MaxToken
  /\ pendingRefresh \in BOOLEAN
  /\ pendingIntents \in [Intents -> Nat]
  /\ running \in [Tasks -> Nat]
  /\ refreshing \in Nat
  /\ signingIn \in BOOLEAN
  /\ minted \in 0 .. MaxToken
  /\ expired \in SUBSET Tokens
  /\ fate \in [Ops -> Fates]
  /\ parkedLate \in BOOLEAN

\* The screen shown is the one of the user state.  handle_message and the
\* handlers match on both, so a message would be lost without a trace otherwise.
ScreenFollowsUserState == screen = ScreenOf(userState)

\* However many tasks report the same expired token, at most one refresh is in
\* flight; while it is, the flag is set, the token it replaces has expired and the
\* user is signed in, so the "Impossible case" panic of on_access_token_refreshed_ok
\* is never reached.
SingleRefresh ==
  /\ refreshing <= 1
  /\ refreshing = 1 => /\ pendingRefresh
                       /\ userState # "SignedOut"
                       /\ token \in expired

\* An operation is in one place exactly as long as it is owed: it runs once, or it
\* is parked once.  It is never started twice, and never forgotten: it ends as done,
\* failed, or dropped.
NotRunning(o) == \A t \in Tokens : running[<<o, t>>] = 0
RunsOnce(o) ==
  \E t \in Tokens : \A u \in Tokens : running[<<o, u>>] = IF u = t THEN 1 ELSE 0

OwedExactlyOnce ==
  \A o \in Ops :
    \/ fate[o] = "owed" /\ pendingIntents[o] = 0 /\ RunsOnce(o)
    \/ fate[o] = "owed" /\ pendingIntents[o] = 1 /\ NotRunning(o)
    \/ fate[o] # "owed" /\ pendingIntents[o] = 0 /\ NotRunning(o)

\* A parked operation has a refresh at work for it, with two exceptions: the 401
\* that parked it came after the token had been replaced, or an earlier refresh
\* failed and left pending_refresh set.
ParkedHasRefresh ==
  \A i \in LazyIntents :
    pendingIntents[i] > 0 => refreshing = 1 \/ Wedged \/ parkedLate

\* A change that is parked when a failed refresh signs the user out is never run under
\* a later sign-in, which may be to another account: re_auth keeps pending_intents, and
\* what keeps retry_intents from them is that it keeps pending_refresh as well.
NotRunInNextSession ==
  \A o \in Ops :
    [](pendingIntents[o] > 0 /\ userState = "SignedOut" => []NotRunning(o))

\* Where an operation is, in the terms of Delivery.
Place(o) ==
  IF fate[o] # "owed" THEN fate[o]
  ELSE IF pendingIntents[o] > 0 THEN "waiting"
  ELSE IF NotRunning(o) THEN "lost" ELSE "working"

Promise == INSTANCE Delivery
  WITH place <- [o \in Ops |-> Place(o)], synced <- userState = "OrgSynced"

\* However tokens expire and are refreshed, the session does for its changes what
\* Delivery says: what is parked is taken up again as a whole, nothing is done twice or
\* given up while the session is synced.
ImplementsDelivery == Promise!Spec

\* While a refresh is in flight, what is parked is retried when it answers, or the
\* user is signed out.
ParkedIsRetried ==
  \A i \in LazyIntents :
    pendingIntents[i] > 0 /\ refreshing = 1
      ~> pendingIntents[i] = 0 \/ userState = "SignedOut"

\* A change is settled unless the session meets one of the two exceptions of
\* ParkedHasRefresh, or ends.
SettledOrNamedException ==
  \A o \in Ops :
    fate[o] = "owed"
      ~> \/ fate[o] \in {"done", "failed", "dropped"}
         \/ parkedLate \/ Wedged \/ userState = "SignedOut"

-----------------------------------------------------------------------------
(* What the documentation says, and the code does not do *)

\* README.md: the program "will automatically sync changes to Google Drive".  A 401 that
\* comes late is excepted; a refresh that failed is not.
SettledAfterNewSignIn ==
  \A o \in Ops : fate[o] = "owed" ~> fate[o] # "owed" \/ userState = "SignedOut" \/ parkedLate
=============================================================================
