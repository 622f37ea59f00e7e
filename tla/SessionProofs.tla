--------------------------- MODULE SessionProofs ---------------------------
(***************************************************************************)
(* What Session promises, for any set of operations, any number of tokens  *)
(* and any number of concurrent requests, and that it implements Delivery. *)
(***************************************************************************)
EXTENDS Session, TLAPS

\* The browser sign-in runs only while signed out, a signed-in user has a token,
\* and the token in use has been issued.
TokenInv ==
  /\ signingIn => userState = "SignedOut"
  /\ userState # "SignedOut" => token \in Tokens
  /\ token <= minted

IInv ==
  /\ TypeOK
  /\ TokenInv
  /\ ScreenFollowsUserState
  /\ SingleRefresh
  /\ ParkedHasRefresh
  /\ OwedExactlyOnce

-----------------------------------------------------------------------------
(* Operations are not the requests of the user interface. *)

LEMMA OpFacts ==
  ASSUME NEW o \in Ops
  PROVE  /\ o \notin EagerIntents
         /\ o # "InitialSync"
         /\ o \in Intents /\ o \in LazyIntents
         /\ HomeState(o) = "OrgSynced"
         /\ ErrorState(o) = "OrgSynced"
  BY SessionAssumption DEF EagerIntents, LazyIntents, Intents, HomeState, ErrorState

LEMMA LazyFacts ==
  ASSUME NEW i \in LazyIntents
  PROVE  i \notin EagerIntents /\ i \in Intents
  BY SessionAssumption DEF EagerIntents, LazyIntents, Intents

LEMMA NameFacts ==
  /\ {"FetchInvitations", "CreateOrg", "LoadDashboard", "SendInvitations"} \subseteq EagerIntents
  /\ "InitialSync" \in LazyIntents /\ "InitialSync" \notin Ops
  /\ EagerIntents \subseteq Intents
  BY SessionAssumption DEF EagerIntents, LazyIntents, Intents

-----------------------------------------------------------------------------
(* Initially *)

LEMMA BootFacts ==
  ASSUME NEW u PROVE BootIntents(u) \subseteq EagerIntents
  BY DEF BootIntents, EagerIntents

LEMMA InitIInv == Init => IInv
<1> SUFFICES ASSUME Init PROVE IInv
  OBVIOUS
<1>0. token \in 0 .. MaxToken
  BY SessionAssumption DEF Init
<1>1. \A i \in LazyIntents :
        pendingIntents[i] = 0 /\ \A t \in Tokens : running[<<i, t>>] = 0
  BY BootFacts, LazyFacts DEF Init, Tasks
<1>2. TypeOK
  <2>1. pendingIntents \in [Intents -> Nat]
    BY DEF Init
  <2>2. running \in [Tasks -> Nat]
    BY DEF Init
  <2>3. screen \in Screens
    BY DEF Init, ScreenOf, Screens
  <2>4. QED
    BY <1>0, <2>1, <2>2, <2>3 DEF Init, TypeOK, Fates
<1>3. TokenInv
  BY <1>0, SessionAssumption DEF Init, TokenInv, Tokens
<1>4. ScreenFollowsUserState /\ SingleRefresh
  BY DEF Init, ScreenFollowsUserState, SingleRefresh
<1>5. ParkedHasRefresh
  BY <1>1 DEF ParkedHasRefresh
<1>6. OwedExactlyOnce
  BY <1>1, OpFacts DEF Init, OwedExactlyOnce, NotRunning
<1> QED
  BY <1>2, <1>3, <1>4, <1>5, <1>6 DEF IInv

-----------------------------------------------------------------------------
(* Types *)

LEMMA BagFacts ==
  ASSUME TypeOK, NEW i \in Intents
  PROVE  /\ Push(i) \in [Intents -> Nat]
         /\ \A t \in Tokens : Started(running, i, t) \in [Tasks -> Nat]
         /\ \A t \in Tokens : running[<<i, t>>] > 0 => Answered(i, t) \in [Tasks -> Nat]
         /\ \A k \in Intents, t \in Tokens, u \in Tokens :
              running[<<k, t>>] > 0 => Started(Answered(k, t), i, u) \in [Tasks -> Nat]
  BY DEF TypeOK, Push, Started, Answered, Tasks

LEMMA TypeStep ==
  ASSUME TypeOK, TokenInv, [Next]_vars
  PROVE  TypeOK'
<1> USE DEF TypeOK
<1>1. CASE Click
  <2>1. CASE SignInClicked
    BY <2>1 DEF SignInClicked
  <2>2. CASE ClearError
    BY <2>2 DEF ClearError, authVars
  <2>3. CASE CreateOrgClicked
    BY <2>3, BagFacts, NameFacts DEF CreateOrgClicked, RequestEagerly, authVars, TokenInv
  <2>4. CASE JoinOrgClicked
    BY <2>4 DEF JoinOrgClicked, authVars, UserStates, Screens
  <2>5. CASE LoadDashboardClicked
    BY <2>5, BagFacts, NameFacts
    DEF LoadDashboardClicked, RequestEagerly, authVars, uiVars, TokenInv
  <2>6. CASE InviteSendClicked
    BY <2>6, BagFacts, NameFacts
    DEF InviteSendClicked, RequestEagerly, authVars, uiVars, TokenInv
  <2>7. CASE FolderSelected
    BY <2>7, BagFacts, NameFacts, LazyFacts DEF FolderSelected, authVars, uiVars, TokenInv
  <2> QED
    BY <1>1, <2>1, <2>2, <2>3, <2>4, <2>5, <2>6, <2>7 DEF Click
<1>2. CASE SignInAnswer
  <2>1. CASE AccessTokenReceivedOk
    <3>1. minted + 1 \in Tokens
      BY <2>1, SessionAssumption DEF AccessTokenReceivedOk, Tokens
    <3>2. pendingIntents' \in [Intents -> Nat] /\ running' \in [Tasks -> Nat]
      BY <2>1, <3>1, BagFacts, NameFacts DEF AccessTokenReceivedOk
    <3>3. minted' \in 0 .. MaxToken /\ token' \in 0 .. MaxToken
      BY <2>1, <3>1, SessionAssumption DEF AccessTokenReceivedOk, Tokens
    <3> QED
      BY <2>1, <3>2, <3>3 DEF AccessTokenReceivedOk, UserStates, Screens
  <2>2. CASE AccessTokenReceivedErr
    BY <2>2 DEF AccessTokenReceivedErr, uiVars
  <2> QED
    BY <1>2, <2>1, <2>2 DEF SignInAnswer
<1>3. ASSUME NEW batch \in SUBSET Ops, ActionsReady(batch)
      PROVE  TypeOK'
  <2>1. running' \in [Tasks -> Nat]
    BY <1>3 DEF ActionsReady
  <2>2. fate' \in [Ops -> Fates]
    BY <1>3 DEF ActionsReady, Fates
  <2> QED
    BY <1>3, <2>1, <2>2 DEF ActionsReady, authVars, uiVars
<1>4. ASSUME NEW i \in Intents, NEW t \in Tokens, Answer(i, t)
      PROVE  TypeOK'
  <2>1. CASE i = "FetchInvitations" /\ InvitationsLoaded(t)
    BY <2>1, BagFacts DEF InvitationsLoaded, authVars
  <2>2. CASE i = "CreateOrg" /\ OrgCreated(t)
    <3>1. CASE userState = "SignedIn"
      <4>1. pendingIntents' \in [Intents -> Nat] /\ running' \in [Tasks -> Nat]
        BY <2>2, <3>1, BagFacts, NameFacts DEF OrgCreated, TokenInv
      <4> QED
        BY <2>2, <3>1, <4>1 DEF OrgCreated, authVars, UserStates, Screens
    <3>2. CASE userState # "SignedIn"
      BY <2>2, <3>2, BagFacts DEF OrgCreated, authVars, uiVars
    <3> QED
      BY <3>1, <3>2
  <2>3. ASSUME NEW next \in BOOLEAN, i = "SendInvitations", InviteUserFinished(t, next)
        PROVE  TypeOK'
    BY <2>3, BagFacts DEF InviteUserFinished, authVars, uiVars, TokenInv
  <2>4. CASE i = "InitialSync" /\ InitialSyncCompleted(t)
    BY <2>4, BagFacts DEF InitialSyncCompleted, authVars, UserStates
  <2>5. CASE AnsweredWithoutEffect(i, t)
    BY <2>5, BagFacts DEF AnsweredWithoutEffect, authVars, uiVars
  <2>6. ASSUME NEW outcome \in {"done", "failed"}, i \in Ops, OpFinished(i, t, outcome)
        PROVE  TypeOK'
    <3>1. fate' \in [Ops -> Fates]
      BY <2>6 DEF OpFinished, Fates
    <3> QED
      BY <2>6, <3>1, BagFacts DEF OpFinished, authVars, uiVars
  <2>7. CASE Unauthorized(i, t)
    <3>1. refreshing' \in Nat /\ pendingRefresh' \in BOOLEAN
      <4>1. CASE t = token /\ ~pendingRefresh
        BY <2>7, <4>1 DEF Unauthorized, HandleTokenExpired
      <4>2. CASE ~(t = token /\ ~pendingRefresh)
        BY <2>7, <4>2 DEF Unauthorized, HandleTokenExpired
      <4> QED
        BY <4>1, <4>2
    <3>2. pendingIntents' \in [Intents -> Nat] /\ running' \in [Tasks -> Nat]
      BY <2>7, BagFacts DEF Unauthorized
    <3>3. parkedLate' \in BOOLEAN
      BY <2>7 DEF Unauthorized
    <3> QED
      BY <2>7, <3>1, <3>2, <3>3 DEF Unauthorized, uiVars
  <2>8. CASE UnauthorizedIgnored(i, t)
    <3>1. fate' \in [Ops -> Fates]
      BY <2>8 DEF UnauthorizedIgnored, Fates
    <3> QED
      BY <2>8, <3>1, BagFacts DEF UnauthorizedIgnored, authVars, uiVars
  <2> QED
    BY <1>4, <2>1, <2>2, <2>3, <2>4, <2>5, <2>6, <2>7, <2>8 DEF Answer
<1>5. ASSUME NEW t \in Tokens, TokenExpires(t)
      PROVE  TypeOK'
  BY <1>5 DEF TokenExpires, uiVars
<1>6. CASE RefreshAnswer
  <2>1. CASE AccessTokenRefreshedOk
    <3>1. pendingIntents' \in [Intents -> Nat]
      BY <2>1 DEF AccessTokenRefreshedOk, RetryIntents
    <3>2. running' \in [Tasks -> Nat]
      <4>1. \A task \in Tasks : task[1] \in Intents
        BY DEF Tasks
      <4> QED
        BY <2>1, <4>1 DEF AccessTokenRefreshedOk, RetryIntents
    <3>3. fate' \in [Ops -> Fates]
      BY <2>1 DEF AccessTokenRefreshedOk, RetryIntents, Fates
    <3>4. minted' \in 0 .. MaxToken /\ token' \in 0 .. MaxToken /\ refreshing' \in Nat
      BY <2>1, SessionAssumption DEF AccessTokenRefreshedOk
    <3> QED
      BY <2>1, <3>1, <3>2, <3>3, <3>4 DEF AccessTokenRefreshedOk, RetryIntents, uiVars
  <2>2. CASE AccessTokenRefreshedErr
    <3>1. refreshing' \in Nat
      BY <2>2 DEF AccessTokenRefreshedErr
    <3> QED
      BY <2>2, <3>1 DEF AccessTokenRefreshedErr, UserStates, Screens
  <2> QED
    BY <1>6, <2>1, <2>2 DEF RefreshAnswer
<1>7. CASE UNCHANGED vars
  BY <1>7 DEF vars
<1> QED
  BY <1>1, <1>2, <1>3, <1>4, <1>5, <1>6, <1>7 DEF Next

-----------------------------------------------------------------------------
(* Tokens, the screen, and the refresh.  Only the sign-in, the expiry of a *)
(* token, a 401 and the answer of a refresh touch them; the other actions  *)
(* move the user state among the signed-in states.                         *)

AuthInv == TokenInv /\ ScreenFollowsUserState /\ SingleRefresh

LEMMA AuthFrame ==
  ASSUME AuthInv, UNCHANGED authVars, ScreenFollowsUserState',
         userState' = "SignedOut" <=> userState = "SignedOut"
  PROVE  AuthInv'
BY DEF AuthInv, TokenInv, SingleRefresh, authVars

LEMMA AuthStep ==
  ASSUME TypeOK, AuthInv, [Next]_vars
  PROVE  AuthInv'
<1>1. CASE Click
  <2>1. CASE SignInClicked
    BY <2>1 DEF SignInClicked, AuthInv, TokenInv, SingleRefresh, ScreenFollowsUserState
  <2>2. CASE ClearError \/ CreateOrgClicked \/ JoinOrgClicked
    <3>1. ScreenFollowsUserState' /\ UNCHANGED authVars
      BY <2>2 DEF ClearError, CreateOrgClicked, JoinOrgClicked, AuthInv,
                  ScreenFollowsUserState, ScreenOf
    <3>2. userState' = "SignedOut" <=> userState = "SignedOut"
      BY <2>2 DEF ClearError, CreateOrgClicked, JoinOrgClicked
    <3> QED
      BY <3>1, <3>2, AuthFrame
  <2>3. CASE LoadDashboardClicked \/ InviteSendClicked \/ FolderSelected
    <3>1. ScreenFollowsUserState' /\ UNCHANGED <<authVars, uiVars>>
      BY <2>3 DEF LoadDashboardClicked, InviteSendClicked, FolderSelected, AuthInv,
                  ScreenFollowsUserState, uiVars
    <3> QED
      BY <3>1, AuthFrame DEF uiVars
  <2> QED
    BY <1>1, <2>1, <2>2, <2>3 DEF Click
<1>2. CASE SignInAnswer
  <2>1. CASE AccessTokenReceivedOk
    <3>1. refreshing = 0
      BY <2>1 DEF AccessTokenReceivedOk, AuthInv, SingleRefresh, TypeOK
    <3>2. token' \in Tokens /\ token' <= minted'
      BY <2>1, SessionAssumption DEF AccessTokenReceivedOk, Tokens, TypeOK
    <3> QED
      BY <2>1, <3>1, <3>2
      DEF AccessTokenReceivedOk, AuthInv, TokenInv, SingleRefresh, ScreenFollowsUserState, ScreenOf
  <2>2. CASE AccessTokenReceivedErr
    BY <2>2 DEF AccessTokenReceivedErr, AuthInv, TokenInv, SingleRefresh,
                ScreenFollowsUserState, uiVars
  <2> QED
    BY <1>2, <2>1, <2>2 DEF SignInAnswer
<1>3. ASSUME NEW batch \in SUBSET Ops, ActionsReady(batch)
      PROVE  AuthInv'
  <2>1. ScreenFollowsUserState' /\ UNCHANGED <<authVars, uiVars>>
    BY <1>3 DEF ActionsReady, AuthInv, ScreenFollowsUserState, uiVars
  <2> QED
    BY <2>1, AuthFrame DEF uiVars
<1>4. ASSUME NEW i \in Intents, NEW t \in Tokens, Answer(i, t)
      PROVE  AuthInv'
  <2>1. CASE Unauthorized(i, t)
    <3>1. userState # "SignedOut"
      BY <2>1 DEF Unauthorized, ErrorState, HomeState
    <3>2. CASE t = token /\ ~pendingRefresh
      BY <2>1, <3>1, <3>2
      DEF Unauthorized, HandleTokenExpired, AuthInv, TokenInv, SingleRefresh,
          ScreenFollowsUserState, uiVars, TypeOK
    <3>3. CASE ~(t = token /\ ~pendingRefresh)
      BY <2>1, <3>3
      DEF Unauthorized, HandleTokenExpired, AuthInv, TokenInv, SingleRefresh,
          ScreenFollowsUserState, uiVars
    <3> QED
      BY <3>2, <3>3
  <2>2. CASE i = "CreateOrg" /\ OrgCreated(t)
    <3>1. ScreenFollowsUserState' /\ UNCHANGED authVars
      BY <2>2 DEF OrgCreated, AuthInv, ScreenFollowsUserState, ScreenOf, uiVars
    <3>2. userState' = "SignedOut" <=> userState = "SignedOut"
      BY <2>2 DEF OrgCreated, uiVars
    <3> QED
      BY <3>1, <3>2, AuthFrame
  <2>3. CASE i = "InitialSync" /\ InitialSyncCompleted(t)
    <3>1. ScreenFollowsUserState' /\ UNCHANGED authVars
      BY <2>3 DEF InitialSyncCompleted, AuthInv, ScreenFollowsUserState, ScreenOf
    <3>2. userState' = "SignedOut" <=> userState = "SignedOut"
      BY <2>3 DEF InitialSyncCompleted
    <3> QED
      BY <3>1, <3>2, AuthFrame
  <2>4. CASE \/ i = "FetchInvitations" /\ InvitationsLoaded(t)
             \/ i = "SendInvitations" /\ \E next \in BOOLEAN : InviteUserFinished(t, next)
             \/ AnsweredWithoutEffect(i, t)
             \/ i \in Ops /\ \E outcome \in {"done", "failed"} : OpFinished(i, t, outcome)
             \/ UnauthorizedIgnored(i, t)
    <3>1. UNCHANGED <<authVars, userState, screen>>
      BY <2>4 DEF InvitationsLoaded, InviteUserFinished, AnsweredWithoutEffect,
                  OpFinished, UnauthorizedIgnored, uiVars
    <3>2. ScreenFollowsUserState'
      BY <3>1 DEF AuthInv, ScreenFollowsUserState
    <3> QED
      BY <3>1, <3>2, AuthFrame
  <2> QED
    BY <1>4, <2>1, <2>2, <2>3, <2>4 DEF Answer
<1>5. ASSUME NEW t \in Tokens, TokenExpires(t)
      PROVE  AuthInv'
  BY <1>5 DEF TokenExpires, AuthInv, TokenInv, SingleRefresh, ScreenFollowsUserState,
              uiVars, Tokens, TypeOK
<1>6. CASE RefreshAnswer
  <2>1. CASE AccessTokenRefreshedOk
    <3>1. refreshing' = 0
      BY <2>1 DEF AccessTokenRefreshedOk, AuthInv, SingleRefresh, TypeOK
    <3>2. token' \in Tokens /\ token' <= minted'
      BY <2>1, SessionAssumption DEF AccessTokenRefreshedOk, Tokens, TypeOK
    <3> QED
      BY <2>1, <3>1, <3>2
      DEF AccessTokenRefreshedOk, AuthInv, TokenInv, SingleRefresh,
          ScreenFollowsUserState, uiVars
  <2>2. CASE AccessTokenRefreshedErr
    <3>1. refreshing' = 0
      BY <2>2 DEF AccessTokenRefreshedErr, AuthInv, SingleRefresh, TypeOK
    <3> QED
      BY <2>2, <3>1
      DEF AccessTokenRefreshedErr, AuthInv, TokenInv, SingleRefresh,
          ScreenFollowsUserState, ScreenOf
  <2> QED
    BY <1>6, <2>1, <2>2 DEF RefreshAnswer
<1>7. CASE UNCHANGED vars
  BY <1>7 DEF vars, AuthInv, TokenInv, SingleRefresh, ScreenFollowsUserState
<1> QED
  BY <1>1, <1>2, <1>3, <1>4, <1>5, <1>6, <1>7 DEF Next

-----------------------------------------------------------------------------
(* What is parked: only a 401 adds to it, and then either starts a refresh, *)
(* or finds one in flight, or the flag left over, or is late.               *)

LEMMA ParkedFrame ==
  ASSUME ParkedHasRefresh, UNCHANGED <<pendingRefresh, refreshing, parkedLate>>,
         \A i \in LazyIntents : pendingIntents'[i] = pendingIntents[i]
  PROVE  ParkedHasRefresh'
BY DEF ParkedHasRefresh, Wedged

\* An intent pushed when the request is made is not one of those parked by a 401.
LEMMA EagerPush ==
  ASSUME TypeOK, NEW i \in EagerIntents, pendingIntents' = Push(i)
  PROVE  \A k \in LazyIntents : pendingIntents'[k] = pendingIntents[k]
BY LazyFacts, NameFacts DEF TypeOK, Push

LEMMA ParkedStep ==
  ASSUME TypeOK, AuthInv, ParkedHasRefresh, [Next]_vars
  PROVE  ParkedHasRefresh'
<1>1. CASE Click
  <2>1. UNCHANGED <<pendingRefresh, refreshing, parkedLate>>
    BY <1>1 DEF Click, SignInClicked, ClearError, CreateOrgClicked, JoinOrgClicked,
                LoadDashboardClicked, InviteSendClicked, FolderSelected, authVars
  <2>2. \/ UNCHANGED pendingIntents
        \/ \E i \in EagerIntents : pendingIntents' = Push(i)
    BY <1>1, NameFacts
    DEF Click, SignInClicked, ClearError, CreateOrgClicked, JoinOrgClicked,
        LoadDashboardClicked, InviteSendClicked, FolderSelected, RequestEagerly
  <2>3. \A k \in LazyIntents : pendingIntents'[k] = pendingIntents[k]
    BY <2>2, EagerPush
  <2> QED
    BY <2>1, <2>3, ParkedFrame
<1>2. CASE SignInAnswer
  <2>1. UNCHANGED <<pendingRefresh, refreshing, parkedLate>>
    BY <1>2 DEF SignInAnswer, AccessTokenReceivedOk, AccessTokenReceivedErr
  <2>2. \A k \in LazyIntents : pendingIntents'[k] = pendingIntents[k]
    BY <1>2, EagerPush, NameFacts DEF SignInAnswer, AccessTokenReceivedOk, AccessTokenReceivedErr
  <2> QED
    BY <2>1, <2>2, ParkedFrame
<1>3. ASSUME NEW batch \in SUBSET Ops, ActionsReady(batch)
      PROVE  ParkedHasRefresh'
  BY <1>3, ParkedFrame DEF ActionsReady, authVars
<1>4. ASSUME NEW i \in Intents, NEW t \in Tokens, Answer(i, t)
      PROVE  ParkedHasRefresh'
  <2>1. CASE Unauthorized(i, t)
    <3>1. CASE t = token /\ ~pendingRefresh
      <4>1. refreshing' = 1
        BY <2>1, <3>1 DEF Unauthorized, HandleTokenExpired, AuthInv, SingleRefresh, TypeOK
      <4> QED
        BY <4>1 DEF ParkedHasRefresh
    <3>2. CASE t = token /\ pendingRefresh
      <4>1. UNCHANGED <<pendingRefresh, refreshing>>
        BY <2>1, <3>2 DEF Unauthorized, HandleTokenExpired
      <4>2. refreshing' = 1 \/ Wedged'
        BY <3>2, <4>1 DEF Wedged, AuthInv, SingleRefresh, TypeOK
      <4> QED
        BY <4>2 DEF ParkedHasRefresh
    <3>3. CASE t # token /\ i \in LazyIntents
      BY <2>1, <3>3 DEF Unauthorized, ParkedHasRefresh
    <3>4. CASE t # token /\ i \notin LazyIntents
      BY <2>1, <3>4, ParkedFrame DEF Unauthorized, HandleTokenExpired, TypeOK
    <3> QED
      BY <3>1, <3>2, <3>3, <3>4
  <2>2. CASE i = "CreateOrg" /\ OrgCreated(t)
    <3>1. \A k \in LazyIntents : pendingIntents'[k] = pendingIntents[k]
      BY <2>2, EagerPush, NameFacts DEF OrgCreated
    <3> QED
      BY <2>2, <3>1, ParkedFrame DEF OrgCreated, authVars
  <2>3. ASSUME NEW next \in BOOLEAN, InviteUserFinished(t, next)
        PROVE  ParkedHasRefresh'
    <3>1. \A k \in LazyIntents : pendingIntents'[k] = pendingIntents[k]
      BY <2>3, EagerPush, NameFacts DEF InviteUserFinished
    <3> QED
      BY <2>3, <3>1, ParkedFrame DEF InviteUserFinished, authVars
  <2>4. CASE \/ i = "FetchInvitations" /\ InvitationsLoaded(t)
             \/ i = "InitialSync" /\ InitialSyncCompleted(t)
             \/ AnsweredWithoutEffect(i, t)
             \/ i \in Ops /\ \E outcome \in {"done", "failed"} : OpFinished(i, t, outcome)
             \/ UnauthorizedIgnored(i, t)
    <3>1. UNCHANGED <<authVars, pendingIntents, parkedLate>>
      BY <2>4 DEF InvitationsLoaded, InitialSyncCompleted, AnsweredWithoutEffect,
                  OpFinished, UnauthorizedIgnored
    <3> QED
      BY <3>1, ParkedFrame DEF authVars
  <2> QED
    BY <1>4, <2>1, <2>2, <2>3, <2>4 DEF Answer
<1>5. ASSUME NEW t \in Tokens, TokenExpires(t)
      PROVE  ParkedHasRefresh'
  BY <1>5, ParkedFrame DEF TokenExpires
<1>6. CASE RefreshAnswer
  <2>1. CASE AccessTokenRefreshedOk
    BY <2>1, LazyFacts DEF AccessTokenRefreshedOk, RetryIntents, ParkedHasRefresh
  <2>2. CASE AccessTokenRefreshedErr
    <3>1. Wedged'
      BY <2>2 DEF AccessTokenRefreshedErr, Wedged, AuthInv, SingleRefresh, TypeOK
    <3> QED
      BY <3>1 DEF ParkedHasRefresh
  <2> QED
    BY <1>6, <2>1, <2>2 DEF RefreshAnswer
<1>7. CASE UNCHANGED vars
  BY <1>7, ParkedFrame DEF vars
<1> QED
  BY <1>1, <1>2, <1>3, <1>4, <1>5, <1>6, <1>7 DEF Next

-----------------------------------------------------------------------------
(* Where an operation is. *)

\* What an action must leave alone so that no operation moves.
OpsUntouched ==
  \A o \in Ops :
    /\ fate'[o] = fate[o]
    /\ pendingIntents'[o] = pendingIntents[o]
    /\ \A t \in Tokens : running'[<<o, t>>] = running[<<o, t>>]

LEMMA OwedFrame ==
  ASSUME OwedExactlyOnce, OpsUntouched
  PROVE  OwedExactlyOnce'
BY DEF OwedExactlyOnce, OpsUntouched, NotRunning, RunsOnce

\* Starting and answering a task of another intent moves no operation.
LEMMA OtherTask ==
  ASSUME TypeOK, NEW i \in Intents, i \notin Ops, NEW t \in Tokens
  PROVE  \A o \in Ops, v \in Tokens :
           /\ Started(running, i, t)[<<o, v>>] = running[<<o, v>>]
           /\ Answered(i, t)[<<o, v>>] = running[<<o, v>>]
           /\ Push(i)[o] = pendingIntents[o]
BY OpFacts DEF TypeOK, Started, Answered, Push, Tasks

\* The only task of an operation answers, and nothing of it is left running.
LEMMA OpAnswered ==
  ASSUME TypeOK, OwedExactlyOnce, NEW o \in Ops, NEW t \in Tokens,
         running[<<o, t>>] > 0, running' = Answered(o, t)
  PROVE  /\ NotRunning(o)'
         /\ fate[o] = "owed" /\ pendingIntents[o] = 0
         /\ \A k \in Ops, v \in Tokens : k # o => running'[<<k, v>>] = running[<<k, v>>]
<1>1. o \in Intents
  BY OpFacts
<1>2. fate[o] = "owed" /\ pendingIntents[o] = 0 /\ RunsOnce(o)
  BY DEF OwedExactlyOnce, NotRunning
<1>3. \A v \in Tokens : running[<<o, v>>] = IF v = t THEN 1 ELSE 0
  BY <1>2 DEF RunsOnce
<1>4. \A k \in Ops, v \in Tokens :
        running'[<<k, v>>] = IF k = o /\ v = t THEN running[<<k, v>>] - 1 ELSE running[<<k, v>>]
  BY <1>1, OpFacts DEF TypeOK, Answered, Tasks
<1> QED
  BY <1>2, <1>3, <1>4 DEF NotRunning

LEMMA OwedStep ==
  ASSUME TypeOK, TokenInv, OwedExactlyOnce, [Next]_vars
  PROVE  OwedExactlyOnce'
<1>1. CASE Click
  <2>1. CASE SignInClicked \/ ClearError \/ JoinOrgClicked
    BY <2>1, OwedFrame DEF SignInClicked, ClearError, JoinOrgClicked, OpsUntouched
  <2>2. CASE CreateOrgClicked \/ LoadDashboardClicked \/ InviteSendClicked \/ FolderSelected
    <3>1. token \in Tokens /\ UNCHANGED fate
      BY <2>2 DEF CreateOrgClicked, LoadDashboardClicked, InviteSendClicked, FolderSelected, TokenInv
    <3>2. PICK i \in Intents : /\ i \notin Ops
                               /\ running' = Started(running, i, token)
                               /\ pendingIntents' = Push(i) \/ UNCHANGED pendingIntents
      BY <2>2, NameFacts, LazyFacts, OpFacts
      DEF CreateOrgClicked, LoadDashboardClicked, InviteSendClicked, FolderSelected, RequestEagerly
    <3>3. OpsUntouched
      BY <3>1, <3>2, OtherTask DEF OpsUntouched
    <3> QED
      BY <3>3, OwedFrame
  <2> QED
    BY <1>1, <2>1, <2>2 DEF Click
<1>2. CASE SignInAnswer
  <2>1. CASE AccessTokenReceivedOk
    <3>1. minted + 1 \in Tokens
      BY <2>1, SessionAssumption DEF AccessTokenReceivedOk, Tokens, TypeOK
    <3>2. "FetchInvitations" \in Intents /\ "FetchInvitations" \notin Ops
      BY NameFacts, OpFacts
    <3>3. OpsUntouched
      BY <2>1, <3>1, <3>2, OtherTask DEF AccessTokenReceivedOk, OpsUntouched
    <3> QED
      BY <3>3, OwedFrame
  <2>2. CASE AccessTokenReceivedErr
    BY <2>2, OwedFrame DEF AccessTokenReceivedErr, OpsUntouched
  <2> QED
    BY <1>2, <2>1, <2>2 DEF SignInAnswer
<1>3. ASSUME NEW batch \in SUBSET Ops, ActionsReady(batch)
      PROVE  OwedExactlyOnce'
  <2>1. token \in Tokens /\ UNCHANGED pendingIntents
    BY <1>3 DEF ActionsReady, TokenInv
  <2>2. \A o \in Ops, t \in Tokens :
          running'[<<o, t>>] = IF o \in batch /\ t = token
                               THEN running[<<o, t>>] + 1 ELSE running[<<o, t>>]
    BY <1>3, OpFacts DEF ActionsReady, Tasks
  <2>3. ASSUME NEW o \in Ops, o \in batch
        PROVE  fate'[o] = "owed" /\ pendingIntents'[o] = 0 /\ RunsOnce(o)'
    <3>1. fate[o] = "unseen" /\ fate'[o] = "owed"
      BY <1>3, <2>3 DEF ActionsReady
    <3>2. pendingIntents[o] = 0 /\ NotRunning(o)
      BY <3>1 DEF OwedExactlyOnce
    <3>3. \A u \in Tokens : running'[<<o, u>>] = IF u = token THEN 1 ELSE 0
      BY <2>2, <2>3, <3>2 DEF NotRunning
    <3> QED
      BY <2>1, <3>1, <3>2, <3>3 DEF RunsOnce
  <2>4. ASSUME NEW o \in Ops, o \notin batch
        PROVE  /\ fate'[o] = fate[o]
               /\ \A t \in Tokens : running'[<<o, t>>] = running[<<o, t>>]
    BY <1>3, <2>2, <2>4 DEF ActionsReady
  <2> QED
    BY <2>1, <2>3, <2>4 DEF OwedExactlyOnce, NotRunning, RunsOnce
<1>4. ASSUME NEW i \in Intents, NEW t \in Tokens, Answer(i, t)
      PROVE  OwedExactlyOnce'
  <2>1. CASE \/ i = "FetchInvitations" /\ InvitationsLoaded(t)
             \/ i = "CreateOrg" /\ OrgCreated(t)
             \/ i = "SendInvitations" /\ \E next \in BOOLEAN : InviteUserFinished(t, next)
             \/ i = "InitialSync" /\ InitialSyncCompleted(t)
             \/ AnsweredWithoutEffect(i, t)
    <3>1. i \notin Ops /\ UNCHANGED fate
      BY <2>1, NameFacts, OpFacts
      DEF InvitationsLoaded, OrgCreated, InviteUserFinished, InitialSyncCompleted,
          AnsweredWithoutEffect
    <3>2. CASE UNCHANGED pendingIntents /\ running' = Answered(i, t)
      <4>1. OpsUntouched
        BY <3>1, <3>2, OtherTask DEF OpsUntouched
      <4> QED
        BY <4>1, OwedFrame
    <3>3. ASSUME NEW k \in EagerIntents, token \in Tokens, pendingIntents' = Push(k),
                 running' = Started(Answered(i, t), k, token)
          PROVE  OwedExactlyOnce'
      <4>1. k \in Intents /\ k \notin Ops
        BY NameFacts, OpFacts
      <4>2. \A o \in Ops, v \in Tokens : running'[<<o, v>>] = running[<<o, v>>]
        <5>1. \A o \in Ops, v \in Tokens :
                Started(Answered(i, t), k, token)[<<o, v>>] = running[<<o, v>>]
          <6>1. \A o \in Ops, v \in Tokens :
                  <<o, v>> \in Tasks /\ <<o, v>> # <<i, t>> /\ <<o, v>> # <<k, token>>
            BY <3>1, <4>1, OpFacts DEF Tasks
          <6>2. running \in [Tasks -> Nat]
            BY DEF TypeOK
          <6> QED
            BY <6>1, <6>2 DEF Started, Answered
        <5> QED
          BY <3>3, <5>1
      <4>3. \A o \in Ops : pendingIntents'[o] = pendingIntents[o]
        BY <3>3, <4>1, OpFacts DEF Push, TypeOK
      <4>4. OpsUntouched
        BY <3>1, <4>2, <4>3 DEF OpsUntouched
      <4> QED
        BY <4>4, OwedFrame
    <3> QED
      BY <2>1, <3>2, <3>3, NameFacts
      DEF InvitationsLoaded, OrgCreated, InviteUserFinished, InitialSyncCompleted,
          AnsweredWithoutEffect, TokenInv
  <2>2. ASSUME NEW outcome \in {"done", "failed"}, i \in Ops, OpFinished(i, t, outcome)
        PROVE  OwedExactlyOnce'
    <3>1. NotRunning(i)' /\ pendingIntents'[i] = 0 /\ fate'[i] # "owed"
      BY <2>2, OpAnswered DEF OpFinished, TypeOK
    <3>2. \A o \in Ops : o # i =>
            /\ fate'[o] = fate[o]
            /\ pendingIntents'[o] = pendingIntents[o]
            /\ \A u \in Tokens : running'[<<o, u>>] = running[<<o, u>>]
      BY <2>2, OpAnswered DEF OpFinished, TypeOK
    <3> QED
      BY <3>1, <3>2 DEF OwedExactlyOnce, NotRunning, RunsOnce
  <2>3. CASE Unauthorized(i, t) /\ i \in Ops
    <3>0. /\ running[<<i, t>>] > 0 /\ running' = Answered(i, t)
          /\ pendingIntents' = Push(i) /\ UNCHANGED fate
      BY <2>3, OpFacts DEF Unauthorized
    <3>1. NotRunning(i)' /\ pendingIntents'[i] = 1 /\ fate'[i] = "owed"
      <4>1. NotRunning(i)' /\ pendingIntents[i] = 0 /\ fate[i] = "owed"
        BY <2>3, <3>0, OpAnswered
      <4>2. pendingIntents'[i] = pendingIntents[i] + 1
        BY <3>0 DEF Push, TypeOK
      <4> QED
        BY <3>0, <4>1, <4>2
    <3>2. \A o \in Ops : o # i =>
            /\ fate'[o] = fate[o]
            /\ pendingIntents'[o] = pendingIntents[o]
            /\ \A u \in Tokens : running'[<<o, u>>] = running[<<o, u>>]
      BY <2>3, <3>0, OpAnswered, OpFacts DEF Push, TypeOK
    <3> QED
      BY <3>1, <3>2 DEF OwedExactlyOnce, NotRunning, RunsOnce
  <2>4. CASE Unauthorized(i, t) /\ i \notin Ops
    <3>1. \A o \in Ops : fate'[o] = fate[o] /\ pendingIntents'[o] = pendingIntents[o]
      BY <2>4, OtherTask DEF Unauthorized
    <3>2. \A o \in Ops, v \in Tokens : running'[<<o, v>>] = running[<<o, v>>]
      BY <2>4, OtherTask DEF Unauthorized
    <3>3. OpsUntouched
      BY <3>1, <3>2 DEF OpsUntouched
    <3> QED
      BY <3>3, OwedFrame
  <2>5. CASE UnauthorizedIgnored(i, t) /\ i \in Ops
    <3>1. NotRunning(i)' /\ pendingIntents'[i] = 0 /\ fate'[i] # "owed"
      BY <2>5, OpAnswered DEF UnauthorizedIgnored
    <3>2. \A o \in Ops : o # i =>
            /\ fate'[o] = fate[o]
            /\ pendingIntents'[o] = pendingIntents[o]
            /\ \A u \in Tokens : running'[<<o, u>>] = running[<<o, u>>]
      BY <2>5, OpAnswered DEF UnauthorizedIgnored
    <3> QED
      BY <3>1, <3>2 DEF OwedExactlyOnce, NotRunning, RunsOnce
  <2>6. CASE UnauthorizedIgnored(i, t) /\ i \notin Ops
    <3>1. OpsUntouched
      BY <2>6, OtherTask DEF UnauthorizedIgnored, OpsUntouched
    <3> QED
      BY <3>1, OwedFrame
  <2> QED
    BY <1>4, <2>1, <2>2, <2>3, <2>4, <2>5, <2>6 DEF Answer
<1>5. ASSUME NEW t \in Tokens, TokenExpires(t)
      PROVE  OwedExactlyOnce'
  BY <1>5, OwedFrame DEF TokenExpires, OpsUntouched
<1>6. CASE RefreshAnswer
  <2>1. CASE AccessTokenRefreshedOk
    <3> DEFINE new == minted + 1
    <3>1. new \in Tokens /\ RetryIntents(new)
      BY <2>1, SessionAssumption DEF AccessTokenRefreshedOk, Tokens, TypeOK
    <3> HIDE DEF new
    <3>2. \A o \in Ops, u \in Tokens :
            running'[<<o, u>>] = IF u = new /\ userState = "OrgSynced"
                                 THEN running[<<o, u>>] + pendingIntents[o]
                                 ELSE running[<<o, u>>]
      BY <3>1, OpFacts DEF RetryIntents, Tasks
    <3>3. \A o \in Ops : pendingIntents'[o] = 0
      BY <3>1, OpFacts DEF RetryIntents
    <3>4. ASSUME NEW o \in Ops
          PROVE  \/ fate'[o] = "owed" /\ RunsOnce(o)'
                 \/ fate'[o] # "owed" /\ NotRunning(o)'
      <4>1. CASE pendingIntents[o] = 0
        <5>1. fate'[o] = fate[o]
          BY <3>1, <4>1 DEF RetryIntents
        <5>2. \A u \in Tokens : running'[<<o, u>>] = running[<<o, u>>]
          BY <3>2, <4>1, OpFacts DEF TypeOK, Tasks
        <5> QED
          BY <4>1, <5>1, <5>2 DEF OwedExactlyOnce, NotRunning, RunsOnce
      <4>2. CASE pendingIntents[o] # 0
        <5>1. fate[o] = "owed" /\ pendingIntents[o] = 1 /\ NotRunning(o)
          BY <4>2 DEF OwedExactlyOnce
        <5>2. CASE userState = "OrgSynced"
          <6>1. fate'[o] = "owed"
            BY <3>1, <5>1, <5>2 DEF RetryIntents
          <6>2. \A u \in Tokens : running'[<<o, u>>] = IF u = new THEN 1 ELSE 0
            BY <3>2, <5>1, <5>2 DEF NotRunning
          <6> QED
            BY <3>1, <6>1, <6>2 DEF RunsOnce
        <5>3. CASE userState # "OrgSynced"
          <6>1. fate'[o] = "dropped"
            BY <3>1, <5>1, <5>3 DEF RetryIntents
          <6>2. NotRunning(o)'
            BY <3>2, <5>1, <5>3 DEF NotRunning
          <6> QED
            BY <6>1, <6>2
        <5> QED
          BY <5>2, <5>3
      <4> QED
        BY <4>1, <4>2
    <3> QED
      BY <3>3, <3>4 DEF OwedExactlyOnce
  <2>2. CASE AccessTokenRefreshedErr
    BY <2>2, OwedFrame DEF AccessTokenRefreshedErr, OpsUntouched
  <2> QED
    BY <1>6, <2>1, <2>2 DEF RefreshAnswer
<1>7. CASE UNCHANGED vars
  BY <1>7, OwedFrame DEF vars, OpsUntouched
<1> QED
  BY <1>1, <1>2, <1>3, <1>4, <1>5, <1>6, <1>7 DEF Next

-----------------------------------------------------------------------------
(* The theorems *)

LEMMA StepIInv == IInv /\ [Next]_vars => IInv'
BY TypeStep, AuthStep, ParkedStep, OwedStep DEF IInv, AuthInv

\* The inductive invariant holds in every state of every behaviour.
THEOREM Invariance == Spec => []IInv
<1>1. Init => IInv
  BY InitIInv
<1>2. IInv /\ [Next]_vars => IInv'
  BY StepIInv
<1> QED
  BY <1>1, <1>2, PTL DEF Spec

\* Every variable keeps its type.
THEOREM TypeCorrect == Spec => []TypeOK
<1>1. IInv => TypeOK
  BY DEF IInv
<1> QED
  BY <1>1, Invariance, PTL

\* The screen always belongs to the user state, so no handler misses its message
\* because of the screen.
THEOREM ScreenCorrect == Spec => []ScreenFollowsUserState
<1>1. IInv => ScreenFollowsUserState
  BY DEF IInv
<1> QED
  BY <1>1, Invariance, PTL

\* At most one refresh is in flight, of an expired token and while signed in: the
\* "Impossible case" of on_access_token_refreshed_ok is impossible.
THEOREM RefreshIsSingle == Spec => []SingleRefresh
<1>1. IInv => SingleRefresh
  BY DEF IInv
<1> QED
  BY <1>1, Invariance, PTL

\* An owed operation runs once or is parked once; any other is nowhere.
THEOREM NothingLostOrDoubled == Spec => []OwedExactlyOnce
<1>1. IInv => OwedExactlyOnce
  BY DEF IInv
<1> QED
  BY <1>1, Invariance, PTL

\* What is parked has a refresh at work for it, apart from the late 401 and the
\* flag a failed refresh leaves behind.
THEOREM ParkedIsCovered == Spec => []ParkedHasRefresh
<1>1. IInv => ParkedHasRefresh
  BY DEF IInv
<1> QED
  BY <1>1, Invariance, PTL

(* A change that is parked when the user is signed out stays parked.  The   *)
(* user is signed out by a refresh that failed, and this has left the flag  *)
(* set: no other refresh starts, so nothing empties the list.               *)

OutInv ==
  userState = "SignedOut" => Wedged \/ \A o \in Ops : pendingIntents[o] = 0

\* Where the flag is left alone and nothing is parked or retried.
LEMMA OutFrame ==
  ASSUME OutInv, UNCHANGED <<pendingRefresh, refreshing>>,
         userState' = "SignedOut" => userState = "SignedOut",
         userState' = "SignedOut" => \A o \in Ops : pendingIntents'[o] = pendingIntents[o]
  PROVE  OutInv'
BY DEF OutInv, Wedged

LEMMA OutStep == IInv /\ OutInv /\ [Next]_vars => OutInv'
<1> SUFFICES ASSUME IInv, OutInv, [Next]_vars PROVE OutInv'
  OBVIOUS
<1>1. CASE Click
  <2>1. CASE SignInClicked \/ ClearError
    BY <2>1, OutFrame DEF SignInClicked, ClearError, authVars
  <2>2. CASE CreateOrgClicked \/ JoinOrgClicked \/ LoadDashboardClicked \/ InviteSendClicked
             \/ FolderSelected
    <3>1. userState' # "SignedOut"
      BY <2>2 DEF CreateOrgClicked, JoinOrgClicked, LoadDashboardClicked, InviteSendClicked,
                  FolderSelected, uiVars
    <3> QED
      BY <3>1 DEF OutInv
  <2> QED
    BY <1>1, <2>1, <2>2 DEF Click
<1>2. CASE SignInAnswer
  <2>1. CASE AccessTokenReceivedOk
    BY <2>1 DEF AccessTokenReceivedOk, OutInv
  <2>2. CASE AccessTokenReceivedErr
    BY <2>2, OutFrame DEF AccessTokenReceivedErr, uiVars
  <2> QED
    BY <1>2, <2>1, <2>2 DEF SignInAnswer
<1>3. ASSUME NEW batch \in SUBSET Ops, ActionsReady(batch)
      PROVE  OutInv'
  BY <1>3, OutFrame DEF ActionsReady, uiVars, authVars
<1>4. ASSUME NEW i \in Intents, NEW t \in Tokens, Answer(i, t)
      PROVE  OutInv'
  <2>1. CASE Unauthorized(i, t)
    <3>1. userState' # "SignedOut"
      BY <2>1 DEF Unauthorized, uiVars, ErrorState, HomeState
    <3> QED
      BY <3>1 DEF OutInv
  <2>2. CASE ~Unauthorized(i, t)
    <3>1. UNCHANGED <<pendingRefresh, refreshing>>
      BY <1>4, <2>2
      DEF Answer, InvitationsLoaded, OrgCreated, InviteUserFinished, InitialSyncCompleted,
          AnsweredWithoutEffect, OpFinished, UnauthorizedIgnored, authVars
    <3>2. userState' = "SignedOut" =>
            userState = "SignedOut" /\ pendingIntents' = pendingIntents
      BY <1>4, <2>2
      DEF Answer, InvitationsLoaded, OrgCreated, InviteUserFinished, InitialSyncCompleted,
          AnsweredWithoutEffect, OpFinished, UnauthorizedIgnored, uiVars
    <3> QED
      BY <3>1, <3>2, OutFrame
  <2> QED
    BY <2>1, <2>2
<1>5. ASSUME NEW t \in Tokens, TokenExpires(t)
      PROVE  OutInv'
  BY <1>5, OutFrame DEF TokenExpires, uiVars
<1>6. CASE RefreshAnswer
  <2>1. CASE AccessTokenRefreshedOk
    BY <2>1 DEF AccessTokenRefreshedOk, uiVars, OutInv
  <2>2. CASE AccessTokenRefreshedErr
    <3>1. refreshing = 1 /\ pendingRefresh
      BY <2>2 DEF AccessTokenRefreshedErr, IInv, SingleRefresh, TypeOK
    <3>2. Wedged'
      BY <2>2, <3>1 DEF AccessTokenRefreshedErr, Wedged
    <3> QED
      BY <3>2 DEF OutInv
  <2> QED
    BY <1>6, <2>1, <2>2 DEF RefreshAnswer
<1>7. CASE UNCHANGED vars
  BY <1>7, OutFrame DEF vars
<1> QED
  BY <1>1, <1>2, <1>3, <1>4, <1>5, <1>6, <1>7 DEF Next

Stuck(o) == Wedged /\ pendingIntents[o] > 0

LEMMA StuckStep ==
  ASSUME NEW o \in Ops
  PROVE  IInv /\ Stuck(o) /\ [Next]_vars => Stuck(o)'
<1> SUFFICES ASSUME IInv, Stuck(o), [Next]_vars PROVE Stuck(o)'
  OBVIOUS
<1>0. pendingIntents \in [Intents -> Nat] /\ pendingRefresh /\ refreshing = 0 /\ pendingIntents[o] > 0
  BY DEF IInv, TypeOK, Stuck, Wedged
<1>1. /\ o \in Intents /\ pendingIntents[o] \in Nat
      /\ \A i \in Intents : Push(i)[o] \in Nat /\ Push(i)[o] >= pendingIntents[o]
  BY <1>0, OpFacts DEF Push
<1>2. CASE Click \/ SignInAnswer \/ (\E batch \in SUBSET Ops : ActionsReady(batch))
           \/ (\E t \in Tokens : TokenExpires(t)) \/ UNCHANGED vars
  <2>1. UNCHANGED <<pendingRefresh, refreshing>>
    BY <1>2
    DEF Click, SignInClicked, ClearError, CreateOrgClicked, JoinOrgClicked,
        LoadDashboardClicked, InviteSendClicked, FolderSelected, SignInAnswer,
        AccessTokenReceivedOk, AccessTokenReceivedErr, ActionsReady, TokenExpires, authVars, vars
  <2>2. \/ UNCHANGED pendingIntents
        \/ \E i \in EagerIntents : pendingIntents' = Push(i)
    BY <1>2, NameFacts
    DEF Click, SignInClicked, ClearError, CreateOrgClicked, JoinOrgClicked, RequestEagerly,
        LoadDashboardClicked, InviteSendClicked, FolderSelected, SignInAnswer,
        AccessTokenReceivedOk, AccessTokenReceivedErr, ActionsReady, TokenExpires, vars
  <2> QED
    BY <1>0, <1>1, <2>1, <2>2, NameFacts DEF Stuck, Wedged
<1>3. ASSUME NEW i \in Intents, NEW t \in Tokens, Answer(i, t)
      PROVE  Stuck(o)'
  <2>1. UNCHANGED <<pendingRefresh, refreshing>>
    BY <1>0, <1>3
    DEF Answer, InvitationsLoaded, OrgCreated, InviteUserFinished, InitialSyncCompleted,
        AnsweredWithoutEffect, OpFinished, Unauthorized, HandleTokenExpired,
        UnauthorizedIgnored, authVars
  <2>2. UNCHANGED pendingIntents \/ \E k \in Intents : pendingIntents' = Push(k)
    BY <1>3, NameFacts
    DEF Answer, InvitationsLoaded, OrgCreated, InviteUserFinished, InitialSyncCompleted,
        AnsweredWithoutEffect, OpFinished, Unauthorized, UnauthorizedIgnored
  <2> QED
    BY <1>0, <1>1, <2>1, <2>2 DEF Stuck, Wedged
<1>4. CASE RefreshAnswer
  BY <1>0, <1>4 DEF RefreshAnswer, AccessTokenRefreshedOk, AccessTokenRefreshedErr
<1> QED
  BY <1>2, <1>3, <1>4 DEF Next

\* A change that was parked when the user was signed out is not run by a later session.
THEOREM ParkedStaysBehind == Spec => NotRunInNextSession
<1>1. Init => OutInv
  <2> SUFFICES ASSUME Init, NEW o \in Ops PROVE pendingIntents[o] = 0
    BY DEF OutInv
  <2>1. o \in Intents /\ o \notin BootIntents(userState)
    BY BootFacts, OpFacts
  <2> QED
    BY <2>1 DEF Init
<1>2. IInv /\ OutInv /\ [Next]_vars => OutInv'
  BY OutStep
<1>3. ASSUME NEW o \in Ops
      PROVE  Spec => [](pendingIntents[o] > 0 /\ userState = "SignedOut" => []NotRunning(o))
  <2>1. IInv /\ OutInv /\ pendingIntents[o] > 0 /\ userState = "SignedOut" => Stuck(o)
    BY DEF OutInv, Stuck
  <2>2. IInv /\ Stuck(o) /\ [Next]_vars => Stuck(o)'
    BY StuckStep
  <2>3. IInv /\ Stuck(o) => NotRunning(o)
    BY DEF IInv, Stuck, OwedExactlyOnce
  <2> QED
    BY <1>1, <1>2, <2>1, <2>2, <2>3, Invariance, PTL DEF Spec
<1> QED
  BY <1>3 DEF NotRunInNextSession

-----------------------------------------------------------------------------
(* The session implements Delivery.  Each step of the session is a step of   *)
(* Delivery or moves no operation; IInv says where an operation is before    *)
(* the step.                                                                 *)


Synced == userState = "OrgSynced"

\* Every operation stays where it is.
SamePlaces == \A o \in Ops : Place(o)' = Place(o)

\* The operations of S move, the others do not, and the session stays as synced as it is.
MovedTo(S, to) ==
  /\ \A o \in Ops : Place(o)' = IF o \in S THEN to ELSE Place(o)
  /\ userState' = userState

\* The place of an operation, read off its fate and the parked intents.
PlacesRead ==
  \A o \in Ops :
    /\ fate[o] # "owed" => Place(o) = fate[o] /\ pendingIntents[o] = 0
    /\ fate[o] = "owed" /\ pendingIntents[o] # 0 => Place(o) = "waiting"
    /\ fate[o] = "owed" /\ pendingIntents[o] = 0 => Place(o) = "working"
    /\ Place(o) = "waiting" <=> pendingIntents[o] # 0

LEMMA PlacesNow == IInv => PlacesRead
<1>1. SUFFICES ASSUME IInv, NEW o \in Ops
               PROVE  /\ fate[o] # "owed" => Place(o) = fate[o] /\ pendingIntents[o] = 0
                      /\ fate[o] = "owed" /\ pendingIntents[o] # 0 => Place(o) = "waiting"
                      /\ fate[o] = "owed" /\ pendingIntents[o] = 0 => Place(o) = "working"
                      /\ Place(o) = "waiting" <=> pendingIntents[o] # 0
  BY DEF PlacesRead
<1>2. fate[o] \in Fates /\ pendingIntents[o] \in {0, 1}
  BY <1>1 DEF IInv, TypeOK, OwedExactlyOnce
<1>3. fate[o] = "owed" /\ pendingIntents[o] = 0 => ~NotRunning(o)
  <2>1. SUFFICES ASSUME RunsOnce(o)
                 PROVE  ~NotRunning(o)
    BY <1>1 DEF IInv, OwedExactlyOnce
  <2>2. PICK t \in Tokens : running[<<o, t>>] = 1
    BY <2>1 DEF RunsOnce
  <2> QED
    BY <2>2 DEF NotRunning
<1>4. fate[o] # "owed" => pendingIntents[o] = 0
  BY <1>1 DEF IInv, OwedExactlyOnce
<1> QED
  BY <1>2, <1>3, <1>4 DEF Place, Fates

LEMMA PlacesNext == IInv' => PlacesRead'
BY PlacesNow, PTL

LEMMA PlaceFrame ==
  ASSUME OpsUntouched
  PROVE  SamePlaces
BY DEF OpsUntouched, SamePlaces, Place, NotRunning

-----------------------------------------------------------------------------
(* Steps of Delivery in terms of MovedTo *)

LEMMA MapSame ==
  ASSUME SamePlaces
  PROVE  Promise!Next
<1>1. [o \in Ops |-> Place(o)]' = [o \in Ops |-> Place(o)]
  BY DEF SamePlaces
<1> QED
  BY <1>1 DEF Promise!Next, Promise!Enter

LEMMA MapMove ==
  ASSUME NEW S \in SUBSET Ops, NEW to, MovedTo(S, to)
  PROVE  Promise!Move(S, to)
BY DEF MovedTo, Promise!Move

LEMMA MapIn ==
  ASSUME NEW where
  PROVE  Promise!In(where) = {o \in Ops : Place(o) = where}
BY DEF Promise!In

-----------------------------------------------------------------------------
(* The steps of the session that move operations *)

\* A batch of changes is accepted in OrgSynced.
LEMMA AcceptStep ==
  ASSUME SessionAssumption, IInv, IInv', NEW batch \in SUBSET Ops, ActionsReady(batch)
  PROVE  Promise!Next
<1>1. PlacesRead /\ PlacesRead'
  BY PlacesNow, PlacesNext
<1>2. batch \subseteq Promise!In("unseen")
  BY <1>1, MapIn DEF ActionsReady, PlacesRead
<1>3. ASSUME NEW o \in Ops
      PROVE  Place(o)' = IF o \in batch THEN "working" ELSE Place(o)
  <2>1. CASE o \in batch
    <3>1. fate[o] = "unseen" /\ fate'[o] = "owed" /\ pendingIntents'[o] = pendingIntents[o]
      BY <2>1 DEF ActionsReady
    <3> QED
      BY <1>1, <2>1, <3>1 DEF PlacesRead
  <2>2. CASE o \notin batch
    <3>1. fate'[o] = fate[o] /\ pendingIntents'[o] = pendingIntents[o]
      BY <2>2 DEF ActionsReady
    <3> QED
      BY <1>1, <2>2, <3>1 DEF PlacesRead
  <2> QED
    BY <2>1, <2>2
<1>4. userState = "OrgSynced" /\ userState' = userState
  BY DEF ActionsReady, uiVars
<1>5. MovedTo(batch, "working")
  BY <1>3, <1>4 DEF MovedTo
<1>6. Promise!Move(batch, "working")
  BY <1>5, MapMove
<1> QED
  BY <1>2, <1>4, <1>6 DEF Promise!Next, Promise!Accept

\* The task of an operation answers: the operation leaves "working", no other moves.
LEMMA AnswerMoves ==
  ASSUME SessionAssumption, IInv, IInv', NEW o \in Ops, NEW t \in Tokens, NEW to,
         running[<<o, t>>] > 0, running' = Answered(o, t), UNCHANGED userState,
         \A k \in Ops : k # o => /\ fate'[k] = fate[k]
                                 /\ pendingIntents'[k] = pendingIntents[k],
         Place(o)' = to
  PROVE  o \in Promise!In("working") /\ Promise!Move({o}, to)
<1>1. PlacesRead /\ PlacesRead'
  BY PlacesNow, PlacesNext
<1>2. Place(o) = "working"
  BY <1>1, OpAnswered DEF IInv, PlacesRead
<1>3. \A k \in Ops : k # o => Place(k)' = Place(k)
  BY <1>1 DEF PlacesRead
<1>4. MovedTo({o}, to)
  BY <1>3 DEF MovedTo
<1> QED
  BY <1>2, <1>4, MapIn, MapMove

\* The task of an operation answers: it is settled, parked or, outside of OrgSynced,
\* dropped.
LEMMA OpAnswerStep ==
  ASSUME SessionAssumption, IInv, IInv', NEW o \in Ops, NEW t \in Tokens,
         \/ \E outcome \in {"done", "failed"} : OpFinished(o, t, outcome)
         \/ Unauthorized(o, t)
         \/ UnauthorizedIgnored(o, t)
  PROVE  Promise!Next
<1>1. PlacesRead /\ PlacesRead'
  BY PlacesNow, PlacesNext
<1>2. o \in Intents /\ o \in LazyIntents /\ ErrorState(o) = "OrgSynced" /\ TypeOK
  BY OpFacts, LazyFacts DEF IInv, ErrorState, HomeState
<1>3. ASSUME NEW outcome \in {"done", "failed"}, OpFinished(o, t, outcome)
      PROVE  Promise!Next
  <2>1. Place(o)' = outcome
    BY <1>1, <1>2, <1>3 DEF OpFinished, PlacesRead, TypeOK
  <2>2. o \in Promise!In("working") /\ Promise!Move({o}, outcome)
    BY <1>2, <1>3, <2>1, AnswerMoves DEF OpFinished, uiVars, TypeOK
  <2> QED
    BY <1>3, <2>2 DEF OpFinished, uiVars, Promise!Next, Promise!Settle
<1>4. CASE Unauthorized(o, t)
  <2>1. /\ pendingIntents' = Push(o) /\ UNCHANGED <<fate, userState>>
        /\ running[<<o, t>>] > 0 /\ running' = Answered(o, t) /\ userState = "OrgSynced"
    BY <1>2, <1>4 DEF Unauthorized, uiVars
  <2>2. fate'[o] = "owed" /\ pendingIntents'[o] = 1
    <3>1. fate[o] = "owed" /\ pendingIntents[o] = 0
      BY <1>2, <2>1, OpAnswered DEF IInv
    <3>2. pendingIntents'[o] = pendingIntents[o] + 1
      BY <1>2, <2>1 DEF Push, TypeOK
    <3> QED
      BY <2>1, <3>1, <3>2
  <2>3. \A k \in Ops : k # o => pendingIntents'[k] = pendingIntents[k]
    BY <1>2, <2>1, OpFacts DEF Push, TypeOK
  <2>4. Place(o)' = "waiting"
    BY <1>1, <2>2 DEF PlacesRead
  <2>5. o \in Promise!In("working") /\ Promise!Move({o}, "waiting")
    BY <2>1, <2>3, <2>4, AnswerMoves
  <2> QED
    BY <2>1, <2>5 DEF Promise!Next, Promise!Park
<1>5. CASE UnauthorizedIgnored(o, t)
  <2>1. /\ UNCHANGED <<pendingIntents, userState>> /\ userState # "OrgSynced"
        /\ running[<<o, t>>] > 0 /\ running' = Answered(o, t)
        /\ \A k \in Ops : fate'[k] = IF k = o THEN "dropped" ELSE fate[k]
    BY <1>2, <1>5 DEF UnauthorizedIgnored, uiVars
  <2>2. Place(o)' = "dropped"
    BY <1>1, <2>1 DEF PlacesRead
  <2>3. o \in Promise!In("working") /\ Promise!Move({o}, "dropped")
    BY <2>1, <2>2, AnswerMoves
  <2> QED
    BY <2>1, <2>3 DEF Promise!Next, Promise!Drop
<1> QED
  BY <1>3, <1>4, <1>5

\* A refresh succeeds: what waits is taken up, or given up outside of OrgSynced.
LEMMA TakeUpStep ==
  ASSUME SessionAssumption, IInv, IInv', AccessTokenRefreshedOk
  PROVE  Promise!Next
<1>1. PlacesRead /\ PlacesRead'
  BY PlacesNow, PlacesNext
<1>2. RetryIntents(minted + 1) /\ UNCHANGED userState
  BY DEF AccessTokenRefreshedOk, uiVars
<1>3. \A o \in Ops : pendingIntents'[o] = 0
  BY <1>2, OpFacts DEF RetryIntents
<1>4. \A o \in Ops : fate'[o] = IF pendingIntents[o] > 0 /\ userState # "OrgSynced"
                                THEN "dropped" ELSE fate[o]
  BY <1>2 DEF RetryIntents
<1> DEFINE to == IF userState = "OrgSynced" THEN "working" ELSE "dropped"
           S == Promise!In("waiting")
<1>5. S = {o \in Ops : Place(o) = "waiting"}
  BY MapIn
<1>6. ASSUME NEW o \in Ops
      PROVE  Place(o)' = IF o \in S THEN to ELSE Place(o)
  <2>1. pendingIntents[o] \in Nat
    BY OpFacts DEF IInv, TypeOK
  <2>2. o \in S <=> pendingIntents[o] # 0
    BY <1>1, <1>5 DEF PlacesRead
  <2> HIDE DEF S
  <2>3. CASE pendingIntents[o] = 0
    BY <1>1, <1>3, <1>4, <2>2, <2>3 DEF PlacesRead
  <2>4. CASE pendingIntents[o] # 0
    BY <1>1, <1>3, <1>4, <2>1, <2>2, <2>4 DEF PlacesRead
  <2> QED
    BY <2>3, <2>4
<1>7. MovedTo(S, to)
  BY <1>2, <1>6 DEF MovedTo
<1>8. Promise!Move(S, to)
  BY <1>5, <1>7, MapMove
<1> QED
  BY <1>2, <1>8 DEF Promise!Next, Promise!TakeUp

-----------------------------------------------------------------------------
(* The steps of the session that move no operation *)

\* Starting the request of another intent, by a click or after an answer.
LEMMA OthersUntouched ==
  ASSUME SessionAssumption, TypeOK, NEW i \in Intents, i \notin Ops, NEW t \in Tokens,
         UNCHANGED fate,
         pendingIntents' = Push(i) \/ UNCHANGED pendingIntents,
         \/ running' = Started(running, i, t)
         \/ running' = Answered(i, t)
         \/ UNCHANGED running
  PROVE  OpsUntouched
<1>1. \A o \in Ops, v \in Tokens :
        /\ Started(running, i, t)[<<o, v>>] = running[<<o, v>>]
        /\ Answered(i, t)[<<o, v>>] = running[<<o, v>>]
  BY OtherTask
<1>2. \A o \in Ops : Push(i)[o] = pendingIntents[o]
  BY OpFacts DEF Push, TypeOK
<1>3. \A o \in Ops : pendingIntents'[o] = pendingIntents[o]
  BY <1>2
<1>4. \A o \in Ops, v \in Tokens : running'[<<o, v>>] = running[<<o, v>>]
  BY <1>1
<1> QED
  BY <1>3, <1>4 DEF OpsUntouched

\* An answer to another request is followed by the request of an eager intent.
LEMMA FollowedUpUntouched ==
  ASSUME SessionAssumption, TypeOK, NEW i \in Intents, i \notin Ops, NEW t \in Tokens,
         NEW k \in EagerIntents, NEW u \in Tokens, UNCHANGED fate, pendingIntents' = Push(k),
         running' = Started(Answered(i, t), k, u)
  PROVE  OpsUntouched
<1>1. k \in Intents /\ k \notin Ops
  BY NameFacts, OpFacts
<1>2. \A o \in Ops, v \in Tokens :
        <<o, v>> \in Tasks /\ <<o, v>> # <<i, t>> /\ <<o, v>> # <<k, u>>
  BY <1>1, OpFacts DEF Tasks
<1>3. \A o \in Ops, v \in Tokens : running'[<<o, v>>] = running[<<o, v>>]
  BY <1>2 DEF Started, Answered, TypeOK
<1>4. \A o \in Ops : pendingIntents'[o] = pendingIntents[o]
  BY <1>1, OpFacts DEF Push, TypeOK
<1> QED
  BY <1>3, <1>4 DEF OpsUntouched

LEMMA ClickUntouched ==
  ASSUME SessionAssumption, IInv, Click
  PROVE  OpsUntouched
<1>1. CASE SignInClicked \/ ClearError \/ JoinOrgClicked
  BY <1>1 DEF SignInClicked, ClearError, JoinOrgClicked, OpsUntouched
<1>2. CASE CreateOrgClicked \/ LoadDashboardClicked \/ InviteSendClicked \/ FolderSelected
  <2>1. token \in Tokens /\ UNCHANGED fate /\ TypeOK
    BY <1>2 DEF CreateOrgClicked, LoadDashboardClicked, InviteSendClicked, FolderSelected,
                TokenInv, IInv
  <2>2. PICK i \in Intents : /\ i \notin Ops
                             /\ running' = Started(running, i, token)
                             /\ pendingIntents' = Push(i) \/ UNCHANGED pendingIntents
    BY <1>2, NameFacts, LazyFacts, OpFacts
    DEF CreateOrgClicked, LoadDashboardClicked, InviteSendClicked, FolderSelected, RequestEagerly
  <2> QED
    BY <2>1, <2>2, OthersUntouched
<1> QED
  BY <1>1, <1>2 DEF Click

LEMMA SignInUntouched ==
  ASSUME SessionAssumption, IInv, SignInAnswer
  PROVE  OpsUntouched
<1>1. CASE AccessTokenReceivedOk
  <2>1. minted + 1 \in Tokens
    BY <1>1, SessionAssumption DEF AccessTokenReceivedOk, Tokens, TypeOK, IInv
  <2>2. "FetchInvitations" \in Intents /\ "FetchInvitations" \notin Ops
    BY NameFacts, OpFacts
  <2> QED
    BY <1>1, <2>1, <2>2, OthersUntouched DEF AccessTokenReceivedOk, IInv
<1>2. CASE AccessTokenReceivedErr
  BY <1>2 DEF AccessTokenReceivedErr, OpsUntouched
<1> QED
  BY <1>1, <1>2 DEF SignInAnswer

\* The answer of any other request than an operation's.
LEMMA OtherAnswerUntouched ==
  ASSUME SessionAssumption, IInv, NEW i \in Intents, NEW t \in Tokens, i \notin Ops, Answer(i, t)
  PROVE  OpsUntouched
<1>0. TypeOK /\ (i = "FetchInvitations" => i \in EagerIntents)
  BY DEF IInv, EagerIntents
<1>1. CASE \/ i = "FetchInvitations" /\ InvitationsLoaded(t)
           \/ i = "CreateOrg" /\ OrgCreated(t)
           \/ i = "SendInvitations" /\ \E next \in BOOLEAN : InviteUserFinished(t, next)
           \/ i = "InitialSync" /\ InitialSyncCompleted(t)
           \/ AnsweredWithoutEffect(i, t)
  <2>1. UNCHANGED fate
    BY <1>1 DEF InvitationsLoaded, OrgCreated, InviteUserFinished, InitialSyncCompleted,
                AnsweredWithoutEffect
  <2>2. \/ UNCHANGED pendingIntents /\ running' = Answered(i, t)
        \/ \E k \in EagerIntents : /\ token \in Tokens /\ pendingIntents' = Push(k)
                                   /\ running' = Started(Answered(i, t), k, token)
    BY <1>1, NameFacts
    DEF InvitationsLoaded, OrgCreated, InviteUserFinished, InitialSyncCompleted,
        AnsweredWithoutEffect, TokenInv, IInv
  <2> QED
    BY <1>0, <2>1, <2>2, OthersUntouched, FollowedUpUntouched
<1>2. CASE Unauthorized(i, t)
  BY <1>0, <1>2, OthersUntouched DEF Unauthorized
<1>3. CASE UnauthorizedIgnored(i, t)
  BY <1>0, <1>3, OtherTask DEF UnauthorizedIgnored, OpsUntouched
<1> QED
  BY <1>1, <1>2, <1>3 DEF Answer

-----------------------------------------------------------------------------
(* The theorem *)

LEMMA InitMaps == Init => Promise!Init
BY OpFacts DEF Init, Promise!Init, Place

LEMMA StepMaps ==
  ASSUME SessionAssumption, IInv, IInv', [Next]_vars
  PROVE  [Promise!Next]_(Promise!vars)
<1>1. CASE Click
  BY <1>1, ClickUntouched, PlaceFrame, MapSame
<1>2. CASE SignInAnswer
  BY <1>2, SignInUntouched, PlaceFrame, MapSame
<1>3. ASSUME NEW batch \in SUBSET Ops, ActionsReady(batch)
      PROVE  Promise!Next
  BY <1>3, AcceptStep
<1>4. ASSUME NEW i \in Intents, NEW t \in Tokens, Answer(i, t)
      PROVE  Promise!Next
  <2>1. CASE i \in Ops
    <3>1. \/ \E outcome \in {"done", "failed"} : OpFinished(i, t, outcome)
          \/ Unauthorized(i, t)
          \/ UnauthorizedIgnored(i, t)
      BY <1>4, <2>1, NameFacts, OpFacts DEF Answer, AnsweredWithoutEffect
    <3> QED
      BY <2>1, <3>1, OpAnswerStep
  <2>2. CASE i \notin Ops
    BY <1>4, <2>2, OtherAnswerUntouched, PlaceFrame, MapSame
  <2> QED
    BY <2>1, <2>2
<1>5. ASSUME NEW t \in Tokens, TokenExpires(t)
      PROVE  Promise!Next
  <2>1. OpsUntouched
    BY <1>5 DEF TokenExpires, OpsUntouched
  <2> QED
    BY <2>1, PlaceFrame, MapSame
<1>6. CASE RefreshAnswer
  <2>1. CASE AccessTokenRefreshedOk
    BY <2>1, TakeUpStep
  <2>2. CASE AccessTokenRefreshedErr
    <3>1. OpsUntouched
      BY <2>2 DEF AccessTokenRefreshedErr, OpsUntouched
    <3> QED
      BY <3>1, PlaceFrame, MapSame
  <2> QED
    BY <1>6, <2>1, <2>2 DEF RefreshAnswer
<1>7. CASE UNCHANGED vars
  <2>1. OpsUntouched
    BY <1>7 DEF vars, OpsUntouched
  <2> QED
    BY <2>1, PlaceFrame, MapSame
<1> QED
  BY <1>1, <1>2, <1>3, <1>4, <1>5, <1>6, <1>7 DEF Next

\* The session implements Delivery: whatever tokens expire and however their 401s and
\* refreshes interleave, each change is worked on or waits until it is settled, all that
\* wait are taken up together, and none is given up while the session is synced.
THEOREM SessionImplementsDelivery == Spec => ImplementsDelivery
<1>1. Init => Promise!Init
  BY InitMaps
<1>2. IInv /\ IInv' /\ [Next]_vars => [Promise!Next]_(Promise!vars)
  BY StepMaps, SessionAssumption
<1> QED
  BY <1>1, <1>2, Invariance, PTL DEF Spec, ImplementsDelivery, Promise!Spec
=============================================================================
