-------------------------- MODULE LifecycleProofs --------------------------
(***************************************************************************)
(* What Lifecycle promises, for any accounts, folders, dialogs and         *)
(* restarts.                                                               *)
(***************************************************************************)
EXTENDS Lifecycle, SequenceTheorems, TLAPS

USE LifecycleAssumption

AuthFile == Auth \union {Unreadable}
OrgFile == Org \union {Unreadable}
IndexFile == MaybeFolder \union {Unreadable}

\* What each of the three files may hold.
LEMMA ContentsOf ==
  /\ Contents["auth"] = AuthFile
  /\ Contents["org"] = OrgFile
  /\ Contents["index"] = IndexFile
BY DEF Contents, AuthFile, OrgFile, IndexFile

\* A file that cannot be read holds no profile, no organization and no folder.
LEMMA UnreadableApart ==
  Unreadable \notin Auth /\ Unreadable \notin Org /\ Unreadable \notin MaybeFolder
BY DEF LifecycleAssumption

\* The two writes of save_object.
LEMMA SaveTyped ==
  ASSUME NEW f \in FileName, NEW v \in Contents[f]
  PROVE  /\ Save(f, v) \in Seq(Write)
         /\ f = "index" => Save(f, v) \in Seq({"index"} \X Contents["index"])
<1>1. Unreadable \in Contents[f]
  BY DEF Contents, FileName
<1>2. {<<f, Unreadable>>, <<f, v>>} \subseteq Write
  BY <1>1 DEF Write
<1>. QED
  BY <1>1, <1>2 DEF Save

\* A file and what is written to it.
LEMMA WriteTyped ==
  ASSUME NEW w \in Write
  PROVE  w[1] \in FileName /\ w[2] \in Contents[w[1]]
BY DEF Write

\* The program starts with no files.
LEMMA TypeInit == Init => TypeOK
<1>. SUFFICES ASSUME Init PROVE TypeOK
  OBVIOUS
<1>1. \A f \in FileName : Unreadable \in Contents[f]
  BY DEF Contents, FileName
<1>2. BootState(disk) = "SignedOut"
  BY DEF Init, BootState, FileName
<1>. QED
  BY <1>1, <1>2 DEF Init, TypeOK, UserStates, MaybeFolder, FileName

\* What boot makes of the files has its type.
LEMMA BootTyped ==
  ASSUME TypeOK
  PROVE  /\ BootState(disk) \in UserStates \union {"Panicked"}
         /\ BootMapped(disk) \in MaybeFolder
         /\ LoadedIndexRoot(disk) \in MaybeFolder
         /\ BootState(disk) = "OrgSynced" => disk["org"].path \in MaybeFolder
         /\ RoleIsMissing(disk) => [disk["auth"] EXCEPT !.role = BootRole(disk)] \in Auth
<1>1. disk["auth"] \in AuthFile /\ disk["org"] \in OrgFile /\ disk["index"] \in IndexFile
  BY ContentsOf DEF TypeOK, FileName
<1>2. BootState(disk) \in UserStates \union {"Panicked"}
  BY DEF BootState, UserStates
<1>3. disk["org"] # Unreadable => disk["org"].path \in MaybeFolder
  BY <1>1 DEF OrgFile, Org, MaybeFolder
<1>4. BootState(disk) \in {"OrgJoined", "OrgSynced"} => disk["org"] # Unreadable
  BY DEF BootState
<1>5. LoadedIndexRoot(disk) \in MaybeFolder
  BY <1>1 DEF LoadedIndexRoot, IndexFile, MaybeFolder
<1>6. ASSUME RoleIsMissing(disk)
      PROVE  [disk["auth"] EXCEPT !.role = BootRole(disk)] \in Auth
  <2>1. disk["auth"] \in Auth
    BY <1>1, <1>6 DEF RoleIsMissing, AuthFile
  <2>2. BootRole(disk) \in {"Owner", "User"}
    BY <1>6 DEF RoleIsMissing, BootRole
  <2>. QED
    BY <2>1, <2>2 DEF Auth
<1>. QED
  BY <1>2, <1>3, <1>4, <1>5, <1>6 DEF BootMapped, MaybeFolder

\* What the handlers write has its type.
LEMMA WritesTyped ==
  ASSUME TypeOK
  PROVE  /\ \A a \in Auth : Save("auth", a) \in Seq(Write)
         /\ \A o \in Org : Save("org", o) \in Seq(Write)
         /\ \A r \in MaybeFolder : /\ Save("index", r) \in Seq(Write)
                                   /\ Save("index", r) \in Seq({"index"} \X Contents["index"])
         /\ \A role \in {"Owner", "User"} : WithRole(role) \in Seq(Write)
         /\ \A status \in {"Created", "Ready"} : SetStatus(status) \in Seq(Write)
         /\ \A f \in Folders : SetPath(f) \in Seq(Write)
         /\ Readable("auth") => Save("auth", disk["auth"]) \in Seq(Write)
<1>1. \A a \in Auth : a \in Contents["auth"]
  BY ContentsOf DEF AuthFile
<1>2. \A o \in Org : o \in Contents["org"]
  BY ContentsOf DEF OrgFile
<1>3. \A r \in MaybeFolder : r \in Contents["index"]
  BY ContentsOf DEF IndexFile
<1>4. \A a \in Auth : Save("auth", a) \in Seq(Write)
  BY <1>1, SaveTyped DEF FileName
<1>5. \A o \in Org : Save("org", o) \in Seq(Write)
  BY <1>2, SaveTyped DEF FileName
<1>6. \A r \in MaybeFolder : /\ Save("index", r) \in Seq(Write)
                             /\ Save("index", r) \in Seq({"index"} \X Contents["index"])
  BY <1>3, SaveTyped DEF FileName
<1>7. disk["auth"] \in AuthFile /\ disk["org"] \in OrgFile
  BY ContentsOf DEF TypeOK, FileName
<1>8. Readable("auth") => disk["auth"] \in Auth
  BY <1>7 DEF Readable, AuthFile
<1>9. Readable("org") => disk["org"] \in Org
  BY <1>7 DEF Readable, OrgFile
<1>10. << >> \in Seq(Write)
  OBVIOUS
<1>11. ASSUME NEW role \in {"Owner", "User"} PROVE WithRole(role) \in Seq(Write)
  <2>1. Readable("auth") => [disk["auth"] EXCEPT !.role = role] \in Auth
    BY <1>8 DEF Auth
  <2>. QED
    BY <2>1, <1>4, <1>10 DEF WithRole
<1>12. ASSUME NEW status \in {"Created", "Ready"} PROVE SetStatus(status) \in Seq(Write)
  <2>1. Readable("org") => [disk["org"] EXCEPT !.status = status] \in Org
    BY <1>9 DEF Org
  <2>. QED
    BY <2>1, <1>5, <1>10 DEF SetStatus
<1>13. ASSUME NEW f \in Folders PROVE SetPath(f) \in Seq(Write)
  <2>1. Readable("org") => [disk["org"] EXCEPT !.path = f] \in Org
    BY <1>9 DEF Org
  <2>. QED
    BY <2>1, <1>5, <1>10 DEF SetPath
<1>. QED
  BY <1>4, <1>5, <1>6, <1>8, <1>11, <1>12, <1>13

\* Every step keeps the types.
LEMMA TypeStep == TypeOK /\ [Next]_vars => TypeOK'
<1>. SUFFICES ASSUME TypeOK, [Next]_vars PROVE TypeOK'
  OBVIOUS
<1>. USE WritesTyped
<1>1. CASE WriteNext
  <2>1. writes \in Seq(Write) /\ writes # << >>
    BY <1>1 DEF WriteNext, TypeOK, Idle
  <2>2. Head(writes) \in Write /\ Tail(writes) \in Seq(Write)
    BY <2>1
  <2>3. Head(writes)[1] \in FileName /\ Head(writes)[2] \in Contents[Head(writes)[1]]
    BY <2>2, WriteTyped
  <2>. QED
    BY <1>1, <2>2, <2>3 DEF WriteNext, TypeOK, screenVars, syncVars, history
<1>2. CASE WriteIndexNext
  <2>. DEFINE W == {"index"} \X Contents["index"]
  <2>1. indexWrites \in Seq(W) /\ indexWrites # << >>
    BY <1>2 DEF WriteIndexNext, TypeOK
  <2>2. Head(indexWrites) \in W /\ Tail(indexWrites) \in Seq(W)
    BY <2>1
  <2>3. Head(indexWrites)[1] = "index" /\ Head(indexWrites)[2] \in Contents["index"]
    BY <2>2
  <2>. QED
    BY <1>2, <2>2, <2>3 DEF WriteIndexNext, TypeOK, screenVars, syncVars, history
<1>3. CASE Restart
  <2>1. writes' \in Seq(Write)
    <3>1. RoleIsMissing(disk) =>
            Save("auth", [disk["auth"] EXCEPT !.role = BootRole(disk)]) \in Seq(Write)
      BY BootTyped
    <3>2. << >> \in Seq(Write)
      OBVIOUS
    <3>. QED
      BY <1>3, <3>1, <3>2 DEF Restart
  <2>2. account' \in Accounts
    <3>1. Readable("auth") => disk["auth"] \in Auth
      BY ContentsOf DEF TypeOK, FileName, AuthFile, Readable
    <3>. QED
      BY <1>3, <3>1 DEF Restart, TypeOK, Auth
  <2>3. restarts' \in 0 .. MaxRestarts
    <3>1. restarts < MaxRestarts /\ restarts' = restarts + 1
      BY <1>3 DEF Restart
    <3>2. restarts \in 0 .. MaxRestarts /\ MaxRestarts \in Nat
      BY DEF TypeOK, LifecycleAssumption
    <3>. QED
      BY <3>1, <3>2
  <2>4. {rootDir', indexRoot', mapped'} \subseteq MaybeFolder
    BY <1>3, BootTyped DEF Restart, TypeOK, MaybeFolder
  <2>5. past' \subseteq Oddities
    BY <1>3 DEF Restart, TypeOK, Oddities
  <2>6. userState' \in UserStates \union {"Panicked"}
    BY <1>3, BootTyped DEF Restart
  <2>7. /\ indexWrites' = << >> /\ disk' = disk /\ dialogs' = 0
        /\ syncing' = {} /\ batches' = {}
    BY <1>3 DEF Restart
  <2>. QED
    BY <2>1, <2>2, <2>3, <2>4, <2>5, <2>6, <2>7 DEF TypeOK
<1>4. ASSUME NEW a \in Accounts, SignIn(a) PROVE TypeOK'
  <2>1. [account |-> a, role |-> "None"] \in Auth
    BY DEF Auth
  <2>. QED
    BY <1>4, <2>1 DEF SignIn, TypeOK, screenVars, syncVars, history, UserStates
<1>5. CASE SignOut
  <2>1. {[s EXCEPT !.session = "earlier"] : s \in syncing} \subseteq Sync
    BY DEF TypeOK, Sync
  <2>. QED
    BY <1>5, <2>1 DEF SignOut, TypeOK, files, history, UserStates, MaybeFolder
<1>6. CASE TokenRefreshed
  BY <1>6 DEF TokenRefreshed, TypeOK, screenVars, syncVars, history
<1>7. CASE OrgCreated
  <2>1. [status |-> "Created", path |-> NoFolder, by |-> account] \in Org
    BY DEF Org, TypeOK
  <2>2. writes' \in Seq(Write)
    BY <1>7, <2>1 DEF OrgCreated
  <2>. QED
    BY <1>7, <2>2 DEF OrgCreated, TypeOK, screenVars, syncVars, history, UserStates
<1>8. CASE JoinOrgClicked
  <2>. DEFINE path == IF Readable("org") THEN disk["org"].path ELSE NoFolder
  <2>0. Readable("org") => disk["org"] \in Org
    BY ContentsOf DEF TypeOK, FileName, OrgFile, Readable
  <2>1. path \in MaybeFolder
    BY <2>0 DEF Org, MaybeFolder
  <2>2. [status |-> "Created", path |-> path, by |-> account] \in Org
    BY <2>1 DEF Org, TypeOK, MaybeFolder
  <2>3. writes' \in Seq(Write)
    BY <1>8, <2>2 DEF JoinOrgClicked
  <2>. QED
    BY <1>8, <2>1, <2>3 DEF JoinOrgClicked, TypeOK, syncVars, history, UserStates
<1>9. CASE BrowseFolderClicked
  BY <1>9 DEF BrowseFolderClicked, TypeOK, files, syncVars, history
<1>10. ASSUME NEW f \in Folders, FolderSelected(f) PROVE TypeOK'
  <2>1. dialogs' \in 0 .. MaxDialogs
    BY <1>10 DEF FolderSelected, TypeOK
  <2>2. [folder |-> f, session |-> "this"] \in Sync
    BY DEF Sync
  <2>3. mapped' \in MaybeFolder /\ writes' \in Seq(Write) /\ past' \subseteq Oddities
        /\ syncing' \subseteq Sync
    BY <1>10, <2>2 DEF FolderSelected, TypeOK, MaybeFolder, Oddities
  <2>. QED
    BY <1>10, <2>1, <2>3 DEF FolderSelected, TypeOK
<1>11. ASSUME NEW s \in Sync, InitialSyncOk(s) PROVE TypeOK'
  <2>1. s.folder \in MaybeFolder
    BY DEF Sync, MaybeFolder
  <2>2. writes' \in Seq(Write)
    <3>1. SetStatus("Ready") \in Seq(Write) /\ Save("index", s.folder) \in Seq(Write)
      BY <2>1
    <3>2. SyncedWrites(s.folder) \in Seq(Write)
      BY <3>1 DEF SyncedWrites
    <3>. QED
      BY <1>11, <3>2 DEF InitialSyncOk, TypeOK
  <2>3. /\ past' \subseteq Oddities /\ userState' \in UserStates \union {"Panicked"}
        /\ {rootDir', indexRoot'} \subseteq MaybeFolder
    BY <1>11, <2>1 DEF InitialSyncOk, TypeOK, Oddities, UserStates
  <2>. QED
    BY <1>11, <2>2, <2>3 DEF InitialSyncOk, TypeOK, screenVars
<1>12. ASSUME NEW s \in Sync, InitialSyncErr(s) PROVE TypeOK'
  BY <1>12 DEF InitialSyncErr, TypeOK, files, screenVars, history
<1>13. CASE ActionsReady
  BY <1>13 DEF ActionsReady, TypeOK, files, screenVars, history
<1>14. ASSUME NEW r \in MaybeFolder, SaveOnLocal(r) PROVE TypeOK'
  BY <1>14 DEF SaveOnLocal, TypeOK, screenVars, Oddities
<1>15. CASE UNCHANGED vars
  BY <1>15 DEF vars, files, screenVars, syncVars, history, TypeOK
<1>. QED
  BY <1>1, <1>2, <1>3, <1>4, <1>5, <1>6, <1>7, <1>8, <1>9, <1>10, <1>11, <1>12, <1>13,
     <1>14, <1>15 DEF Next, SyncAnswer, MaybeFolder

\* The files, what is written to them and the state in memory have their types.
THEOREM TypeCorrect == Spec => []TypeOK
BY TypeInit, TypeStep, PTL DEF Spec

-----------------------------------------------------------------------------
(* What a file holds once everything is written *)

NoWrite(w, f) == \A i \in 1 .. Len(w) : w[i][1] # f
LastWrite(w, f, v) ==
  \E i \in 1 .. Len(w) : w[i] = <<f, v>> /\ \A j \in (i + 1) .. Len(w) : w[j][1] # f
FinalIn(d, w, f, v) == LastWrite(w, f, v) \/ (NoWrite(w, f) /\ d[f] = v)

\* A profile that is truncated is written in the very next step.
Whole(w) ==
  \A i \in 1 .. Len(w) : w[i] = <<"auth", Unreadable>>
    => i < Len(w) /\ w[i + 1][1] = "auth" /\ w[i + 1][2] # Unreadable

\* When everything is written, a file holds what it finally holds.
LEMMA FinalIdle ==
  ASSUME NEW f, NEW v, Idle, FinalIn(disk, writes, f, v)
  PROVE  disk[f] = v
BY DEF Idle, FinalIn, LastWrite

\* With nothing to write, that is what is on disk.
LEMMA FinalEmpty ==
  ASSUME NEW f
  PROVE  FinalIn(disk, << >>, f, disk[f])
BY DEF FinalIn, NoWrite

\* A file that is saved finally holds what is saved, the others what they held.
LEMMA FinalSave ==
  ASSUME NEW d, NEW f, NEW v, NEW g, NEW u
  PROVE  /\ FinalIn(d, Save(f, v), f, v)
         /\ g # f /\ d[g] = u => FinalIn(d, Save(f, v), g, u)
<1>. DEFINE w == Save(f, v)
<1>1. Len(w) = 2 /\ w[1] = <<f, Unreadable>> /\ w[2] = <<f, v>>
  BY DEF Save
<1>2. LastWrite(w, f, v)
  BY <1>1 DEF LastWrite
<1>3. g # f => NoWrite(w, g)
  BY <1>1 DEF NoWrite
<1>. QED
  BY <1>2, <1>3 DEF FinalIn

\* Two writes after others.
LEMMA Appended ==
  ASSUME NEW w \in Seq(Write), NEW t \in Seq(Write), Len(t) = 2
  PROVE  /\ Len(w \o t) = Len(w) + 2 /\ Len(w) \in Nat
         /\ \A i \in 1 .. Len(w) : (w \o t)[i] = w[i]
         /\ (w \o t)[Len(w) + 1] = t[1] /\ (w \o t)[Len(w) + 2] = t[2]
<1>0. Len(w) \in Nat
  OBVIOUS
<1>1. Len(w \o t) = Len(w) + 2
  <2>1. Len(w \o t) = Len(w) + Len(t)
    BY ConcatProperties
  <2>. QED
    BY <2>1
<1>2. \A i \in 1 .. Len(w) + 2 : (w \o t)[i] = IF i <= Len(w) THEN w[i] ELSE t[i - Len(w)]
  BY ConcatProperties
<1>. QED
  BY <1>0, <1>1, <1>2

\* A handler saves one file after another.
LEMMA FinalAppend ==
  ASSUME NEW w \in Seq(Write), NEW d, NEW f \in FileName, NEW v \in Contents[f],
         NEW g \in FileName, NEW u
  PROVE  /\ FinalIn(d, w \o Save(f, v), f, v)
         /\ g # f /\ FinalIn(d, w, g, u) => FinalIn(d, w \o Save(f, v), g, u)
<1>. DEFINE t == Save(f, v)
            x == w \o t
<1>1. Len(t) = 2 /\ t[1] = <<f, Unreadable>> /\ t[2] = <<f, v>> /\ t \in Seq(Write)
  BY SaveTyped DEF Save
<1>. HIDE DEF t
<1>2. /\ Len(x) = Len(w) + 2 /\ Len(w) \in Nat
      /\ \A i \in 1 .. Len(w) : x[i] = w[i]
      /\ x[Len(w) + 1] = <<f, Unreadable>> /\ x[Len(w) + 2] = <<f, v>>
  BY <1>1, Appended
<1>. HIDE DEF x
<1>3. LastWrite(x, f, v)
  <2>1. Len(w) + 2 \in 1 .. Len(x) /\ \A j \in (Len(w) + 2 + 1) .. Len(x) : x[j][1] # f
    BY <1>2
  <2>. QED
    BY <1>2, <2>1 DEF LastWrite
<1>4. ASSUME g # f, NoWrite(w, g) PROVE NoWrite(x, g)
  <2>. SUFFICES ASSUME NEW i \in 1 .. Len(x) PROVE x[i][1] # g
    BY DEF NoWrite
  <2>1. CASE i \in 1 .. Len(w)
    BY <2>1, <1>2, <1>4 DEF NoWrite
  <2>2. CASE i = Len(w) + 1 \/ i = Len(w) + 2
    BY <2>2, <1>2, <1>4
  <2>. QED
    BY <2>1, <2>2, <1>2
<1>5. ASSUME g # f, LastWrite(w, g, u) PROVE LastWrite(x, g, u)
  <2>1. PICK i \in 1 .. Len(w) :
          w[i] = <<g, u>> /\ \A j \in (i + 1) .. Len(w) : w[j][1] # g
    BY <1>5 DEF LastWrite
  <2>2. i \in 1 .. Len(x) /\ x[i] = <<g, u>>
    BY <2>1, <1>2
  <2>3. ASSUME NEW j \in (i + 1) .. Len(x) PROVE x[j][1] # g
    <3>1. CASE j \in (i + 1) .. Len(w)
      BY <3>1, <2>1, <1>2
    <3>2. CASE j = Len(w) + 1 \/ j = Len(w) + 2
      BY <3>2, <1>2, <1>5
    <3>. QED
      BY <3>1, <3>2, <1>2
  <2>. QED
    BY <2>2, <2>3 DEF LastWrite
<1>. QED
  BY <1>3, <1>4, <1>5 DEF FinalIn, x, t

\* The step of a write.
LEMMA TailOf ==
  ASSUME NEW w \in Seq(Write), w # << >>
  PROVE  /\ Len(w) \in Nat /\ Len(w) > 0 /\ Len(Tail(w)) = Len(w) - 1
         /\ Tail(w) \in Seq(Write) /\ Head(w) = w[1]
         /\ \A i \in 1 .. Len(Tail(w)) : Tail(w)[i] = w[i + 1]
         /\ w[1][1] \in FileName /\ w[1] = <<w[1][1], w[1][2]>>
<1>1. w[1] \in Write
  OBVIOUS
<1>2. w[1][1] \in FileName /\ w[1] = <<w[1][1], w[1][2]>>
  BY <1>1 DEF Write
<1>. QED
  BY <1>2

\* A write does not change what a file finally holds.
LEMMA FinalTail ==
  ASSUME NEW w \in Seq(Write), w # << >>, NEW d, DOMAIN d = FileName,
         NEW f \in FileName, NEW v, FinalIn(d, w, f, v)
  PROVE  FinalIn([d EXCEPT ![Head(w)[1]] = Head(w)[2]], Tail(w), f, v)
<1>. DEFINE t == Tail(w)
            e == [d EXCEPT ![w[1][1]] = w[1][2]]
<1>1. /\ Len(w) \in Nat /\ Len(w) > 0 /\ Len(t) = Len(w) - 1 /\ Head(w) = w[1]
      /\ \A i \in 1 .. Len(t) : t[i] = w[i + 1]
      /\ w[1][1] \in FileName
  BY TailOf
<1>2. e[f] = IF w[1][1] = f THEN w[1][2] ELSE d[f]
  OBVIOUS
<1>. HIDE DEF t, e
<1>3. CASE NoWrite(w, f) /\ d[f] = v
  <2>1. NoWrite(t, f)
    BY <1>1, <1>3 DEF NoWrite
  <2>2. w[1][1] # f
    BY <1>1, <1>3 DEF NoWrite
  <2>. QED
    BY <1>1, <1>2, <1>3, <2>1, <2>2 DEF FinalIn, t, e
<1>4. CASE LastWrite(w, f, v)
  <2>1. PICK i \in 1 .. Len(w) :
          w[i] = <<f, v>> /\ \A j \in (i + 1) .. Len(w) : w[j][1] # f
    BY <1>4 DEF LastWrite
  <2>2. CASE i = 1
    <3>1. NoWrite(t, f)
      BY <1>1, <2>1, <2>2 DEF NoWrite
    <3>2. e[f] = v
      BY <1>2, <2>1, <2>2
    <3>. QED
      BY <1>1, <3>1, <3>2 DEF FinalIn, t, e
  <2>3. CASE i # 1
    <3>1. i - 1 \in 1 .. Len(t) /\ t[i - 1] = <<f, v>>
      BY <1>1, <2>1, <2>3
    <3>2. \A j \in ((i - 1) + 1) .. Len(t) : t[j][1] # f
      BY <1>1, <2>1, <2>3
    <3>3. LastWrite(t, f, v)
      BY <3>1, <3>2 DEF LastWrite
    <3>. QED
      BY <1>1, <3>3 DEF FinalIn, t, e
  <2>. QED
    BY <2>2, <2>3
<1>. QED
  BY <1>3, <1>4 DEF FinalIn

\* Saving a file keeps the writes whole.
LEMMA WholeSave ==
  ASSUME NEW f \in FileName, NEW v \in Contents[f], v # Unreadable
  PROVE  /\ Whole(<< >>) /\ Whole(Save(f, v))
         /\ \A w \in Seq(Write) : Whole(w) => Whole(w \o Save(f, v))
<1>. DEFINE t == Save(f, v)
<1>1. Len(t) = 2 /\ t[1] = <<f, Unreadable>> /\ t[2] = <<f, v>> /\ t \in Seq(Write)
  BY SaveTyped DEF Save
<1>. HIDE DEF t
<1>2. Whole(<< >>) /\ Whole(t)
  BY <1>1 DEF Whole
<1>3. ASSUME NEW w \in Seq(Write), Whole(w) PROVE Whole(w \o t)
  <2>. DEFINE x == w \o t
  <2>1. /\ Len(x) = Len(w) + 2 /\ Len(w) \in Nat
        /\ \A i \in 1 .. Len(w) : x[i] = w[i]
        /\ x[Len(w) + 1] = <<f, Unreadable>> /\ x[Len(w) + 2] = <<f, v>>
    BY <1>1, Appended
  <2>. HIDE DEF x
  <2>2. ASSUME NEW i \in 1 .. Len(x), x[i] = <<"auth", Unreadable>>
        PROVE  i < Len(x) /\ x[i + 1][1] = "auth" /\ x[i + 1][2] # Unreadable
    <3>1. CASE i \in 1 .. Len(w)
      <4>1. i < Len(w) /\ w[i + 1][1] = "auth" /\ w[i + 1][2] # Unreadable
        BY <3>1, <2>1, <2>2, <1>3 DEF Whole
      <4>. QED
        BY <4>1, <3>1, <2>1
    <3>2. CASE i = Len(w) + 1
      BY <3>2, <2>1, <2>2
    <3>3. CASE i = Len(w) + 2
      BY <3>3, <2>1, <2>2
    <3>. QED
      BY <3>1, <3>2, <3>3, <2>1
  <2>. QED
    BY <2>2 DEF Whole, x
<1>. QED
  BY <1>2, <1>3 DEF t

\* So does a write.
LEMMA WholeTail ==
  ASSUME NEW w \in Seq(Write), w # << >>, Whole(w)
  PROVE  Whole(Tail(w))
<1>. DEFINE t == Tail(w)
<1>1. /\ Len(w) \in Nat /\ Len(w) > 0 /\ Len(t) = Len(w) - 1
      /\ \A i \in 1 .. Len(t) : t[i] = w[i + 1]
  BY TailOf
<1>. HIDE DEF t
<1>2. ASSUME NEW i \in 1 .. Len(t), t[i] = <<"auth", Unreadable>>
      PROVE  i < Len(t) /\ t[i + 1][1] = "auth" /\ t[i + 1][2] # Unreadable
  <2>1. i + 1 \in 1 .. Len(w) /\ w[i + 1] = <<"auth", Unreadable>>
    BY <1>1, <1>2
  <2>2. i + 1 < Len(w) /\ w[(i + 1) + 1][1] = "auth" /\ w[(i + 1) + 1][2] # Unreadable
    BY <2>1 DEF Whole
  <2>3. i + 1 \in 1 .. Len(t) /\ t[i + 1] = w[(i + 1) + 1]
    BY <1>1, <2>2
  <2>. QED
    BY <1>1, <2>2, <2>3
<1>. QED
  BY <1>2 DEF Whole, t

-----------------------------------------------------------------------------
(* The invariant *)

NothingYet == disk["org"] = Unreadable /\ userState = "SignedOut" /\ Idle

\* The next write is of the profile; if it truncates, there is no organization yet.
ProfileNext ==
  /\ writes # << >> /\ writes[1][1] = "auth"
  /\ writes[1][2] = Unreadable => disk["org"] = Unreadable

\* No write of the profile was cut off: a profile that cannot be read is written next, so
\* a stop now either is inside its save_object or finds no organization.
ProfileInv ==
  "cutOff" \notin past =>
    /\ userState # "Panicked"
    /\ Whole(writes)
    /\ disk["auth"] = Unreadable => NothingYet \/ ProfileNext

\* What boot would make of the profile and of the organization.
Agrees(a, o) ==
  /\ userState = "OrgCreated" => a.role = "Owner" /\ mapped = NoFolder
  /\ userState = "OrgJoined" => a.role = "User" /\ o.status = "Created" /\ mapped = o.path
  /\ userState = "OrgSynced" =>
       a.role = "User" /\ o.status = "Ready" /\ mapped = o.path /\ o.path # NoFolder

\* The files, once written, are of the account and of the state in memory.
SavedAs(a, o) ==
  /\ FinalIn(disk, writes, "auth", a) /\ FinalIn(disk, writes, "org", o)
  /\ a.account = account
  /\ "lateResult" \notin past => Agrees(a, o)
  /\ "roleInferred" \notin past => o.by = account

StateInv ==
  /\ userState = "SignedIn" =>
       \E a \in Auth : FinalIn(disk, writes, "auth", a) /\ a.account = account
  /\ HasOrg => \E a \in Auth, o \in Org : SavedAs(a, o)
  /\ userState \in {"SignedOut", "SignedIn"} => mapped = NoFolder
  /\ \A s \in syncing : s.session = "this" =>
       userState \in {"OrgJoined", "OrgSynced"} /\ mapped # NoFolder

\* An organization is ready with its folder only.
ReadyOrg == {o \in OrgFile : o \in Org /\ o.status = "Ready" => o.path # NoFolder}
ReadyWrite == {w \in Write : w[1] = "org" => w[2] \in ReadyOrg}
ReadyInv == "lateResult" \notin past => disk["org"] \in ReadyOrg /\ writes \in Seq(ReadyWrite)

\* What is written is of the account.
OwnWrite(x) ==
  {w \in Write : w[2] # Unreadable => /\ w[1] = "auth" => w[2].account = x
                                      /\ w[1] = "org" => w[2].by = x}
OrgComes(n) == \E j \in 1 .. n : writes[j][1] = "org" /\ writes[j][2] # Unreadable

RoleInv ==
  "roleInferred" \notin past =>
    /\ Readable("auth") /\ Readable("org") /\ disk["auth"].role # "None"
         => disk["org"].by = disk["auth"].account
    /\ writes \in Seq(OwnWrite(account))
    /\ Readable("auth") /\ OrgComes(Len(writes)) => disk["auth"].account = account
    /\ \A i \in 1 .. Len(writes) :
         /\ writes[i][1] = "auth" /\ writes[i][2] # Unreadable /\ writes[i][2].role # "None"
         /\ Readable("org")
         => disk["org"].by = account \/ OrgComes(i - 1)

IInv == ProfileInv /\ StateInv /\ ReadyInv /\ RoleInv

\* A step that leaves alone what the invariant speaks of, but for a new oddity or the end
\* of a sync.
Quiet ==
  /\ UNCHANGED <<writes, userState, account, mapped>>
  /\ disk'["auth"] = disk["auth"] /\ disk'["org"] = disk["org"]
  /\ past \subseteq past' /\ syncing' \subseteq syncing

\* A quiet step keeps the invariant.
LEMMA QuietStep == TypeOK /\ IInv /\ Quiet => IInv'
<1>. SUFFICES ASSUME TypeOK, IInv, Quiet PROVE IInv'
  OBVIOUS
<1>1. ProfileInv'
  BY DEF IInv, ProfileInv, Quiet, NothingYet, Idle, ProfileNext
<1>2. StateInv'
  <2>1. /\ \A a : FinalIn(disk, writes, "auth", a) => FinalIn(disk', writes', "auth", a)
        /\ \A o : FinalIn(disk, writes, "org", o) => FinalIn(disk', writes', "org", o)
    BY DEF Quiet, FinalIn
  <2>2. \A a, o : Agrees(a, o) => Agrees(a, o)'
    BY DEF Quiet, Agrees
  <2>3. \A a, o : SavedAs(a, o) => SavedAs(a, o)'
    BY <2>1, <2>2 DEF Quiet, SavedAs
  <2>. QED
    BY <2>1, <2>3 DEF IInv, StateInv, Quiet, HasOrg
<1>3. ReadyInv'
  BY DEF IInv, ReadyInv, Quiet
<1>4. RoleInv'
  BY DEF IInv, RoleInv, Quiet, Readable, OrgComes
<1>. QED
  BY <1>1, <1>2, <1>3, <1>4 DEF IInv

\* The actions of which no file, and no state but of a sync, depends.
LEMMA QuietActions ==
  ASSUME TypeOK
  PROVE  /\ WriteIndexNext \/ BrowseFolderClicked \/ ActionsReady \/ UNCHANGED vars => Quiet
         /\ \A s : InitialSyncErr(s) \/ (InitialSyncOk(s) /\ userState # "OrgJoined") => Quiet
         /\ \A r : SaveOnLocal(r) => Quiet
         /\ \A f : FolderSelected(f) /\ userState \notin {"OrgJoined", "OrgSynced"} => Quiet
<1>1. WriteIndexNext => Quiet
  <2>. SUFFICES ASSUME WriteIndexNext PROVE Quiet
    OBVIOUS
  <2>. DEFINE W == {"index"} \X Contents["index"]
  <2>1. indexWrites \in Seq(W) /\ indexWrites # << >>
    BY DEF WriteIndexNext, TypeOK
  <2>2. Head(indexWrites) \in W
    BY <2>1
  <2>3. Head(indexWrites)[1] = "index"
    BY <2>2
  <2>. QED
    BY <2>3 DEF WriteIndexNext, Quiet, screenVars, syncVars, history, TypeOK, FileName
<1>2. BrowseFolderClicked \/ ActionsReady \/ UNCHANGED vars => Quiet
  BY DEF BrowseFolderClicked, ActionsReady, vars, Quiet, files, screenVars, syncVars, history
<1>3. \A s : InitialSyncErr(s) \/ (InitialSyncOk(s) /\ userState # "OrgJoined") => Quiet
  BY DEF InitialSyncErr, InitialSyncOk, Quiet, files, screenVars, history
<1>4. \A r : SaveOnLocal(r) => Quiet
  BY DEF SaveOnLocal, Quiet, screenVars
<1>5. \A f : FolderSelected(f) /\ userState \notin {"OrgJoined", "OrgSynced"} => Quiet
  BY DEF FolderSelected, Quiet, screenVars
<1>. QED
  BY <1>1, <1>2, <1>3, <1>4, <1>5

\* The invariant holds at the first start.
LEMMA InvInit == Init => IInv
<1>. SUFFICES ASSUME Init PROVE IInv
  OBVIOUS
<1>1. /\ disk["auth"] = Unreadable /\ disk["org"] = Unreadable /\ writes = << >>
      /\ mapped = NoFolder /\ syncing = {} /\ past = {}
  BY DEF Init, FileName
<1>2. userState = "SignedOut"
  BY <1>1 DEF Init, BootState
<1>3. ProfileInv
  BY <1>1, <1>2 DEF ProfileInv, Whole, NothingYet, Idle
<1>4. StateInv
  BY <1>1, <1>2 DEF StateInv, HasOrg
<1>5. ReadyInv
  <2>1. Unreadable \in ReadyOrg
    BY UnreadableApart DEF ReadyOrg, OrgFile
  <2>2. << >> \in Seq(ReadyWrite)
    OBVIOUS
  <2>. QED
    BY <1>1, <2>1, <2>2 DEF ReadyInv
<1>6. RoleInv
  BY <1>1 DEF RoleInv, Readable
<1>. QED
  BY <1>3, <1>4, <1>5, <1>6 DEF IInv

\* A write keeps the invariant.
LEMMA WriteStep == TypeOK /\ IInv /\ WriteNext => IInv'
<1>. SUFFICES ASSUME TypeOK, IInv, WriteNext PROVE IInv'
  OBVIOUS
<1>. DEFINE h == writes[1]
<1>1. writes \in Seq(Write) /\ writes # << >> /\ DOMAIN disk = FileName
  BY DEF WriteNext, Idle, TypeOK
<1>2. /\ Len(writes) \in Nat /\ Len(writes) > 0 /\ Len(writes') = Len(writes) - 1
      /\ writes' \in Seq(Write) /\ writes' = Tail(writes) /\ Head(writes) = h
      /\ \A i \in 1 .. Len(writes') : writes'[i] = writes[i + 1]
      /\ h[1] \in FileName /\ h = <<h[1], h[2]>>
  BY <1>1, TailOf DEF WriteNext
<1>3. /\ disk' = [disk EXCEPT ![h[1]] = h[2]]
      /\ UNCHANGED <<userState, account, mapped, syncing, past>>
  BY <1>2 DEF WriteNext, screenVars, syncVars, history
<1>4. /\ disk'["auth"] = IF h[1] = "auth" THEN h[2] ELSE disk["auth"]
      /\ disk'["org"] = IF h[1] = "org" THEN h[2] ELSE disk["org"]
  BY <1>1, <1>3 DEF FileName
<1>. HIDE DEF h
<1>5. ProfileInv'
  <2>. SUFFICES ASSUME "cutOff" \notin past
       PROVE  /\ userState # "Panicked" /\ Whole(writes')
              /\ disk'["auth"] = Unreadable => ProfileNext'
    BY <1>3 DEF ProfileInv
  <2>1. userState # "Panicked" /\ Whole(writes)
    BY DEF IInv, ProfileInv
  <2>2. Whole(writes')
    BY <1>1, <1>2, <2>1, WholeTail
  <2>3. ASSUME disk'["auth"] = Unreadable, h[1] = "auth" PROVE ProfileNext'
    <3>1. writes[1] = <<"auth", Unreadable>>
      BY <1>2, <1>4, <2>3 DEF h
    <3>2. 1 < Len(writes) /\ writes[1 + 1][1] = "auth" /\ writes[1 + 1][2] # Unreadable
      BY <1>2, <2>1, <3>1 DEF Whole
    <3>3. 1 \in 1 .. Len(writes') /\ writes'[1] = writes[1 + 1]
      BY <1>2, <3>2
    <3>4. writes' # << >>
      <4>1. writes' = << >> => Len(writes') = 0
        OBVIOUS
      <4>. QED
        BY <4>1, <3>3
    <3>. QED
      BY <3>2, <3>3, <3>4 DEF ProfileNext
  <2>4. ASSUME disk'["auth"] = Unreadable, h[1] # "auth" PROVE FALSE
    <3>1. disk["auth"] = Unreadable
      BY <1>4, <2>4
    <3>2. ProfileNext
      BY <1>1, <3>1 DEF IInv, ProfileInv, NothingYet, Idle
    <3>. QED
      BY <2>4, <3>2 DEF ProfileNext, h
  <2>. QED
    BY <2>1, <2>2, <2>3, <2>4
<1>6. StateInv'
  <2>1. /\ \A a : FinalIn(disk, writes, "auth", a) => FinalIn(disk', writes', "auth", a)
        /\ \A o : FinalIn(disk, writes, "org", o) => FinalIn(disk', writes', "org", o)
    BY <1>1, <1>2, <1>3, FinalTail DEF FileName
  <2>2. \A a, o : Agrees(a, o) => Agrees(a, o)'
    BY <1>3 DEF Agrees
  <2>3. \A a, o : SavedAs(a, o) => SavedAs(a, o)'
    BY <1>3, <2>1, <2>2 DEF SavedAs
  <2>. QED
    BY <1>3, <2>1, <2>3 DEF IInv, StateInv, HasOrg
<1>7. ReadyInv'
  <2>. SUFFICES ASSUME "lateResult" \notin past
       PROVE  disk'["org"] \in ReadyOrg /\ writes' \in Seq(ReadyWrite)
    BY <1>3 DEF ReadyInv
  <2>1. disk["org"] \in ReadyOrg /\ writes \in Seq(ReadyWrite)
    BY DEF IInv, ReadyInv
  <2>2. h \in ReadyWrite /\ writes' \in Seq(ReadyWrite)
    BY <1>1, <1>2, <2>1 DEF h
  <2>. QED
    BY <1>4, <2>1, <2>2 DEF ReadyWrite
<1>8. RoleInv'
  <2>. SUFFICES ASSUME "roleInferred" \notin past
       PROVE  /\ Readable("auth")' /\ Readable("org")' /\ disk'["auth"].role # "None"
                   => disk'["org"].by = disk'["auth"].account
              /\ writes' \in Seq(OwnWrite(account))
              /\ Readable("auth")' /\ OrgComes(Len(writes))' => disk'["auth"].account = account
              /\ \A i \in 1 .. Len(writes') :
                   /\ writes'[i][1] = "auth" /\ writes'[i][2] # Unreadable
                   /\ writes'[i][2].role # "None" /\ Readable("org")'
                   => disk'["org"].by = account \/ OrgComes(i - 1)'
    BY <1>3 DEF RoleInv
  <2>0. RoleInv
    BY DEF IInv
  <2>1. h \in OwnWrite(account) /\ writes' \in Seq(OwnWrite(account))
    BY <1>1, <1>2, <2>0 DEF h, RoleInv
  <2>2. h[2] # Unreadable => /\ h[1] = "auth" => h[2].account = account
                             /\ h[1] = "org" => h[2].by = account
    BY <2>1 DEF OwnWrite
  <2>3. OrgComes(Len(writes))' => OrgComes(Len(writes))
    BY <1>2 DEF OrgComes
  <2>4. h[1] = "org" /\ h[2] # Unreadable => OrgComes(Len(writes))
    BY <1>2 DEF OrgComes, h
  <2>5. ASSUME h[1] = "auth", h[2] # Unreadable, h[2].role # "None", Readable("org")
        PROVE  disk["org"].by = account
    <3>1. ~OrgComes(0)
      BY DEF OrgComes
    <3>2. 1 \in 1 .. Len(writes) /\ 1 - 1 = 0
      BY <1>2
    <3>. QED
      BY <2>0, <2>5, <3>1, <3>2 DEF RoleInv, h
  <2>6. Readable("auth")' /\ Readable("org")' /\ disk'["auth"].role # "None"
          => disk'["org"].by = disk'["auth"].account
    BY <1>4, <2>0, <2>2, <2>4, <2>5 DEF RoleInv, Readable
  <2>7. Readable("auth")' /\ OrgComes(Len(writes))' => disk'["auth"].account = account
    BY <1>4, <2>0, <2>2, <2>3 DEF RoleInv, Readable
  <2>8. ASSUME NEW i \in 1 .. Len(writes'), writes'[i][1] = "auth",
               writes'[i][2] # Unreadable, writes'[i][2].role # "None", Readable("org")'
        PROVE  disk'["org"].by = account \/ OrgComes(i - 1)'
    <3>1. CASE h[1] = "org"
      BY <3>1, <1>4, <2>2, <2>8 DEF Readable
    <3>2. CASE h[1] # "org"
      <4>1. /\ i + 1 \in 1 .. Len(writes) /\ writes[i + 1] = writes'[i] /\ i = (i + 1) - 1
            /\ Readable("org") /\ disk'["org"] = disk["org"]
        BY <3>2, <1>2, <1>4, <2>8 DEF Readable
      <4>2. disk["org"].by = account \/ OrgComes(i)
        BY <4>1, <2>0, <2>8 DEF RoleInv
      <4>3. ASSUME OrgComes(i) PROVE OrgComes(i - 1)'
        <5>1. PICK j \in 1 .. i : writes[j][1] = "org" /\ writes[j][2] # Unreadable
          BY <4>3 DEF OrgComes
        <5>2. j # 1
          BY <5>1, <3>2 DEF h
        <5>3. j - 1 \in 1 .. (i - 1) /\ writes'[j - 1] = writes[j]
          BY <5>1, <5>2, <1>2
        <5>. QED
          BY <5>1, <5>3 DEF OrgComes
      <4>. QED
        BY <4>1, <4>2, <4>3
    <3>. QED
      BY <3>1, <3>2
  <2>. QED
    BY <2>1, <2>6, <2>7, <2>8
<1>. QED
  BY <1>5, <1>6, <1>7, <1>8 DEF IInv

-----------------------------------------------------------------------------
(* The handlers *)

\* The writes of save_object, as a sequence over any set that has both.
LEMMA SavedIn ==
  ASSUME NEW S, NEW f, NEW v, <<f, Unreadable>> \in S, <<f, v>> \in S
  PROVE  /\ << >> \in Seq(S) /\ Save(f, v) \in Seq(S)
         /\ \A w \in Seq(S) : w \o Save(f, v) \in Seq(S)
<1>1. Save(f, v) \in Seq(S)
  BY DEF Save
<1>2. \A w \in Seq(S) : w \o Save(f, v) \in Seq(S)
  BY <1>1, ConcatProperties
<1>. QED
  BY <1>1, <1>2

\* What may be written, given what it is.
LEMMA GoodWrites ==
  /\ <<"auth", Unreadable>> \in Write /\ <<"org", Unreadable>> \in Write
  /\ <<"index", Unreadable>> \in Write
  /\ \A a \in Auth : <<"auth", a>> \in Write
  /\ \A o \in Org : <<"org", o>> \in Write
  /\ \A r \in MaybeFolder : <<"index", r>> \in Write
  /\ Unreadable \in ReadyOrg
<1>1. \A f \in FileName : Unreadable \in Contents[f]
  BY ContentsOf DEF FileName, AuthFile, OrgFile, IndexFile
<1>2. Unreadable \in ReadyOrg
  BY UnreadableApart DEF ReadyOrg, OrgFile
<1>3. \A a \in Auth : a \in Contents["auth"]
  BY ContentsOf DEF AuthFile
<1>4. \A o \in Org : o \in Contents["org"]
  BY ContentsOf DEF OrgFile
<1>5. \A r \in MaybeFolder : r \in Contents["index"]
  BY ContentsOf DEF IndexFile
<1>. QED
  BY <1>1, <1>2, <1>3, <1>4, <1>5 DEF Write, FileName

\* Between two handlers, the files are those of the account and of the state.
LEMMA IdleSaved ==
  ASSUME TypeOK, IInv, Idle
  PROVE  /\ userState = "SignedIn" \/ HasOrg =>
              /\ disk["auth"] \in Auth /\ Readable("auth") /\ disk["auth"].account = account
         /\ HasOrg => /\ disk["org"] \in Org /\ Readable("org")
                      /\ SavedAs(disk["auth"], disk["org"])
<1>1. ASSUME userState = "SignedIn"
      PROVE  disk["auth"] \in Auth /\ disk["auth"].account = account
  <2>1. PICK a \in Auth : FinalIn(disk, writes, "auth", a) /\ a.account = account
    BY <1>1 DEF IInv, StateInv
  <2>. QED
    BY <2>1, FinalIdle
<1>2. ASSUME HasOrg
      PROVE  disk["auth"] \in Auth /\ disk["org"] \in Org /\ SavedAs(disk["auth"], disk["org"])
  <2>1. PICK a \in Auth, o \in Org : SavedAs(a, o)
    BY <1>2 DEF IInv, StateInv
  <2>2. disk["auth"] = a /\ disk["org"] = o
    BY <2>1, FinalIdle DEF SavedAs
  <2>. QED
    BY <2>1, <2>2
<1>3. HasOrg => disk["auth"].account = account
  BY <1>2 DEF SavedAs
<1>. QED
  BY <1>1, <1>2, <1>3, UnreadableApart DEF Readable

\* What is the same for every handler that a signed-in user calls.
LEMMA HandlerStep ==
  ASSUME TypeOK, IInv, Idle, userState = "SignedIn" \/ HasOrg,
         userState' \in UserStates, disk' = disk, account' = account, past \subseteq past',
         "cutOff" \in past' => "cutOff" \in past,
         Whole(writes'),
         "lateResult" \notin past' => writes' \in Seq(ReadyWrite),
         "roleInferred" \notin past => writes' \in Seq(OwnWrite(account)),
         \A i \in 1 .. Len(writes') :
           /\ writes'[i][1] = "auth" /\ writes'[i][2] # Unreadable
           /\ writes'[i][2].role # "None" /\ Readable("org") /\ "roleInferred" \notin past
           => disk["org"].by = account \/ OrgComes(i - 1)'
  PROVE  ProfileInv' /\ ReadyInv' /\ RoleInv'
<1>1. disk["auth"] \in Auth /\ Readable("auth") /\ disk["auth"].account = account
  BY IdleSaved
<1>2. ProfileInv'
  BY <1>1 DEF ProfileInv, IInv, Readable, UserStates
<1>3. ReadyInv'
  BY DEF ReadyInv, IInv
<1>4. RoleInv'
  <2>1. RoleInv
    BY DEF IInv
  <2>. QED
    BY <1>1, <2>1 DEF RoleInv, Readable
<1>. QED
  BY <1>2, <1>3, <1>4

\* The handlers, one by one.
LEMMA SignInStep ==
  ASSUME TypeOK, IInv, NEW x \in Accounts, SignIn(x)
  PROVE  IInv'
<1>. DEFINE a == [account |-> x, role |-> "None"]
<1>1. a \in Auth /\ a.account = x /\ a.role = "None" /\ a # Unreadable
  BY UnreadableApart DEF Auth
<1>. HIDE DEF a
<1>2. /\ Idle /\ userState = "SignedOut" /\ userState' = "SignedIn" /\ account' = x
      /\ writes' = Save("auth", a)
      /\ disk' = disk /\ mapped' = mapped /\ syncing' = syncing /\ past' = past
  BY DEF SignIn, screenVars, syncVars, history, a
<1>3. Len(writes') = 2 /\ writes'[1] = <<"auth", Unreadable>> /\ writes'[2] = <<"auth", a>>
  BY <1>2 DEF Save
<1>4. ProfileInv'
  <2>1. Whole(writes')
    BY <1>3, <1>1 DEF Whole
  <2>2. writes' # << >> /\ writes'[1] = <<"auth", Unreadable>>
    BY <1>3
  <2>3. ~ProfileNext
    BY <1>2 DEF ProfileNext, Idle
  <2>. QED
    BY <2>1, <2>2, <2>3, <1>2 DEF IInv, ProfileInv, ProfileNext, NothingYet
<1>5. StateInv'
  <2>1. FinalIn(disk', writes', "auth", a)
    BY <1>2, FinalSave
  <2>. QED
    BY <1>1, <1>2, <2>1 DEF IInv, StateInv, HasOrg
<1>6. ReadyInv'
  <2>1. writes' \in Seq(ReadyWrite)
    BY <1>1, <1>2, SavedIn, GoodWrites DEF ReadyWrite
  <2>. QED
    BY <2>1, <1>2 DEF IInv, ReadyInv
<1>7. RoleInv'
  <2>1. writes' \in Seq(OwnWrite(account'))
    BY <1>1, <1>2, SavedIn, GoodWrites DEF OwnWrite
  <2>2. ~OrgComes(Len(writes))'
    BY <1>3 DEF OrgComes
  <2>3. \A i \in 1 .. Len(writes') : writes'[i][2] # Unreadable => writes'[i][2].role = "None"
    BY <1>1, <1>3
  <2>. QED
    BY <1>2, <2>1, <2>2, <2>3 DEF IInv, RoleInv, Readable
<1>. QED
  BY <1>4, <1>5, <1>6, <1>7 DEF IInv

\* Nothing is to be written, and the files stay.
LEMMA SignOutStep ==
  ASSUME TypeOK, IInv, SignOut
  PROVE  IInv'
<1>1. /\ Idle /\ userState # "SignedOut" /\ userState' = "SignedOut" /\ mapped' = NoFolder
      /\ writes' = writes /\ disk' = disk /\ account' = account /\ past' = past
      /\ syncing' = {[s EXCEPT !.session = "earlier"] : s \in syncing}
  BY DEF SignOut, files, history
<1>2. writes = << >>
  BY <1>1 DEF Idle
<1>3. ProfileInv'
  <2>1. ~ProfileNext /\ ~NothingYet
    BY <1>1, <1>2 DEF ProfileNext, NothingYet
  <2>. QED
    BY <1>1, <2>1 DEF IInv, ProfileInv
<1>4. StateInv'
  <2>1. \A s \in syncing' : s.session # "this"
    BY <1>1 DEF TypeOK, Sync
  <2>. QED
    BY <1>1, <2>1 DEF StateInv, HasOrg
<1>5. ReadyInv' /\ RoleInv'
  BY <1>1 DEF IInv, ReadyInv, RoleInv, Readable, OrgComes
<1>. QED
  BY <1>3, <1>4, <1>5 DEF IInv

\* The profile is saved as it is.
LEMMA TokenRefreshedStep ==
  ASSUME TypeOK, IInv, TokenRefreshed
  PROVE  IInv'
<1>1. /\ Idle
      /\ userState = "SignedIn" \/ HasOrg
      /\ UNCHANGED <<disk, userState, account, mapped, syncing, past>>
  BY DEF TokenRefreshed, screenVars, syncVars, history, HasOrg
<1>2. PICK a, o :
        /\ a \in Auth /\ a = disk["auth"] /\ o = disk["org"]
        /\ Readable("auth") /\ a.account = account
        /\ HasOrg => o \in Org /\ SavedAs(a, o)
  BY <1>1, IdleSaved
<1>3. writes' = Save("auth", a)
  BY <1>2 DEF TokenRefreshed
<1>4. Len(writes') = 2 /\ writes'[1] = <<"auth", Unreadable>> /\ writes'[2] = <<"auth", a>>
  BY <1>3 DEF Save
<1>5. a # Unreadable
  BY <1>2, UnreadableApart
<1>6. Whole(writes')
  BY <1>4, <1>5 DEF Whole
<1>7. writes' \in Seq(ReadyWrite) /\ writes' \in Seq(OwnWrite(account))
  BY <1>2, <1>3, SavedIn, GoodWrites DEF ReadyWrite, OwnWrite
<1>8. ASSUME NEW i \in 1 .. Len(writes'), writes'[i][2] # Unreadable,
             writes'[i][2].role # "None", Readable("org"), "roleInferred" \notin past
      PROVE  disk["org"].by = account
  <2>1. writes'[i][2] = a
    BY <1>4, <1>8
  <2>. QED
    BY <2>1, <1>2, <1>8 DEF IInv, RoleInv
<1>9. ProfileInv' /\ ReadyInv' /\ RoleInv'
  BY <1>1, <1>6, <1>7, <1>8, HandlerStep DEF UserStates, HasOrg
<1>10. StateInv'
  <2>1. FinalIn(disk', writes', "auth", a) /\ FinalIn(disk', writes', "org", o)
    BY <1>1, <1>3, <1>2, FinalSave
  <2>2. HasOrg => SavedAs(a, o)'
    BY <1>1, <1>2, <2>1 DEF SavedAs, Agrees
  <2>. QED
    BY <1>1, <1>2, <2>1, <2>2 DEF IInv, StateInv, HasOrg
<1>. QED
  BY <1>9, <1>10 DEF IInv

\* The organization and then the profile with its role: what OrgCreated and JoinOrgClicked
\* write, the one with no folder, the other with the folder that org.json had.
LEMMA OrgThenRole ==
  ASSUME TypeOK, IInv, Idle, userState = "SignedIn",
         NEW role \in {"Owner", "User"}, NEW o \in Org, o.by = account, o.status = "Created",
         writes' = Save("org", o) \o WithRole(role),
         disk' = disk, account' = account, past' = past, syncing' = syncing,
         mapped' = o.path,
         \/ role = "Owner" /\ userState' = "OrgCreated" /\ o.path = NoFolder
         \/ role = "User" /\ userState' = "OrgJoined"
  PROVE  IInv'
<1>1. disk["auth"] \in Auth /\ Readable("auth") /\ disk["auth"].account = account
  BY IdleSaved
<1>2. PICK a \in Auth : /\ a = [disk["auth"] EXCEPT !.role = role]
                        /\ a.account = account /\ a.role = role
  <2>. DEFINE x == [disk["auth"] EXCEPT !.role = role]
  <2>1. x \in Auth /\ x.account = account /\ x.role = role
    BY <1>1 DEF Auth
  <2>. QED
    BY <2>1
<1>3. writes' = Save("org", o) \o Save("auth", a)
  BY <1>1, <1>2 DEF WithRole
<1>4. a # Unreadable /\ o # Unreadable
  BY UnreadableApart
<1>5. a \in Contents["auth"] /\ o \in Contents["org"]
  BY ContentsOf DEF AuthFile, OrgFile
<1>6. Save("org", o) \in Seq(Write) /\ Save("auth", a) \in Seq(Write)
  BY <1>5, SaveTyped DEF FileName
<1>7. Whole(writes')
  BY <1>3, <1>4, <1>5, <1>6, WholeSave DEF FileName
<1>8. /\ Len(writes') = 4
      /\ writes'[1] = <<"org", Unreadable>> /\ writes'[2] = <<"org", o>>
      /\ writes'[3] = <<"auth", Unreadable>> /\ writes'[4] = <<"auth", a>>
  <2>1. /\ Len(Save("org", o)) = 2 /\ Len(Save("auth", a)) = 2
        /\ Save("org", o)[1] = <<"org", Unreadable>> /\ Save("org", o)[2] = <<"org", o>>
        /\ Save("auth", a)[1] = <<"auth", Unreadable>> /\ Save("auth", a)[2] = <<"auth", a>>
    BY DEF Save
  <2>. QED
    BY <1>3, <1>6, <2>1, Appended
<1>9. writes' \in Seq(ReadyWrite)
  <2>1. o \in ReadyOrg
    BY DEF ReadyOrg, OrgFile
  <2>2. /\ {<<"org", Unreadable>>, <<"org", o>>} \subseteq ReadyWrite
        /\ {<<"auth", Unreadable>>, <<"auth", a>>} \subseteq ReadyWrite
    BY <2>1, GoodWrites DEF ReadyWrite
  <2>3. Save("org", o) \in Seq(ReadyWrite) /\ Save("auth", a) \in Seq(ReadyWrite)
    BY <2>2, SavedIn
  <2>4. Save("org", o) \o Save("auth", a) \in Seq(ReadyWrite)
    BY <2>3, ConcatProperties
  <2>. QED
    BY <1>3, <2>4
<1>10. writes' \in Seq(OwnWrite(account))
  <2>. DEFINE S == OwnWrite(account)
  <2>1. <<"org", Unreadable>> \in S /\ <<"auth", Unreadable>> \in S
    BY GoodWrites DEF OwnWrite
  <2>2. <<"org", o>> \in S
    BY GoodWrites DEF OwnWrite
  <2>3. <<"auth", a>> \in S
    BY <1>2, GoodWrites DEF OwnWrite
  <2>. HIDE DEF S
  <2>4. Save("org", o) \in Seq(S) /\ Save("auth", a) \in Seq(S)
    BY <2>1, <2>2, <2>3, SavedIn
  <2>5. Save("org", o) \o Save("auth", a) \in Seq(S)
    BY <2>4, ConcatProperties
  <2>. QED
    BY <1>3, <2>5 DEF S
<1>11. ASSUME NEW i \in 1 .. Len(writes'), writes'[i][1] = "auth", writes'[i][2] # Unreadable
       PROVE  OrgComes(i - 1)'
  <2>1. i = 4
    BY <1>8, <1>11
  <2>2. 2 \in 1 .. (i - 1) /\ writes'[2][1] = "org" /\ writes'[2][2] # Unreadable
    BY <1>4, <1>8, <2>1
  <2>. QED
    BY <2>2 DEF OrgComes
<1>12. ProfileInv' /\ ReadyInv' /\ RoleInv'
  BY <1>7, <1>9, <1>10, <1>11, HandlerStep DEF UserStates
<1>13. StateInv'
  <2>1. FinalIn(disk', writes', "org", o) /\ FinalIn(disk', writes', "auth", a)
    <3>1. FinalIn(disk', Save("org", o), "org", o)
      BY FinalSave
    <3>. QED
      BY <1>3, <1>5, <1>6, <3>1, FinalAppend DEF FileName
  <2>2. SavedAs(a, o)'
    BY <1>2, <2>1 DEF SavedAs, Agrees
  <2>3. \A s \in syncing : s.session # "this"
    BY DEF IInv, StateInv
  <2>. QED
    BY <2>2, <2>3 DEF StateInv, HasOrg
<1>. QED
  BY <1>12, <1>13 DEF IInv

\* OrgCreated and JoinOrgClicked, with the organization each saves.
LEMMA OrgStep ==
  ASSUME TypeOK, IInv, OrgCreated \/ JoinOrgClicked
  PROVE  IInv'
<1>1. mapped = NoFolder
  BY DEF OrgCreated, JoinOrgClicked, IInv, StateInv
<1>2. CASE OrgCreated
  <2>1. PICK o \in Org : /\ o = [status |-> "Created", path |-> NoFolder, by |-> account]
                         /\ o.by = account /\ o.status = "Created" /\ o.path = NoFolder
    <3>. DEFINE x == [status |-> "Created", path |-> NoFolder, by |-> account]
    <3>1. x \in Org /\ x.by = account /\ x.status = "Created" /\ x.path = NoFolder
      BY DEF Org, TypeOK
    <3>. QED
      BY <3>1
  <2>. QED
    BY <1>1, <1>2, <2>1, OrgThenRole
       DEF OrgCreated, screenVars, syncVars, history
<1>3. CASE JoinOrgClicked
  <2>. DEFINE path == IF Readable("org") THEN disk["org"].path ELSE NoFolder
  <2>1. path \in MaybeFolder
    BY ContentsOf DEF TypeOK, FileName, OrgFile, Readable, Org, MaybeFolder
  <2>2. PICK o \in Org : /\ o = [status |-> "Created", path |-> path, by |-> account]
                         /\ o.by = account /\ o.status = "Created" /\ o.path = path
    <3>. DEFINE x == [status |-> "Created", path |-> path, by |-> account]
    <3>. HIDE DEF path
    <3>1. x \in Org /\ x.by = account /\ x.status = "Created" /\ x.path = path
      BY <2>1 DEF Org, TypeOK, MaybeFolder
    <3>. QED
      BY <3>1
  <2>. QED
    BY <1>3, <2>2, OrgThenRole DEF JoinOrgClicked, syncVars, history
<1>. QED
  BY <1>2, <1>3

\* A handler that saves the organization and writes no profile, but for one in memory.
LEMMA NoProfileWritten ==
  ASSUME TypeOK, IInv, Idle, HasOrg,
         userState' \in UserStates, disk' = disk, account' = account, past \subseteq past',
         "cutOff" \in past' => "cutOff" \in past,
         writes' \in Seq(Write), \A i \in 1 .. Len(writes') : writes'[i][1] # "auth",
         "lateResult" \notin past' => writes' \in Seq(ReadyWrite),
         "roleInferred" \notin past => writes' \in Seq(OwnWrite(account))
  PROVE  ProfileInv' /\ ReadyInv' /\ RoleInv'
<1>1. Whole(writes')
  BY DEF Whole
<1>. QED
  BY <1>1, HandlerStep

\* A folder is selected while an organization is shown.
LEMMA FolderStep ==
  ASSUME TypeOK, IInv, NEW f \in Folders, FolderSelected(f),
         userState \in {"OrgJoined", "OrgSynced"}
  PROVE  IInv'
<1>1. HasOrg /\ Idle /\ f \in MaybeFolder /\ f # NoFolder
  BY DEF HasOrg, FolderSelected, MaybeFolder, LifecycleAssumption
<1>2. PICK a \in Auth, d \in Org :
        /\ a = disk["auth"] /\ d = disk["org"] /\ Readable("org") /\ SavedAs(a, d)
  BY <1>1, IdleSaved
<1>3. PICK o \in Org : /\ o = [disk["org"] EXCEPT !.path = f]
                       /\ o.path = f /\ o.by = d.by /\ o.status = d.status
  <2>. DEFINE x == [d EXCEPT !.path = f]
  <2>1. x \in Org /\ x.path = f /\ x.by = d.by /\ x.status = d.status
    BY <1>1 DEF Org, MaybeFolder
  <2>. QED
    BY <1>2, <2>1
<1>4. /\ disk' = disk /\ account' = account /\ userState' = userState /\ mapped' = f
      /\ past \subseteq past' /\ past' \subseteq past \union {"reselected"}
      /\ writes' = Save("org", o)
      /\ \A s \in syncing' : s.session = "this" => s \in syncing \/ userState = "OrgJoined"
  BY <1>2, <1>3 DEF FolderSelected, SetPath
<1>5. /\ Len(writes') = 2
      /\ writes'[1] = <<"org", Unreadable>> /\ writes'[2] = <<"org", o>>
  BY <1>4 DEF Save
<1>6. o \in ReadyOrg
  BY <1>1, <1>3 DEF ReadyOrg, OrgFile
<1>7. writes' \in Seq(ReadyWrite) /\ writes' \in Seq(Write)
  <2>1. /\ {<<"org", Unreadable>>, <<"org", o>>} \subseteq ReadyWrite
        /\ {<<"org", Unreadable>>, <<"org", o>>} \subseteq Write
    BY <1>6, GoodWrites DEF ReadyWrite
  <2>. QED
    BY <1>4, <2>1, SavedIn
<1>8. ASSUME "roleInferred" \notin past PROVE writes' \in Seq(OwnWrite(account))
  <2>. DEFINE S == OwnWrite(account)
  <2>1. o.by = account
    BY <1>2, <1>3, <1>8 DEF SavedAs
  <2>2. <<"org", Unreadable>> \in S /\ <<"org", o>> \in S
    BY <2>1, GoodWrites DEF OwnWrite
  <2>. HIDE DEF S
  <2>3. Save("org", o) \in Seq(S)
    BY <2>2, SavedIn
  <2>. QED
    BY <1>4, <2>3 DEF S
<1>9. \A i \in 1 .. Len(writes') : writes'[i][1] # "auth"
  BY <1>5
<1>10. ProfileInv' /\ ReadyInv' /\ RoleInv'
  BY <1>1, <1>4, <1>7, <1>8, <1>9, NoProfileWritten DEF HasOrg, UserStates
<1>11. StateInv'
  <2>1. FinalIn(disk', writes', "org", o) /\ FinalIn(disk', writes', "auth", a)
    BY <1>2, <1>4, FinalSave
  <2>2. SavedAs(a, o)'
    BY <1>1, <1>2, <1>3, <1>4, <2>1 DEF SavedAs, Agrees
  <2>3. userState' \in {"OrgJoined", "OrgSynced"} /\ mapped' # NoFolder
    BY <1>1, <1>4
  <2>. QED
    BY <2>2, <2>3 DEF StateInv, HasOrg
<1>. QED
  BY <1>10, <1>11 DEF IInv

\* An initial sync ends for a member who waits for it.
LEMMA SyncStep ==
  ASSUME TypeOK, IInv, NEW s \in Sync, InitialSyncOk(s), userState = "OrgJoined"
  PROVE  IInv'
<1>. DEFINE f == s.folder
<1>1. HasOrg /\ Idle /\ s \in syncing /\ f \in MaybeFolder
  BY DEF HasOrg, InitialSyncOk, Sync, MaybeFolder
<1>2. PICK a \in Auth, d \in Org :
        /\ a = disk["auth"] /\ d = disk["org"] /\ Readable("org") /\ SavedAs(a, d)
  BY <1>1, IdleSaved
<1>3. PICK o \in Org : /\ o = [disk["org"] EXCEPT !.status = "Ready"]
                       /\ o.path = d.path /\ o.by = d.by /\ o.status = "Ready"
  <2>. DEFINE x == [d EXCEPT !.status = "Ready"]
  <2>1. x \in Org /\ x.path = d.path /\ x.by = d.by /\ x.status = "Ready"
    BY DEF Org
  <2>. QED
    BY <1>2, <2>1
<1>. DEFINE w1 == Save("org", o)
            w2 == w1 \o Save("index", f)
<1>4. /\ disk' = disk /\ account' = account /\ userState' = "OrgSynced" /\ mapped' = mapped
      /\ past \subseteq past' /\ past' \subseteq past \union {"lateResult"}
      /\ "lateResult" \notin past' => s.session = "this"
      /\ syncing' \subseteq syncing
  BY <1>1 DEF InitialSyncOk, Sync, screenVars
<1>5. writes' = w2 \o w1
  BY <1>2, <1>3 DEF InitialSyncOk, SyncedWrites, SetStatus
<1>6. o \in Contents["org"] /\ f \in Contents["index"]
  BY <1>1, ContentsOf DEF OrgFile, IndexFile
<1>. HIDE DEF f
<1>7. ASSUME NEW S, {<<"org", Unreadable>>, <<"org", o>>, <<"index", Unreadable>>,
                     <<"index", f>>} \subseteq S
      PROVE  w1 \in Seq(S) /\ w2 \in Seq(S) /\ w2 \o w1 \in Seq(S)
  <2>1. w1 \in Seq(S) /\ Save("index", f) \in Seq(S)
    BY <1>7, SavedIn
  <2>2. w2 \in Seq(S)
    BY <2>1, ConcatProperties
  <2>. QED
    BY <2>1, <2>2, ConcatProperties
<1>8. w1 \in Seq(Write) /\ w2 \in Seq(Write) /\ w2 \o w1 \in Seq(Write)
  <2>1. {<<"org", Unreadable>>, <<"org", o>>, <<"index", Unreadable>>, <<"index", f>>}
          \subseteq Write
    BY <1>1, GoodWrites
  <2>. QED
    BY <1>7, <2>1
<1>9. ASSUME "lateResult" \notin past'
      PROVE  /\ Agrees(a, d) /\ mapped # NoFolder
             /\ w2 \o w1 \in Seq(ReadyWrite)
  <2>1. Agrees(a, d) /\ mapped # NoFolder
    BY <1>1, <1>2, <1>4, <1>9 DEF SavedAs, IInv, StateInv
  <2>2. o \in ReadyOrg
    BY <1>3, <2>1 DEF ReadyOrg, OrgFile, Agrees
  <2>3. {<<"org", Unreadable>>, <<"org", o>>, <<"index", Unreadable>>, <<"index", f>>}
          \subseteq ReadyWrite
    BY <1>1, <2>2, GoodWrites DEF ReadyWrite
  <2>. QED
    BY <1>7, <2>1, <2>3
<1>10. ASSUME "roleInferred" \notin past PROVE w2 \o w1 \in Seq(OwnWrite(account))
  <2>. DEFINE S == OwnWrite(account)
  <2>1. o.by = account
    BY <1>2, <1>3, <1>10 DEF SavedAs
  <2>2. <<"org", Unreadable>> \in S /\ <<"org", o>> \in S
    BY <2>1, GoodWrites DEF OwnWrite
  <2>3. <<"index", Unreadable>> \in S /\ <<"index", f>> \in S
    BY <1>1, GoodWrites DEF OwnWrite
  <2>. HIDE DEF S
  <2>4. w2 \o w1 \in Seq(S)
    BY <1>7, <2>2, <2>3
  <2>. QED
    BY <2>4 DEF S
<1>11. \A i \in 1 .. Len(writes') : writes'[i][1] # "auth"
  <2>. DEFINE S == {w \in Write : w[1] # "auth"}
  <2>1. {<<"org", Unreadable>>, <<"org", o>>, <<"index", Unreadable>>, <<"index", f>>}
          \subseteq S
    BY <1>1, GoodWrites
  <2>2. w2 \o w1 \in Seq(S)
    BY <1>7, <2>1
  <2>. QED
    BY <1>5, <2>2
<1>12. ProfileInv' /\ ReadyInv' /\ RoleInv'
  BY <1>1, <1>4, <1>5, <1>8, <1>9, <1>10, <1>11, NoProfileWritten DEF UserStates
<1>13. StateInv'
  <2>1. FinalIn(disk, w1, "auth", a)
    BY <1>2, FinalSave
  <2>2. FinalIn(disk, w2, "auth", a)
    BY <1>6, <1>8, <2>1, FinalAppend DEF FileName
  <2>3. FinalIn(disk, w2 \o w1, "auth", a) /\ FinalIn(disk, w2 \o w1, "org", o)
    BY <1>6, <1>8, <2>2, FinalAppend DEF FileName
  <2>4. SavedAs(a, o)'
    BY <1>2, <1>3, <1>4, <1>5, <1>9, <2>3 DEF SavedAs, Agrees
  <2>5. \A r \in syncing' : r.session = "this" => mapped # NoFolder
    BY <1>4 DEF IInv, StateInv
  <2>. QED
    BY <1>4, <2>4, <2>5 DEF StateInv, HasOrg
<1>. QED
  BY <1>12, <1>13 DEF IInv

\* A restart, from whatever is on disk.
LEMMA RestartStep ==
  ASSUME TypeOK, IInv, Restart
  PROVE  IInv'
<1>1. /\ disk["auth"] \in AuthFile /\ disk["org"] \in OrgFile
      /\ Readable("auth") => disk["auth"] \in Auth
      /\ Readable("org") => disk["org"] \in Org
  BY ContentsOf DEF TypeOK, FileName, AuthFile, OrgFile, Readable
<1>2. /\ disk' = disk /\ userState' = BootState(disk) /\ mapped' = BootMapped(disk)
      /\ syncing' = {} /\ past \subseteq past'
      /\ account' = IF Readable("auth") THEN disk["auth"].account ELSE account
      /\ writes' = IF RoleIsMissing(disk)
                   THEN Save("auth", [disk["auth"] EXCEPT !.role = BootRole(disk)])
                   ELSE << >>
      /\ "roleInferred" \notin past' => ~RoleIsMissing(disk)
      /\ "lateResult" \notin past' => "lateResult" \notin past
      /\ "cutOff" \notin past' => "cutOff" \notin past /\ ~InsideProfile
  BY DEF Restart
<1>3. BootState(disk) \in {"OrgCreated", "OrgJoined", "OrgSynced"}
        <=> Readable("auth") /\ Readable("org")
  BY DEF BootState, Readable
<1>4. ASSUME NEW a \in Auth, NEW o \in Org, a = disk["auth"], o = disk["org"]
      PROVE  \E b \in Auth : /\ b.account = a.account /\ b.role = BootRole(disk)
                             /\ FinalIn(disk, writes', "auth", b)
                             /\ FinalIn(disk, writes', "org", o)
                             /\ RoleIsMissing(disk) => writes' = Save("auth", b)
  <2>1. CASE RoleIsMissing(disk)
    <3>. DEFINE x == [a EXCEPT !.role = BootRole(disk)]
    <3>1. BootRole(disk) \in {"Owner", "User"}
      BY <2>1 DEF BootRole, RoleIsMissing
    <3>2. x \in Auth /\ x.account = a.account /\ x.role = BootRole(disk)
      BY <3>1 DEF Auth
    <3>3. writes' = Save("auth", x)
      BY <1>2, <1>4, <2>1
    <3>. HIDE DEF x
    <3>4. FinalIn(disk, writes', "auth", x) /\ FinalIn(disk, writes', "org", o)
      BY <1>4, <3>3, FinalSave
    <3>. QED
      BY <3>2, <3>3, <3>4
  <2>2. CASE ~RoleIsMissing(disk)
    <3>1. a.role = BootRole(disk)
      BY <1>4, <2>2, UnreadableApart DEF RoleIsMissing, BootRole
    <3>2. FinalIn(disk, writes', "auth", a) /\ FinalIn(disk, writes', "org", o)
      BY <1>2, <1>4, <2>2, FinalEmpty
    <3>. QED
      BY <2>2, <3>1, <3>2
  <2>. QED
    BY <2>1, <2>2
<1>5. RoleIsMissing(disk) =>
        \E b \in Auth : writes' = Save("auth", b)
  BY <1>1, <1>4 DEF RoleIsMissing, Readable
<1>6. ProfileInv'
  <2>. SUFFICES ASSUME "cutOff" \notin past'
       PROVE  /\ userState' # "Panicked" /\ Whole(writes')
              /\ disk["auth"] = Unreadable => NothingYet'
    BY <1>2 DEF ProfileInv
  <2>1. disk["auth"] = Unreadable => disk["org"] = Unreadable
    <3>1. writes # << >> => Head(writes) = writes[1]
      BY DEF TypeOK
    <3>. QED
      BY <1>2, <3>1 DEF IInv, ProfileInv, NothingYet, ProfileNext, InsideProfile, Idle
  <2>2. userState' # "Panicked"
    BY <1>2, <2>1 DEF BootState
  <2>3. Whole(writes')
    <3>1. \A b \in Auth : b # Unreadable /\ b \in Contents["auth"]
      BY UnreadableApart, ContentsOf DEF AuthFile
    <3>2. Whole(<< >>) /\ \A b \in Auth : Whole(Save("auth", b))
      BY <3>1, WholeSave DEF FileName, Whole
    <3>. QED
      BY <1>2, <1>5, <3>2
  <2>4. disk["auth"] = Unreadable => NothingYet'
    BY <1>2, <2>1 DEF NothingYet, Idle, BootState, RoleIsMissing
  <2>. QED
    BY <2>2, <2>3, <2>4
<1>7. StateInv'
  <2>1. ASSUME userState' = "SignedIn"
        PROVE  \E a \in Auth : FinalIn(disk', writes', "auth", a) /\ a.account = account'
    <3>1. Readable("auth") /\ ~Readable("org")
      BY <1>2, <2>1 DEF BootState, Readable
    <3>2. writes' = << >> /\ disk["auth"] \in Auth
      BY <1>1, <1>2, <3>1 DEF RoleIsMissing, Readable
    <3>. QED
      BY <1>2, <3>1, <3>2, FinalEmpty
  <2>2. ASSUME HasOrg' PROVE \E a \in Auth, o \in Org : SavedAs(a, o)'
    <3>1. Readable("auth") /\ Readable("org")
      BY <1>2, <1>3, <2>2 DEF HasOrg
    <3>2. PICK a \in Auth, o \in Org : a = disk["auth"] /\ o = disk["org"]
      BY <1>1, <3>1
    <3>3. PICK b \in Auth :
            /\ b.account = a.account /\ b.role = BootRole(disk)
            /\ FinalIn(disk, writes', "auth", b) /\ FinalIn(disk, writes', "org", o)
      BY <1>4, <3>2
    <3>4. account' = b.account
      BY <1>2, <3>1, <3>2, <3>3
    <3>5. "lateResult" \notin past' => Agrees(b, o)'
      <4>. SUFFICES ASSUME "lateResult" \notin past' PROVE Agrees(b, o)'
        OBVIOUS
      <4>1. o.status = "Ready" => o.path # NoFolder
        BY <1>2, <3>2 DEF IInv, ReadyInv, ReadyOrg
      <4>2. BootRole(disk) \in {"Owner", "User"} /\ o.status \in {"Created", "Ready"}
        BY <3>2 DEF BootRole, Org, Auth
      <4>. QED
        BY <1>2, <3>1, <3>2, <3>3, <4>1, <4>2
           DEF Agrees, BootState, BootMapped, BootsSynced, Readable
    <3>6. "roleInferred" \notin past' => o.by = account'
      BY <1>2, <3>1, <3>2 DEF IInv, RoleInv, RoleIsMissing, Readable
    <3>. QED
      BY <1>2, <3>3, <3>4, <3>5, <3>6 DEF SavedAs
  <2>3. userState' \in {"SignedOut", "SignedIn"} => mapped' = NoFolder
    BY <1>2 DEF BootMapped
  <2>. QED
    BY <1>2, <2>1, <2>2, <2>3 DEF StateInv
<1>8. ReadyInv'
  <2>1. << >> \in Seq(ReadyWrite) /\ \A b \in Auth : Save("auth", b) \in Seq(ReadyWrite)
    <3>1. <<"auth", Unreadable>> \in ReadyWrite /\ \A b \in Auth : <<"auth", b>> \in ReadyWrite
      BY GoodWrites DEF ReadyWrite
    <3>. QED
      BY <3>1, SavedIn
  <2>. QED
    BY <1>2, <1>5, <2>1 DEF IInv, ReadyInv
<1>9. RoleInv'
  BY <1>2 DEF IInv, RoleInv, Readable, OrgComes
<1>. QED
  BY <1>6, <1>7, <1>8, <1>9 DEF IInv

-----------------------------------------------------------------------------
(* The theorems *)

\* Every step keeps the invariant.
LEMMA InvStep == TypeOK /\ IInv /\ [Next]_vars => IInv'
<1>. SUFFICES ASSUME TypeOK, IInv, [Next]_vars PROVE IInv'
  OBVIOUS
<1>1. CASE WriteNext
  BY <1>1, WriteStep
<1>2. CASE Restart
  BY <1>2, RestartStep
<1>3. ASSUME NEW a \in Accounts, SignIn(a) PROVE IInv'
  BY <1>3, SignInStep
<1>4. CASE SignOut
  BY <1>4, SignOutStep
<1>5. CASE TokenRefreshed
  BY <1>5, TokenRefreshedStep
<1>6. CASE OrgCreated \/ JoinOrgClicked
  BY <1>6, OrgStep
<1>7. ASSUME NEW f \in Folders, FolderSelected(f) PROVE IInv'
  BY <1>7, FolderStep, QuietActions, QuietStep
<1>8. ASSUME NEW s \in Sync, SyncAnswer(s) PROVE IInv'
  BY <1>8, SyncStep, QuietActions, QuietStep DEF SyncAnswer
<1>9. CASE WriteIndexNext \/ BrowseFolderClicked \/ ActionsReady \/ UNCHANGED vars
  BY <1>9, QuietActions, QuietStep
<1>10. ASSUME NEW r, SaveOnLocal(r) PROVE IInv'
  BY <1>10, QuietActions, QuietStep
<1>. QED
  BY <1>1, <1>2, <1>3, <1>4, <1>5, <1>6, <1>7, <1>8, <1>9, <1>10 DEF Next

\* The inductive invariant.
THEOREM Invariant == Spec => [](TypeOK /\ IInv)
<1>1. Init => TypeOK /\ IInv
  BY TypeInit, InvInit
<1>2. TypeOK /\ IInv /\ [Next]_vars => (TypeOK /\ IInv)'
  BY TypeStep, InvStep
<1>. QED
  BY <1>1, <1>2, PTL DEF Spec

\* boot does not panic unless a stop fell inside save_object of the profile: no sequence of
\* sign-ins, organizations, folders, syncs and stops elsewhere, between two saves or inside
\* the one of the organization, makes it, whatever their number.
THEOREM PanicNeedsCutOff == Spec => []PanicNeedsCutOffWrite
<1>1. IInv => PanicNeedsCutOffWrite
  BY DEF IInv, ProfileInv, PanicNeedsCutOffWrite
<1>. QED
  BY <1>1, Invariant, PTL

\* Between two handlers the files are those of the state in memory: boot would come back
\* to it, with the folder it shows.
THEOREM RestartKeeps == Spec => []RestartKeepsState
<1>1. TypeOK /\ IInv => RestartKeepsState
  <2>. SUFFICES ASSUME TypeOK, IInv, Idle, HasOrg, "lateResult" \notin past
       PROVE  BootState(disk) = userState /\ BootMapped(disk) = mapped
    BY DEF RestartKeepsState
  <2>1. PICK a, o : /\ a = disk["auth"] /\ o = disk["org"] /\ a \in Auth /\ o \in Org
                    /\ a # Unreadable /\ o # Unreadable /\ Agrees(a, o)
    BY IdleSaved, UnreadableApart DEF SavedAs
  <2>2. a.role # "None" => BootRole(disk) = a.role
    BY <2>1 DEF BootRole
  <2>. QED
    BY <2>1, <2>2 DEF HasOrg, Agrees, BootState, BootMapped, BootsSynced
<1>. QED
  BY <1>1, Invariant, PTL

\* Who is shown an organization has created or joined it, unless boot has inferred a role.
THEOREM RoleBelongs == Spec => []RoleBelongsToUser
<1>1. TypeOK /\ IInv => RoleBelongsToUser
  BY IdleSaved DEF RoleBelongsToUser, SavedAs
<1>. QED
  BY <1>1, Invariant, PTL

-----------------------------------------------------------------------------
(* The index of the synced folder *)

Clean == past \subseteq {"roleInferred"}

RootInv ==
  Clean =>
    /\ userState = "OrgSynced" => rootDir = mapped /\ indexRoot = mapped
    /\ userState # "OrgSynced" => rootDir = NoFolder
    /\ NoFolder \notin batches
    /\ \A s \in syncing : s.session = "this" => s.folder = mapped

\* The index writes of w leave the index of folder p.
Settles(w, p) ==
  \A i \in 1 .. Len(w) : w[i][1] = "index" =>
    /\ w[i][2] \in {Unreadable, p}
    /\ w[i][2] = Unreadable => i < Len(w) /\ w[i + 1] = <<"index", p>>
Comes(w, p) == \E i \in 1 .. Len(w) : w[i] = <<"index", p>>

IndexComes(p) ==
  /\ Settles(writes, p) /\ Settles(indexWrites, p)
  /\ disk["index"] = p \/ Comes(writes, p) \/ Comes(indexWrites, p)

\* An organization that is ready with a folder has, in the end, the index of that folder.
IndexInv ==
  Clean => \A o \in Org : FinalIn(disk, writes, "org", o) /\ o.status = "Ready"
                            => IndexComes(o.path)

\* A file finally holds one thing.
LEMMA FinalUnique ==
  ASSUME NEW w \in Seq(Write), NEW d, NEW f, NEW u, NEW v,
         FinalIn(d, w, f, u), FinalIn(d, w, f, v)
  PROVE  u = v
<1>1. ASSUME LastWrite(w, f, u), LastWrite(w, f, v) PROVE u = v
  <2>1. PICK i \in 1 .. Len(w) : w[i] = <<f, u>> /\ \A j \in (i + 1) .. Len(w) : w[j][1] # f
    BY <1>1 DEF LastWrite
  <2>2. PICK k \in 1 .. Len(w) : w[k] = <<f, v>> /\ \A j \in (k + 1) .. Len(w) : w[j][1] # f
    BY <1>1 DEF LastWrite
  <2>3. Len(w) \in Nat
    OBVIOUS
  <2>4. ~(i < k) /\ ~(k < i)
    BY <2>1, <2>2, <2>3
  <2>5. i = k
    BY <2>3, <2>4
  <2>. QED
    BY <2>1, <2>2, <2>5
<1>2. NoWrite(w, f) => ~LastWrite(w, f, u) /\ ~LastWrite(w, f, v)
  BY DEF NoWrite, LastWrite
<1>. QED
  BY <1>1, <1>2 DEF FinalIn

\* What a file finally holds after a write it held before.
LEMMA FinalTailBack ==
  ASSUME NEW w \in Seq(Write), w # << >>, NEW d, DOMAIN d = FileName, NEW f \in FileName,
         NEW v, FinalIn([d EXCEPT ![Head(w)[1]] = Head(w)[2]], Tail(w), f, v)
  PROVE  FinalIn(d, w, f, v)
<1>. DEFINE t == Tail(w)
            e == [d EXCEPT ![w[1][1]] = w[1][2]]
<1>1. /\ Len(w) \in Nat /\ Len(w) > 0 /\ Len(t) = Len(w) - 1 /\ Head(w) = w[1]
      /\ \A i \in 1 .. Len(t) : t[i] = w[i + 1]
      /\ w[1][1] \in FileName /\ w[1] = <<w[1][1], w[1][2]>>
  BY TailOf
<1>2. e[f] = IF w[1][1] = f THEN w[1][2] ELSE d[f]
  OBVIOUS
<1>3. FinalIn(e, t, f, v)
  BY <1>1
<1>. HIDE DEF t, e
<1>4. \A j \in 2 .. Len(w) : w[j] = t[j - 1] /\ j - 1 \in 1 .. Len(t)
  BY <1>1
<1>5. CASE LastWrite(t, f, v)
  <2>1. PICK i \in 1 .. Len(t) : t[i] = <<f, v>> /\ \A j \in (i + 1) .. Len(t) : t[j][1] # f
    BY <1>5 DEF LastWrite
  <2>2. i + 1 \in 1 .. Len(w) /\ w[i + 1] = <<f, v>>
    BY <1>1, <2>1
  <2>3. \A j \in ((i + 1) + 1) .. Len(w) : w[j][1] # f
    BY <1>1, <1>4, <2>1
  <2>. QED
    BY <2>2, <2>3 DEF FinalIn, LastWrite
<1>6. CASE NoWrite(t, f) /\ e[f] = v
  <2>1. \A j \in 2 .. Len(w) : w[j][1] # f
    BY <1>4, <1>6 DEF NoWrite
  <2>2. CASE w[1][1] = f
    <3>1. 1 \in 1 .. Len(w) /\ w[1] = <<f, v>>
      BY <1>1, <1>2, <1>6, <2>2
    <3>2. \A j \in (1 + 1) .. Len(w) : w[j][1] # f
      BY <2>1
    <3>. QED
      BY <3>1, <3>2 DEF FinalIn, LastWrite
  <2>3. CASE w[1][1] # f
    <3>1. \A j \in 1 .. Len(w) : j = 1 \/ j \in 2 .. Len(w)
      BY <1>1
    <3>2. NoWrite(w, f)
      BY <2>1, <2>3, <3>1 DEF NoWrite
    <3>. QED
      BY <1>2, <1>6, <2>3, <3>2 DEF FinalIn
  <2>. QED
    BY <2>2, <2>3
<1>. QED
  BY <1>3, <1>5, <1>6 DEF FinalIn

\* One write of a queue that settles.
LEMMA SettlesTail ==
  ASSUME NEW w \in Seq(Write), w # << >>, NEW p, Settles(w, p), NEW d, DOMAIN d = FileName,
         p # Unreadable
  PROVE  /\ Settles(Tail(w), p)
         /\ d["index"] = p \/ Comes(w, p) =>
              \/ [d EXCEPT ![Head(w)[1]] = Head(w)[2]]["index"] = p
              \/ Comes(Tail(w), p)
         /\ \/ [d EXCEPT ![Head(w)[1]] = Head(w)[2]]["index"] \in {d["index"], p}
            \/ Comes(Tail(w), p)
<1>. DEFINE t == Tail(w)
            e == [d EXCEPT ![w[1][1]] = w[1][2]]
<1>1. /\ Len(w) \in Nat /\ Len(w) > 0 /\ Len(t) = Len(w) - 1 /\ Head(w) = w[1]
      /\ \A i \in 1 .. Len(t) : t[i] = w[i + 1]
      /\ w[1][1] \in FileName /\ w[1] = <<w[1][1], w[1][2]>>
  BY TailOf
<1>2. e["index"] = IF w[1][1] = "index" THEN w[1][2] ELSE d["index"]
  BY DEF FileName
<1>. HIDE DEF t, e
<1>3. Settles(t, p)
  <2>. SUFFICES ASSUME NEW i \in 1 .. Len(t), t[i][1] = "index"
       PROVE  /\ t[i][2] \in {Unreadable, p}
              /\ t[i][2] = Unreadable => i < Len(t) /\ t[i + 1] = <<"index", p>>
    BY DEF Settles
  <2>1. i + 1 \in 1 .. Len(w) /\ w[i + 1] = t[i]
    BY <1>1
  <2>2. /\ t[i][2] \in {Unreadable, p}
        /\ t[i][2] = Unreadable => i + 1 < Len(w) /\ w[(i + 1) + 1] = <<"index", p>>
    BY <2>1 DEF Settles
  <2>3. i + 1 < Len(w) => i < Len(t) /\ i + 1 \in 1 .. Len(t)
    BY <1>1
  <2>. QED
    BY <1>1, <2>2, <2>3
<1>4. w[1] = <<"index", Unreadable>> => Comes(t, p)
  <2>. SUFFICES ASSUME w[1] = <<"index", Unreadable>> PROVE Comes(t, p)
    OBVIOUS
  <2>1. 1 < Len(w) /\ w[1 + 1] = <<"index", p>>
    BY <1>1 DEF Settles
  <2>2. 1 \in 1 .. Len(t) /\ t[1] = <<"index", p>>
    BY <1>1, <2>1
  <2>. QED
    BY <2>2 DEF Comes
<1>5. w[1][1] = "index" => w[1][2] \in {Unreadable, p}
  BY <1>1 DEF Settles
<1>6. Comes(w, p) => w[1] = <<"index", p>> \/ Comes(t, p)
  <2>. SUFFICES ASSUME Comes(w, p), w[1] # <<"index", p>> PROVE Comes(t, p)
    OBVIOUS
  <2>1. PICK i \in 1 .. Len(w) : w[i] = <<"index", p>>
    BY DEF Comes
  <2>2. i # 1
    BY <2>1
  <2>3. i - 1 \in 1 .. Len(t) /\ t[i - 1] = <<"index", p>>
    BY <1>1, <2>1, <2>2
  <2>. QED
    BY <2>3 DEF Comes
<1>7. e["index"] \in {d["index"], p} \/ Comes(t, p)
  BY <1>1, <1>2, <1>4, <1>5
<1>8. d["index"] = p \/ Comes(w, p) => e["index"] = p \/ Comes(t, p)
  BY <1>1, <1>2, <1>4, <1>5, <1>6
<1>. QED
  BY <1>1, <1>3, <1>7, <1>8 DEF t, e

\* The writes of the index are writes.
LEMMA IndexWrites ==
  ASSUME TypeOK
  PROVE  indexWrites \in Seq(Write)
<1>. DEFINE W == {"index"} \X Contents["index"]
<1>1. indexWrites \in Seq(W)
  BY DEF TypeOK
<1>2. W \subseteq Write
  BY DEF Write, FileName
<1>. QED
  BY <1>1, <1>2, SeqMonotonic

\* A handler that leaves the index alone, and whose organization is ready only if it was,
\* with the same folder.
LEMMA IndexKept ==
  ASSUME Idle, IndexInv, disk' = disk, indexWrites' = indexWrites, past \subseteq past',
         NoWrite(writes', "index"),
         \A o \in Org :
           Clean' /\ FinalIn(disk, writes', "org", o) /\ o.status = "Ready"
           => disk["org"] \in Org /\ disk["org"].status = "Ready" /\ disk["org"].path = o.path
  PROVE  IndexInv'
<1>. SUFFICES ASSUME Clean', NEW o \in Org, FinalIn(disk', writes', "org", o),
                     o.status = "Ready"
              PROVE  IndexComes(o.path)'
  BY DEF IndexInv
<1>1. PICK d \in Org : d = disk["org"] /\ d.status = "Ready" /\ d.path = o.path
  OBVIOUS
<1>2. FinalIn(disk, writes, "org", d)
  BY <1>1, FinalEmpty DEF Idle
<1>3. IndexComes(d.path)
  BY <1>1, <1>2 DEF IndexInv, Clean
<1>4. Settles(indexWrites', o.path) /\ (disk["index"] = o.path \/ Comes(indexWrites', o.path))
  BY <1>1, <1>3 DEF IndexComes, Comes, Idle
<1>5. Settles(writes', o.path)
  BY DEF Settles, NoWrite
<1>. QED
  BY <1>4, <1>5 DEF IndexComes

\* The same for a handler that writes the profile only.
LEMMA ProfileOnly ==
  ASSUME TypeOK, Idle, IndexInv, disk' = disk, indexWrites' = indexWrites,
         past \subseteq past',
         \/ writes' = << >>
         \/ \E a \in Auth : writes' = Save("auth", a)
  PROVE  IndexInv'
<1>1. NoWrite(writes', "index") /\ NoWrite(writes', "org")
  BY DEF NoWrite, Save
<1>2. ~LastWrite(writes', "org", disk["org"]) /\ \A o : ~LastWrite(writes', "org", o)
  BY <1>1 DEF LastWrite, NoWrite
<1>3. \A o : FinalIn(disk, writes', "org", o) => disk["org"] = o
  BY <1>2 DEF FinalIn
<1>. QED
  BY <1>1, <1>3, IndexKept

\* A write, of a handler or of the task that saves the index, keeps the index right.
LEMMA WriteIndexInv ==
  ASSUME TypeOK, IndexInv, WriteNext \/ WriteIndexNext
  PROVE  IndexInv'
<1>. SUFFICES ASSUME Clean', NEW o \in Org, FinalIn(disk', writes', "org", o),
                     o.status = "Ready"
              PROVE  IndexComes(o.path)'
  BY DEF IndexInv
<1>. DEFINE p == o.path
<1>1. p # Unreadable /\ DOMAIN disk = FileName
  BY UnreadableApart DEF Org, MaybeFolder, TypeOK
<1>. HIDE DEF p
<1>2. CASE WriteNext
  <2>1. /\ writes \in Seq(Write) /\ writes # << >> /\ writes' = Tail(writes)
        /\ disk' = [disk EXCEPT ![Head(writes)[1]] = Head(writes)[2]]
        /\ indexWrites' = indexWrites /\ past' = past
    BY <1>2 DEF WriteNext, Idle, TypeOK, history
  <2>2. FinalIn(disk, writes, "org", o)
    BY <1>1, <2>1, FinalTailBack DEF FileName
  <2>3. IndexComes(p)
    BY <2>1, <2>2 DEF IndexInv, Clean, p
  <2>4. /\ Settles(writes', p)
        /\ disk["index"] = p \/ Comes(writes, p) => disk'["index"] = p \/ Comes(writes', p)
    BY <1>1, <2>1, <2>3, SettlesTail DEF IndexComes
  <2>5. Settles(indexWrites', p) /\ (Comes(indexWrites, p) => Comes(indexWrites', p))
    BY <2>1, <2>3 DEF IndexComes
  <2>6. IndexComes(p)'
    BY <2>3, <2>4, <2>5 DEF IndexComes, p
  <2>. QED
    BY <2>6 DEF p
<1>3. CASE WriteIndexNext
  <2>1. /\ indexWrites \in Seq(Write) /\ indexWrites # << >>
        /\ indexWrites' = Tail(indexWrites)
        /\ disk' = [disk EXCEPT ![Head(indexWrites)[1]] = Head(indexWrites)[2]]
        /\ writes' = writes /\ past' = past
    BY <1>3, IndexWrites DEF WriteIndexNext, history
  <2>2. disk'["org"] = disk["org"]
    BY <1>3, QuietActions DEF Quiet
  <2>3. FinalIn(disk, writes, "org", o)
    BY <2>1, <2>2 DEF FinalIn
  <2>4. IndexComes(p)
    BY <2>1, <2>3 DEF IndexInv, Clean, p
  <2>5. /\ Settles(indexWrites', p)
        /\ disk["index"] = p \/ Comes(indexWrites, p) =>
             disk'["index"] = p \/ Comes(indexWrites', p)
    BY <1>1, <2>1, <2>4, SettlesTail DEF IndexComes
  <2>6. Settles(writes', p) /\ (Comes(writes, p) => Comes(writes', p))
    BY <2>1, <2>4 DEF IndexComes
  <2>7. IndexComes(p)'
    BY <2>4, <2>5, <2>6 DEF IndexComes, p
  <2>. QED
    BY <2>7 DEF p
<1>. QED
  BY <1>2, <1>3

\* Who has synced a folder has one.
LEMMA SyncedHasFolder ==
  ASSUME IInv, Clean, userState = "OrgSynced"
  PROVE  /\ mapped # NoFolder
         /\ \E o \in Org : FinalIn(disk, writes, "org", o) /\ o.path = mapped
BY DEF IInv, StateInv, SavedAs, Agrees, HasOrg, Clean

\* A step that leaves the folders and the syncs alone.
LEMMA RootKept ==
  ASSUME RootInv, past \subseteq past', syncing' \subseteq syncing, batches' \subseteq batches,
         UNCHANGED <<rootDir, indexRoot, mapped>>,
         userState' = userState \/ "OrgSynced" \notin {userState, userState'}
  PROVE  RootInv'
BY DEF RootInv, Clean

\* Every step keeps the root folder and the index in memory together.
LEMMA RootStep ==
  ASSUME TypeOK, IInv, RootInv, IndexInv, [Next]_vars
  PROVE  RootInv'
<1>1. CASE WriteNext \/ WriteIndexNext \/ TokenRefreshed \/ OrgCreated \/ BrowseFolderClicked
           \/ UNCHANGED vars
  BY <1>1, RootKept DEF WriteNext, WriteIndexNext, TokenRefreshed, OrgCreated,
     BrowseFolderClicked, vars, files, screenVars, syncVars, history
<1>2. ASSUME NEW a \in Accounts, SignIn(a) PROVE RootInv'
  BY <1>2, RootKept DEF SignIn, screenVars, syncVars, history
<1>3. ASSUME NEW s \in Sync, InitialSyncErr(s) PROVE RootInv'
  BY <1>3, RootKept DEF InitialSyncErr, files, screenVars, history
<1>4. ASSUME NEW r, SaveOnLocal(r) PROVE RootInv'
  BY <1>4, RootKept DEF SaveOnLocal, screenVars
<1>5. CASE ActionsReady
  <2>. SUFFICES ASSUME Clean' PROVE RootInv'
    BY DEF RootInv
  <2>1. /\ userState = "OrgSynced" /\ batches' = batches \union {indexRoot} /\ past' = past
        /\ UNCHANGED <<userState, rootDir, indexRoot, mapped, syncing>>
    BY <1>5 DEF ActionsReady, files, screenVars, history
  <2>2. mapped # NoFolder
    BY <2>1, SyncedHasFolder DEF Clean
  <2>. QED
    BY <2>1, <2>2 DEF RootInv, Clean
<1>6. CASE JoinOrgClicked
  <2>1. /\ userState = "SignedIn" /\ userState' = "OrgJoined" /\ past' = past
        /\ UNCHANGED <<rootDir, indexRoot, syncing, batches>>
    BY <1>6 DEF JoinOrgClicked, syncVars, history
  <2>2. \A s \in syncing : s.session # "this"
    BY <2>1 DEF IInv, StateInv
  <2>. QED
    BY <2>1, <2>2 DEF RootInv, Clean
<1>7. CASE SignOut
  <2>1. /\ userState' = "SignedOut" /\ rootDir' = NoFolder /\ past' = past
        /\ batches' = batches
        /\ syncing' = {[s EXCEPT !.session = "earlier"] : s \in syncing}
    BY <1>7 DEF SignOut, history
  <2>2. \A s \in syncing' : s.session # "this"
    BY <2>1 DEF TypeOK, Sync
  <2>. QED
    BY <2>1, <2>2 DEF RootInv, Clean
<1>8. ASSUME NEW f \in Folders, FolderSelected(f) PROVE RootInv'
  <2>1. /\ past \subseteq past' /\ UNCHANGED <<userState, rootDir, indexRoot, batches>>
    BY <1>8 DEF FolderSelected
  <2>2. CASE userState \notin {"OrgJoined", "OrgSynced"}
    BY <1>8, <2>1, <2>2, RootKept DEF FolderSelected
  <2>3. CASE userState \in {"OrgJoined", "OrgSynced"}
    <3>. SUFFICES ASSUME Clean' PROVE RootInv'
      BY DEF RootInv
    <3>1. /\ mapped' = f /\ mapped \in {NoFolder, f} /\ Clean
          /\ syncing' = IF userState = "OrgJoined"
                        THEN syncing \union {[folder |-> f, session |-> "this"]} ELSE syncing
      <4>1. /\ mapped' = f
            /\ past' = past \union IF mapped \in {NoFolder, f} THEN {} ELSE {"reselected"}
            /\ syncing' = IF userState = "OrgJoined"
                          THEN syncing \union {[folder |-> f, session |-> "this"]}
                          ELSE syncing
        BY <1>8, <2>3 DEF FolderSelected
      <4>2. past' \subseteq {"roleInferred"}
        BY DEF Clean
      <4>3. mapped \in {NoFolder, f} /\ Clean
        BY <4>1, <4>2 DEF Clean
      <4>. QED
        BY <4>1, <4>3
    <3>2. userState = "OrgSynced" => mapped = f
      BY <3>1, SyncedHasFolder
    <3>3. \A s \in syncing : s.session = "this" => s.folder = f
      BY <3>1 DEF IInv, StateInv, RootInv
    <3>4. \A s \in syncing' : s.session = "this" => s.folder = f
      BY <3>1, <3>3
    <3>. QED
      BY <2>1, <3>1, <3>2, <3>4 DEF RootInv
  <2>. QED
    BY <2>2, <2>3
<1>9. ASSUME NEW s \in Sync, InitialSyncOk(s) PROVE RootInv'
  <2>1. /\ past \subseteq past' /\ UNCHANGED <<mapped, batches>> /\ syncing' \subseteq syncing
        /\ s \in syncing
    BY <1>9 DEF InitialSyncOk, screenVars
  <2>2. CASE userState # "OrgJoined"
    BY <1>9, <2>1, <2>2, RootKept DEF InitialSyncOk
  <2>3. CASE userState = "OrgJoined"
    <3>. SUFFICES ASSUME Clean' PROVE RootInv'
      BY DEF RootInv
    <3>1. /\ userState' = "OrgSynced" /\ rootDir' = s.folder /\ indexRoot' = s.folder
          /\ s.session = "this" /\ Clean
      BY <1>9, <2>1, <2>3 DEF InitialSyncOk, Clean, Sync
    <3>. QED
      BY <2>1, <3>1 DEF RootInv
  <2>. QED
    BY <2>2, <2>3
<1>10. CASE Restart
  <2>. SUFFICES ASSUME Clean' PROVE RootInv'
    BY DEF RootInv
  <2>1. /\ userState' = BootState(disk) /\ mapped' = BootMapped(disk)
        /\ syncing' = {} /\ batches' = {} /\ Clean /\ Idle /\ indexWrites = << >>
        /\ IF BootState(disk) = "OrgSynced"
           THEN rootDir' = disk["org"].path /\ indexRoot' = LoadedIndexRoot(disk)
           ELSE rootDir' = NoFolder
    BY <1>10 DEF Restart, Clean
  <2>2. ASSUME BootState(disk) = "OrgSynced" PROVE LoadedIndexRoot(disk) = disk["org"].path
    <3>1. disk["org"] \in OrgFile /\ disk["org"] # Unreadable /\ disk["org"].status = "Ready"
      BY <2>2, ContentsOf DEF BootState, BootsSynced, TypeOK, FileName
    <3>2. PICK o \in Org : o = disk["org"] /\ o.status = "Ready"
      BY <3>1 DEF OrgFile
    <3>3. IndexComes(o.path)
      BY <2>1, <3>2, FinalEmpty DEF IndexInv, Idle
    <3>4. disk["index"] = o.path
      BY <2>1, <3>3 DEF IndexComes, Comes, Idle
    <3>5. o.path # Unreadable
      BY UnreadableApart DEF Org, MaybeFolder
    <3>. QED
      BY <3>2, <3>4, <3>5 DEF LoadedIndexRoot
  <2>3. BootState(disk) = "OrgSynced" => BootMapped(disk) = disk["org"].path
    BY DEF BootMapped
  <2>. QED
    BY <2>1, <2>2, <2>3 DEF RootInv
<1>. QED
  BY <1>1, <1>2, <1>3, <1>4, <1>5, <1>6, <1>7, <1>8, <1>9, <1>10 DEF Next, SyncAnswer

\* Every step keeps the index on disk that of the folder.
LEMMA IndexStep ==
  ASSUME TypeOK, IInv, RootInv, IndexInv, [Next]_vars
  PROVE  IndexInv'
<1>1. CASE WriteNext \/ WriteIndexNext
  BY <1>1, WriteIndexInv
<1>2. ASSUME UNCHANGED <<disk, writes, indexWrites>>, past \subseteq past' PROVE IndexInv'
  BY <1>2 DEF IndexInv, IndexComes, Clean
<1>3. CASE SignOut \/ BrowseFolderClicked \/ ActionsReady \/ UNCHANGED vars
  BY <1>2, <1>3 DEF SignOut, BrowseFolderClicked, ActionsReady, vars, files, history
<1>4. ASSUME NEW s \in Sync, InitialSyncErr(s) PROVE IndexInv'
  BY <1>2, <1>4 DEF InitialSyncErr, files, history
<1>5. ASSUME NEW a \in Accounts, SignIn(a) PROVE IndexInv'
  <2>1. [account |-> a, role |-> "None"] \in Auth
    BY DEF Auth
  <2>. QED
    BY <1>5, <2>1, ProfileOnly DEF SignIn, history
<1>6. CASE TokenRefreshed
  <2>1. Readable("auth") => disk["auth"] \in Auth
    BY ContentsOf DEF TypeOK, FileName, AuthFile, Readable
  <2>. QED
    BY <1>6, <2>1, ProfileOnly DEF TokenRefreshed, history
<1>7. CASE OrgCreated \/ JoinOrgClicked
  <2>1. /\ Idle /\ userState = "SignedIn" /\ disk' = disk /\ indexWrites' = indexWrites
        /\ past' = past
    BY <1>7 DEF OrgCreated, JoinOrgClicked, history
  <2>2. PICK o \in Org, role \in {"Owner", "User"} :
          writes' = Save("org", o) \o WithRole(role) /\ o.status = "Created"
    <3>1. CASE OrgCreated
      <4>. DEFINE x == [status |-> "Created", path |-> NoFolder, by |-> account]
      <4>1. x \in Org /\ x.status = "Created"
        BY DEF Org, TypeOK
      <4>. QED
        BY <3>1, <4>1 DEF OrgCreated
    <3>2. CASE JoinOrgClicked
      <4>. DEFINE path == IF Readable("org") THEN disk["org"].path ELSE NoFolder
                  x == [status |-> "Created", path |-> path, by |-> account]
      <4>1. path \in MaybeFolder
        BY ContentsOf DEF TypeOK, FileName, OrgFile, Readable, Org, MaybeFolder
      <4>2. writes' = Save("org", x) \o WithRole("User")
        BY <3>2 DEF JoinOrgClicked
      <4>. HIDE DEF path
      <4>3. x \in Org /\ x.status = "Created"
        BY <4>1 DEF Org, TypeOK, MaybeFolder
      <4>. QED
        BY <4>2, <4>3
    <3>. QED
      BY <1>7, <3>1, <3>2
  <2>3. PICK a \in Auth : writes' = Save("org", o) \o Save("auth", a)
    <3>1. disk["auth"] \in Auth /\ Readable("auth")
      BY <2>1, IdleSaved
    <3>2. [disk["auth"] EXCEPT !.role = role] \in Auth
      BY <3>1 DEF Auth
    <3>. QED
      BY <2>2, <3>1, <3>2 DEF WithRole
  <2>4. o \in Contents["org"] /\ a \in Contents["auth"]
    BY ContentsOf DEF AuthFile, OrgFile
  <2>5. Save("org", o) \in Seq(Write) /\ Save("auth", a) \in Seq(Write)
    BY <2>4, SaveTyped DEF FileName
  <2>6. writes' \in Seq(Write)
    BY <2>3, <2>5, ConcatProperties
  <2>7. FinalIn(disk, writes', "org", o)
    <3>1. FinalIn(disk, Save("org", o), "org", o)
      BY FinalSave
    <3>. QED
      BY <2>3, <2>4, <2>5, <3>1, FinalAppend DEF FileName
  <2>8. \A d \in Org : FinalIn(disk, writes', "org", d) => d.status # "Ready"
    BY <2>2, <2>6, <2>7, FinalUnique
  <2>9. NoWrite(writes', "index")
    <3>1. /\ Len(Save("org", o)) = 2 /\ Len(Save("auth", a)) = 2
          /\ Save("org", o)[1] = <<"org", Unreadable>> /\ Save("org", o)[2] = <<"org", o>>
          /\ Save("auth", a)[1] = <<"auth", Unreadable>> /\ Save("auth", a)[2] = <<"auth", a>>
      BY DEF Save
    <3>2. /\ Len(writes') = 4
          /\ writes'[1][1] = "org" /\ writes'[2][1] = "org"
          /\ writes'[3][1] = "auth" /\ writes'[4][1] = "auth"
      BY <2>3, <2>5, <3>1, Appended
    <3>. QED
      BY <3>2 DEF NoWrite
  <2>. QED
    BY <2>1, <2>8, <2>9, IndexKept
<1>8. ASSUME NEW f \in Folders, FolderSelected(f) PROVE IndexInv'
  <2>1. CASE userState \notin {"OrgJoined", "OrgSynced"}
    BY <1>2, <1>8, <2>1 DEF FolderSelected
  <2>2. CASE userState \in {"OrgJoined", "OrgSynced"}
    <3>1. HasOrg /\ Idle
      BY <1>8, <2>2 DEF HasOrg, FolderSelected
    <3>2. PICK a \in Auth, d \in Org :
            /\ a = disk["auth"] /\ d = disk["org"] /\ Readable("org") /\ SavedAs(a, d)
      BY <3>1, IdleSaved
    <3>3. PICK o : /\ o = [disk["org"] EXCEPT !.path = f]
                   /\ o.path = f /\ o.status = d.status
      <4>. DEFINE x == [d EXCEPT !.path = f]
      <4>1. x.path = f /\ x.status = d.status
        BY DEF Org
      <4>. QED
        BY <3>2, <4>1
    <3>4. /\ disk' = disk /\ indexWrites' = indexWrites /\ writes' = Save("org", o)
          /\ past' = past \union IF mapped \in {NoFolder, f} THEN {} ELSE {"reselected"}
      BY <1>8, <2>2, <3>2, <3>3 DEF FolderSelected, SetPath
    <3>5. NoWrite(writes', "index") /\ ~NoWrite(writes', "org")
      BY <3>4 DEF NoWrite, Save
    <3>6. ASSUME NEW x, FinalIn(disk, writes', "org", x) PROVE x = o
      BY <3>4, <3>5, <3>6 DEF FinalIn, LastWrite, Save
    <3>7. ASSUME Clean', o.status = "Ready" PROVE d.path = o.path
      <4>1. past' \subseteq {"roleInferred"}
        BY <3>7 DEF Clean
      <4>2. mapped \in {NoFolder, f} /\ "lateResult" \notin past
        BY <3>4, <4>1
      <4>3. Agrees(a, d)
        BY <3>2, <4>2 DEF SavedAs
      <4>. QED
        BY <2>2, <3>3, <3>7, <4>2, <4>3 DEF Agrees
    <3>. QED
      BY <3>1, <3>2, <3>3, <3>4, <3>5, <3>6, <3>7, IndexKept
  <2>. QED
    BY <2>1, <2>2
<1>9. ASSUME NEW s \in Sync, InitialSyncOk(s) PROVE IndexInv'
  <2>1. CASE userState # "OrgJoined"
    BY <1>2, <1>9, <2>1 DEF InitialSyncOk
  <2>2. CASE userState = "OrgJoined"
    <3>. SUFFICES ASSUME Clean' PROVE IndexInv'
      BY DEF IndexInv
    <3>. DEFINE f == s.folder
    <3>1. /\ HasOrg /\ Idle /\ s \in syncing /\ f \in MaybeFolder /\ Clean
          /\ s.session = "this" /\ indexWrites = << >>
          /\ disk' = disk /\ indexWrites' = indexWrites
      BY <1>9, <2>2 DEF HasOrg, InitialSyncOk, Sync, MaybeFolder, Clean
    <3>2. PICK a \in Auth, d \in Org :
            /\ a = disk["auth"] /\ d = disk["org"] /\ Readable("org") /\ SavedAs(a, d)
      BY <3>1, IdleSaved
    <3>3. d.path = f
      BY <2>2, <3>1, <3>2 DEF SavedAs, Agrees, Clean, RootInv
    <3>4. PICK o \in Org : o = [disk["org"] EXCEPT !.status = "Ready"] /\ o.path = f
      <4>. DEFINE x == [d EXCEPT !.status = "Ready"]
      <4>1. x \in Org /\ x.path = d.path
        BY DEF Org
      <4>. QED
        BY <3>2, <3>3, <4>1
    <3>. DEFINE w1 == Save("org", o)
                w2 == Save("index", f)
    <3>5. writes' = (w1 \o w2) \o w1
      BY <1>9, <2>2, <3>2, <3>4 DEF InitialSyncOk, SyncedWrites, SetStatus
    <3>6. o \in Contents["org"] /\ f \in Contents["index"]
      BY <3>1, ContentsOf DEF OrgFile, IndexFile
    <3>. HIDE DEF f
    <3>7. /\ w1 \in Seq(Write) /\ w2 \in Seq(Write) /\ Len(w1) = 2 /\ Len(w2) = 2
          /\ w1[1] = <<"org", Unreadable>> /\ w1[2] = <<"org", o>>
          /\ w2[1] = <<"index", Unreadable>> /\ w2[2] = <<"index", f>>
      BY <3>6, SaveTyped DEF FileName, Save
    <3>. HIDE DEF w1, w2
    <3>8. /\ w1 \o w2 \in Seq(Write) /\ Len(w1 \o w2) = 4
          /\ (w1 \o w2)[1] = <<"org", Unreadable>> /\ (w1 \o w2)[2] = <<"org", o>>
          /\ (w1 \o w2)[3] = <<"index", Unreadable>> /\ (w1 \o w2)[4] = <<"index", f>>
      BY <3>7, Appended, ConcatProperties
    <3>9. writes' \in Seq(Write)
      BY <3>5, <3>7, <3>8, ConcatProperties
    <3>10. /\ Len(writes') = 6
           /\ writes'[1] = <<"org", Unreadable>> /\ writes'[2] = <<"org", o>>
           /\ writes'[3] = <<"index", Unreadable>> /\ writes'[4] = <<"index", f>>
           /\ writes'[5] = <<"org", Unreadable>> /\ writes'[6] = <<"org", o>>
      BY <3>5, <3>7, <3>8, Appended
    <3>11. FinalIn(disk', writes', "org", o)
      <4>1. LastWrite(writes', "org", o)
        BY <3>10 DEF LastWrite
      <4>. QED
        BY <4>1 DEF FinalIn
    <3>12. Settles(writes', f) /\ Comes(writes', f)
      <4>1. f # Unreadable
        BY <3>1, UnreadableApart
      <4>. QED
        BY <3>10, <4>1 DEF Settles, Comes
    <3>13. Settles(indexWrites', f)
      BY <3>1 DEF Settles
    <3>14. \A x : FinalIn(disk', writes', "org", x) => x = o
      BY <3>9, <3>11, FinalUnique
    <3>. QED
      BY <3>4, <3>12, <3>13, <3>14 DEF IndexInv, IndexComes
  <2>. QED
    BY <2>1, <2>2
<1>10. ASSUME NEW r \in MaybeFolder, SaveOnLocal(r) PROVE IndexInv'
  <2>. SUFFICES ASSUME Clean', NEW o \in Org, FinalIn(disk', writes', "org", o),
                       o.status = "Ready"
                PROVE  IndexComes(o.path)'
    BY DEF IndexInv
  <2>1. /\ disk' = disk /\ writes' = writes /\ indexWrites' = Save("index", r)
        /\ r \in batches /\ r = rootDir /\ Clean
    BY <1>10 DEF SaveOnLocal, Clean
  <2>2. userState = "OrgSynced" /\ mapped = r
    BY <2>1 DEF RootInv
  <2>3. PICK d \in Org : FinalIn(disk, writes, "org", d) /\ d.path = r
    BY <2>1, <2>2, SyncedHasFolder
  <2>4. o = d
    BY <2>1, <2>3, FinalUnique DEF TypeOK
  <2>5. Settles(writes', o.path)
    BY <2>1, <2>3, <2>4 DEF IndexInv, IndexComes
  <2>6. /\ Len(indexWrites') = 2 /\ indexWrites'[1] = <<"index", Unreadable>>
        /\ indexWrites'[2] = <<"index", o.path>>
    BY <2>1, <2>3, <2>4 DEF Save
  <2>7. Settles(indexWrites', o.path) /\ Comes(indexWrites', o.path)
    <3>1. o.path # Unreadable
      BY <2>3, <2>4, UnreadableApart
    <3>. QED
      BY <2>6, <3>1 DEF Settles, Comes
  <2>. QED
    BY <2>5, <2>7 DEF IndexComes
<1>11. CASE Restart
  <2>. SUFFICES ASSUME Clean' PROVE IndexInv'
    BY DEF IndexInv
  <2>1. /\ disk' = disk /\ indexWrites' = << >> /\ past \subseteq past'
        /\ Idle /\ indexWrites = << >>
        /\ writes' = IF RoleIsMissing(disk)
                     THEN Save("auth", [disk["auth"] EXCEPT !.role = BootRole(disk)])
                     ELSE << >>
    BY <1>11 DEF Restart, Clean
  <2>2. RoleIsMissing(disk) => [disk["auth"] EXCEPT !.role = BootRole(disk)] \in Auth
    BY BootTyped
  <2>. QED
    BY <2>1, <2>2, ProfileOnly
<1>. QED
  BY <1>1, <1>3, <1>4, <1>5, <1>6, <1>7, <1>8, <1>9, <1>10, <1>11
     DEF Next, SyncAnswer, MaybeFolder

\* With no stop in the middle of a write, no second folder and no late result, the file
\* index is of the folder that is synced.
THEOREM IndexIsOfRoot == Spec => []IndexOfRoot
<1>1. Init => RootInv /\ IndexInv
  <2>1. ASSUME Init PROVE RootInv
    <3>1. BootState(disk) # "OrgSynced"
      BY <2>1 DEF Init, BootState, FileName
    <3>. QED
      BY <2>1, <3>1 DEF Init, RootInv
  <2>2. ASSUME Init, NEW o \in Org PROVE ~FinalIn(disk, writes, "org", o)
    BY <2>2, UnreadableApart DEF Init, FinalIn, LastWrite, FileName
  <2>. QED
    BY <2>1, <2>2 DEF IndexInv
<1>2. TypeOK /\ IInv /\ RootInv /\ IndexInv /\ [Next]_vars => (RootInv /\ IndexInv)'
  BY RootStep, IndexStep
<1>3. RootInv => IndexOfRoot
  BY DEF RootInv, IndexOfRoot, Clean
<1>. QED
  BY <1>1, <1>2, <1>3, Invariant, PTL DEF Spec

=============================================================================
