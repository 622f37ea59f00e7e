------------------------------- MODULE Shell -------------------------------
(***************************************************************************)
(* The Explorer extension and the program, over their TCP connections.     *)
(***************************************************************************)
EXTENDS RevisionServer

CONSTANTS Handlers, Incomplete, MaxShown

VARIABLES handler, lastStatus, mixed

Explorer == INSTANCE ContextMenu

shellVars == <<vars, handler, lastStatus, mixed>>

ShellInit == Init /\ Explorer!Init

Extension ==
  /\ \/ \E h \in Handlers : Explorer!Proceed(h)
     \/ Explorer!UserStep
  /\ UNCHANGED <<serving, taskVars, synced, drive>>

Program == ProgramStep /\ UNCHANGED <<handler, lastStatus, mixed>>

ShellNext == Extension \/ Program

\* The loop, the runtime and the tasks of the program go on; so does a handler, whose
\* calls have timeouts.  What the user does, the refresh of the token, and the end of
\* the session need not happen.
ShellFairness ==
  /\ WF_shellVars(ServerStep /\ UNCHANGED <<handler, lastStatus, mixed>>)
  /\ WF_shellVars(Handle /\ UNCHANGED <<handler, lastStatus, mixed>>)
  /\ \A c \in Conns : WF_shellVars(TaskStep(c) /\ UNCHANGED <<handler, lastStatus, mixed>>)
  /\ \A h \in Handlers :
       WF_shellVars(Explorer!Proceed(h) /\ UNCHANGED <<serving, taskVars, synced, drive>>)

ShellSpec == ShellInit /\ [][ShellNext]_shellVars /\ ShellFairness

-----------------------------------------------------------------------------
(* Properties *)

\* The server of a session ends with a panic only when a client died, or gave up
\* connecting: never because of what a client sent, an answer that did not come, or a
\* client that did not wait for it.
PanicNeedsBrokenClient == server = "panicked" => broken

\* A menu shows what its own request was answered: "loading", an error, a list, or nothing.
\* Not so if another handler has changed last_status meanwhile, and if its own request had
\* no socket (sendReceive returns before it sets last_status): it then shows "loading" or an
\* error if that is what the request before was answered.
ShowsOwnAnswer ==
  \A h \in Handlers :
    handler[h].step = "shown" /\ handler[h].command = "revisions" /\ h \notin mixed =>
      CASE handler[h].view = "loading" -> handler[h].text = Loading
        [] handler[h].view = "none" -> handler[h].text = Error
        [] handler[h].view = "empty" -> handler[h].text \notin {Loading, Error}
        [] handler[h].view = "list" -> handler[h].text.kind = "list"

\* A list that arrived in part is never taken for a list, whoever changed last_status:
\* what is shown goes from the newest revision to the oldest one, or to one that lacks
\* a field.
ShownListIsWhole ==
  \A h \in Handlers :
    handler[h].step = "shown" /\ handler[h].view = "list" =>
      LET n == handler[h].text.n
          list == handler[h].list
      IN /\ \A i \in 1 .. Len(list) : list[i] = n + 1 - i
         /\ Len(list) = n \/ Incomplete[handler[h].file] = n - Len(list)

\* The archived versions of a file under the root of the session are missing from its
\* menu only after a fault, or when the session has ended: also when another folder has
\* been selected meanwhile.
MissingNeedsCause ==
  \A h \in Handlers :
    /\ handler[h].step = "shown" /\ handler[h].view = "none" /\ h \notin mixed
    /\ FolderOf[handler[h].file] = Root
    => faults > 0

\* The cache has the newest list that was fetched, unless two tasks had fetched the
\* file at the same time: then the one that comes last wins.
CacheIsNewest ==
  \A f \in Files : cache[f] # Vacant /\ f \notin raced => cache[f] = newest[f]

\* When a client was told "loading", the list arrives in the cache, its request fails, or
\* it waits for a new token.
LoadingIsFollowedUp ==
  \A f \in Files :
    f \in owed ~> \/ f \notin owed
                  \/ \E c \in Conns : conn[c].file = f /\ task[c].step = "parked"

\* The server serves one client at a time, and none of them keeps it.
ServerComesBack ==
  server \in {"reading", "awaiting"} ~> server \notin {"reading", "awaiting"}
=============================================================================
