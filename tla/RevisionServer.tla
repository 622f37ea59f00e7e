--------------------------- MODULE RevisionServer ---------------------------
(***************************************************************************)
(* The program's side of the shell extension: the TCP server               *)
(* (subscriptions.rs), the handler of its messages (external_commands.rs), *)
(* the tasks that list revisions (tasks.rs) and their cache.               *)
(*                                                                         *)
(* A connection is a record the client shares with the server; its number  *)
(* also names the message, the one-shot answer and the task that come of   *)
(* it.  A list of revisions is the number of revisions Drive had, which    *)
(* stands for the sequence of them, newest first.                          *)
(***************************************************************************)
EXTENDS Naturals, Sequences

CONSTANTS
  Files,
  FolderOf,     \* [Files -> folders]: the folder a file is in
  Root,         \* the watched folder of the session
  AtStart,      \* how many revisions a file has at the start
  MaxConns,     \* how many connections are made
  MaxRevisions, \* how many revisions a file gets
  MaxFaults     \* how many calls fail, clients die and sign-outs happen, together

ASSUME ServerAssumption ==
  /\ Files # {} /\ MaxConns \in Nat \ {0} /\ AtStart \in 1 .. MaxRevisions
  /\ MaxRevisions \in Nat /\ MaxFaults \in Nat

VARIABLES
  server,   \* what the loop of tcp_subscription is doing
  serving,  \* the connection it has accepted
  backlog,  \* the connections the system has accepted for it
  conn,     \* the connections
  inbox,    \* the messages on their way to `update'
  answer,   \* the one-shot channel the server waits for
  task,     \* the tasks that the messages started
  cache,    \* Cache.file_id_to_revisions
  synced,   \* the session is in OrgSynced
  mapped,   \* local_folder_path in org.json
  drive,    \* how many revisions each file has on Drive
  faults,   \* the faults so far
  (* History *)
  newest,   \* the longest list of each file a task has brought
  raced,    \* the files that were fetched twice at the same time
  owed,     \* the files of which a client was told "loading"
  broken    \* a client left without its length, or died

serverVars == <<server, serving, backlog>>
taskVars == <<inbox, answer, task, cache, newest, raced, owed>>
worldVars == <<synced, mapped, drive, faults>>
vars == <<serverVars, conn, taskVars, worldVars, broken>>

-----------------------------------------------------------------------------
(* Data *)

Conns == 1 .. MaxConns
Nobody == 0
Folders == {FolderOf[f] : f \in Files}

Commands == {"revisions", "refresh", "all", "download"}
Forced == {"refresh", "all"}
Waiting == {"revisions", "refresh"}

\* What goes over the wire: nothing, one of two words, a list, or part of one.
Reply(kind, n) == [kind |-> kind, n |-> n]
Nothing == Reply("nothing", 0)
Loading == Reply("loading", 0)
Error == Reply("error", 0)
Loaded(n) == Reply("list", n)
CutOff(n) == Reply("cut", n)

NewConnection(command, f) ==
  [command |-> command, file |-> f, sent |-> "nothing", end |-> "open",
   reply |-> Nothing, closed |-> FALSE]
Unused == [NewConnection("none", CHOOSE f \in Files : TRUE) EXCEPT !.closed = TRUE]

\* No entry, or one that has outlived its 10 seconds: Cache::get takes it away.
Vacant == 0

NoTask == [step |-> "none", n |-> 0]
Fetching == [step |-> "fetching", n |-> 0]
Running == {c \in Conns : task[c].step \in {"fetching", "answered"}}

-----------------------------------------------------------------------------
\* A session that runs already, and may have a list in its cache.
Init ==
  /\ server = "accepting"
  /\ serving = Nobody
  /\ backlog = <<>>
  /\ conn = [c \in Conns |-> Unused]
  /\ inbox = <<>>
  /\ answer = Nothing
  /\ task = [c \in Conns |-> NoTask]
  /\ \E seen \in SUBSET {f \in Files : FolderOf[f] = Root} :
       cache = [f \in Files |-> IF f \in seen THEN AtStart ELSE Vacant]
  /\ synced = TRUE
  /\ mapped = Root
  /\ drive = [f \in Files |-> AtStart]
  /\ faults = 0
  /\ newest = cache
  /\ raced = {}
  /\ owed = {}
  /\ broken = FALSE

-----------------------------------------------------------------------------
(* The loop of the server *)

Accept ==
  /\ server = "accepting" /\ backlog # <<>>
  /\ server' = "reading"
  /\ serving' = Head(backlog)
  /\ backlog' = Tail(backlog)
  /\ UNCHANGED <<conn, taskVars, worldVars, broken>>

\* The stream is dropped at the end of the block, and the next client accepted.
Finish(c, reply) ==
  /\ server' = "accepting"
  /\ serving' = Nobody
  /\ conn' = [conn EXCEPT ![c].reply = reply, ![c].closed = TRUE]

\* The stream of the subscription is gone, with its listener, its connections and the
\* answer it waited for.
ServerEnds(how) ==
  /\ server' = how
  /\ serving' = Nobody
  /\ backlog' = <<>>
  /\ conn' = [c \in Conns |-> [conn[c] EXCEPT !.closed = TRUE]]
  /\ answer' = Nothing

\* Nothing starts it again in this session.
Panic ==
  /\ ServerEnds("panicked")
  /\ UNCHANGED <<inbox, task, cache, newest, raced, owed, worldVars, broken>>

\* read_u16_le fails: the client closed before it sent, or the connection was reset.
LengthIsLost(c) ==
  \/ conn[c].end # "open" /\ conn[c].sent = "nothing"
  \/ conn[c].end = "reset"

ReadPanics ==
  /\ server = "reading" /\ LengthIsLost(serving)
  /\ Panic

\* Mutant: a message that is not read to its end makes the server panic, too.
NotReadToEnd_Unwrap ==
  /\ server = "reading" /\ conn[serving].sent # "nothing"
  /\ conn[serving].end # "open"
  /\ Panic

\* read_exact fails: "not read to end".
NotReadToEnd ==
  /\ server = "reading"
  /\ conn[serving].end = "reset" /\ conn[serving].sent # "nothing"
  /\ Finish(serving, Nothing)
  /\ UNCHANGED <<backlog, taskVars, worldVars, broken>>

\* "revisions" and "refresh" wait for their answer; "all" and "download" do not.
ReadCommand ==
  /\ server = "reading" /\ conn[serving].sent = "all"
  /\ inbox' = Append(inbox, serving)
  /\ IF conn[serving].command \in Waiting
     THEN server' = "awaiting" /\ UNCHANGED <<serving, conn>>
     ELSE Finish(serving, Nothing)
  /\ UNCHANGED <<backlog, answer, task, cache, newest, raced, owed, worldVars, broken>>

\* One call of `write', which may take a part of a long list only; it fails when the
\* client is known to be gone.
Written(reply) ==
  IF reply.kind = "list" THEN {reply, CutOff(reply.n)} ELSE {reply}

WriteReply ==
  /\ server = "awaiting" /\ answer # Nothing
  /\ \E reply \in Written(answer) : Finish(serving, reply)
  /\ answer' = Nothing
  /\ UNCHANGED <<backlog, inbox, task, cache, newest, raced, owed, worldVars, broken>>

WritePanics ==
  /\ server = "awaiting" /\ answer # Nothing
  /\ conn[serving].end = "reset"
  /\ Panic

-----------------------------------------------------------------------------
(* The cache *)

Hit(c) == cache[conn[c].file] # Vacant /\ conn[c].command \notin Forced

\* Mutant: an entry that is there is kept.
CacheInsert_IfVacant(f, n) == IF cache[f] = Vacant THEN [cache EXCEPT ![f] = n] ELSE cache

CacheInsert(f, n) == [cache EXCEPT ![f] = n]

CacheExpires(f) ==
  /\ cache[f] # Vacant
  /\ cache' = [cache EXCEPT ![f] = Vacant]
  /\ UNCHANGED <<serverVars, conn, inbox, answer, task, newest, raced, owed,
                 worldVars, broken>>

-----------------------------------------------------------------------------
(* The update loop, and the first poll of get_file_revisions *)

\* The one-shot sender, if the message has one and the server still waits for it.
Send(c, reply) == answer' = IF c = serving THEN reply ELSE answer

\* A message is handled in OrgSynced only.
Dropped(c) ==
  /\ ~synced
  /\ Send(c, Error)
  /\ UNCHANGED <<task, cache, owed, faults>>

\* Mutant: the folder of org.json is taken for the one of the session.
OutsideOfRoot_Mapped(c) == conn[c].command # "download" /\ FolderOf[conn[c].file] # mapped

\* resolve_path expects the path to be in the root folder of the session.
OutsideOfRoot(c) == conn[c].command # "download" /\ FolderOf[conn[c].file] # Root

TaskPanics(c) ==
  /\ synced /\ OutsideOfRoot(c)
  /\ Send(c, Error)
  /\ UNCHANGED <<task, cache, owed, faults>>

\* Poll::Ready(Ok): the path is in the index and its list in the cache.
FoundAtOnce(c) ==
  /\ synced /\ ~OutsideOfRoot(c) /\ conn[c].command # "download" /\ Hit(c)
  /\ Send(c, Loaded(cache[conn[c].file]))
  /\ UNCHANGED <<task, cache, owed, faults>>

\* Mutant: the answer of a request that met a 401 is kept for its retry.
FailedAtOnce_KeepSender(c, unauthorized) ==
  /\ synced /\ ~OutsideOfRoot(c) /\ conn[c].command # "download" /\ faults < MaxFaults
  /\ faults' = faults + 1
  /\ IF unauthorized
     THEN UNCHANGED answer /\ task' = [task EXCEPT ![c] = [step |-> "parked", n |-> 0]]
     ELSE Send(c, Error) /\ UNCHANGED task
  /\ UNCHANGED <<cache, owed>>

\* Poll::Ready(Err): with a 401 the request is parked without its sender.
FailedAtOnce(c, unauthorized) ==
  /\ synced /\ ~OutsideOfRoot(c) /\ conn[c].command # "download" /\ faults < MaxFaults
  /\ faults' = faults + 1
  /\ Send(c, IF unauthorized THEN Loading ELSE Error)
  /\ task' = IF unauthorized THEN [task EXCEPT ![c] = [step |-> "parked", n |-> 0]] ELSE task
  /\ UNCHANGED <<cache, owed>>

\* Mutant: the future is dropped when its first poll is pending.
StillPending_Dropped(c) ==
  /\ synced /\ ~OutsideOfRoot(c)
  /\ Send(c, Loading)
  /\ owed' = IF conn[c].command \in Waiting THEN owed \union {conn[c].file} ELSE owed
  /\ UNCHANGED <<task, cache, faults>>

\* Poll::Pending: the client is told "loading", and the task goes on.
StillPending(c) ==
  /\ synced /\ ~OutsideOfRoot(c)
  /\ Send(c, Loading)
  /\ task' = [task EXCEPT ![c] = Fetching]
  /\ owed' = IF conn[c].command \in Waiting THEN owed \union {conn[c].file} ELSE owed
  /\ UNCHANGED <<cache, faults>>

Handle ==
  /\ inbox # <<>>
  /\ inbox' = Tail(inbox)
  /\ LET c == Head(inbox) IN
       \/ Dropped(c)
       \/ TaskPanics(c)
       \/ FoundAtOnce(c)
       \/ \E unauthorized \in BOOLEAN : FailedAtOnce(c, unauthorized)
       \/ StillPending(c)
  /\ UNCHANGED <<serverVars, conn, newest, raced, synced, mapped, drive, broken>>

-----------------------------------------------------------------------------
(* The task, once it is on its own *)

Ends(c) == task' = [task EXCEPT ![c] = NoTask]
Settled(c) == owed' = owed \ {conn[c].file}

\* fetch_and_cache_file_revisions finds a list that another task has brought.
FoundLater(c) ==
  /\ task[c].step = "fetching" /\ conn[c].command # "download" /\ Hit(c)
  /\ Ends(c) /\ Settled(c)
  /\ UNCHANGED <<serverVars, conn, inbox, answer, cache, newest, raced, worldVars, broken>>

\* Drive lists the revisions of this moment, or the revision is downloaded.
DriveLists(c) ==
  /\ task[c].step = "fetching" /\ conn[c].command # "download" /\ ~Hit(c)
  /\ task' = [task EXCEPT ![c] = [step |-> "answered", n |-> drive[conn[c].file]]]
  /\ raced' = IF \E d \in Running \ {c} : /\ task[d].step = "answered"
                                          /\ conn[d].file = conn[c].file
              THEN raced \union {conn[c].file} ELSE raced
  /\ UNCHANGED <<serverVars, conn, inbox, answer, cache, newest, owed, worldVars, broken>>

Inserts(c) ==
  LET f == conn[c].file IN
  /\ task[c].step = "answered"
  /\ cache' = CacheInsert(f, task[c].n)
  /\ newest' = [newest EXCEPT ![f] = IF task[c].n > @ THEN task[c].n ELSE @]
  /\ Ends(c) /\ Settled(c)
  /\ UNCHANGED <<serverVars, conn, inbox, answer, raced, worldVars, broken>>

Downloads(c) ==
  /\ task[c].step = "fetching" /\ conn[c].command = "download"
  /\ Ends(c)
  /\ UNCHANGED <<serverVars, conn, inbox, answer, cache, newest, raced, owed,
                 worldVars, broken>>

\* UnixCommandCompleted with an error: a 401 is parked, others are forgotten.
Fails(c, unauthorized) ==
  /\ task[c].step = "fetching" /\ faults < MaxFaults
  /\ faults' = faults + 1
  /\ IF unauthorized /\ synced
     THEN task' = [task EXCEPT ![c] = [step |-> "parked", n |-> 0]] /\ UNCHANGED owed
     ELSE Ends(c) /\ Settled(c)
  /\ UNCHANGED <<serverVars, conn, inbox, answer, cache, newest, raced,
                 synced, mapped, drive, broken>>

TaskStep(c) ==
  \/ FoundLater(c) \/ DriveLists(c) \/ Inserts(c) \/ Downloads(c)
  \/ \E unauthorized \in BOOLEAN : Fails(c, unauthorized)

\* retry_intents after a refresh of the token.
RetryIntents ==
  /\ synced /\ \E c \in Conns : task[c].step = "parked"
  /\ task' = [c \in Conns |-> IF task[c].step = "parked" THEN Fetching ELSE task[c]]
  /\ UNCHANGED <<serverVars, conn, inbox, answer, cache, newest, raced, owed,
                 worldVars, broken>>

-----------------------------------------------------------------------------
(* The rest of the program *)

\* The watcher uploads a new revision.
Upload(f) ==
  /\ FolderOf[f] = Root /\ drive[f] < MaxRevisions
  /\ drive' = [drive EXCEPT ![f] = @ + 1]
  /\ UNCHANGED <<serverVars, conn, taskVars, synced, mapped, faults, broken>>

\* FolderSelected in OrgSynced: org.json changes, the running session does not.  Once
\* in a behaviour.
FolderSelected(d) ==
  /\ synced /\ mapped = Root /\ d # Root
  /\ mapped' = d
  /\ UNCHANGED <<serverVars, conn, taskVars, synced, drive, faults, broken>>

\* re_auth: the subscription is dropped with its listener and its connections.  The
\* tasks go on; what they bring belongs to the session that has ended.  It counts as a
\* fault, for the bound only.
SignOut ==
  /\ synced /\ faults < MaxFaults
  /\ faults' = faults + 1
  /\ synced' = FALSE
  /\ ServerEnds("stopped")
  /\ UNCHANGED <<inbox, task, cache, newest, raced, owed, mapped, drive, broken>>

ServerStep ==
  \/ Accept \/ ReadPanics \/ NotReadToEnd \/ ReadCommand \/ WriteReply \/ WritePanics

ProgramStep ==
  \/ ServerStep
  \/ Handle
  \/ \E c \in Conns : TaskStep(c)
  \/ RetryIntents
  \/ \E f \in Files : Upload(f) \/ CacheExpires(f)
  \/ \E d \in Folders : FolderSelected(d)
  \/ SignOut
=============================================================================
