---------------------------- MODULE ContextMenu ----------------------------
(***************************************************************************)
(* The Windows Explorer extension (ContextMenuHandler.cpp,                 *)
(* SocketClient.cpp): one handler per context menu.  Every window of the   *)
(* Explorer has its own thread and its own handlers, all of them with the  *)
(* one static SocketClient::last_status.                                   *)
(***************************************************************************)
EXTENDS Naturals, Sequences

CONSTANTS
  Handlers,   \* how many context menus are there at the same time, 1 .. n
  Files,
  FolderOf,
  Incomplete, \* [Files -> Nat]: this revision, counted from the oldest, lacks its size (0: none)
  MaxShown,   \* MAX_ELEMENTS_SHOWN, 3 in the code
  MaxConns,
  MaxFaults

VARIABLES
  handler,     \* the handlers
  lastStatus,  \* SocketClient::last_status
  mixed,       \* History: handlers that read in lastStatus what another request left: it was
               \* changed since theirs, or theirs had no socket and left it alone
  (* Shared with the program *)
  server, backlog, conn, mapped, faults, broken

menuVars == <<handler, lastStatus, mixed>>

-----------------------------------------------------------------------------
(* Data *)

Conns == 1 .. MaxConns

Nothing == [kind |-> "nothing", n |-> 0]
Unreachable == [kind |-> "error", n |-> 0]
Unopened ==
  [step |-> "closed", command |-> "revisions", file |-> CHOOSE f \in Files : TRUE,
   line |-> 0, text |-> Nothing, list |-> <<>>, view |-> "none"]

\* The connections are used in their order.
Free == {c \in Conns : conn[c].command = "none"}
NextConn == CHOOSE c \in Free : \A d \in Free : c <= d

Status(text) ==
  CASE text.kind = "loading" -> 1
    [] text.kind = "error" -> 2   \* -1 in the code
    [] OTHER -> 0

\* The revisions 1 .. n, newest first.
NewestFirst(n) == [i \in 1 .. n |-> n + 1 - i]

\* Mutant: a list that was cut off is shown as far as it goes.
ParseRevisions_Lenient(f, text) ==
  IF text.kind = "cut" THEN SubSeq(NewestFirst(text.n), 1, 1)
  ELSE IF text.kind # "list" THEN <<>>
  ELSE LET whole == NewestFirst(text.n) IN
       IF Incomplete[f] \in 1 .. text.n
       THEN SubSeq(whole, 1, text.n - Incomplete[f]) ELSE whole

\* json::parse throws unless the text is all of a list, and value() when a field is
\* null: the list ends before the revision that lacks one.
ParseRevisions(f, text) ==
  IF text.kind # "list" THEN <<>>
  ELSE LET whole == NewestFirst(text.n) IN
       IF Incomplete[f] \in 1 .. text.n
       THEN SubSeq(whole, 1, text.n - Incomplete[f]) ELSE whole

-----------------------------------------------------------------------------
Init ==
  /\ handler = [h \in Handlers |-> Unopened]
  /\ lastStatus = 0
  /\ mixed = {}

\* last_status is one for all threads.
SetStatus(h, s) ==
  /\ lastStatus' = s
  /\ mixed' = (mixed \ {h}) \union
              {g \in Handlers \ {h} : handler[g].step \in {"received", "parsed", "checked"}}

-----------------------------------------------------------------------------
(* sendReceive *)

Listening == server \in {"accepting", "reading", "awaiting"}

Asking(h, command, f) ==
  [Unopened EXCEPT !.step = "sending", !.command = command, !.file = f]

\* A list is for the menu; what the command of an entry brings is not, for its menu is
\* gone, and the handler with it.
Answered(request, text) ==
  IF request.command = "revisions" THEN [request EXCEPT !.step = "received", !.text = text]
  ELSE Unopened

Connects(request, end) ==
  /\ Listening /\ Free # {}
  /\ conn' = [conn EXCEPT ![NextConn] =
                [command |-> request.command, file |-> request.file, sent |-> "nothing",
                 end |-> end, reply |-> Nothing, closed |-> FALSE]]
  /\ backlog' = Append(backlog, NextConn)

Connect(h, request) ==
  /\ Connects(request, "open")
  /\ handler' = [handler EXCEPT ![h] = [request EXCEPT !.line = NextConn]]
  /\ UNCHANGED <<lastStatus, mixed, faults, broken>>

\* Nobody listens.
ConnectFails(h, request) ==
  /\ ~Listening
  /\ SetStatus(h, 2)
  /\ handler' = [handler EXCEPT ![h] = Answered(request, Unreachable)]
  /\ UNCHANGED <<backlog, conn, faults, broken>>

\* 50 ms were not enough: the socket is closed, the connection may still be accepted.
ConnectTimesOut(h, request) ==
  /\ faults < MaxFaults
  /\ Connects(request, "closed")
  /\ SetStatus(h, 2)
  /\ handler' = [handler EXCEPT ![h] = Answered(request, Unreachable)]
  /\ faults' = faults + 1
  /\ broken' = TRUE

\* WSAStartup or socket() fails: last_status stays what the last request left, so that the
\* handler itself is among those that read what is not theirs.
SocketFails(h, request) ==
  /\ faults < MaxFaults
  /\ handler' = [handler EXCEPT ![h] = Answered(request, Nothing)]
  /\ mixed' = mixed \union {h}
  /\ faults' = faults + 1
  /\ UNCHANGED <<lastStatus, backlog, conn, broken>>

SendReceive(h, request) ==
  /\ \/ Connect(h, request) \/ ConnectFails(h, request)
     \/ ConnectTimesOut(h, request) \/ SocketFails(h, request)
  /\ UNCHANGED <<server, mapped>>

\* The length and the message; sending to a connection that was closed is not noticed.
SendMessage(h) ==
  /\ handler[h].step = "sending"
  /\ conn' = [conn EXCEPT ![handler[h].line].sent = "all"]
  /\ handler' = [handler EXCEPT ![h].step = "receiving"]
  /\ UNCHANGED <<lastStatus, mixed, server, backlog, mapped, faults, broken>>

\* Mutant: last_status is left alone when a list was received.
Received_KeepStatus(h, text) ==
  /\ handler[h].step = "receiving"
  /\ SetStatus(h, IF Status(text) = 0 THEN lastStatus ELSE Status(text))
  /\ conn' = [conn EXCEPT ![handler[h].line].end = "closed", ![handler[h].line].reply = Nothing]
  /\ handler' = [handler EXCEPT ![h] = Answered(handler[h], text)]

\* closesocket, and the comparison of the text with "loading" and "error".
Received(h, text) ==
  /\ handler[h].step = "receiving"
  /\ SetStatus(h, Status(text))
  /\ conn' = [conn EXCEPT ![handler[h].line].end = "closed", ![handler[h].line].reply = Nothing]
  /\ handler' = [handler EXCEPT ![h] = Answered(handler[h], text)]

Receive(h) ==
  /\ handler[h].step = "receiving" /\ conn[handler[h].line].closed
  /\ Received(h, conn[handler[h].line].reply)
  /\ UNCHANGED <<server, backlog, mapped, faults, broken>>

\* 200 ms without an answer end the loop as the end of the stream does.
ReceiveTimesOut(h) ==
  /\ handler[h].step = "receiving" /\ ~conn[handler[h].line].closed
  /\ Received(h, Nothing)
  /\ UNCHANGED <<server, backlog, mapped, faults, broken>>

-----------------------------------------------------------------------------
(* The menu; last_status is read in getRevisions and twice in QueryContextMenu *)

\* QueryContextMenu of a file in the mapped folder; for others there is no menu.
\* Handlers are objects: one that is not in use is as good as the next.
Open(h, f) ==
  /\ handler[h].step = "closed" /\ \A g \in Handlers : g < h => handler[g].step # "closed"
  /\ FolderOf[f] = mapped /\ Free # {}
  /\ SendReceive(h, Asking(h, "revisions", f))

GetRevisions(h) ==
  /\ handler[h].step = "received"
  /\ handler' = [handler EXCEPT
       ![h].step = "parsed",
       ![h].list = IF lastStatus # 0 THEN <<>>
                   ELSE ParseRevisions(handler[h].file, handler[h].text)]
  /\ UNCHANGED <<lastStatus, mixed, server, backlog, conn, mapped, faults, broken>>

CheckError(h) ==
  /\ handler[h].step = "parsed"
  /\ handler' = [handler EXCEPT ![h].step = IF lastStatus = 2 THEN "shown" ELSE "checked"]
  /\ UNCHANGED <<lastStatus, mixed, server, backlog, conn, mapped, faults, broken>>

Show(h) ==
  /\ handler[h].step = "checked"
  /\ handler' = [handler EXCEPT
       ![h].step = "shown",
       ![h].view = IF lastStatus = 1 THEN "loading"
                   ELSE IF handler[h].list = <<>> THEN "empty" ELSE "list"]
  /\ UNCHANGED <<lastStatus, mixed, server, backlog, conn, mapped, faults, broken>>

Shown(h) == IF Len(handler[h].list) < MaxShown THEN Len(handler[h].list) ELSE MaxShown

\* InvokeCommand: what the entry at `idx' sends.  "Loading" and "No items found" are
\* grayed, and "Show All" is there when the list is longer than what is shown.
CommandAt(h, idx) ==
  IF idx = Shown(h) THEN "refresh"
  ELSE IF idx = Shown(h) + 1 THEN "all"
  ELSE "download"

InvokeCommand(h, idx) ==
  /\ handler[h].step = "shown" /\ handler[h].view = "list" /\ Free # {}
  /\ idx <= IF Len(handler[h].list) > Shown(h) THEN Shown(h) + 1 ELSE Shown(h)
  /\ SendReceive(h, Asking(h, CommandAt(h, idx), handler[h].file))

\* The menu is closed without a choice.
Dismiss(h) ==
  /\ handler[h].step = "shown"
  /\ handler' = [handler EXCEPT ![h] = Unopened]
  /\ mixed' = mixed \ {h}
  /\ UNCHANGED <<lastStatus, server, backlog, conn, mapped, faults, broken>>

\* The process of the Explorer ends: its connection is reset.
Dies(h) ==
  /\ handler[h].step \in {"sending", "receiving"} /\ faults < MaxFaults
  /\ faults' = faults + 1
  /\ broken' = TRUE
  /\ \E sent \in IF handler[h].step = "sending" THEN {"nothing", "length"} ELSE {"all"} :
       conn' = [conn EXCEPT ![handler[h].line].end = "reset", ![handler[h].line].sent = sent]
  /\ handler' = [handler EXCEPT ![h] = Unopened]
  /\ UNCHANGED <<lastStatus, mixed, server, backlog, mapped>>

\* What a handler does without the user, once its menu has been asked for.
Proceed(h) ==
  \/ SendMessage(h) \/ Receive(h) \/ ReceiveTimesOut(h)
  \/ GetRevisions(h) \/ CheckError(h) \/ Show(h)

UserStep ==
  \E h \in Handlers :
    \/ \E f \in Files : Open(h, f)
    \/ \E idx \in 0 .. MaxShown + 1 : InvokeCommand(h, idx)
    \/ Dismiss(h)
    \/ Dies(h)
=============================================================================
