---------------------------- MODULE ShellProofs ----------------------------
(***************************************************************************)
(* What the server and the menus of the Explorer promise each other, for   *)
(* any number of files, handlers, connections, revisions and faults.       *)
(***************************************************************************)
EXTENDS Shell, SequenceTheorems, WellFoundedInduction, TLAPS

-----------------------------------------------------------------------------
(* The inductive invariant *)

Replies ==
  [kind : {"nothing", "loading", "error"}, n : {0}] \union [kind : {"list", "cut"}, n : Nat]

Connections ==
  [command : Commands \union {"none"}, file : Files,
   sent : {"nothing", "length", "all"}, end : {"open", "closed", "reset"},
   reply : Replies, closed : BOOLEAN]

Tasks == [step : {"none", "fetching", "answered", "parked"}, n : Nat]

Menus ==
  [step : {"closed", "sending", "receiving", "received", "parsed", "checked", "shown"},
   command : Commands, file : Files, line : Conns \union {0},
   text : Replies, list : Seq(Nat), view : {"none", "loading", "empty", "list"}]

ProgramTypeOK ==
  /\ server \in {"accepting", "reading", "awaiting", "panicked", "stopped"}
  /\ serving \in Conns \union {Nobody}
  /\ backlog \in Seq(Conns) /\ inbox \in Seq(Conns)
  /\ conn \in [Conns -> Connections]
  /\ answer \in Replies
  /\ task \in [Conns -> Tasks]
  /\ cache \in [Files -> Nat] /\ newest \in [Files -> Nat] /\ drive \in [Files -> Nat]
  /\ synced \in BOOLEAN /\ broken \in BOOLEAN /\ faults \in Nat

MenusTypeOK ==
  /\ handler \in [Handlers -> Menus]
  /\ lastStatus \in 0 .. 2
  /\ mixed \in SUBSET Handlers

TypeOK == ProgramTypeOK /\ MenusTypeOK

Used(c) == conn[c].command # "none"
Busy(h) == handler[h].step \in {"sending", "receiving"}
HasText(h) == handler[h].step \in {"received", "parsed", "checked", "shown"}

\* A connection is in the backlog, or served, or its message has been read; it is never
\* in two of these places.
QueueInv ==
  /\ \A i \in 1 .. Len(backlog) :
       /\ Used(backlog[i]) /\ backlog[i] # serving
       /\ \A j \in 1 .. Len(backlog) : i # j => backlog[i] # backlog[j]
       /\ \A j \in 1 .. Len(inbox) : backlog[i] # inbox[j]
  /\ \A j \in 1 .. Len(inbox) : Used(inbox[j])
  /\ IF server \in {"reading", "awaiting"}
     THEN serving \in Conns /\ Used(serving) ELSE serving = Nobody
  /\ server = "reading" => \A j \in 1 .. Len(inbox) : inbox[j] # serving
  /\ \A c \in Conns : task[c].step # "none" => Used(c)

\* A handler that has connected has a line of its own, which is open at its end.
LineInv ==
  \A h \in Handlers : Busy(h) =>
    /\ handler[h].line \in Conns /\ Used(handler[h].line)
    /\ conn[handler[h].line].end = "open"
    /\ conn[handler[h].line].file = handler[h].file
    /\ handler[h].step = "receiving" => conn[handler[h].line].sent = "all"
    /\ \A g \in Handlers : g # h /\ Busy(g) => handler[g].line # handler[h].line

\* What is wrong with a connection, or with the session, has had a cause.
CauseInv ==
  /\ \A c \in Conns :
       conn[c].end = "reset" \/ (conn[c].end = "closed" /\ conn[c].sent = "nothing") => broken
  /\ server = "panicked" => broken
  /\ broken \/ ~synced => faults > 0
  /\ server = "stopped" => ~synced

\* An error is written only after a fault, or for a file of another folder.
ErrorInv ==
  /\ answer # Nothing => server = "awaiting"
  /\ answer = Error /\ FolderOf[conn[serving].file] = Root => faults > 0
  /\ \A c \in Conns : conn[c].reply = Error /\ FolderOf[conn[c].file] = Root => faults > 0
  /\ \A h \in Handlers :
       HasText(h) /\ handler[h].text = Error /\ FolderOf[handler[h].file] = Root => faults > 0

\* A list counts down from the newest revision, to the oldest or to one without a size.
Whole(f, list, n) ==
  /\ \A i \in 1 .. Len(list) : list[i] = n + 1 - i
  /\ Len(list) = n \/ Incomplete[f] = n - Len(list)

MenuOk(h) ==
  /\ HasText(h) => handler[h].command = "revisions"
  /\ handler[h].step # "shown" => handler[h].view = "none"
  /\ HasText(h) /\ handler[h].step # "shown" /\ h \notin mixed =>
       lastStatus = Explorer!Status(handler[h].text)
  /\ HasText(h) /\ handler[h].step # "received" /\ handler[h].list # <<>> =>
       /\ handler[h].text.kind = "list"
       /\ Whole(handler[h].file, handler[h].list, handler[h].text.n)
  /\ handler[h].step = "checked" /\ h \notin mixed => handler[h].text.kind # "error"
  /\ handler[h].step = "shown" /\ handler[h].view = "list" => handler[h].list # <<>>
  /\ handler[h].step = "shown" /\ h \notin mixed =>
       CASE handler[h].view = "loading" -> handler[h].text = Loading
         [] handler[h].view = "none" -> handler[h].text = Error
         [] handler[h].view = "empty" -> handler[h].text \notin {Loading, Error}
         [] handler[h].view = "list" -> handler[h].text.kind = "list"

MenuInv == \A h \in Handlers : MenuOk(h)

\* A file that was never fetched twice at a time has one list on its way, no older than
\* any that has come.
CacheInv ==
  /\ \A f \in Files : newest[f] <= drive[f]
  /\ \A c \in Conns : task[c].step = "answered" =>
       task[c].n <= drive[conn[c].file]
  /\ \A c \in Conns : task[c].step = "answered" /\ conn[c].file \notin raced =>
       /\ newest[conn[c].file] <= task[c].n
       /\ \A d \in Conns : d # c /\ task[d].step = "answered" =>
            conn[d].file # conn[c].file
  /\ CacheIsNewest

IInv ==
  /\ TypeOK /\ QueueInv /\ LineInv /\ CauseInv /\ ErrorInv
  /\ MenuInv /\ CacheInv

-----------------------------------------------------------------------------
(* What the actions come down to *)

\* A connection that nobody has used yet is free, and the next one is such a one.
LEMMA NextIsFree ==
  ASSUME Explorer!Free # {}
  PROVE  Explorer!NextConn \in Conns /\ ~Used(Explorer!NextConn)
<1> DEFINE F == Explorer!Free
<1>1. F \subseteq Nat
  BY DEF Explorer!Free, Explorer!Conns
<1>2. \E c \in F : \A d \in F : ~(<<d, c>> \in OpToRel(<, Nat))
  BY <1>1, WFMin, NatLessThanWellFounded
<1>3. PICK c \in F : \A d \in F : ~(<<d, c>> \in OpToRel(<, Nat))
  BY <1>2
<1>4. \A d \in F : c <= d
  <2>. SUFFICES ASSUME NEW d \in F PROVE c <= d
    OBVIOUS
  <2>1. ~(d < c)
    BY <1>1, <1>3 DEF OpToRel
  <2>. QED
    BY <1>1, <2>1
<1>5. Explorer!NextConn \in F
  BY <1>3, <1>4 DEF Explorer!NextConn
<1>. QED
  BY <1>5 DEF Explorer!Free, Explorer!Conns, Conns, Used

\* What a list is parsed to is nothing, or a whole list.
LEMMA ParsedIsWhole ==
  ASSUME NEW f \in Files, NEW text \in Replies
  PROVE  LET list == Explorer!ParseRevisions(f, text) IN
         /\ list \in Seq(Nat)
         /\ list # <<>> => text.kind = "list" /\ Whole(f, list, text.n)
<1> DEFINE whole == Explorer!NewestFirst(text.n)
<1>1. CASE text.kind # "list"
  BY <1>1 DEF Explorer!ParseRevisions
<1>2. CASE text.kind = "list"
  <2>1. text.n \in Nat
    BY DEF Replies
  <2>2. whole \in Seq(Nat) /\ Len(whole) = text.n /\ \A i \in 1 .. text.n : whole[i] = text.n + 1 - i
    <3>1. \A i \in 1 .. text.n : text.n + 1 - i \in Nat
      BY <2>1
    <3>2. whole \in [1 .. text.n -> Nat] /\ \A i \in 1 .. text.n : whole[i] = text.n + 1 - i
      BY <3>1 DEF Explorer!NewestFirst
    <3>3. whole \in Seq(Nat)
      BY <2>1, <3>2, SeqDef
    <3>. QED
      BY <2>1, <3>2, <3>3
  <2>3. CASE Incomplete[f] \in 1 .. text.n
    <3> DEFINE m == text.n - Incomplete[f]
    <3>1. m \in Nat /\ m <= text.n /\ Incomplete[f] = text.n - m
      BY <2>1, <2>3
    <3>2. SubSeq(whole, 1, m) \in Seq(Nat) /\ Len(SubSeq(whole, 1, m)) = m
          /\ \A i \in 1 .. m : SubSeq(whole, 1, m)[i] = whole[i]
      <4>. HIDE DEF whole, m
      <4>1. \A i \in 1 .. m : whole[i] \in Nat
        BY <2>1, <2>2, <3>1
      <4>. QED
        BY <2>1, <2>2, <3>1, <4>1, SubSeqProperties
    <3>3. Explorer!ParseRevisions(f, text) = SubSeq(whole, 1, m)
      BY <1>2, <2>3 DEF Explorer!ParseRevisions
    <3>. QED
      BY <1>2, <2>1, <2>2, <3>1, <3>2, <3>3 DEF Whole
  <2>4. CASE Incomplete[f] \notin 1 .. text.n
    <3>1. Explorer!ParseRevisions(f, text) = whole
      BY <1>2, <2>4 DEF Explorer!ParseRevisions
    <3>. QED
      BY <1>2, <2>1, <2>2, <3>1 DEF Whole
  <2>. QED
    BY <2>3, <2>4
<1>. QED
  BY <1>1, <1>2

\* The record of a handler that asks for something: a new menu, or the choice of an entry.
IsRequest(h, r) ==
  /\ r \in Menus /\ r.step = "sending" /\ r.text = Nothing /\ r.list = <<>> /\ r.view = "none"
  /\ handler[h].step \in {"closed", "shown"} /\ Explorer!Free # {}

\* A record of a menu that is closed.
LEMMA UnopenedTyped ==
  /\ Explorer!Unopened \in Menus /\ Explorer!Unopened.text = Nothing
  /\ Explorer!Unopened.step = "closed" /\ Explorer!Unopened.list = <<>>
  /\ Explorer!Unopened.view = "none"
<1>1. (CHOOSE f \in Files : TRUE) \in Files
  BY ServerAssumption
<1>2. Explorer!Unopened \in Menus
  BY <1>1 DEF Explorer!Unopened, Menus, Commands, Explorer!Nothing, Replies
<1>. QED
  BY <1>2 DEF Explorer!Unopened, Explorer!Nothing, Nothing, Reply

\* Opening a menu and invoking an entry are the same request to the server.
LEMMA UserAsks ==
  ASSUME TypeOK, NEW h \in Handlers,
         \/ \E f \in Files : Explorer!Open(h, f)
         \/ \E idx \in 0 .. MaxShown + 1 : Explorer!InvokeCommand(h, idx)
  PROVE  \E r : IsRequest(h, r) /\ Explorer!SendReceive(h, r)
<1>1. ASSUME NEW command \in Commands, NEW f \in Files,
             handler[h].step \in {"closed", "shown"}, Explorer!Free # {}
      PROVE  IsRequest(h, Explorer!Asking(h, command, f))
  BY <1>1, UnopenedTyped DEF IsRequest, Explorer!Asking, Menus
<1>2. ASSUME NEW f \in Files, Explorer!Open(h, f)
      PROVE  IsRequest(h, Explorer!Asking(h, "revisions", f))
             /\ Explorer!SendReceive(h, Explorer!Asking(h, "revisions", f))
  BY <1>1, <1>2 DEF Explorer!Open, Commands
<1>3. ASSUME NEW idx, Explorer!InvokeCommand(h, idx)
      PROVE  \E r : IsRequest(h, r) /\ Explorer!SendReceive(h, r)
  <2> DEFINE command == Explorer!CommandAt(h, idx)
  <2>1. command \in Commands
    BY DEF Explorer!CommandAt, Commands
  <2>2. handler[h].file \in Files
    BY DEF TypeOK, MenusTypeOK, Menus
  <2>. QED
    BY <1>1, <1>3, <2>1, <2>2 DEF Explorer!InvokeCommand
<1>. QED
  BY <1>2, <1>3

\* The four ways in which a request can go on.
Asks(h, r) ==
  /\ IsRequest(h, r)
  /\ \/ Explorer!Connect(h, r) \/ Explorer!ConnectFails(h, r)
     \/ Explorer!ConnectTimesOut(h, r) \/ Explorer!SocketFails(h, r)
  /\ UNCHANGED <<server, mapped>>

\* The text that a handler receives is its answer, or nothing after 200 ms.
Gets(h, text) ==
  /\ Explorer!Received(h, text)
  /\ text = conn[handler[h].line].reply \/ text = Nothing
  /\ UNCHANGED <<server, backlog, mapped, faults, broken>>

MenuStep(h) ==
  \/ Explorer!SendMessage(h)
  \/ \E text : Gets(h, text)
  \/ Explorer!GetRevisions(h) \/ Explorer!CheckError(h) \/ Explorer!Show(h)
  \/ \E r : Asks(h, r)
  \/ Explorer!Dismiss(h) \/ Explorer!Dies(h)

\* A step is one of a handler, or one of the program.
LEMMA StepCases ==
  ASSUME TypeOK, ShellNext
  PROVE  \/ /\ \E h \in Handlers : MenuStep(h)
            /\ UNCHANGED <<serving, taskVars, synced, drive>>
         \/ ProgramStep /\ UNCHANGED <<handler, lastStatus, mixed>>
<1>1. CASE Program
  BY <1>1 DEF Program
<1>2. ASSUME NEW h \in Handlers, Explorer!Proceed(h) PROVE MenuStep(h)
  BY <1>2 DEF Explorer!Proceed, MenuStep, Gets, Explorer!Receive, Explorer!ReceiveTimesOut,
              Explorer!Nothing, Nothing, Reply
<1>3. ASSUME Explorer!UserStep PROVE \E h \in Handlers : MenuStep(h)
  <2>1. PICK h \in Handlers : \/ \E f \in Files : Explorer!Open(h, f)
                              \/ \E idx \in 0 .. MaxShown + 1 : Explorer!InvokeCommand(h, idx)
                              \/ Explorer!Dismiss(h) \/ Explorer!Dies(h)
    BY <1>3 DEF Explorer!UserStep
  <2>2. CASE Explorer!Dismiss(h) \/ Explorer!Dies(h)
    BY <2>2 DEF MenuStep
  <2>3. CASE ~(Explorer!Dismiss(h) \/ Explorer!Dies(h))
    <3>1. PICK r : IsRequest(h, r) /\ Explorer!SendReceive(h, r)
      BY <2>1, <2>3, UserAsks
    <3>2. Asks(h, r)
      BY <3>1 DEF Asks, Explorer!SendReceive
    <3>. QED
      BY <3>2 DEF MenuStep
  <2>. QED
    BY <2>2, <2>3
<1>. QED
  BY <1>1, <1>2, <1>3 DEF ShellNext, Extension

-----------------------------------------------------------------------------
(* Types *)

\* The updates of a connection are of its type.
LEMMA ConnTypes ==
  ASSUME conn \in [Conns -> Connections], NEW c,
         NEW sent \in {"nothing", "length", "all"}, NEW end \in {"open", "closed", "reset"},
         NEW reply \in Replies
  PROVE  /\ [conn EXCEPT ![c].sent = sent] \in [Conns -> Connections]
         /\ [conn EXCEPT ![c].end = end, ![c].sent = sent] \in [Conns -> Connections]
         /\ [conn EXCEPT ![c].end = end, ![c].reply = reply] \in [Conns -> Connections]
         /\ [conn EXCEPT ![c].reply = reply, ![c].closed = TRUE] \in [Conns -> Connections]
<1>1. [conn EXCEPT ![c].sent = sent] \in [Conns -> Connections]
  BY DEF Connections
<1>2. [conn EXCEPT ![c].end = end, ![c].sent = sent] \in [Conns -> Connections]
  BY DEF Connections
<1>3. [conn EXCEPT ![c].end = end, ![c].reply = reply] \in [Conns -> Connections]
  BY DEF Connections
<1>4. [conn EXCEPT ![c].reply = reply, ![c].closed = TRUE] \in [Conns -> Connections]
  BY DEF Connections
<1>. QED
  BY <1>1, <1>2, <1>3, <1>4

\* So are those of a handler.
LEMMA HandlerTypes ==
  ASSUME handler \in [Handlers -> Menus], NEW h,
         NEW step \in {"receiving", "parsed", "checked", "shown"}
  PROVE  /\ [handler EXCEPT ![h].step = step] \in [Handlers -> Menus]
         /\ \A list \in Seq(Nat) :
              [handler EXCEPT ![h].step = step, ![h].list = list] \in [Handlers -> Menus]
         /\ \A view \in {"none", "loading", "empty", "list"} :
              [handler EXCEPT ![h].step = step, ![h].view = view] \in [Handlers -> Menus]
<1>1. [handler EXCEPT ![h].step = step] \in [Handlers -> Menus]
  BY DEF Menus
<1>2. ASSUME NEW list \in Seq(Nat)
      PROVE  [handler EXCEPT ![h].step = step, ![h].list = list] \in [Handlers -> Menus]
  BY DEF Menus
<1>3. ASSUME NEW view \in {"none", "loading", "empty", "list"}
      PROVE  [handler EXCEPT ![h].step = step, ![h].view = view] \in [Handlers -> Menus]
  <2>1. \A r \in Menus : [r EXCEPT !.step = step, !.view = view] \in Menus
    BY DEF Menus
  <2>. QED
    BY <2>1
<1>. QED
  BY <1>1, <1>2, <1>3

\* And what a handler has received, and a request with its line.
LEMMA RequestTypes ==
  ASSUME NEW r \in Menus
  PROVE  /\ \A text \in Replies : Explorer!Answered(r, text) \in Menus
         /\ \A c \in Conns : [r EXCEPT !.line = c] \in Menus
<1>1. ASSUME NEW text \in Replies PROVE [r EXCEPT !.step = "received", !.text = text] \in Menus
  BY DEF Menus
<1>2. ASSUME NEW c \in Conns PROVE [r EXCEPT !.line = c] \in Menus
  BY DEF Menus
<1>. QED
  BY <1>1, <1>2, UnopenedTyped DEF Explorer!Answered

\* The replies that carry no list.
LEMMA ReplyTypes ==
  /\ Nothing \in Replies /\ Error \in Replies /\ Loading \in Replies
  /\ Explorer!Nothing = Nothing /\ Explorer!Unreachable = Error
BY DEF Replies, Nothing, Error, Loading, Reply, Explorer!Nothing, Explorer!Unreachable

\* A new connection is of its type.
LEMMA NewTypes ==
  ASSUME conn \in [Conns -> Connections], NEW r \in Menus, NEW end \in {"open", "closed"},
         Explorer!Connects(r, end), backlog \in Seq(Conns)
  PROVE  conn' \in [Conns -> Connections] /\ backlog' \in Seq(Conns)
<1> DEFINE k == [command |-> r.command, file |-> r.file, sent |-> "nothing",
                 end |-> end, reply |-> Nothing, closed |-> FALSE]
<1>1. k \in Connections
  BY ReplyTypes DEF Connections, Menus
<1>2. Explorer!NextConn \in Conns
  BY NextIsFree DEF Explorer!Connects
<1>3. conn' = [conn EXCEPT ![Explorer!NextConn] = k]
      /\ backlog' = Append(backlog, Explorer!NextConn)
  BY ReplyTypes DEF Explorer!Connects
<1>. QED
  BY <1>1, <1>2, <1>3

\* Every step of a handler leaves its record, and the connections, well typed.
LEMMA MenuTypes ==
  ASSUME TypeOK, LineInv, NEW h \in Handlers, MenuStep(h),
         UNCHANGED <<serving, taskVars, synced, drive>>
  PROVE  TypeOK'
<1>0. /\ conn \in [Conns -> Connections] /\ backlog \in Seq(Conns)
      /\ handler \in [Handlers -> Menus] /\ faults \in Nat
      /\ lastStatus \in 0 .. 2 /\ mixed \in SUBSET Handlers
  BY DEF TypeOK, ProgramTypeOK, MenusTypeOK
<1>1. ASSUME /\ conn' \in [Conns -> Connections] /\ backlog' \in Seq(Conns)
             /\ handler' \in [Handlers -> Menus] /\ faults' \in Nat /\ broken' \in BOOLEAN
             /\ lastStatus' \in 0 .. 2 /\ mixed' \in SUBSET Handlers
             /\ server' = server
      PROVE  TypeOK'
  BY <1>1 DEF TypeOK, ProgramTypeOK, MenusTypeOK, taskVars
<1>2. broken \in BOOLEAN
  BY DEF TypeOK, ProgramTypeOK
<1>3. CASE Explorer!SendMessage(h)
  <2>1. conn' \in [Conns -> Connections] /\ handler' \in [Handlers -> Menus]
    BY <1>0, <1>3, ConnTypes, HandlerTypes, ReplyTypes DEF Explorer!SendMessage
  <2>. QED
    BY <1>0, <1>1, <1>2, <1>3, <2>1 DEF Explorer!SendMessage
<1>4. ASSUME NEW text, Gets(h, text) PROVE TypeOK'
  <2>1. handler[h].line \in Conns /\ handler[h] \in Menus
    BY <1>0, <1>4 DEF Gets, Explorer!Received, LineInv, Busy
  <2>2. conn[handler[h].line].reply \in Replies
    BY <1>0, <2>1 DEF Connections
  <2>3. text \in Replies
    BY <1>4, <2>2, ReplyTypes DEF Gets
  <2>4. Explorer!Answered(handler[h], text) \in Menus
    BY <2>1, <2>3, RequestTypes
  <2>5. conn' \in [Conns -> Connections] /\ handler' \in [Handlers -> Menus]
    BY <1>0, <1>4, <2>4, ConnTypes, HandlerTypes, ReplyTypes DEF Gets, Explorer!Received
  <2>6. lastStatus' \in 0 .. 2 /\ mixed' \in SUBSET Handlers
    BY <1>0, <1>4 DEF Gets, Explorer!Received, Explorer!SetStatus, Explorer!Status
  <2>. QED
    BY <1>0, <1>1, <1>2, <1>4, <2>5, <2>6 DEF Gets
<1>5. CASE Explorer!GetRevisions(h)
  <2>1. handler[h].file \in Files /\ handler[h].text \in Replies
    BY <1>0 DEF Menus
  <2>2. Explorer!ParseRevisions(handler[h].file, handler[h].text) \in Seq(Nat)
    BY <2>1, ParsedIsWhole
  <2>3. <<>> \in Seq(Nat)
    OBVIOUS
  <2>4. handler' \in [Handlers -> Menus]
    BY <1>0, <1>5, <2>2, <2>3, HandlerTypes DEF Explorer!GetRevisions
  <2>. QED
    BY <1>0, <1>1, <1>2, <1>5, <2>4 DEF Explorer!GetRevisions
<1>6. CASE Explorer!CheckError(h)
  <2>1. handler' \in [Handlers -> Menus]
    BY <1>0, <1>6, HandlerTypes DEF Explorer!CheckError
  <2>. QED
    BY <1>0, <1>1, <1>2, <1>6, <2>1 DEF Explorer!CheckError
<1>7. CASE Explorer!Show(h)
  <2>1. handler' \in [Handlers -> Menus]
    BY <1>0, <1>7, HandlerTypes DEF Explorer!Show
  <2>. QED
    BY <1>0, <1>1, <1>2, <1>7, <2>1 DEF Explorer!Show
<1>8. ASSUME NEW r, Asks(h, r) PROVE TypeOK'
  <2>1. r \in Menus
    BY <1>8 DEF Asks, IsRequest
  <2>2. Explorer!Answered(r, Error) \in Menus /\ Explorer!Answered(r, Nothing) \in Menus
    BY <2>1, RequestTypes, ReplyTypes
  <2>3. CASE Explorer!Connect(h, r)
    <3>1. Explorer!Connects(r, "open")
      BY <2>3 DEF Explorer!Connect
    <3>2. conn' \in [Conns -> Connections] /\ backlog' \in Seq(Conns)
      BY <1>0, <2>1, <3>1, NewTypes
    <3>3. [r EXCEPT !.line = Explorer!NextConn] \in Menus
      BY <2>1, <3>1, NextIsFree, RequestTypes, ReplyTypes DEF Explorer!Connects
    <3>4. handler' \in [Handlers -> Menus]
      BY <1>0, <2>3, <3>3, HandlerTypes DEF Explorer!Connect
    <3>. QED
      BY <1>0, <1>1, <1>2, <1>8, <2>3, <3>2, <3>4 DEF Asks, Explorer!Connect
  <2>4. CASE Explorer!ConnectFails(h, r)
    <3>1. handler' \in [Handlers -> Menus]
      BY <1>0, <2>2, <2>4, ReplyTypes DEF Explorer!ConnectFails
    <3>2. lastStatus' \in 0 .. 2 /\ mixed' \in SUBSET Handlers
      BY <1>0, <2>4 DEF Explorer!ConnectFails, Explorer!SetStatus
    <3>. QED
      BY <1>0, <1>1, <1>2, <1>8, <2>4, <3>1, <3>2 DEF Asks, Explorer!ConnectFails
  <2>5. CASE Explorer!ConnectTimesOut(h, r)
    <3>1. handler' \in [Handlers -> Menus]
      BY <1>0, <2>2, <2>5, ReplyTypes DEF Explorer!ConnectTimesOut
    <3>2. lastStatus' \in 0 .. 2 /\ mixed' \in SUBSET Handlers
      BY <1>0, <2>5 DEF Explorer!ConnectTimesOut, Explorer!SetStatus
    <3>3. Explorer!Connects(r, "closed")
      BY <2>5 DEF Explorer!ConnectTimesOut
    <3>4. conn' \in [Conns -> Connections] /\ backlog' \in Seq(Conns)
      BY <1>0, <2>1, <3>3, NewTypes
    <3>5. faults' \in Nat /\ broken' \in BOOLEAN
      BY <1>0, <2>5 DEF Explorer!ConnectTimesOut
    <3>. QED
      BY <1>1, <1>8, <3>1, <3>2, <3>4, <3>5 DEF Asks
  <2>6. CASE Explorer!SocketFails(h, r)
    <3>1. handler' \in [Handlers -> Menus]
      BY <1>0, <2>2, <2>6, ReplyTypes DEF Explorer!SocketFails
    <3>2. lastStatus' \in 0 .. 2 /\ mixed' \in SUBSET Handlers /\ faults' \in Nat
      BY <1>0, <2>6 DEF Explorer!SocketFails
    <3>. QED
      BY <1>0, <1>1, <1>2, <1>8, <2>6, <3>1, <3>2 DEF Asks, Explorer!SocketFails
  <2>. QED
    BY <1>8, <2>3, <2>4, <2>5, <2>6 DEF Asks
<1>9. CASE Explorer!Dismiss(h)
  <2>1. handler' \in [Handlers -> Menus] /\ mixed' \in SUBSET Handlers
    BY <1>0, <1>9, UnopenedTyped DEF Explorer!Dismiss
  <2>. QED
    BY <1>0, <1>1, <1>2, <1>9, <2>1 DEF Explorer!Dismiss
<1>10. CASE Explorer!Dies(h)
  <2>1. handler' \in [Handlers -> Menus]
    BY <1>0, <1>10, UnopenedTyped DEF Explorer!Dies
  <2>2. PICK sent \in {"nothing", "length", "all"} :
          conn' = [conn EXCEPT ![handler[h].line].end = "reset", ![handler[h].line].sent = sent]
    BY <1>10 DEF Explorer!Dies
  <2>3. conn' \in [Conns -> Connections]
    BY <1>0, <2>2, ConnTypes, ReplyTypes
  <2>4. faults' \in Nat /\ broken' \in BOOLEAN
    BY <1>0, <1>10 DEF Explorer!Dies
  <2>. QED
    BY <1>0, <1>1, <1>10, <2>1, <2>3, <2>4 DEF Explorer!Dies
<1>. QED
  BY <1>3, <1>4, <1>5, <1>6, <1>7, <1>8, <1>9, <1>10 DEF MenuStep

\* The tasks of a connection.
LEMMA TaskTypes ==
  /\ NoTask \in Tasks /\ Fetching \in Tasks
  /\ \A n \in Nat : [step |-> "parked", n |-> n] \in Tasks /\ [step |-> "answered", n |-> n] \in Tasks
BY DEF NoTask, Fetching, Tasks

\* Every step of the program leaves its state well typed.
LEMMA ProgramTypes ==
  ASSUME TypeOK, QueueInv, ProgramStep, UNCHANGED <<handler, lastStatus, mixed>>
  PROVE  TypeOK'
<1>0. /\ ProgramTypeOK /\ conn \in [Conns -> Connections] /\ task \in [Conns -> Tasks]
      /\ backlog \in Seq(Conns) /\ inbox \in Seq(Conns)
  BY DEF TypeOK, ProgramTypeOK
<1>. SUFFICES ProgramTypeOK'
  BY DEF TypeOK, MenusTypeOK
<1>1. CASE Accept
  BY <1>0, <1>1 DEF Accept, ProgramTypeOK, taskVars, worldVars
<1>2. ASSUME NEW how \in {"panicked", "stopped"}, ServerEnds(how),
             UNCHANGED <<inbox, task, cache, newest, raced, owed, mapped, drive>>,
             synced' \in BOOLEAN, faults' \in Nat, broken' = broken
      PROVE  ProgramTypeOK'
  <2>1. \A k \in Connections : [k EXCEPT !.closed = TRUE] \in Connections
    BY DEF Connections
  <2>2. conn' \in [Conns -> Connections]
    BY <1>0, <1>2, <2>1 DEF ServerEnds
  <2>. QED
    BY <1>0, <1>2, <2>2, ReplyTypes DEF ServerEnds, ProgramTypeOK
<1>3. CASE Panic
  BY <1>0, <1>2, <1>3 DEF Panic, worldVars, ProgramTypeOK
<1>4. CASE SignOut
  <2>1. ServerEnds("stopped") /\ synced' \in BOOLEAN /\ faults' = faults + 1
    BY <1>4, Zenon DEF SignOut
  <2>2. faults' \in Nat
    BY <1>0, <2>1 DEF ProgramTypeOK
  <2>. QED
    BY <1>2, <1>4, <2>1, <2>2 DEF SignOut
<1>5. ASSUME NEW c, NEW reply \in Replies, Finish(c, reply)
      PROVE  conn' \in [Conns -> Connections] /\ server' = "accepting" /\ serving' = Nobody
  BY <1>0, <1>5, ConnTypes DEF Finish
<1>6. CASE NotReadToEnd
  <2>1. conn' \in [Conns -> Connections] /\ server' = "accepting" /\ serving' = Nobody
    BY <1>5, <1>6, ReplyTypes DEF NotReadToEnd
  <2>. QED
    BY <1>0, <1>6, <2>1 DEF NotReadToEnd, ProgramTypeOK, taskVars, worldVars
<1>7. CASE ReadCommand
  <2>1. serving \in Conns
    BY <1>7 DEF ReadCommand, QueueInv
  <2>2. inbox' \in Seq(Conns)
    BY <1>0, <1>7, <2>1 DEF ReadCommand
  <2>3. /\ conn' \in [Conns -> Connections] /\ server' \in {"accepting", "awaiting"}
        /\ serving' \in Conns \union {Nobody}
    BY <1>0, <1>5, <1>7, <2>1, ReplyTypes DEF ReadCommand
  <2>. QED
    BY <1>0, <1>7, <2>2, <2>3 DEF ReadCommand, ProgramTypeOK, worldVars
<1>8. CASE WriteReply
  <2>1. \A reply \in Written(answer) : reply \in Replies
    BY <1>0 DEF Written, CutOff, Reply, Replies, ProgramTypeOK
  <2>2. conn' \in [Conns -> Connections] /\ server' = "accepting" /\ serving' = Nobody
    BY <1>5, <1>8, <2>1 DEF WriteReply
  <2>. QED
    BY <1>0, <1>8, <2>2, ReplyTypes DEF WriteReply, ProgramTypeOK, worldVars
<1>9. CASE Handle
  <2> DEFINE c == Head(inbox)
  <2>1. c \in Conns /\ inbox' \in Seq(Conns)
    BY <1>0, <1>9 DEF Handle
  <2>2. conn[c].file \in Files
    BY <1>0, <2>1 DEF Connections
  <2>3. Loaded(cache[conn[c].file]) \in Replies
    BY <1>0, <2>2 DEF ProgramTypeOK, Loaded, Reply, Replies
  <2>4. ASSUME NEW reply \in Replies, Send(c, reply) PROVE answer' \in Replies
    BY <1>0, <2>4 DEF Send, ProgramTypeOK
  <2>5. faults' \in Nat
    BY <1>0, <1>9 DEF Handle, Dropped, TaskPanics, FoundAtOnce, FailedAtOnce, StillPending,
       ProgramTypeOK
  <2>6. answer' \in Replies
    BY <1>9, <2>3, <2>4, ReplyTypes
       DEF Handle, Dropped, TaskPanics, FoundAtOnce, FailedAtOnce, StillPending
  <2>7. task' \in [Conns -> Tasks]
    BY <1>0, <1>9, <2>1, TaskTypes
       DEF Handle, Dropped, TaskPanics, FoundAtOnce, FailedAtOnce, StillPending
  <2>8. cache' = cache
    BY <1>9 DEF Handle, Dropped, TaskPanics, FoundAtOnce, FailedAtOnce, StillPending
  <2>. QED
    BY <1>0, <1>9, <2>1, <2>5, <2>6, <2>7, <2>8 DEF Handle, ProgramTypeOK, serverVars
<1>10. ASSUME NEW c \in Conns, TaskStep(c) PROVE ProgramTypeOK'
  <2>1. conn[c].file \in Files /\ task[c].n \in Nat
    BY <1>0 DEF Connections, Tasks
  <2>2. task' \in [Conns -> Tasks]
    <3>1. drive[conn[c].file] \in Nat
      BY <1>0, <2>1 DEF ProgramTypeOK
    <3>2. \E t \in Tasks : task' = [task EXCEPT ![c] = t]
      BY <1>10, <3>1, TaskTypes
         DEF TaskStep, FoundLater, DriveLists, Inserts, Downloads, Fails, Ends
    <3>. QED
      BY <1>0, <3>2
  <2>3. cache' \in [Files -> Nat] /\ newest' \in [Files -> Nat]
    BY <1>0, <1>10, <2>1
       DEF TaskStep, FoundLater, DriveLists, Inserts, Downloads, Fails, CacheInsert, ProgramTypeOK
  <2>4. faults' \in Nat /\ UNCHANGED <<serverVars, conn, inbox, answer, synced, drive, broken>>
    BY <1>0, <1>10
       DEF TaskStep, FoundLater, DriveLists, Inserts, Downloads, Fails, worldVars, ProgramTypeOK
  <2>. QED
    BY <1>0, <2>2, <2>3, <2>4 DEF serverVars, ProgramTypeOK
<1>11. CASE RetryIntents
  <2>1. task' \in [Conns -> Tasks]
    BY <1>0, <1>11, TaskTypes DEF RetryIntents
  <2>. QED
    BY <1>0, <1>11, <2>1 DEF RetryIntents, serverVars, worldVars, ProgramTypeOK
<1>12. ASSUME NEW f \in Files, Upload(f) \/ CacheExpires(f) PROVE ProgramTypeOK'
  <2>1. CASE Upload(f)
    BY <1>0, <2>1 DEF Upload, serverVars, taskVars, ProgramTypeOK
  <2>2. CASE CacheExpires(f)
    BY <1>0, <2>2 DEF CacheExpires, Vacant, serverVars, worldVars, ProgramTypeOK
  <2>. QED
    BY <1>12, <2>1, <2>2
<1>13. ASSUME NEW d, FolderSelected(d) PROVE ProgramTypeOK'
  BY <1>0, <1>13 DEF FolderSelected, serverVars, taskVars, ProgramTypeOK
<1>. QED
  BY <1>1, <1>3, <1>4, <1>6, <1>7, <1>8, <1>9, <1>10, <1>11, <1>12, <1>13
     DEF ProgramStep, ServerStep, ReadPanics, WritePanics

-----------------------------------------------------------------------------
(* The connections *)

\* What a handler does to the connections: one that is used keeps its command and file.
LEMMA MenuKeepsUsed ==
  ASSUME TypeOK, NEW h \in Handlers, MenuStep(h), NEW c \in Conns, Used(c)
  PROVE  Used(c)' /\ conn'[c].command = conn[c].command /\ conn'[c].file = conn[c].file
<1>0. conn \in [Conns -> Connections]
  BY DEF TypeOK, ProgramTypeOK
<1>1. ASSUME NEW r, NEW end, Explorer!Connects(r, end)
      PROVE  conn'[c] = conn[c]
  BY <1>0, <1>1, NextIsFree DEF Explorer!Connects
<1>2. CASE \E r : Asks(h, r)
  BY <1>1, <1>2 DEF Asks, Explorer!Connect, Explorer!ConnectFails, Explorer!ConnectTimesOut,
     Explorer!SocketFails, Used
<1>3. CASE \E text : Gets(h, text)
  BY <1>0, <1>3 DEF Gets, Explorer!Received, Connections, Used
<1>4. CASE Explorer!SendMessage(h) \/ Explorer!Dies(h)
  <2>1. ASSUME NEW d, NEW sent,
               \/ conn' = [conn EXCEPT ![d].sent = sent]
               \/ conn' = [conn EXCEPT ![d].end = "reset", ![d].sent = sent]
        PROVE  conn'[c].command = conn[c].command /\ conn'[c].file = conn[c].file
    BY <1>0, <2>1 DEF Connections
  <2>. QED
    BY <1>4, <2>1 DEF Explorer!SendMessage, Explorer!Dies, Used
<1>5. CASE Explorer!GetRevisions(h) \/ Explorer!CheckError(h) \/ Explorer!Show(h)
           \/ Explorer!Dismiss(h)
  BY <1>5 DEF Explorer!GetRevisions, Explorer!CheckError, Explorer!Show, Explorer!Dismiss, Used
<1>. QED
  BY <1>2, <1>3, <1>4, <1>5 DEF MenuStep

\* What the program does to a connection: it answers, and it closes its end.
LEMMA ProgramKeepsLines ==
  ASSUME TypeOK, ProgramStep, NEW c \in Conns
  PROVE  /\ Used(c)' <=> Used(c)
         /\ conn'[c].command = conn[c].command /\ conn'[c].file = conn[c].file
         /\ conn'[c].sent = conn[c].sent /\ conn'[c].end = conn[c].end
<1>0. conn \in [Conns -> Connections]
  BY DEF TypeOK, ProgramTypeOK
<1> DEFINE Kept == /\ Used(c)' <=> Used(c)
                   /\ conn'[c].command = conn[c].command /\ conn'[c].file = conn[c].file
                   /\ conn'[c].sent = conn[c].sent /\ conn'[c].end = conn[c].end
<1>1. ASSUME conn' = conn PROVE Kept
  BY <1>1 DEF Used
<1>2. ASSUME NEW how, ServerEnds(how) PROVE Kept
  BY <1>0, <1>2 DEF ServerEnds, Connections, Used
<1>3. ASSUME NEW d, NEW reply, Finish(d, reply) PROVE Kept
  BY <1>0, <1>3 DEF Finish, Connections, Used
<1>4. CASE ServerStep
  <2>1. CASE Accept
    BY <1>1, <2>1 DEF Accept
  <2>2. CASE ReadPanics \/ WritePanics
    BY <1>2, <2>2 DEF ReadPanics, WritePanics, Panic
  <2>3. CASE NotReadToEnd
    BY <1>3, <2>3 DEF NotReadToEnd
  <2>4. CASE ReadCommand
    BY <1>1, <1>3, <2>4 DEF ReadCommand
  <2>5. CASE WriteReply
    BY <1>3, <2>5 DEF WriteReply
  <2>. QED
    BY <1>4, <2>1, <2>2, <2>3, <2>4, <2>5 DEF ServerStep
<1>5. CASE Handle
  BY <1>1, <1>5 DEF Handle
<1>6. ASSUME NEW d \in Conns, TaskStep(d) PROVE Kept
  BY <1>1, <1>6 DEF TaskStep, FoundLater, DriveLists, Inserts, Downloads, Fails
<1>7. CASE RetryIntents
  BY <1>1, <1>7 DEF RetryIntents
<1>8. ASSUME NEW f, Upload(f) \/ CacheExpires(f) PROVE Kept
  BY <1>1, <1>8 DEF Upload, CacheExpires
<1>9. ASSUME NEW d, FolderSelected(d) PROVE Kept
  BY <1>1, <1>9 DEF FolderSelected
<1>10. CASE SignOut
  BY <1>2, <1>10 DEF SignOut
<1>. QED
  BY <1>4, <1>5, <1>6, <1>7, <1>8, <1>9, <1>10 DEF ProgramStep

\* A handler appends a new connection to the backlog at most: none is queued twice.
LEMMA MenuQueue ==
  ASSUME TypeOK, QueueInv, NEW h \in Handlers, MenuStep(h),
         UNCHANGED <<serving, taskVars, synced, drive>>
  PROVE  QueueInv'
<1>0. /\ conn \in [Conns -> Connections] /\ backlog \in Seq(Conns) /\ inbox \in Seq(Conns)
  BY DEF TypeOK, ProgramTypeOK
<1>1. \A c \in Conns : Used(c) => Used(c)'
  BY MenuKeepsUsed
<1>2. server' = server /\ serving' = serving /\ inbox' = inbox /\ task' = task
  BY DEF MenuStep, Explorer!SendMessage, Gets, Explorer!GetRevisions, Explorer!CheckError,
     Explorer!Show, Asks, Explorer!Dismiss, Explorer!Dies, taskVars
<1>3. CASE backlog' = backlog
  BY <1>0, <1>1, <1>2, <1>3 DEF QueueInv
<1>4. ASSUME NEW r, NEW end, Explorer!Connects(r, end), r.command # "none" PROVE QueueInv'
  <2>0. PICK n \in Conns : n = Explorer!NextConn /\ ~Used(n)
    BY <1>4, NextIsFree DEF Explorer!Connects
  <2>1. backlog' = Append(backlog, n) /\ Used(n)'
    BY <1>0, <1>4, <2>0 DEF Explorer!Connects, Used
  <2>2. \A i \in 1 .. Len(backlog) : backlog[i] \in Conns /\ backlog[i] # n
    BY <1>0, <2>0 DEF QueueInv
  <2>3. \A i \in 1 .. Len(inbox) : inbox[i] \in Conns /\ inbox[i] # n
    BY <1>0, <2>0 DEF QueueInv
  <2>4. serving # n
    BY <2>0 DEF QueueInv, Nobody, Conns
  <2>. QED
    BY <1>0, <1>1, <1>2, <2>0, <2>1, <2>2, <2>3, <2>4 DEF QueueInv
<1>5. CASE \E r : Asks(h, r)
  <2>1. PICK r : Asks(h, r)
    BY <1>5
  <2>2. r.command # "none"
    BY <2>1 DEF Asks, IsRequest, Menus, Commands
  <2>. QED
    BY <1>3, <1>4, <2>1, <2>2 DEF Asks, Explorer!Connect, Explorer!ConnectFails,
       Explorer!ConnectTimesOut, Explorer!SocketFails
<1>6. CASE ~\E r : Asks(h, r)
  BY <1>3, <1>6 DEF MenuStep, Explorer!SendMessage, Gets, Explorer!GetRevisions, Explorer!CheckError,
     Explorer!Show, Explorer!Dismiss, Explorer!Dies
<1>. QED
  BY <1>5, <1>6

\* The program takes connections out of the queues in their order.
LEMMA ProgramQueue ==
  ASSUME TypeOK, QueueInv, ProgramStep, UNCHANGED <<handler, lastStatus, mixed>>
  PROVE  QueueInv'
<1>0. /\ backlog \in Seq(Conns) /\ inbox \in Seq(Conns) /\ task \in [Conns -> Tasks]
  BY DEF TypeOK, ProgramTypeOK
<1>1. \A c \in Conns : Used(c)' <=> Used(c)
  BY ProgramKeepsLines
<1>2. /\ \A i \in 1 .. Len(backlog) : backlog[i] \in Conns
      /\ \A i \in 1 .. Len(inbox) : inbox[i] \in Conns
      /\ Nobody \notin Conns
  <2>1. Nobody \notin Conns
    BY DEF Nobody, Conns
  <2>. QED
    BY <1>0, <2>1
<1>3. CASE Accept
  BY <1>0, <1>1, <1>2, <1>3 DEF QueueInv, Accept, taskVars
<1>4. ASSUME NEW how \in {"panicked", "stopped"}, ServerEnds(how), UNCHANGED <<inbox, task>>
      PROVE  QueueInv'
  BY <1>1, <1>2, <1>4 DEF QueueInv, ServerEnds
<1>5. CASE ReadPanics \/ WritePanics
  BY <1>4, <1>5 DEF ReadPanics, WritePanics, Panic
<1>6. CASE NotReadToEnd
  BY <1>1, <1>2, <1>6 DEF QueueInv, NotReadToEnd, Finish, taskVars
<1>7. CASE ReadCommand
  <2>1. /\ serving \in Conns /\ Used(serving) /\ inbox' = Append(inbox, serving)
        /\ backlog' = backlog /\ task' = task
        /\ \/ server' = "awaiting" /\ serving' = serving
           \/ server' = "accepting" /\ serving' = Nobody
    BY <1>7 DEF ReadCommand, QueueInv, Finish
  <2>2. \A i \in 1 .. Len(backlog) : backlog[i] # serving
    BY DEF QueueInv
  <2>. QED
    BY <1>0, <1>1, <1>2, <2>1, <2>2 DEF QueueInv
<1>8. CASE WriteReply
  BY <1>1, <1>2, <1>8 DEF QueueInv, WriteReply, Finish
<1>9. CASE Handle
  <2>1. /\ inbox' = Tail(inbox) /\ Head(inbox) \in Conns /\ Used(Head(inbox))
        /\ UNCHANGED <<server, serving, backlog>>
    BY <1>0, <1>9 DEF Handle, QueueInv, serverVars
  <2>2. \A c \in Conns : c # Head(inbox) => task'[c] = task[c]
    BY <1>0, <1>9 DEF Handle, Dropped, TaskPanics, FoundAtOnce, FailedAtOnce, StillPending
  <2>3. /\ \A j \in 1 .. Len(inbox') : j + 1 \in 1 .. Len(inbox) /\ inbox'[j] = inbox[j + 1]
    BY <1>0, <1>9, <2>1 DEF Handle
  <2>. QED
    BY <1>1, <1>2, <2>1, <2>2, <2>3 DEF QueueInv
<1>10. ASSUME NEW c \in Conns, TaskStep(c) PROVE QueueInv'
  <2>1. task[c].step # "none" /\ \A d \in Conns : d # c => task'[d] = task[d]
    BY <1>0, <1>10 DEF TaskStep, FoundLater, DriveLists, Inserts, Downloads, Fails, Ends
  <2>2. UNCHANGED <<server, serving, backlog, inbox>>
    BY <1>10 DEF TaskStep, FoundLater, DriveLists, Inserts, Downloads, Fails, serverVars
  <2>. QED
    BY <1>1, <1>2, <2>1, <2>2 DEF QueueInv
<1>11. CASE RetryIntents
  BY <1>1, <1>2, <1>11 DEF RetryIntents, QueueInv, serverVars
<1>12. ASSUME UNCHANGED <<server, serving, backlog, inbox, task>> PROVE QueueInv'
  BY <1>1, <1>2, <1>12 DEF QueueInv
<1>13. CASE \E f \in Files : Upload(f) \/ CacheExpires(f)
  BY <1>12, <1>13 DEF Upload, CacheExpires, serverVars, taskVars
<1>14. CASE \E d \in Folders : FolderSelected(d)
  BY <1>12, <1>14 DEF FolderSelected, serverVars, taskVars
<1>15. CASE SignOut
  BY <1>4, <1>15 DEF SignOut
<1>. QED
  BY <1>3, <1>5, <1>6, <1>7, <1>8, <1>9, <1>10, <1>11, <1>13, <1>14, <1>15
     DEF ProgramStep, ServerStep

\* A step of one handler leaves the other ones alone.
LEMMA OthersKept ==
  ASSUME TypeOK, NEW h \in Handlers, MenuStep(h), NEW g \in Handlers, g # h
  PROVE  handler'[g] = handler[g]
<1>0. handler \in [Handlers -> Menus]
  BY DEF TypeOK, MenusTypeOK
<1>1. CASE \E r : Asks(h, r)
  BY <1>0, <1>1 DEF Asks, Explorer!Connect, Explorer!ConnectFails,
     Explorer!ConnectTimesOut, Explorer!SocketFails
<1>2. CASE ~\E r : Asks(h, r)
  BY <1>0, <1>2 DEF MenuStep, Explorer!SendMessage, Gets, Explorer!Received, Explorer!GetRevisions,
     Explorer!CheckError, Explorer!Show, Explorer!Dismiss, Explorer!Dies
<1>. QED
  BY <1>1, <1>2

\* What a handler has received is kept when it asked for the list only.
LEMMA AnsweredParts ==
  ASSUME NEW r \in Menus, NEW text \in Replies
  PROVE  LET k == Explorer!Answered(r, text) IN
         \/ k = Explorer!Unopened
         \/ /\ k.step = "received" /\ k.text = text /\ k.command = "revisions"
            /\ k.file = r.file /\ k.list = r.list /\ k.view = r.view
BY DEF Explorer!Answered, Menus

\* What a handler has received is the reply of the connection it sent its request on.
LEMMA MenuLines ==
  ASSUME TypeOK, LineInv, NEW h \in Handlers, MenuStep(h)
  PROVE  LineInv'
<1>0. conn \in [Conns -> Connections] /\ handler \in [Handlers -> Menus]
  BY DEF TypeOK, ProgramTypeOK, MenusTypeOK
<1>1. \A g \in Handlers : g # h => handler'[g] = handler[g]
  BY OthersKept
<1>2. \A c \in Conns : Used(c) => Used(c)' /\ conn'[c].file = conn[c].file
  BY MenuKeepsUsed
<1>3. ASSUME ~Busy(h)',
             \A c \in Conns : Used(c) /\ (Busy(h) => c # handler[h].line) =>
               conn'[c].end = conn[c].end /\ conn'[c].sent = conn[c].sent
      PROVE  LineInv'
  BY <1>1, <1>2, <1>3 DEF LineInv, Busy
<1>4. CASE Explorer!SendMessage(h)
  <2>1. /\ handler'[h].step = "receiving" /\ handler'[h].line = handler[h].line
        /\ handler'[h].file = handler[h].file /\ Busy(h) /\ handler[h].line \in Conns
    BY <1>0, <1>4 DEF Explorer!SendMessage, Busy, LineInv, Menus
  <2>2. /\ conn'[handler[h].line].sent = "all"
        /\ \A c \in Conns : /\ conn'[c].end = conn[c].end
                            /\ c # handler[h].line => conn'[c].sent = conn[c].sent
    BY <1>0, <1>4, <2>1 DEF Explorer!SendMessage, Connections
  <2>. QED
    BY <1>1, <1>2, <2>1, <2>2 DEF LineInv, Busy
<1>5. ASSUME NEW text, Gets(h, text) PROVE LineInv'
  <2>1. ~Busy(h)'
    BY <1>0, <1>5, UnopenedTyped DEF Gets, Explorer!Received, Explorer!Answered, Menus, Busy
  <2>2. \A c \in Conns : c # handler[h].line => conn'[c] = conn[c]
    BY <1>0, <1>5 DEF Gets, Explorer!Received
  <2>3. Busy(h)
    BY <1>5 DEF Gets, Explorer!Received, Busy
  <2>. QED
    BY <1>3, <2>1, <2>2, <2>3
<1>6. CASE Explorer!GetRevisions(h) \/ Explorer!CheckError(h) \/ Explorer!Show(h)
           \/ Explorer!Dismiss(h)
  <2>1. ~Busy(h)' /\ conn' = conn
    BY <1>0, <1>6, UnopenedTyped DEF Explorer!GetRevisions, Explorer!CheckError, Explorer!Show,
       Explorer!Dismiss, Menus, Busy
  <2>. QED
    BY <1>3, <2>1
<1>7. ASSUME NEW r, Asks(h, r) PROVE LineInv'
  <2>1. r \in Menus /\ r.step = "sending" /\ ~Busy(h)
    BY <1>7 DEF Asks, IsRequest, Busy
  <2>2. ASSUME NEW end, Explorer!Connects(r, end)
        PROVE  \A c \in Conns : Used(c) => conn'[c] = conn[c]
    BY <1>0, <2>2, NextIsFree DEF Explorer!Connects
  <2>3. CASE Explorer!Connect(h, r)
    <3>1. Explorer!Connects(r, "open")
      BY <2>3 DEF Explorer!Connect
    <3>2. PICK n \in Conns : n = Explorer!NextConn /\ ~Used(n)
      BY <3>1, NextIsFree DEF Explorer!Connects
    <3>3. handler'[h] = [r EXCEPT !.line = n]
      BY <1>0, <2>3, <3>2 DEF Explorer!Connect
    <3>4. handler'[h].line = n /\ handler'[h].step = "sending" /\ handler'[h].file = r.file
      BY <2>1, <3>3 DEF Menus
    <3>5. conn'[n].file = r.file /\ conn'[n].end = "open" /\ conn'[n].command = r.command
      BY <1>0, <3>1, <3>2 DEF Explorer!Connects
    <3>6. r.command # "none"
      BY <2>1 DEF Menus, Commands
    <3>7. \A c \in Conns : Used(c) => conn'[c] = conn[c]
      BY <2>2, <3>1
    <3>8. \A g \in Handlers : g # h /\ Busy(g) => handler[g].line # n
      BY <3>2 DEF LineInv
    <3>. QED
      BY <1>1, <1>2, <3>2, <3>4, <3>5, <3>6, <3>7, <3>8 DEF LineInv, Busy, Used
  <2>4. CASE ~Explorer!Connect(h, r)
    <3>1. ~Busy(h)'
      <4>1. \A text \in Replies : Explorer!Answered(r, text).step \in {"received", "closed"}
        BY <2>1, AnsweredParts, UnopenedTyped
      <4>2. \E text \in Replies : handler' = [handler EXCEPT ![h] = Explorer!Answered(r, text)]
        BY <1>7, <2>4, ReplyTypes
           DEF Asks, Explorer!ConnectFails, Explorer!ConnectTimesOut, Explorer!SocketFails
      <4>. QED
        BY <1>0, <4>1, <4>2 DEF Busy
    <3>2. \A c \in Conns : Used(c) => conn'[c] = conn[c]
      BY <1>7, <2>2, <2>4 DEF Asks, Explorer!ConnectFails, Explorer!ConnectTimesOut,
         Explorer!SocketFails
    <3>. QED
      BY <1>3, <3>1, <3>2
  <2>. QED
    BY <2>3, <2>4
<1>8. CASE Explorer!Dies(h)
  <2>1. ~Busy(h)' /\ Busy(h)
    BY <1>0, <1>8, UnopenedTyped DEF Explorer!Dies, Busy
  <2>2. \A c \in Conns : c # handler[h].line => conn'[c] = conn[c]
    BY <1>0, <1>8 DEF Explorer!Dies
  <2>. QED
    BY <1>3, <2>1, <2>2
<1>. QED
  BY <1>4, <1>5, <1>6, <1>7, <1>8 DEF MenuStep

\* The program answers a connection with what its request asked for.
LEMMA ProgramLines ==
  ASSUME TypeOK, LineInv, ProgramStep, UNCHANGED <<handler, lastStatus, mixed>>
  PROVE  LineInv'
<1>1. \A c \in Conns : /\ Used(c)' <=> Used(c)
                       /\ conn'[c].file = conn[c].file
                       /\ conn'[c].sent = conn[c].sent /\ conn'[c].end = conn[c].end
  BY ProgramKeepsLines
<1>. QED
  BY <1>1 DEF LineInv, Busy

-----------------------------------------------------------------------------
(* The causes *)

\* A handler breaks a connection only by a fault.
LEMMA MenuCauses ==
  ASSUME TypeOK, LineInv, CauseInv, NEW h \in Handlers, MenuStep(h),
         UNCHANGED <<serving, taskVars, synced, drive>>
  PROVE  CauseInv' /\ (faults > 0 => faults' > 0)
<1>0. conn \in [Conns -> Connections] /\ handler \in [Handlers -> Menus] /\ faults \in Nat
  BY DEF TypeOK, ProgramTypeOK, MenusTypeOK
<1>1. ASSUME UNCHANGED <<broken, faults, server>>,
             \A c \in Conns : \/ conn'[c].end = conn[c].end /\ conn'[c].sent = conn[c].sent
                              \/ conn'[c].end = "open"
                              \/ conn'[c].end = "closed" /\ conn'[c].sent = "all"
      PROVE  CauseInv' /\ (faults > 0 => faults' > 0)
  BY <1>1 DEF CauseInv
<1>2. ASSUME broken', faults' = faults + 1, server' = server
      PROVE  CauseInv' /\ (faults > 0 => faults' > 0)
  BY <1>0, <1>2 DEF CauseInv
<1>3. CASE Explorer!SendMessage(h)
  <2>1. \A c \in Conns : /\ conn'[c].end = conn[c].end
                         /\ conn'[c].sent = conn[c].sent \/ c = handler[h].line
    BY <1>0, <1>3 DEF Explorer!SendMessage, Connections
  <2>2. conn[handler[h].line].end = "open"
    BY <1>3 DEF Explorer!SendMessage, LineInv, Busy
  <2>. QED
    BY <1>1, <1>3, <2>1, <2>2 DEF Explorer!SendMessage
<1>4. ASSUME NEW text, Gets(h, text) PROVE CauseInv' /\ (faults > 0 => faults' > 0)
  <2>1. conn[handler[h].line].sent = "all" /\ handler[h].line \in Conns
    BY <1>4 DEF Gets, Explorer!Received, LineInv, Busy
  <2>2. \A c \in Conns : \/ conn'[c].end = conn[c].end /\ conn'[c].sent = conn[c].sent
                         \/ conn'[c].end = "closed" /\ conn'[c].sent = "all"
    BY <1>0, <1>4, <2>1 DEF Gets, Explorer!Received, Connections
  <2>. QED
    BY <1>1, <1>4, <2>2 DEF Gets
<1>5. CASE Explorer!GetRevisions(h) \/ Explorer!CheckError(h) \/ Explorer!Show(h)
           \/ Explorer!Dismiss(h)
  BY <1>1, <1>5 DEF Explorer!GetRevisions, Explorer!CheckError, Explorer!Show, Explorer!Dismiss
<1>6. ASSUME NEW r, Asks(h, r) PROVE CauseInv' /\ (faults > 0 => faults' > 0)
  <2>1. CASE Explorer!Connect(h, r)
    <3>1. \A c \in Conns : conn'[c] = conn[c] \/ conn'[c].end = "open"
      BY <1>0, <2>1 DEF Explorer!Connect, Explorer!Connects
    <3>. QED
      BY <1>1, <1>6, <2>1, <3>1 DEF Asks, Explorer!Connect
  <2>2. CASE Explorer!ConnectFails(h, r)
    BY <1>1, <1>6, <2>2 DEF Asks, Explorer!ConnectFails
  <2>3. CASE Explorer!ConnectTimesOut(h, r)
    BY <1>2, <1>6, <2>3 DEF Asks, Explorer!ConnectTimesOut
  <2>4. CASE Explorer!SocketFails(h, r)
    BY <1>0, <1>6, <2>4 DEF Asks, Explorer!SocketFails, CauseInv
  <2>. QED
    BY <1>6, <2>1, <2>2, <2>3, <2>4 DEF Asks
<1>7. CASE Explorer!Dies(h)
  BY <1>2, <1>7 DEF Explorer!Dies
<1>. QED
  BY <1>3, <1>4, <1>5, <1>6, <1>7 DEF MenuStep

\* The program panics and loses its session only after a fault.
LEMMA ProgramCauses ==
  ASSUME TypeOK, QueueInv, CauseInv, ProgramStep, UNCHANGED <<handler, lastStatus, mixed>>
  PROVE  CauseInv' /\ (faults > 0 => faults' > 0)
<1>0. faults \in Nat
  BY DEF TypeOK, ProgramTypeOK
<1>1. \A c \in Conns : conn'[c].sent = conn[c].sent /\ conn'[c].end = conn[c].end
  BY ProgramKeepsLines
<1>2. ASSUME broken' = broken, synced' = synced, faults' \in {faults, faults + 1},
             server' # server => server' \in {"accepting", "reading", "awaiting"}
      PROVE  CauseInv' /\ (faults > 0 => faults' > 0)
  BY <1>0, <1>1, <1>2 DEF CauseInv
<1>3. CASE ReadPanics \/ WritePanics
  <2>1. serving \in Conns
    BY <1>3 DEF ReadPanics, WritePanics, QueueInv
  <2>2. broken
    <3>1. conn[serving].end \in {"open", "closed", "reset"}
      BY <2>1 DEF TypeOK, ProgramTypeOK, Connections
    <3>. QED
      BY <1>3, <2>1, <3>1 DEF ReadPanics, LengthIsLost, WritePanics, CauseInv
  <2>3. UNCHANGED <<broken, synced, faults>>
    BY <1>3 DEF ReadPanics, WritePanics, Panic, worldVars
  <2>. QED
    BY <1>1, <1>3, <2>2, <2>3 DEF CauseInv, ReadPanics, WritePanics, Panic, ServerEnds
<1>4. CASE Accept \/ NotReadToEnd \/ ReadCommand \/ WriteReply
  BY <1>2, <1>4 DEF Accept, NotReadToEnd, ReadCommand, WriteReply, Finish, worldVars
<1>5. CASE Handle
  BY <1>2, <1>5 DEF Handle, Dropped, TaskPanics, FoundAtOnce, FailedAtOnce, StillPending, serverVars
<1>6. CASE \E c \in Conns : TaskStep(c)
  BY <1>2, <1>6 DEF TaskStep, FoundLater, DriveLists, Inserts, Downloads, Fails,
     serverVars, worldVars
<1>7. CASE RetryIntents
  BY <1>2, <1>7 DEF RetryIntents, serverVars, worldVars
<1>8. CASE \E f \in Files : Upload(f) \/ CacheExpires(f)
  BY <1>2, <1>8 DEF Upload, CacheExpires, serverVars, worldVars
<1>9. CASE \E d \in Folders : FolderSelected(d)
  BY <1>2, <1>9 DEF FolderSelected, serverVars
<1>10. CASE SignOut
  <2>1. faults' = faults + 1 /\ synced' = FALSE /\ broken' = broken /\ server' = "stopped"
    BY <1>10 DEF SignOut, ServerEnds
  <2>. QED
    BY <1>0, <1>1, <2>1 DEF CauseInv
<1>. QED
  BY <1>3, <1>4, <1>5, <1>6, <1>7, <1>8, <1>9, <1>10 DEF ProgramStep, ServerStep

-----------------------------------------------------------------------------
(* The errors *)

\* The five kinds of replies differ.
LEMMA KindsApart ==
  /\ Error # Nothing /\ Loading # Error /\ Loading # Nothing
  /\ \A n : /\ Loaded(n) # Error /\ CutOff(n) # Error
            /\ Loaded(n) # Nothing /\ CutOff(n) # Nothing
BY DEF Error, Nothing, Loading, Loaded, CutOff, Reply

\* A handler has an error for a file of the folder only after a fault.
LEMMA MenuErrors ==
  ASSUME TypeOK, QueueInv, LineInv, CauseInv, ErrorInv, NEW h \in Handlers, MenuStep(h),
         UNCHANGED <<serving, taskVars, synced, drive>>
  PROVE  ErrorInv'
<1>0. conn \in [Conns -> Connections] /\ handler \in [Handlers -> Menus] /\ faults \in Nat
  BY DEF TypeOK, ProgramTypeOK, MenusTypeOK
<1>1. faults > 0 => faults' > 0
  BY MenuCauses
<1>2. \A g \in Handlers : g # h => handler'[g] = handler[g]
  BY OthersKept
<1>3. server' = server /\ serving' = serving /\ answer' = answer
  BY DEF MenuStep, Explorer!SendMessage, Gets, Explorer!GetRevisions, Explorer!CheckError,
     Explorer!Show, Asks, Explorer!Dismiss, Explorer!Dies, taskVars
<1>4. answer = Error => conn'[serving].file = conn[serving].file
  BY MenuKeepsUsed, KindsApart DEF ErrorInv, QueueInv
<1>5. ASSUME \A c \in Conns : \/ conn'[c].reply = Nothing
                              \/ conn'[c].reply = conn[c].reply /\ conn'[c].file = conn[c].file,
             /\ HasText(h)' /\ handler'[h].text = Error /\ FolderOf[handler'[h].file] = Root
             => faults' > 0
      PROVE  ErrorInv'
  BY <1>1, <1>2, <1>3, <1>4, <1>5, KindsApart DEF ErrorInv, HasText
<1>6. CASE Explorer!SendMessage(h)
  <2>1. ~HasText(h)'
    BY <1>0, <1>6 DEF Explorer!SendMessage, HasText, Menus
  <2>2. \A c \in Conns : conn'[c].reply = conn[c].reply /\ conn'[c].file = conn[c].file
    BY <1>0, <1>6 DEF Explorer!SendMessage, Connections
  <2>. QED
    BY <1>5, <2>1, <2>2
<1>7. ASSUME NEW text, Gets(h, text) PROVE ErrorInv'
  <2>1. /\ handler[h].line \in Conns /\ conn[handler[h].line].file = handler[h].file
        /\ handler[h] \in Menus
    BY <1>0, <1>7 DEF Gets, Explorer!Received, LineInv, Busy
  <2>2. handler'[h] = Explorer!Answered(handler[h], text)
    BY <1>0, <1>7 DEF Gets, Explorer!Received
  <2>3. text \in Replies
    BY <1>0, <1>7, <2>1, ReplyTypes DEF Gets, Connections
  <2>4. HasText(h)' => handler'[h].text = text /\ handler'[h].file = handler[h].file
    BY <2>1, <2>2, <2>3, AnsweredParts, UnopenedTyped DEF HasText
  <2>5. text = Error /\ FolderOf[handler[h].file] = Root => faults > 0
    BY <1>7, <2>1, KindsApart DEF Gets, ErrorInv
  <2>6. \A c \in Conns : \/ conn'[c].reply = Nothing
                         \/ conn'[c].reply = conn[c].reply /\ conn'[c].file = conn[c].file
    BY <1>0, <1>7, ReplyTypes DEF Gets, Explorer!Received, Connections
  <2>. QED
    BY <1>1, <1>5, <2>4, <2>5, <2>6
<1>8. CASE Explorer!GetRevisions(h) \/ Explorer!CheckError(h) \/ Explorer!Show(h)
  <2>1. conn' = conn
    BY <1>8 DEF Explorer!GetRevisions, Explorer!CheckError, Explorer!Show
  <2>2. HasText(h) /\ handler'[h].text = handler[h].text /\ handler'[h].file = handler[h].file
    BY <1>0, <1>8 DEF Explorer!GetRevisions, Explorer!CheckError, Explorer!Show, Menus, HasText
  <2>. QED
    BY <1>1, <1>5, <2>1, <2>2 DEF ErrorInv
<1>9. CASE Explorer!Dismiss(h)
  <2>1. conn' = conn /\ ~HasText(h)'
    BY <1>0, <1>9, UnopenedTyped DEF Explorer!Dismiss, HasText
  <2>. QED
    BY <1>5, <2>1
<1>10. CASE Explorer!Dies(h)
  <2>1. ~HasText(h)'
    BY <1>0, <1>10, UnopenedTyped DEF Explorer!Dies, HasText
  <2>2. PICK sent : conn' = [conn EXCEPT ![handler[h].line].end = "reset",
                                         ![handler[h].line].sent = sent]
    BY <1>10 DEF Explorer!Dies
  <2>3. \A c \in Conns : conn'[c].reply = conn[c].reply /\ conn'[c].file = conn[c].file
    BY <1>0, <2>2 DEF Connections
  <2>. QED
    BY <1>5, <2>1, <2>3
<1>11. ASSUME NEW r, Asks(h, r) PROVE ErrorInv'
  <2>1. r \in Menus
    BY <1>11 DEF Asks, IsRequest
  <2>2. ASSUME NEW end, Explorer!Connects(r, end)
        PROVE  \A c \in Conns : conn'[c].reply = Nothing \/ conn'[c] = conn[c]
    BY <1>0, <2>2, ReplyTypes DEF Explorer!Connects
  <2>3. \A c \in Conns : conn'[c].reply = Nothing \/ conn'[c] = conn[c]
    BY <1>11, <2>2 DEF Asks, Explorer!Connect, Explorer!ConnectFails, Explorer!ConnectTimesOut,
       Explorer!SocketFails
  <2>4. CASE Explorer!Connect(h, r)
    <3>1. handler'[h].step = "sending"
      BY <1>0, <1>11, <2>1, <2>4 DEF Explorer!Connect, Asks, IsRequest, Menus
    <3>. QED
      BY <1>5, <2>3, <3>1 DEF HasText
  <2>5. CASE Explorer!ConnectFails(h, r)
    <3>1. faults > 0
      BY <2>5 DEF Explorer!ConnectFails, Explorer!Listening, TypeOK, ProgramTypeOK, CauseInv
    <3>. QED
      BY <1>1, <1>5, <2>3, <3>1
  <2>6. CASE Explorer!ConnectTimesOut(h, r)
    BY <1>0, <1>5, <2>3, <2>6 DEF Explorer!ConnectTimesOut
  <2>7. CASE Explorer!SocketFails(h, r)
    <3>1. handler'[h] = Explorer!Answered(r, Nothing)
      BY <1>0, <2>7, ReplyTypes DEF Explorer!SocketFails
    <3>2. HasText(h)' => handler'[h].text = Nothing
      BY <2>1, <3>1, AnsweredParts, ReplyTypes, UnopenedTyped DEF HasText
    <3>. QED
      BY <1>5, <2>3, <3>2, KindsApart
  <2>. QED
    BY <1>11, <2>4, <2>5, <2>6, <2>7 DEF Asks
<1>. QED
  BY <1>6, <1>7, <1>8, <1>9, <1>10, <1>11 DEF MenuStep

\* The program answers with an error only after a fault.
LEMMA ProgramErrors ==
  ASSUME TypeOK, QueueInv, CauseInv, ErrorInv, ProgramStep,
         UNCHANGED <<handler, lastStatus, mixed>>
  PROVE  ErrorInv'
<1>0. conn \in [Conns -> Connections] /\ inbox \in Seq(Conns) /\ faults \in Nat
  BY DEF TypeOK, ProgramTypeOK
<1>1. faults > 0 => faults' > 0
  BY ProgramCauses
<1>2. \A c \in Conns : conn'[c].file = conn[c].file
  BY ProgramKeepsLines
<1>3. serving \in Conns \union {Nobody} /\ (answer = Error => serving \in Conns)
  BY KindsApart DEF TypeOK, ProgramTypeOK, ErrorInv, QueueInv
<1>4. ASSUME answer' # Nothing => server' = "awaiting",
             \/ answer' # Error
             \/ answer' = answer /\ serving' = serving,
             \A c \in Conns : \/ conn'[c].reply # Error
                              \/ conn'[c].reply = conn[c].reply
                              \/ conn'[c].reply = answer /\ c = serving
      PROVE  ErrorInv'
  BY <1>1, <1>2, <1>3, <1>4 DEF ErrorInv, HasText
<1>5. ASSUME NEW how, ServerEnds(how) PROVE ErrorInv'
  <2>1. \A c \in Conns : conn'[c].reply = conn[c].reply
    BY <1>0, <1>5 DEF ServerEnds, Connections
  <2>. QED
    BY <1>4, <1>5, <2>1, KindsApart DEF ServerEnds
<1>6. ASSUME NEW reply, Finish(serving, reply)
      PROVE  \A c \in Conns : \/ conn'[c].reply = conn[c].reply
                              \/ conn'[c].reply = reply /\ c = serving
  BY <1>0, <1>6 DEF Finish, Connections
<1>7. answer # Nothing => server = "awaiting"
  BY DEF ErrorInv
<1>8. CASE Accept
  BY <1>4, <1>7, <1>8, KindsApart DEF Accept, taskVars
<1>9. CASE ReadPanics \/ WritePanics
  BY <1>5, <1>9 DEF ReadPanics, WritePanics, Panic
<1>10. CASE NotReadToEnd
  <2>1. Finish(serving, Nothing) /\ answer' = answer /\ answer = Nothing
    BY <1>7, <1>10 DEF NotReadToEnd, taskVars
  <2>. QED
    BY <1>4, <1>6, <2>1, KindsApart
<1>11. CASE ReadCommand
  <2>1. answer' = answer /\ answer = Nothing /\ (conn' = conn \/ Finish(serving, Nothing))
    BY <1>7, <1>11 DEF ReadCommand
  <2>. QED
    BY <1>4, <1>6, <2>1, KindsApart
<1>12. CASE WriteReply
  <2>1. PICK reply \in Written(answer) : Finish(serving, reply)
    BY <1>12 DEF WriteReply
  <2>2. reply = answer \/ reply # Error
    BY <2>1, KindsApart DEF Written
  <2>3. answer' = Nothing
    BY <1>12 DEF WriteReply
  <2>. QED
    BY <1>4, <1>6, <2>1, <2>2, <2>3, KindsApart
<1>13. CASE Handle
  <2> DEFINE c == Head(inbox)
  <2>1. c \in Conns /\ c = inbox[1] /\ 1 \in 1 .. Len(inbox)
    BY <1>0, <1>13 DEF Handle
  <2>2. c = serving => server = "awaiting"
    BY <2>1 DEF QueueInv, Conns, Nobody
  <2>3. conn' = conn /\ server' = server /\ serving' = serving
    BY <1>13 DEF Handle, serverVars
  <2>4. ASSUME NEW reply, Send(c, reply),
               reply = Error /\ FolderOf[conn[c].file] = Root => faults' > 0
        PROVE  ErrorInv'
    BY <1>1, <1>7, <2>2, <2>3, <2>4 DEF Send, ErrorInv, HasText
  <2>5. CASE Dropped(c)
    BY <1>1, <2>4, <2>5 DEF Dropped, CauseInv
  <2>6. CASE TaskPanics(c)
    BY <2>4, <2>6 DEF TaskPanics, OutsideOfRoot
  <2>7. CASE FoundAtOnce(c)
    BY <2>4, <2>7, KindsApart DEF FoundAtOnce
  <2>8. ASSUME NEW unauthorized, FailedAtOnce(c, unauthorized) PROVE ErrorInv'
    <3>1. faults' > 0
      BY <1>0, <2>8 DEF FailedAtOnce
    <3>. QED
      BY <2>4, <2>8, <3>1 DEF FailedAtOnce
  <2>9. CASE StillPending(c)
    BY <2>4, <2>9, KindsApart DEF StillPending
  <2>. QED
    BY <1>13, <2>5, <2>6, <2>7, <2>8, <2>9 DEF Handle
<1>14. ASSUME UNCHANGED <<server, serving, answer, conn>> PROVE ErrorInv'
  BY <1>1, <1>14 DEF ErrorInv, HasText
<1>15. CASE \E c \in Conns : TaskStep(c)
  BY <1>14, <1>15 DEF TaskStep, FoundLater, DriveLists, Inserts, Downloads, Fails, serverVars
<1>16. CASE RetryIntents
  BY <1>14, <1>16 DEF RetryIntents, serverVars
<1>17. CASE \E f \in Files : Upload(f) \/ CacheExpires(f)
  BY <1>14, <1>17 DEF Upload, CacheExpires, serverVars, taskVars
<1>18. CASE \E d \in Folders : FolderSelected(d)
  BY <1>14, <1>18 DEF FolderSelected, serverVars, taskVars
<1>19. CASE SignOut
  BY <1>5, <1>19 DEF SignOut
<1>. QED
  BY <1>8, <1>9, <1>10, <1>11, <1>12, <1>13, <1>15, <1>16, <1>17, <1>18, <1>19
     DEF ProgramStep, ServerStep

-----------------------------------------------------------------------------
(* The menus *)

\* The status of a text, for the texts there are.
LEMMA StatusOf ==
  ASSUME NEW text \in Replies
  PROVE  /\ Explorer!Status(text) = 1 <=> text = Loading
         /\ Explorer!Status(text) = 2 <=> text = Error
         /\ Explorer!Status(text) = 2 <=> text.kind = "error"
         /\ Explorer!Status(text) = 1 <=> text.kind = "loading"
BY DEF Replies, Explorer!Status, Loading, Error, Reply

\* What is received, or found out at once, is what last_status says.
LEMMA AnsweredMenu ==
  ASSUME TypeOK, NEW h \in Handlers, NEW r \in Menus, NEW text \in Replies,
         handler' = [handler EXCEPT ![h] = Explorer!Answered(r, text)],
         r.view = "none",
         lastStatus' = Explorer!Status(text) \/ h \in mixed'
  PROVE  MenuOk(h)'
<1>1. handler'[h] = Explorer!Answered(r, text)
  BY DEF TypeOK, MenusTypeOK
<1>2. CASE handler'[h] = Explorer!Unopened
  BY <1>2, UnopenedTyped DEF MenuOk, HasText
<1>3. CASE handler'[h] # Explorer!Unopened
  <2>1. /\ handler'[h].step = "received" /\ handler'[h].text = text
        /\ handler'[h].command = "revisions" /\ handler'[h].view = "none"
    BY <1>1, <1>3, AnsweredParts
  <2>. QED
    BY <2>1 DEF MenuOk, HasText
<1>. QED
  BY <1>2, <1>3

\* A menu shows what it has received, the whole of it.
LEMMA MenuMenus ==
  ASSUME TypeOK, LineInv, MenuInv, NEW h \in Handlers, MenuStep(h)
  PROVE  MenuInv'
<1>0. conn \in [Conns -> Connections] /\ handler \in [Handlers -> Menus]
  BY DEF TypeOK, ProgramTypeOK, MenusTypeOK
<1>1. ASSUME MenuOk(h)',
             \/ \E s : Explorer!SetStatus(h, s)
             \/ lastStatus' = lastStatus /\ mixed \ {h} \subseteq mixed'
      PROVE  MenuInv'
  <2>. SUFFICES ASSUME NEW g \in Handlers, g # h PROVE MenuOk(g)'
    BY <1>1 DEF MenuInv
  <2>1. handler'[g] = handler[g]
    BY OthersKept
  <2>2. /\ g \notin mixed' => g \notin mixed
        /\ HasText(g) /\ handler[g].step # "shown" /\ g \notin mixed' => lastStatus' = lastStatus
    BY <1>1 DEF Explorer!SetStatus, HasText
  <2>. QED
    BY <2>1, <2>2 DEF MenuOk, HasText, MenuInv
<1>2. CASE Explorer!SendMessage(h)
  <2>1. handler'[h].step = "receiving" /\ handler'[h].view = "none"
    BY <1>0, <1>2 DEF Explorer!SendMessage, Menus, MenuInv, MenuOk
  <2>. QED
    BY <1>1, <1>2, <2>1 DEF Explorer!SendMessage, MenuOk, HasText
<1>3. ASSUME NEW text, Gets(h, text) PROVE MenuInv'
  <2>1. /\ handler[h].line \in Conns /\ handler[h] \in Menus /\ handler[h].view = "none"
    BY <1>0, <1>3 DEF Gets, Explorer!Received, LineInv, Busy, MenuInv, MenuOk
  <2>2. text \in Replies
    BY <1>0, <1>3, <2>1, ReplyTypes DEF Gets, Connections
  <2>. QED
    BY <1>1, <1>3, <2>1, <2>2, AnsweredMenu DEF Gets, Explorer!Received, Explorer!SetStatus
<1>4. CASE Explorer!GetRevisions(h)
  <2> DEFINE list == IF lastStatus # 0 THEN <<>>
                     ELSE Explorer!ParseRevisions(handler[h].file, handler[h].text)
  <2>1. handler[h].file \in Files /\ handler[h].text \in Replies
    BY <1>0 DEF Menus
  <2>2. list # <<>> => /\ handler[h].text.kind = "list"
                       /\ Whole(handler[h].file, list, handler[h].text.n)
    BY <2>1, ParsedIsWhole
  <2>3. /\ handler'[h].step = "parsed" /\ handler'[h].list = list
        /\ handler'[h].text = handler[h].text /\ handler'[h].file = handler[h].file
        /\ handler'[h].command = handler[h].command /\ handler'[h].view = handler[h].view
    BY <1>0, <1>4 DEF Explorer!GetRevisions, Menus
  <2> HIDE DEF list
  <2>4. MenuOk(h)'
    BY <1>4, <2>2, <2>3 DEF Explorer!GetRevisions, MenuInv, MenuOk, HasText, Whole, Explorer!Status
  <2>. QED
    BY <1>1, <1>4, <2>4 DEF Explorer!GetRevisions
<1>5. CASE Explorer!CheckError(h)
  <2>1. /\ handler'[h].step = IF lastStatus = 2 THEN "shown" ELSE "checked"
        /\ handler'[h].list = handler[h].list /\ handler[h].text \in Replies
        /\ handler'[h].text = handler[h].text /\ handler'[h].file = handler[h].file
        /\ handler'[h].command = handler[h].command /\ handler'[h].view = handler[h].view
    BY <1>0, <1>5 DEF Explorer!CheckError, Menus
  <2>2. MenuOk(h)'
    <3>1. handler[h].step = "parsed" /\ MenuOk(h) /\ mixed' = mixed /\ lastStatus' = lastStatus
      BY <1>5 DEF Explorer!CheckError, MenuInv
    <3>2. handler[h].view = "none" /\ handler[h].command = "revisions"
      BY <3>1 DEF MenuOk, HasText
    <3>3. h \notin mixed =>
            /\ lastStatus = Explorer!Status(handler[h].text)
            /\ lastStatus = 2 <=> handler[h].text = Error
            /\ lastStatus = 2 <=> handler[h].text.kind = "error"
      <4>1. h \notin mixed => lastStatus = Explorer!Status(handler[h].text)
        BY <3>1 DEF MenuOk, HasText
      <4>. QED
        BY <2>1, <4>1, StatusOf
    <3>4. handler[h].list # <<>> =>
            /\ handler[h].text.kind = "list"
            /\ Whole(handler[h].file, handler[h].list, handler[h].text.n)
      BY <3>1 DEF MenuOk, HasText
    <3>5. CASE lastStatus = 2
      <4>1. handler'[h].step = "shown" /\ handler'[h].view = "none"
        BY <2>1, <3>2, <3>5
      <4>2. h \notin mixed' => handler'[h].text = Error
        BY <2>1, <3>1, <3>3, <3>5
      <4>. QED
        BY <2>1, <3>2, <3>4, <4>1, <4>2 DEF MenuOk, HasText, Whole
    <3>6. CASE lastStatus # 2
      BY <2>1, <3>1, <3>2, <3>3, <3>4, <3>6 DEF MenuOk, HasText, Whole, Explorer!Status
    <3>. QED
      BY <3>5, <3>6
  <2>. QED
    BY <1>1, <1>5, <2>2 DEF Explorer!CheckError
<1>6. CASE Explorer!Show(h)
  <2>1. /\ handler'[h].step = "shown"
        /\ handler'[h].view = IF lastStatus = 1 THEN "loading"
                              ELSE IF handler[h].list = <<>> THEN "empty" ELSE "list"
        /\ handler'[h].list = handler[h].list /\ handler[h].text \in Replies
        /\ handler'[h].text = handler[h].text /\ handler'[h].file = handler[h].file
        /\ handler'[h].command = handler[h].command
    BY <1>0, <1>6 DEF Explorer!Show, Menus
  <2>2. MenuOk(h)'
    <3>1. handler[h].step = "checked" /\ MenuOk(h) /\ mixed' = mixed
      BY <1>6 DEF Explorer!Show, MenuInv
    <3>2. handler[h].command = "revisions"
      BY <3>1 DEF MenuOk, HasText
    <3>3. h \notin mixed =>
            /\ lastStatus = 1 <=> handler[h].text = Loading
            /\ handler[h].text # Error
      <4>1. Error.kind = "error"
        BY DEF Error, Reply
      <4>. QED
        BY <2>1, <3>1, <4>1, StatusOf DEF MenuOk, HasText
    <3>4. handler[h].list # <<>> =>
            /\ handler[h].text.kind = "list"
            /\ Whole(handler[h].file, handler[h].list, handler[h].text.n)
      BY <3>1 DEF MenuOk, HasText
    <3>5. CASE lastStatus = 1
      BY <2>1, <3>1, <3>2, <3>3, <3>4, <3>5 DEF MenuOk, HasText, Whole
    <3>6. CASE lastStatus # 1 /\ handler[h].list = <<>>
      BY <2>1, <3>1, <3>2, <3>3, <3>6 DEF MenuOk, HasText
    <3>7. CASE lastStatus # 1 /\ handler[h].list # <<>>
      BY <2>1, <3>1, <3>2, <3>3, <3>4, <3>7 DEF MenuOk, HasText, Whole
    <3>. QED
      BY <3>5, <3>6, <3>7
  <2>. QED
    BY <1>1, <1>6, <2>2 DEF Explorer!Show
<1>7. CASE Explorer!Dismiss(h)
  <2>1. handler'[h] = Explorer!Unopened
    BY <1>0, <1>7 DEF Explorer!Dismiss
  <2>2. MenuOk(h)'
    BY <2>1, UnopenedTyped DEF MenuOk, HasText
  <2>. QED
    BY <1>1, <1>7, <2>2 DEF Explorer!Dismiss
<1>8. CASE Explorer!Dies(h)
  <2>1. handler'[h] = Explorer!Unopened
    BY <1>0, <1>8 DEF Explorer!Dies
  <2>2. MenuOk(h)'
    BY <2>1, UnopenedTyped DEF MenuOk, HasText
  <2>. QED
    BY <1>1, <1>8, <2>2 DEF Explorer!Dies
<1>9. ASSUME NEW r, Asks(h, r) PROVE MenuInv'
  <2>1. r \in Menus /\ r.step = "sending" /\ r.view = "none"
    BY <1>9 DEF Asks, IsRequest
  <2>2. CASE Explorer!Connect(h, r)
    <3>1. handler'[h].step = "sending" /\ handler'[h].view = "none"
      BY <1>0, <2>1, <2>2 DEF Explorer!Connect, Menus
    <3>. QED
      BY <1>1, <2>2, <3>1 DEF Explorer!Connect, MenuOk, HasText
  <2>3. Explorer!Status(Error) = 2
    BY ReplyTypes, StatusOf
  <2>4. CASE Explorer!ConnectFails(h, r)
    BY <1>1, <2>1, <2>3, <2>4, ReplyTypes, AnsweredMenu
       DEF Explorer!ConnectFails, Explorer!SetStatus
  <2>5. CASE Explorer!ConnectTimesOut(h, r)
    BY <1>1, <2>1, <2>3, <2>5, ReplyTypes, AnsweredMenu
       DEF Explorer!ConnectTimesOut, Explorer!SetStatus
  <2>6. CASE Explorer!SocketFails(h, r)
    BY <1>1, <2>1, <2>6, ReplyTypes, AnsweredMenu DEF Explorer!SocketFails
  <2>. QED
    BY <1>9, <2>2, <2>4, <2>5, <2>6 DEF Asks
<1>. QED
  BY <1>2, <1>3, <1>4, <1>5, <1>6, <1>7, <1>8, <1>9 DEF MenuStep

-----------------------------------------------------------------------------
(* The cache *)

\* A handler leaves the cache alone.
LEMMA MenuCache ==
  ASSUME TypeOK, QueueInv, CacheInv, NEW h \in Handlers, MenuStep(h),
         UNCHANGED <<serving, taskVars, synced, drive>>
  PROVE  CacheInv'
<1>1. \A c \in Conns : task[c].step = "answered" => conn'[c].file = conn[c].file
  BY MenuKeepsUsed DEF QueueInv
<1>. QED
  BY <1>1 DEF CacheInv, CacheIsNewest, taskVars

\* The program keeps a revision in the cache until a newer one is there.
LEMMA ProgramCache ==
  ASSUME TypeOK, CacheInv, ProgramStep
  PROVE  CacheInv'
<1>0. /\ task \in [Conns -> Tasks] /\ conn \in [Conns -> Connections]
      /\ cache \in [Files -> Nat] /\ newest \in [Files -> Nat] /\ drive \in [Files -> Nat]
      /\ inbox \in Seq(Conns)
  BY DEF TypeOK, ProgramTypeOK
<1>1. \A c \in Conns : conn'[c].file = conn[c].file /\ conn[c].file \in Files
  BY <1>0, ProgramKeepsLines DEF Connections
<1>2. ASSUME \A c \in Conns : task'[c].step = "answered" => task'[c] = task[c],
             UNCHANGED <<cache, newest, raced, drive>>
      PROVE  CacheInv'
  BY <1>1, <1>2 DEF CacheInv, CacheIsNewest
<1>3. CASE ServerStep \/ SignOut
  BY <1>2, <1>3 DEF ServerStep, Accept, ReadPanics, NotReadToEnd, ReadCommand, WriteReply,
     WritePanics, Panic, SignOut, taskVars, worldVars
<1>4. CASE Handle
  <2>1. \A c \in Conns : task'[c].step = "answered" => task'[c] = task[c]
    BY <1>0, <1>4 DEF Handle, Dropped, TaskPanics, FoundAtOnce, FailedAtOnce, StillPending,
       Fetching
  <2>2. UNCHANGED <<cache, newest, raced, drive>>
    BY <1>4 DEF Handle, Dropped, TaskPanics, FoundAtOnce, FailedAtOnce, StillPending
  <2>. QED
    BY <1>2, <2>1, <2>2
<1>5. CASE RetryIntents
  BY <1>0, <1>2, <1>5 DEF RetryIntents, Fetching, worldVars
<1>6. ASSUME NEW c \in Conns, FoundLater(c) \/ Downloads(c) \/ \E u \in BOOLEAN : Fails(c, u)
      PROVE  CacheInv'
  <2>1. \A d \in Conns : task'[d].step = "answered" => task'[d] = task[d]
    BY <1>0, <1>6 DEF FoundLater, Downloads, Fails, Ends, NoTask
  <2>2. UNCHANGED <<cache, newest, raced, drive>>
    BY <1>6 DEF FoundLater, Downloads, Fails, worldVars
  <2>. QED
    BY <1>2, <2>1, <2>2
<1>7. ASSUME NEW c \in Conns, DriveLists(c) PROVE CacheInv'
  <2> DEFINE f == conn[c].file
  <2>1. /\ task'[c].step = "answered" /\ task'[c].n = drive[f]
        /\ \A d \in Conns : d # c => task'[d] = task[d]
    BY <1>0, <1>7 DEF DriveLists
  <2>2. /\ raced \subseteq raced'
        /\ f \notin raced' => \A d \in Conns : d # c /\ task[d].step = "answered" => conn[d].file # f
    BY <1>7 DEF DriveLists, Running
  <2>3. UNCHANGED <<conn, cache, newest, drive>>
    BY <1>7 DEF DriveLists, worldVars
  <2>4. f \in Files /\ newest[f] <= drive[f] /\ drive[f] \in Nat
    BY <1>0, <1>1 DEF CacheInv
  <2>. QED
    BY <1>1, <2>1, <2>2, <2>3, <2>4 DEF CacheInv, CacheIsNewest
<1>8. ASSUME NEW c \in Conns, Inserts(c) PROVE CacheInv'
  <2> DEFINE f == conn[c].file
             n == task[c].n
  <2>1. f \in Files /\ n \in Nat /\ n <= drive[f] /\ newest[f] \in Nat /\ drive[f] \in Nat
    BY <1>0, <1>1, <1>8 DEF Inserts, CacheInv, Tasks
  <2>2. /\ task'[c].step = "none" /\ \A d \in Conns : d # c => task'[d] = task[d]
        /\ UNCHANGED <<conn, raced, drive>>
    BY <1>0, <1>8 DEF Inserts, Ends, NoTask, worldVars
  <2>3. /\ cache'[f] = n /\ newest'[f] = IF n > newest[f] THEN n ELSE newest[f]
        /\ \A g \in Files : g # f => cache'[g] = cache[g] /\ newest'[g] = newest[g]
    BY <1>0, <1>8, <2>1 DEF Inserts, CacheInsert
  <2>4. f \notin raced =>
          /\ newest[f] <= n
          /\ \A d \in Conns : d # c /\ task[d].step = "answered" => conn[d].file # f
    BY <1>8 DEF Inserts, CacheInv
  <2> HIDE DEF f, n
  <2>5. newest'[f] <= drive[f] /\ (f \notin raced => newest'[f] = n)
    <3>1. newest[f] <= drive[f]
      BY <2>1 DEF CacheInv
    <3>2. newest'[f] <= drive[f]
      BY <2>1, <2>3, <3>1
    <3>3. f \notin raced => newest'[f] = n
      BY <2>1, <2>3, <2>4
    <3>. QED
      BY <3>2, <3>3
  <2>6. \A d \in Conns : d # c /\ task[d].step = "answered" /\ conn[d].file \notin raced =>
          newest'[conn[d].file] = newest[conn[d].file]
    BY <1>1, <2>3, <2>4 DEF f
  <2>7. CacheIsNewest'
    BY <2>2, <2>3, <2>5 DEF CacheInv, CacheIsNewest
  <2>8. \A g \in Files : newest'[g] <= drive'[g]
    BY <2>2, <2>3, <2>5 DEF CacheInv
  <2>. QED
    BY <2>2, <2>6, <2>7, <2>8 DEF CacheInv
<1>9. ASSUME NEW f \in Files, Upload(f) PROVE CacheInv'
  <2>1. \A g \in Files : drive[g] <= drive'[g] /\ drive[g] \in Nat /\ drive'[g] \in Nat
    BY <1>0, <1>9 DEF Upload
  <2>2. UNCHANGED <<conn, task, cache, newest, raced>>
    BY <1>9 DEF Upload, taskVars
  <2>3. \A g \in Files : newest[g] \in Nat
    BY <1>0
  <2>4. \A c \in Conns : task[c].n \in Nat
    BY <1>0 DEF Tasks
  <2>5. \A g \in Files : newest'[g] <= drive'[g]
    BY <2>1, <2>2, <2>3 DEF CacheInv
  <2>6. \A c \in Conns : task[c].step = "answered" => task[c].n <= drive'[conn[c].file]
    BY <1>1, <2>1, <2>4 DEF CacheInv
  <2>. QED
    BY <2>2, <2>5, <2>6 DEF CacheInv, CacheIsNewest
<1>10. ASSUME NEW f \in Files, CacheExpires(f) PROVE CacheInv'
  <2>1. \A g \in Files : cache'[g] = cache[g] \/ cache'[g] = Vacant
    BY <1>0, <1>10 DEF CacheExpires
  <2>2. UNCHANGED <<conn, task, newest, raced, drive>>
    BY <1>10 DEF CacheExpires, worldVars
  <2>. QED
    BY <2>1, <2>2 DEF CacheInv, CacheIsNewest
<1>11. CASE \E d \in Folders : FolderSelected(d)
  BY <1>2, <1>11 DEF FolderSelected, taskVars
<1>. QED
  BY <1>3, <1>4, <1>5, <1>6, <1>7, <1>8, <1>9, <1>10, <1>11 DEF ProgramStep, TaskStep

-----------------------------------------------------------------------------
(* The theorems *)

\* The invariant holds initially.
LEMMA Start == ShellInit => IInv
<1> SUFFICES ASSUME ShellInit PROVE IInv
  OBVIOUS
<1>1. (CHOOSE f \in Files : TRUE) \in Files
  BY ServerAssumption
<1>2. Unused \in Connections /\ Unused.command = "none" /\ Unused.end = "open"
      /\ Unused.reply = Nothing
  BY <1>1, ReplyTypes DEF Unused, NewConnection, Connections, Commands
<1>3. /\ conn \in [Conns -> Connections]
      /\ \A c \in Conns : conn[c] = Unused
  BY <1>2 DEF ShellInit, Init
<1>4. AtStart \in Nat
  BY ServerAssumption
<1>5. cache \in [Files -> Nat] /\ newest = cache /\ drive = [f \in Files |-> AtStart]
      /\ \A f \in Files : newest[f] <= drive[f]
  BY <1>4 DEF ShellInit, Init, Vacant
<1>6. ProgramTypeOK
  <2>1. /\ server = "accepting" /\ serving = Nobody /\ backlog = <<>> /\ inbox = <<>>
        /\ answer = Nothing /\ task = [c \in Conns |-> NoTask] /\ synced = TRUE
        /\ faults = 0 /\ broken = FALSE
    BY DEF ShellInit, Init
  <2>. QED
    <3>1. backlog \in Seq(Conns) /\ inbox \in Seq(Conns)
      BY <2>1
    <3>2. task \in [Conns -> Tasks] /\ answer \in Replies
      BY <2>1, ReplyTypes, TaskTypes
    <3>3. drive \in [Files -> Nat] /\ faults \in Nat
      BY <1>4, <1>5, <2>1
    <3>4. synced \in BOOLEAN /\ broken \in BOOLEAN
      BY <2>1
    <3>. QED
      BY <1>3, <1>5, <2>1, <3>1, <3>2, <3>3, <3>4 DEF ProgramTypeOK
<1>7. /\ handler \in [Handlers -> Menus] /\ lastStatus = 0 /\ mixed = {}
      /\ \A h \in Handlers : handler[h] = Explorer!Unopened
  BY UnopenedTyped DEF ShellInit, Explorer!Init
<1>8. \A c \in Conns : task[c] = NoTask
  BY DEF ShellInit, Init
<1>9. QueueInv
  BY <1>8 DEF ShellInit, Init, QueueInv, NoTask
<1>10. LineInv /\ MenuInv
  BY <1>7, UnopenedTyped DEF LineInv, MenuInv, MenuOk, Busy, HasText
<1>11. CauseInv
  BY <1>2, <1>3 DEF ShellInit, Init, CauseInv
<1>12. ErrorInv
  BY <1>2, <1>3, <1>7, UnopenedTyped, KindsApart DEF ShellInit, Init, ErrorInv, HasText
<1>13. CacheInv
  BY <1>5, <1>8 DEF CacheInv, CacheIsNewest, NoTask
<1>. QED
  BY <1>6, <1>7, <1>9, <1>10, <1>11, <1>12, <1>13 DEF IInv, TypeOK, MenusTypeOK

\* Every step keeps it.
LEMMA Step == IInv /\ [ShellNext]_shellVars => IInv'
<1> SUFFICES ASSUME IInv, [ShellNext]_shellVars PROVE IInv'
  OBVIOUS
<1> USE DEF IInv
<1>1. ASSUME NEW h \in Handlers, MenuStep(h), UNCHANGED <<serving, taskVars, synced, drive>>
      PROVE  IInv'
  BY <1>1, MenuTypes, MenuQueue, MenuLines, MenuCauses, MenuErrors, MenuMenus, MenuCache
<1>2. ASSUME ProgramStep, UNCHANGED <<handler, lastStatus, mixed>> PROVE IInv'
  <2>1. MenuInv'
    BY <1>2 DEF MenuInv, MenuOk, HasText, Whole, Explorer!Status
  <2>. QED
    BY <1>2, <2>1, ProgramTypes, ProgramQueue, ProgramLines, ProgramCauses, ProgramErrors,
       ProgramCache
<1>3. CASE UNCHANGED shellVars
  <2> USE <1>3 DEF shellVars, vars, serverVars, taskVars, worldVars
  <2>1. TypeOK'
    BY DEF TypeOK, ProgramTypeOK, MenusTypeOK
  <2>2. QueueInv' /\ LineInv'
    BY DEF QueueInv, LineInv, Used, Busy
  <2>3. CauseInv' /\ ErrorInv'
    BY DEF CauseInv, ErrorInv, HasText
  <2>4. MenuInv'
    BY DEF MenuInv, MenuOk, HasText, Whole, Explorer!Status
  <2>5. CacheInv'
    BY DEF CacheInv, CacheIsNewest
  <2>. QED
    BY <2>1, <2>2, <2>3, <2>4, <2>5
<1>. QED
  BY <1>1, <1>2, <1>3, StepCases

\* So it always holds.
LEMMA Inductive == ShellSpec => []IInv
BY Start, Step, PTL DEF ShellSpec

\* The server of a session ends with a panic only when a client has died or has given up
\* connecting (the unwraps of subscriptions.rs): the program's own answers, or their
\* absence, never do it.
THEOREM PanicsHaveCause == ShellSpec => []PanicNeedsBrokenClient
<1>1. IInv => PanicNeedsBrokenClient
  BY DEF IInv, CauseInv, PanicNeedsBrokenClient
<1>. QED
  BY <1>1, Inductive, PTL

\* A menu that no other handler has interfered with, and whose request had a socket, shows
\* what its own request was answered, although all of them go through the one
\* SocketClient::last_status.
THEOREM MenusShowTheirAnswer == ShellSpec => []ShowsOwnAnswer
<1>1. IInv => ShowsOwnAnswer
  BY DEF IInv, MenuInv, MenuOk, ShowsOwnAnswer
<1>. QED
  BY <1>1, Inductive, PTL

\* Whoever has changed last_status, the list in a menu is a whole one: what
\* SocketClient::receive cut off is never parsed to a shorter list.
THEOREM ListsAreWhole == ShellSpec => []ShownListIsWhole
<1>1. IInv => ShownListIsWhole
  BY DEF IInv, MenuInv, MenuOk, HasText, Whole, ShownListIsWhole
<1>. QED
  BY <1>1, Inductive, PTL

\* The menu of a file in the synced folder is missing only after a fault: neither the
\* order of the requests, nor the selection of another folder, nor a refresh does it.
THEOREM MenusAreThere == ShellSpec => []MissingNeedsCause
<1>1. IInv => MissingNeedsCause
  BY DEF IInv, MenuInv, MenuOk, HasText, ErrorInv, MissingNeedsCause
<1>. QED
  BY <1>1, Inductive, PTL

\* The cache of the revisions is behind what was fetched only for a file that two tasks
\* had fetched at the same time.
THEOREM CacheKeepsNewest == ShellSpec => []CacheIsNewest
<1>1. IInv => CacheIsNewest
  BY DEF IInv, CacheInv
<1>. QED
  BY <1>1, Inductive, PTL

=============================================================================
