-------------------------- MODULE WebSocketSessions --------------------------
(***************************************************************************)
(* The web socket server: AbstractWebSocketHandler, EventWebSocketHandler  *)
(* and WebSocketService, between the ws library and its clients.           *)
(*                                                                         *)
(* A handler runs to its end for each frame.  close() only begins to close *)
(* a connection: until the peer's close frame comes, or 30 seconds are     *)
(* over, frames that are under way are still handled, and what is sent in  *)
(* answer is dropped by ws.                                                *)
(***************************************************************************)
EXTENDS Naturals, Sequences, SequencesExt

CONSTANTS
  Clients,   \* connections
  Paths,     \* of the URLs that clients ask for
  path,      \* that of the handler
  Codes,     \* with which clients close: any that ws lets through
  MaxFrames  \* bound on what a client sends of its own accord

ASSUME PathAssumption == path \in Paths
ASSUME CodesAssumption == Codes \subseteq 1000..4999
ASSUME FramesAssumption == MaxFrames \in Nat

Commands == {"command", "garbage", "binary", "pong"} \* garbage is text, but no JSON

VARIABLES
  ws,       \* readyState of the handler's end
  client,   \* readyState of the client's end; "GONE": it vanished
  toServer, \* frames under way
  toClient,
  sent,     \* how many frames each client has sent
  code,     \* that of its close frame
  calls     \* which methods of the service each connection has called

vars == <<ws, client, toServer, toClient, sent, code, calls>>

Init ==
  /\ ws = [c \in Clients |-> "none"]
  /\ client = [c \in Clients |-> "none"]
  /\ toServer = [c \in Clients |-> <<>>]
  /\ toClient = [c \in Clients |-> <<>>]
  /\ sent = [c \in Clients |-> 0]
  /\ code = [c \in Clients |-> 1005]
  /\ calls = [c \in Clients |-> <<>>]

------------------------------------------------------------------------------
(* The server.                                                              *)

\* The next frame of this connection, which `ws` still reads.
Arrives(c, frame) ==
  /\ ws[c] \in {"OPEN", "CLOSING"}
  /\ toServer[c] # <<>> /\ Head(toServer[c]) = frame
  /\ toServer' = [toServer EXCEPT ![c] = Tail(@)]
  /\ UNCHANGED <<client, sent, code>>

Call(c, method) == calls' = [calls EXCEPT ![c] = Append(@, method)]

\* session.send: dropped unless the connection is open.
send(c, frame) ==
  toClient' = IF ws[c] = "OPEN" THEN [toClient EXCEPT ![c] = Append(@, frame)] ELSE toClient

\* ws.close of a connection that is open; else it does nothing.
close(c) ==
  /\ ws' = [ws EXCEPT ![c] = IF @ = "OPEN" THEN "CLOSING" ELSE @]
  /\ send(c, "close")

\* The service is called before the handshake is over.
NotYetOpen == [state |-> "CONNECTING", frames |-> <<"upgraded">>]

\* The service closes every connection at once.
afterConnectionEstablished == [state |-> "CLOSING", frames |-> <<"upgraded", "close">>]

\* parseUrl: the path that is asked for.  Nobody looks at the query parameters.
pathName(c) == Head(toServer[c])

\* An upgrade to a path that no handler has is never answered.
upgrade(c) ==
  /\ ws[c] = "none" /\ toServer[c] # <<>>
  /\ toServer' = [toServer EXCEPT ![c] = Tail(@)]
  /\ IF pathName(c) = path
     THEN /\ ws' = [ws EXCEPT ![c] = afterConnectionEstablished.state]
          /\ toClient' = [toClient EXCEPT ![c] = afterConnectionEstablished.frames]
          /\ Call(c, "afterConnectionEstablished")
     ELSE UNCHANGED <<ws, toClient, calls>>
  /\ UNCHANGED <<client, sent, code>>

\* A text message that is a command is answered.
handleTextMessage(c) ==
  /\ Arrives(c, "command")
  /\ send(c, "sent_message")
  /\ Call(c, "handleTextMessage")
  /\ UNCHANGED ws

\* JSON.parse throws before the service is called; the error is swallowed.
SwallowGarbage(c) ==
  /\ Arrives(c, "garbage")
  /\ UNCHANGED <<ws, toClient, calls>>

handlePongMessage(c) ==
  /\ Arrives(c, "pong")
  /\ Call(c, "handlePongMessage")
  /\ UNCHANGED <<ws, toClient>>

\* The close frame is sent whether or not there was one.
RefuseBinaryAgain(c) ==
  /\ Arrives(c, "binary")
  /\ toClient' = [toClient EXCEPT ![c] = Append(@, "close")]
  /\ ws' = [ws EXCEPT ![c] = "CLOSING"]
  /\ UNCHANGED calls

\* NOT_ACCEPTABLE.
RefuseBinary(c) == Arrives(c, "binary") /\ close(c) /\ UNCHANGED calls

\* Codes from 4000 on are not for applications.
KnownCode(n) == n \in 1000..3999

\* Codes that stand for what is no close frame are refused.
SendableCode(n) == n >= 1000 /\ n < 5000 /\ n \notin 1004..1006

\* CloseStatus throws for any other code; the error is swallowed with the call.
validateCode(n) == n >= 1000 /\ n < 5000

\* The connection is closed, and the service is told.
Closed(c, n) ==
  /\ ws' = [ws EXCEPT ![c] = "CLOSED"]
  /\ IF validateCode(n) THEN Call(c, "afterConnectionClosed") ELSE UNCHANGED calls

\* The peer's close frame: ws answers it, unless it has sent its own.
afterConnectionClosed(c) ==
  /\ Arrives(c, "close")
  /\ send(c, "close")
  /\ Closed(c, code[c])

\* The peer has not closed its end in time; what it still says goes unread.
CloseTimeout(c) ==
  /\ ws[c] = "CLOSING"
  /\ Closed(c, 1006)
  /\ UNCHANGED <<client, toServer, toClient, sent, code>>

ServerStep(c) ==
  \/ upgrade(c)
  \/ handleTextMessage(c) \/ SwallowGarbage(c) \/ handlePongMessage(c) \/ RefuseBinary(c)
  \/ afterConnectionClosed(c) \/ CloseTimeout(c)

------------------------------------------------------------------------------
(* The clients.                                                             *)

Send(c, frame) == toServer' = [toServer EXCEPT ![c] = Append(@, frame)]

Connect(c, asked) ==
  /\ client[c] = "none"
  /\ client' = [client EXCEPT ![c] = "CONNECTING"]
  /\ Send(c, asked)
  /\ UNCHANGED <<ws, toClient, sent, code, calls>>

SendFrame(c, frame) ==
  /\ client[c] = "OPEN" /\ sent[c] < MaxFrames
  /\ sent' = [sent EXCEPT ![c] = @ + 1]
  /\ Send(c, frame)
  /\ UNCHANGED <<ws, client, toClient, code, calls>>

Close(c, n) ==
  /\ client[c] = "OPEN"
  /\ client' = [client EXCEPT ![c] = "CLOSING"]
  /\ code' = [code EXCEPT ![c] = n]
  /\ Send(c, "close")
  /\ UNCHANGED <<ws, toClient, sent, calls>>

\* A client answers a close frame with its own, once.
Receive(c) ==
  /\ client[c] \in {"CONNECTING", "OPEN", "CLOSING"} /\ toClient[c] # <<>>
  /\ toClient' = [toClient EXCEPT ![c] = Tail(@)]
  /\ client' = [client EXCEPT ![c] =
       CASE Head(toClient[c]) = "upgraded" -> "OPEN"
         [] Head(toClient[c]) = "close" -> "CLOSED"
         [] OTHER -> @]
  /\ IF Head(toClient[c]) = "close" /\ client[c] = "OPEN" THEN Send(c, "close")
     ELSE UNCHANGED toServer
  /\ UNCHANGED <<ws, sent, code, calls>>

\* The client vanishes, with any of the frames that it has under way.
Vanish(c) ==
  /\ client[c] \in {"CONNECTING", "OPEN", "CLOSING"}
  /\ client' = [client EXCEPT ![c] = "GONE"]
  /\ \E kept \in 0..Len(toServer[c]) :
       toServer' = [toServer EXCEPT ![c] = SubSeq(@, 1, kept)]
  /\ UNCHANGED <<ws, toClient, sent, code, calls>>

Next ==
  \E c \in Clients :
    \/ ServerStep(c)
    \/ \E asked \in Paths : Connect(c, asked)
    \/ \E frame \in Commands : SendFrame(c, frame)
    \/ \E n \in Codes : Close(c, n)
    \/ Receive(c) \/ Vanish(c)

Spec == Init /\ [][Next]_vars

\* Sockets are read and timers fire.
FairSpec == Spec /\ \A c \in Clients : WF_vars(ServerStep(c))

------------------------------------------------------------------------------
(* Properties.                                                              *)

\* The ends of each connection, and the frames under way between them.
TypeOK ==
  /\ ws \in [Clients -> {"none", "OPEN", "CLOSING", "CLOSED"}]
  /\ client \in [Clients -> {"none", "CONNECTING", "OPEN", "CLOSING", "CLOSED", "GONE"}]
  /\ \A c \in Clients :
       /\ ToSet(toServer[c]) \subseteq Paths \cup Commands \cup {"close"}
       /\ ToSet(toClient[c]) \subseteq {"upgraded", "sent_message", "close"}
  /\ sent \in [Clients -> 0..MaxFrames]
  /\ code \in [Clients -> Codes \cup {1005}]

\* A service sees each connection established, then its messages, then closed,
\* whatever the code: once, and nothing after, though frames come in while the
\* connection closes, from both ends at once or by its time out.
CallsInOrder ==
  \A c \in Clients : \A i \in DOMAIN calls[c] :
    /\ i = 1 <=> calls[c][i] = "afterConnectionEstablished"
    /\ i = Len(calls[c]) /\ ws[c] = "CLOSED" <=> calls[c][i] = "afterConnectionClosed"

\* A client is told once that its connection closes, and nothing after that.
ClosedIsLast ==
  \A c \in Clients : \A i \in DOMAIN toClient[c] :
    toClient[c][i] = "close" => i = Len(toClient[c]) /\ client[c] # "CLOSED"

\* Once a session has begun to close, the service is told of its end: the client may
\* answer the close frame, have sent its own, go on sending, idle until the time out,
\* or vanish.
ClosingIsTold ==
  \A c \in Clients :
    ws[c] = "CLOSING" ~> (ws[c] = "CLOSED" /\ Last(calls[c]) = "afterConnectionClosed")
==============================================================================
