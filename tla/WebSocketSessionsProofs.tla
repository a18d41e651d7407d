------------------------ MODULE WebSocketSessionsProofs ------------------------
(***************************************************************************)
(* WebSocketSessions for any number of clients, paths and frames, and any  *)
(* codes that ws lets through.                                             *)
(*                                                                         *)
(* The argument: every code that can come with a close frame is one that   *)
(* CloseStatus takes, so that the service is told of each end; and what is *)
(* sent to a client after the close frame is dropped, since the connection *)
(* is not open any more.                                                   *)
(***************************************************************************)
EXTENDS WebSocketSessions, TLAPS

------------------------------------------------------------------------------
(* The inductive invariant.                                                 *)

Frames == Paths \cup Commands \cup {"close"}
Answers == {"upgraded", "sent_message", "close"}
Methods ==
  {"afterConnectionEstablished", "handleTextMessage", "handlePongMessage",
   "afterConnectionClosed"}

Types ==
  /\ ws \in [Clients -> {"none", "OPEN", "CLOSING", "CLOSED"}]
  /\ client \in [Clients -> {"none", "CONNECTING", "OPEN", "CLOSING", "CLOSED", "GONE"}]
  /\ toServer \in [Clients -> Seq(Frames)]
  /\ toClient \in [Clients -> Seq(Answers)]
  /\ sent \in [Clients -> 0..MaxFrames]
  /\ code \in [Clients -> Codes \cup {1005}]
  /\ calls \in [Clients -> Seq(Methods)]

\* What the service has been told of a connection, by the state it is in.
Told(state, called) ==
  /\ state = "none" => called = <<>>
  /\ state # "none" => Len(called) > 0
  /\ state = "CLOSED" => Len(called) > 1
  /\ \A i \in 1..Len(called) :
       /\ i = 1 <=> called[i] = "afterConnectionEstablished"
       /\ (i = Len(called) /\ state = "CLOSED") <=> called[i] = "afterConnectionClosed"

\* What is under way to a client: nothing after a close frame, and no close frame as
\* long as the connection is open.
Sent(state, frames, peer) ==
  /\ state = "none" => frames = <<>>
  /\ state \in {"none", "OPEN"} => peer # "CLOSED"
  /\ \A i \in 1..Len(frames) :
       frames[i] = "close" =>
         i = Len(frames) /\ peer # "CLOSED" /\ state \notin {"none", "OPEN"}

WInv ==
  /\ Types
  /\ \A c \in Clients : Told(ws[c], calls[c])
  /\ \A c \in Clients : Sent(ws[c], toClient[c], client[c])

------------------------------------------------------------------------------
(* Sequences.                                                               *)

\* One more element.
LEMMA Appended ==
  ASSUME NEW S, NEW s \in Seq(S), NEW x \in S
  PROVE  /\ Append(s, x) \in Seq(S)
         /\ Len(Append(s, x)) = Len(s) + 1
         /\ \A i \in 1..Len(s) : Append(s, x)[i] = s[i]
         /\ Append(s, x)[Len(s) + 1] = x
  OBVIOUS

\* One less, at the head.
LEMMA Taken ==
  ASSUME NEW S, NEW s \in Seq(S), s # <<>>
  PROVE  /\ Tail(s) \in Seq(S) /\ Len(s) \in Nat \ {0} /\ Len(Tail(s)) = Len(s) - 1
         /\ Head(s) = s[1] /\ Head(s) \in S
         /\ \A i \in 1..Len(Tail(s)) : Tail(s)[i] = s[i + 1]
  OBVIOUS

\* A beginning.
LEMMA Kept ==
  ASSUME NEW S, NEW s \in Seq(S), NEW n \in 0..Len(s)
  PROVE  SubSeq(s, 1, n) \in Seq(S)
  OBVIOUS

------------------------------------------------------------------------------
(* What the service is told.                                                *)

\* A message, while the connection is open or closes.
LEMMA ToldMessage ==
  ASSUME NEW state \in {"OPEN", "CLOSING"}, NEW called \in Seq(Methods), Told(state, called),
         NEW m \in {"handleTextMessage", "handlePongMessage"}
  PROVE  Append(called, m) \in Seq(Methods) /\ Told(state, Append(called, m))
<1>1. m \in Methods
  BY DEF Methods
<1> DEFINE more == Append(called, m)
<1>2. /\ more \in Seq(Methods) /\ Len(more) = Len(called) + 1 /\ Len(called) \in Nat
      /\ (\A i \in 1..Len(called) : more[i] = called[i])
      /\ more[Len(called) + 1] = m
  BY <1>1, Appended
<1> HIDE DEF more
<1>3. \A i \in 1..Len(more) : i \in 1..Len(called) \/ i = Len(called) + 1
  BY <1>2
<1>4. Told(state, more)
  BY <1>2, <1>3 DEF Told
<1> QED BY <1>2, <1>4 DEF more

\* The end of the connection.
LEMMA ToldClosed ==
  ASSUME NEW state \in {"OPEN", "CLOSING"}, NEW called \in Seq(Methods), Told(state, called)
  PROVE  /\ Append(called, "afterConnectionClosed") \in Seq(Methods)
         /\ Told("CLOSED", Append(called, "afterConnectionClosed"))
<1>1. "afterConnectionClosed" \in Methods
  BY DEF Methods
<1> DEFINE more == Append(called, "afterConnectionClosed")
<1>2. /\ more \in Seq(Methods) /\ Len(more) = Len(called) + 1 /\ Len(called) \in Nat
      /\ (\A i \in 1..Len(called) : more[i] = called[i])
      /\ more[Len(called) + 1] = "afterConnectionClosed"
  BY <1>1, Appended
<1> HIDE DEF more
<1>3. \A i \in 1..Len(more) : i \in 1..Len(called) \/ i = Len(called) + 1
  BY <1>2
<1>4. Told("CLOSED", more)
  BY <1>2, <1>3 DEF Told
<1> QED BY <1>2, <1>4 DEF more

\* Nothing, while the connection begins to close.
LEMMA ToldNothing ==
  ASSUME NEW state \in {"OPEN", "CLOSING"}, NEW next \in {"OPEN", "CLOSING"},
         NEW called \in Seq(Methods), Told(state, called)
  PROVE  Told(next, called)
  BY DEF Told

------------------------------------------------------------------------------
(* What is sent to the client.                                              *)

\* What send and close leave under way.
Sending(state, frames, frame) == IF state = "OPEN" THEN Append(frames, frame) ELSE frames

\* An answer.
LEMMA SentAnswer ==
  ASSUME NEW state \in {"OPEN", "CLOSING"}, NEW frames \in Seq(Answers), NEW peer,
         Sent(state, frames, peer)
  PROVE  /\ Sending(state, frames, "sent_message") \in Seq(Answers)
         /\ Sent(state, Sending(state, frames, "sent_message"), peer)
<1>1. CASE state = "OPEN"
  <2>1. "sent_message" \in Answers
    BY DEF Answers
  <2> DEFINE more == Append(frames, "sent_message")
  <2>2. /\ more \in Seq(Answers) /\ Len(more) = Len(frames) + 1 /\ Len(frames) \in Nat
        /\ (\A i \in 1..Len(frames) : more[i] = frames[i])
        /\ more[Len(frames) + 1] = "sent_message"
    BY <2>1, Appended
  <2> HIDE DEF more
  <2>3. \A i \in 1..Len(more) : i \in 1..Len(frames) \/ i = Len(frames) + 1
    BY <2>2
  <2>4. Sent(state, more, peer)
    BY <1>1, <2>2, <2>3 DEF Sent
  <2> QED BY <1>1, <2>2, <2>4 DEF more, Sending
<1>2. CASE state # "OPEN"
  BY <1>2 DEF Sending
<1> QED BY <1>1, <1>2

\* A close frame, with which the connection is not open any more.
LEMMA SentClose ==
  ASSUME NEW state \in {"OPEN", "CLOSING"}, NEW next \in {"CLOSING", "CLOSED"},
         NEW frames \in Seq(Answers), NEW peer, Sent(state, frames, peer)
  PROVE  /\ Sending(state, frames, "close") \in Seq(Answers)
         /\ Sent(next, Sending(state, frames, "close"), peer)
<1>1. CASE state = "OPEN"
  <2>1. "close" \in Answers
    BY DEF Answers
  <2> DEFINE more == Append(frames, "close")
  <2>2. /\ more \in Seq(Answers) /\ Len(more) = Len(frames) + 1 /\ Len(frames) \in Nat
        /\ (\A i \in 1..Len(frames) : more[i] = frames[i])
        /\ more[Len(frames) + 1] = "close"
    BY <2>1, Appended
  <2> HIDE DEF more
  <2>3. \A i \in 1..Len(more) : i \in 1..Len(frames) \/ i = Len(frames) + 1
    BY <2>2
  <2>4. Sent(next, more, peer)
    BY <1>1, <2>2, <2>3 DEF Sent
  <2> QED BY <1>1, <2>2, <2>4 DEF more, Sending
<1>2. CASE state # "OPEN"
  BY <1>2 DEF Sending, Sent
<1> QED BY <1>1, <1>2

\* The client takes the first frame, which may be that it is closed.
LEMMA SentTaken ==
  ASSUME NEW state, NEW frames \in Seq(Answers), frames # <<>>, NEW peer, NEW next,
         Sent(state, frames, peer),
         next = "CLOSED" => Head(frames) = "close" \/ peer = "CLOSED"
  PROVE  Sent(state, Tail(frames), next)
<1> DEFINE rest == Tail(frames)
<1>1. /\ rest \in Seq(Answers) /\ Len(frames) \in Nat \ {0} /\ Len(rest) = Len(frames) - 1
      /\ Head(frames) = frames[1]
      /\ \A i \in 1..Len(rest) : rest[i] = frames[i + 1]
  BY Taken
<1>2. state # "none"
  BY DEF Sent
<1> HIDE DEF rest
<1>3. ASSUME Head(frames) = "close" PROVE Len(rest) = 0 /\ state \notin {"none", "OPEN"}
  BY <1>1, <1>3 DEF Sent
<1>4. next = "CLOSED" => state \notin {"none", "OPEN"}
  BY <1>3 DEF Sent
<1>5. ASSUME NEW i \in 1..Len(rest), rest[i] = "close"
      PROVE  i = Len(rest) /\ next # "CLOSED" /\ state \notin {"none", "OPEN"}
  <2>1. i + 1 \in 1..Len(frames) /\ frames[i + 1] = "close"
    BY <1>1, <1>5
  <2>2. i + 1 = Len(frames) /\ peer # "CLOSED" /\ state \notin {"none", "OPEN"}
    BY <2>1 DEF Sent
  <2> QED BY <1>1, <1>3, <2>2
<1> QED BY <1>2, <1>4, <1>5 DEF Sent, rest

\* The client goes on, without having got anything.
LEMMA SentNothing ==
  ASSUME NEW state, NEW frames, NEW peer, NEW next,
         Sent(state, frames, peer), next # "CLOSED"
  PROVE  Sent(state, frames, next)
  BY DEF Sent

------------------------------------------------------------------------------
(* The steps.                                                               *)

\* A step of one connection.
LEMMA StepWInv ==
  ASSUME WInv, NEW c \in Clients, Types',
         \A b \in Clients \ {c} :
           ws'[b] = ws[b] /\ client'[b] = client[b] /\ toClient'[b] = toClient[b]
           /\ calls'[b] = calls[b],
         Told(ws'[c], calls'[c]), Sent(ws'[c], toClient'[c], client'[c])
  PROVE  WInv'
<1>1. ASSUME NEW b \in Clients
      PROVE  Told(ws'[b], calls'[b]) /\ Sent(ws'[b], toClient'[b], client'[b])
  BY DEF WInv
<1> QED BY <1>1 DEF WInv

\* What the invariant says of one connection.
LEMMA Connection ==
  ASSUME WInv, NEW c \in Clients
  PROVE  /\ ws[c] \in {"none", "OPEN", "CLOSING", "CLOSED"}
         /\ client[c] \in {"none", "CONNECTING", "OPEN", "CLOSING", "CLOSED", "GONE"}
         /\ toServer[c] \in Seq(Frames) /\ toClient[c] \in Seq(Answers)
         /\ calls[c] \in Seq(Methods)
         /\ Told(ws[c], calls[c]) /\ Sent(ws[c], toClient[c], client[c])
  BY DEF WInv, Types

\* A frame that arrives is taken off; the client does nothing.
LEMMA ArrivesTypes ==
  ASSUME WInv, NEW c \in Clients, NEW frame, Arrives(c, frame)
  PROVE  /\ toServer' \in [Clients -> Seq(Frames)] /\ ws[c] \in {"OPEN", "CLOSING"}
         /\ UNCHANGED <<client, sent, code>>
<1>1. Tail(toServer[c]) \in Seq(Frames)
  BY Connection, Taken DEF Arrives
<1> QED BY <1>1 DEF Arrives, WInv, Types

\* The handshake.
LEMMA upgradeWInv == ASSUME WInv, NEW c \in Clients, upgrade(c) PROVE WInv'
<1>1. ws[c] = "none" /\ toServer[c] # <<>> /\ UNCHANGED <<client, sent, code>>
      /\ toServer' = [toServer EXCEPT ![c] = Tail(@)]
  BY DEF upgrade
<1>2. Tail(toServer[c]) \in Seq(Frames)
  BY <1>1, Connection, Taken
<1>3. toServer' \in [Clients -> Seq(Frames)]
  BY <1>1, <1>2 DEF WInv, Types
<1>4. CASE pathName(c) = path
  <2> DEFINE frames == <<"upgraded", "close">>
             called == Append(calls[c], "afterConnectionEstablished")
  <2>1. /\ ws' = [ws EXCEPT ![c] = "CLOSING"]
        /\ toClient' = [toClient EXCEPT ![c] = frames]
        /\ calls' = [calls EXCEPT ![c] = called]
    BY <1>4 DEF upgrade, afterConnectionEstablished, Call
  <2>2. frames \in Seq(Answers) /\ Len(frames) = 2 /\ frames[1] = "upgraded" /\ frames[2] = "close"
    BY DEF Answers
  <2>3. calls[c] = <<>> /\ client[c] # "CLOSED"
    BY <1>1, Connection DEF Told, Sent
  <2>4. called \in Seq(Methods) /\ Len(called) = 1 /\ called[1] = "afterConnectionEstablished"
    <3>1. "afterConnectionEstablished" \in Methods /\ <<>> \in Seq(Methods)
      BY DEF Methods
    <3> QED BY <2>3, <3>1
  <2> HIDE DEF frames, called
  <2>5. Told("CLOSING", called)
    BY <2>4 DEF Told
  <2>6. Sent("CLOSING", frames, client[c])
    BY <2>2, <2>3 DEF Sent
  <2>7. Types'
    BY <1>1, <1>3, <2>1, <2>2, <2>4 DEF WInv, Types
  <2>8. ws'[c] = "CLOSING" /\ calls'[c] = called /\ toClient'[c] = frames /\ client'[c] = client[c]
    BY <1>1, <2>1 DEF WInv, Types
  <2>9. \A b \in Clients \ {c} :
          ws'[b] = ws[b] /\ client'[b] = client[b] /\ toClient'[b] = toClient[b]
          /\ calls'[b] = calls[b]
    BY <1>1, <2>1 DEF WInv, Types
  <2> QED BY <2>5, <2>6, <2>7, <2>8, <2>9, StepWInv
<1>5. CASE pathName(c) # path
  <2>1. UNCHANGED <<ws, toClient, calls>>
    BY <1>5 DEF upgrade
  <2>2. Types'
    BY <1>1, <1>3, <2>1 DEF WInv, Types
  <2> QED BY <1>1, <2>1, <2>2, Connection, StepWInv
<1> QED BY <1>4, <1>5

\* Messages of the client.
LEMMA MessageWInv ==
  ASSUME WInv, NEW c \in Clients,
         handleTextMessage(c) \/ SwallowGarbage(c) \/ handlePongMessage(c)
  PROVE  WInv'
<1>1. /\ toServer' \in [Clients -> Seq(Frames)] /\ ws[c] \in {"OPEN", "CLOSING"}
      /\ UNCHANGED <<client, sent, code>> /\ ws' = ws
  BY ArrivesTypes DEF handleTextMessage, SwallowGarbage, handlePongMessage
<1>2. /\ toClient[c] \in Seq(Answers) /\ calls[c] \in Seq(Methods)
      /\ Told(ws[c], calls[c]) /\ Sent(ws[c], toClient[c], client[c])
  BY Connection
<1>3. ASSUME NEW m \in {"handleTextMessage", "handlePongMessage"}, Call(c, m)
      PROVE  /\ calls' \in [Clients -> Seq(Methods)] /\ Told(ws'[c], calls'[c])
             /\ \A b \in Clients \ {c} : calls'[b] = calls[b]
  <2>1. Append(calls[c], m) \in Seq(Methods) /\ Told(ws[c], Append(calls[c], m))
    BY <1>1, <1>2, ToldMessage
  <2>2. calls' = [calls EXCEPT ![c] = Append(calls[c], m)]
    BY <1>3 DEF Call
  <2> QED BY <1>1, <2>1, <2>2 DEF WInv, Types
<1>4. CASE handleTextMessage(c)
  <2>1. /\ Sending(ws[c], toClient[c], "sent_message") \in Seq(Answers)
        /\ Sent(ws[c], Sending(ws[c], toClient[c], "sent_message"), client[c])
    BY <1>1, <1>2, SentAnswer
  <2>2. toClient' = [toClient EXCEPT ![c] = Sending(ws[c], toClient[c], "sent_message")]
    BY <1>4 DEF handleTextMessage, send, Sending, WInv, Types
  <2>3. /\ toClient' \in [Clients -> Seq(Answers)]
        /\ Sent(ws'[c], toClient'[c], client'[c])
        /\ \A b \in Clients \ {c} : toClient'[b] = toClient[b]
    BY <1>1, <2>1, <2>2 DEF WInv, Types
  <2>4. /\ calls' \in [Clients -> Seq(Methods)] /\ Told(ws'[c], calls'[c])
        /\ \A b \in Clients \ {c} : calls'[b] = calls[b]
    BY <1>3, <1>4 DEF handleTextMessage
  <2>5. Types'
    BY <1>1, <2>3, <2>4 DEF WInv, Types
  <2> QED BY <1>1, <2>3, <2>4, <2>5, StepWInv
<1>5. CASE SwallowGarbage(c)
  <2>1. UNCHANGED <<toClient, calls>>
    BY <1>5 DEF SwallowGarbage
  <2>2. Types'
    BY <1>1, <2>1 DEF WInv, Types
  <2> QED BY <1>1, <1>2, <2>1, <2>2, StepWInv
<1>6. CASE handlePongMessage(c)
  <2>1. /\ calls' \in [Clients -> Seq(Methods)] /\ Told(ws'[c], calls'[c])
        /\ \A b \in Clients \ {c} : calls'[b] = calls[b]
    BY <1>3, <1>6 DEF handlePongMessage
  <2>2. toClient' = toClient
    BY <1>6 DEF handlePongMessage
  <2>3. Types'
    BY <1>1, <2>1, <2>2 DEF WInv, Types
  <2> QED BY <1>1, <1>2, <2>1, <2>2, <2>3, StepWInv
<1> QED BY <1>4, <1>5, <1>6

\* A frame that is refused closes the connection.
LEMMA RefuseBinaryWInv == ASSUME WInv, NEW c \in Clients, RefuseBinary(c) PROVE WInv'
<1>1. /\ toServer' \in [Clients -> Seq(Frames)] /\ ws[c] \in {"OPEN", "CLOSING"}
      /\ UNCHANGED <<client, sent, code>> /\ calls' = calls
  BY ArrivesTypes DEF RefuseBinary
<1>2. /\ toClient[c] \in Seq(Answers) /\ calls[c] \in Seq(Methods)
      /\ Told(ws[c], calls[c]) /\ Sent(ws[c], toClient[c], client[c])
  BY Connection
<1>3. ws' = [ws EXCEPT ![c] = "CLOSING"]
  <2>1. ws' = [ws EXCEPT ![c] = IF ws[c] = "OPEN" THEN "CLOSING" ELSE ws[c]]
    BY DEF RefuseBinary, close
  <2> QED BY <1>1, <2>1
<1>4. toClient' = [toClient EXCEPT ![c] = Sending(ws[c], toClient[c], "close")]
  BY DEF RefuseBinary, close, send, Sending, WInv, Types
<1>5. /\ Sending(ws[c], toClient[c], "close") \in Seq(Answers)
      /\ Sent("CLOSING", Sending(ws[c], toClient[c], "close"), client[c])
  BY <1>1, <1>2, SentClose
<1>6. Told("CLOSING", calls[c])
  BY <1>1, <1>2, ToldNothing
<1>7. /\ ws'[c] = "CLOSING" /\ toClient'[c] = Sending(ws[c], toClient[c], "close")
      /\ \A b \in Clients \ {c} : ws'[b] = ws[b] /\ toClient'[b] = toClient[b]
  BY <1>3, <1>4 DEF WInv, Types
<1>8. Types'
  BY <1>1, <1>3, <1>4, <1>5 DEF WInv, Types
<1> QED BY <1>1, <1>5, <1>6, <1>7, <1>8, StepWInv

\* Every code with which a connection can end is one that CloseStatus takes.
LEMMA CodesAreValid == ASSUME NEW n \in Codes \cup {1005, 1006} PROVE validateCode(n)
  BY CodesAssumption DEF validateCode

\* The end of a connection, and what was sent in answer.
LEMMA ClosedWInv ==
  ASSUME WInv, NEW c \in Clients, ws[c] \in {"OPEN", "CLOSING"},
         client' = client, sent' = sent, code' = code,
         toServer' \in [Clients -> Seq(Frames)],
         ws' = [ws EXCEPT ![c] = "CLOSED"],
         calls' = [calls EXCEPT ![c] = Append(calls[c], "afterConnectionClosed")],
         toClient' = [toClient EXCEPT ![c] = Sending(ws[c], toClient[c], "close")]
  PROVE  WInv'
<1> DEFINE called == Append(calls[c], "afterConnectionClosed")
<1>1. calls' = [calls EXCEPT ![c] = called]
  OBVIOUS
<1>2. /\ toClient[c] \in Seq(Answers) /\ calls[c] \in Seq(Methods)
      /\ Told(ws[c], calls[c]) /\ Sent(ws[c], toClient[c], client[c])
  BY Connection
<1>3. called \in Seq(Methods) /\ Told("CLOSED", called)
  BY <1>2, ToldClosed
<1> HIDE DEF called
<1>4. /\ Sending(ws[c], toClient[c], "close") \in Seq(Answers)
      /\ Sent("CLOSED", Sending(ws[c], toClient[c], "close"), client[c])
  BY <1>2, SentClose
<1>5. /\ ws'[c] = "CLOSED" /\ calls'[c] = called
      /\ toClient'[c] = Sending(ws[c], toClient[c], "close")
      /\ \A b \in Clients \ {c} : ws'[b] = ws[b] /\ toClient'[b] = toClient[b]
                                  /\ calls'[b] = calls[b]
  BY <1>1 DEF WInv, Types
<1>6. Types'
  BY <1>1, <1>3, <1>4 DEF WInv, Types
<1> QED BY <1>3, <1>4, <1>5, <1>6, StepWInv

\* The close frame of the peer, or its time out.
LEMMA EndWInv ==
  ASSUME WInv, NEW c \in Clients, afterConnectionClosed(c) \/ CloseTimeout(c)
  PROVE  WInv'
<1>1. CASE afterConnectionClosed(c)
  <2>1. toServer' \in [Clients -> Seq(Frames)]
    BY <1>1, ArrivesTypes DEF afterConnectionClosed
  <2>2. /\ ws[c] \in {"OPEN", "CLOSING"} /\ client' = client /\ sent' = sent /\ code' = code
        /\ send(c, "close") /\ Closed(c, code[c])
    BY <1>1 DEF afterConnectionClosed, Arrives
  <2>3. toClient' = [toClient EXCEPT ![c] = Sending(ws[c], toClient[c], "close")]
    BY <2>2 DEF send, Sending, WInv, Types
  <2>4. code[c] \in Codes \cup {1005, 1006}
    BY DEF WInv, Types
  <2>5. validateCode(code[c])
    BY <2>4, CodesAreValid
  <2>6. /\ ws' = [ws EXCEPT ![c] = "CLOSED"]
        /\ calls' = [calls EXCEPT ![c] = Append(calls[c], "afterConnectionClosed")]
    BY <2>2, <2>5 DEF Closed, Call
  <2> QED BY <2>1, <2>2, <2>3, <2>6, ClosedWInv
<1>2. CASE CloseTimeout(c)
  <2>1. /\ ws[c] = "CLOSING" /\ Closed(c, 1006) /\ toServer' = toServer /\ toClient' = toClient
        /\ client' = client /\ sent' = sent /\ code' = code
    BY <1>2 DEF CloseTimeout
  <2>2. toServer' \in [Clients -> Seq(Frames)]
    BY <2>1 DEF WInv, Types
  <2>3. toClient' = [toClient EXCEPT ![c] = Sending(ws[c], toClient[c], "close")]
    BY <2>1 DEF Sending, WInv, Types
  <2>4. validateCode(1006)
    BY CodesAreValid
  <2>5. /\ ws' = [ws EXCEPT ![c] = "CLOSED"]
        /\ calls' = [calls EXCEPT ![c] = Append(calls[c], "afterConnectionClosed")]
    BY <2>1, <2>4 DEF Closed, Call
  <2> QED BY <2>1, <2>2, <2>3, <2>5, ClosedWInv
<1> QED BY <1>1, <1>2



\* A client that sends something: its frames are frames.
LEMMA SendTypes ==
  ASSUME WInv, NEW c \in Clients, NEW frame \in Frames, Send(c, frame)
  PROVE  toServer' \in [Clients -> Seq(Frames)]
<1>1. Append(toServer[c], frame) \in Seq(Frames)
  BY Connection, Appended
<1> QED BY <1>1 DEF Send, WInv, Types

\* A client connects, sends and closes: nothing that the service or the client sees.
LEMMA ClientSendsWInv ==
  ASSUME WInv, NEW c \in Clients,
         \/ \E asked \in Paths : Connect(c, asked)
         \/ \E frame \in Commands : SendFrame(c, frame)
         \/ \E n \in Codes : Close(c, n)
  PROVE  WInv'
<1>1. UNCHANGED <<ws, toClient, calls>>
  BY DEF Connect, SendFrame, Close
<1>2. /\ toServer' \in [Clients -> Seq(Frames)]
      /\ sent' \in [Clients -> 0..MaxFrames]
      /\ code' \in [Clients -> Codes \cup {1005}]
      /\ (\/ client' = client
          \/ \E state \in {"CONNECTING", "CLOSING"} : client' = [client EXCEPT ![c] = state])
  <2>1. CASE \E asked \in Paths : Connect(c, asked)
    BY <2>1, SendTypes DEF Connect, Frames, WInv, Types
  <2>2. CASE \E frame \in Commands : SendFrame(c, frame)
    <3>1. PICK frame \in Commands : SendFrame(c, frame)
      BY <2>2
    <3>2. toServer' \in [Clients -> Seq(Frames)]
      BY <3>1, SendTypes DEF SendFrame, Frames
    <3>3. sent[c] + 1 \in 0..MaxFrames
      BY <3>1, FramesAssumption DEF SendFrame, WInv, Types
    <3> QED BY <3>1, <3>2, <3>3 DEF SendFrame, WInv, Types
  <2>3. CASE \E n \in Codes : Close(c, n)
    BY <2>3, SendTypes DEF Close, Frames, WInv, Types
  <2> QED BY <2>1, <2>2, <2>3
<1>3. /\ client' \in [Clients ->
           {"none", "CONNECTING", "OPEN", "CLOSING", "CLOSED", "GONE"}]
      /\ (client'[c] = client[c] \/ client'[c] # "CLOSED")
      /\ \A b \in Clients \ {c} : client'[b] = client[b]
  <2>1. CASE client' = client
    BY <2>1 DEF WInv, Types
  <2>2. CASE \E state \in {"CONNECTING", "CLOSING"} : client' = [client EXCEPT ![c] = state]
    BY <2>2 DEF WInv, Types
  <2> QED BY <1>2, <2>1, <2>2
<1>4. Types'
  BY <1>1, <1>2, <1>3 DEF WInv, Types
<1>5. Told(ws[c], calls[c]) /\ Sent(ws[c], toClient[c], client[c])
  BY Connection
<1>6. Sent(ws[c], toClient[c], client'[c])
  BY <1>3, <1>5 DEF Sent
<1> QED BY <1>1, <1>3, <1>4, <1>5, <1>6, StepWInv

\* A client takes a frame; if it is a close frame, that was the last.
LEMMA ReceiveWInv == ASSUME WInv, NEW c \in Clients, Receive(c) PROVE WInv'
<1> DEFINE state == CASE Head(toClient[c]) = "upgraded" -> "OPEN"
                      [] Head(toClient[c]) = "close" -> "CLOSED"
                      [] OTHER -> client[c]
<1>1. /\ client[c] \in {"CONNECTING", "OPEN", "CLOSING"} /\ toClient[c] # <<>>
      /\ toClient' = [toClient EXCEPT ![c] = Tail(toClient[c])]
      /\ client' = [client EXCEPT ![c] = state]
      /\ UNCHANGED <<ws, sent, code, calls>>
  BY DEF Receive, WInv, Types
<1>2. /\ toClient[c] \in Seq(Answers) /\ Told(ws[c], calls[c])
      /\ Sent(ws[c], toClient[c], client[c])
  BY Connection
<1>3. Tail(toClient[c]) \in Seq(Answers) /\ Head(toClient[c]) \in Answers
  BY <1>1, <1>2, Taken
<1>4. /\ state \in {"CONNECTING", "OPEN", "CLOSING", "CLOSED"}
      /\ state = "CLOSED" => Head(toClient[c]) = "close"
  BY <1>1, <1>3 DEF Answers
<1> HIDE DEF state
<1>5. Sent(ws[c], Tail(toClient[c]), state)
  BY <1>1, <1>2, <1>4, SentTaken
<1>6. toServer' \in [Clients -> Seq(Frames)]
  <2>1. CASE Send(c, "close")
    BY <2>1, SendTypes DEF Frames
  <2>2. CASE UNCHANGED toServer
    BY <2>2 DEF WInv, Types
  <2> QED BY <2>1, <2>2 DEF Receive
<1>7. Types'
  BY <1>1, <1>3, <1>4, <1>6 DEF WInv, Types
<1>8. /\ client'[c] = state /\ toClient'[c] = Tail(toClient[c])
      /\ \A b \in Clients \ {c} : client'[b] = client[b] /\ toClient'[b] = toClient[b]
  BY <1>1 DEF WInv, Types
<1> QED BY <1>1, <1>2, <1>5, <1>7, <1>8, StepWInv

\* A client vanishes.
LEMMA VanishWInv == ASSUME WInv, NEW c \in Clients, Vanish(c) PROVE WInv'
<1>1. client' = [client EXCEPT ![c] = "GONE"] /\ UNCHANGED <<ws, toClient, sent, code, calls>>
  BY DEF Vanish
<1>2. PICK kept \in 0..Len(toServer[c]) :
        toServer' = [toServer EXCEPT ![c] = SubSeq(toServer[c], 1, kept)]
  BY DEF Vanish, WInv, Types
<1>3. SubSeq(toServer[c], 1, kept) \in Seq(Frames)
  BY Connection, Kept
<1>4. Types'
  BY <1>1, <1>2, <1>3 DEF WInv, Types
<1>5. client'[c] = "GONE" /\ \A b \in Clients \ {c} : client'[b] = client[b]
  BY <1>1 DEF WInv, Types
<1>6. Told(ws[c], calls[c]) /\ Sent(ws[c], toClient[c], "GONE")
  BY Connection DEF Sent
<1> QED BY <1>1, <1>4, <1>5, <1>6, StepWInv

------------------------------------------------------------------------------
(* Theorems.                                                                *)

\* It holds before anybody has connected.
LEMMA InitWInv == Init => WInv
<1> SUFFICES ASSUME Init PROVE WInv
  OBVIOUS
<1>1. Types
  BY FramesAssumption DEF Init, Types
<1>2. ASSUME NEW c \in Clients
      PROVE  Told(ws[c], calls[c]) /\ Sent(ws[c], toClient[c], client[c])
  <2>1. ws[c] = "none" /\ calls[c] = <<>> /\ toClient[c] = <<>> /\ client[c] = "none"
    BY DEF Init
  <2> QED BY <2>1 DEF Told, Sent
<1> QED BY <1>1, <1>2 DEF WInv

\* Every step keeps it.
LEMMA NextWInv == WInv /\ [Next]_vars => WInv'
<1> SUFFICES ASSUME WInv, [Next]_vars PROVE WInv'
  OBVIOUS
<1>1. ASSUME NEW c \in Clients, ServerStep(c) PROVE WInv'
  BY <1>1, upgradeWInv, MessageWInv, RefuseBinaryWInv, EndWInv DEF ServerStep
<1>2. ASSUME NEW c \in Clients,
             \/ \E asked \in Paths : Connect(c, asked)
             \/ \E frame \in Commands : SendFrame(c, frame)
             \/ \E n \in Codes : Close(c, n)
             \/ Receive(c) \/ Vanish(c)
      PROVE  WInv'
  BY <1>2, ClientSendsWInv, ReceiveWInv, VanishWInv
<1>3. CASE UNCHANGED vars
  BY <1>3 DEF vars, WInv, Types
<1> QED BY <1>1, <1>2, <1>3 DEF Next

\* Whatever both ends do at once, the invariant holds.
THEOREM SessionInvariance == Spec => []WInv
<1> QED BY InitWInv, NextWInv, PTL DEF Spec

\* The ends of each connection and what is under way between them keep their types.
THEOREM SessionTypeCorrect == Spec => []TypeOK
<1>1. WInv => TypeOK
  <2> SUFFICES ASSUME WInv PROVE TypeOK
    OBVIOUS
  <2>1. ASSUME NEW c \in Clients
        PROVE  /\ ToSet(toServer[c]) \subseteq Paths \cup Commands \cup {"close"}
               /\ ToSet(toClient[c]) \subseteq {"upgraded", "sent_message", "close"}
    <3>1. toServer[c] \in Seq(Frames) /\ toClient[c] \in Seq(Answers)
      BY Connection
    <3> QED BY <3>1 DEF ToSet, Frames, Answers
  <2> QED BY <2>1 DEF WInv, Types, TypeOK
<1> QED BY <1>1, SessionInvariance, PTL

\* A service sees each connection established, then its messages, then closed, once and
\* with any code (abstract-web-socket-handler.ts, close-status.ts).
THEOREM ServiceIsCalledInOrder == Spec => []CallsInOrder
<1>1. WInv => CallsInOrder
  <2> SUFFICES ASSUME WInv, NEW c \in Clients, NEW i \in DOMAIN calls[c]
               PROVE  /\ i = 1 <=> calls[c][i] = "afterConnectionEstablished"
                      /\ i = Len(calls[c]) /\ ws[c] = "CLOSED"
                           <=> calls[c][i] = "afterConnectionClosed"
    BY DEF CallsInOrder
  <2>1. Told(ws[c], calls[c]) /\ i \in 1..Len(calls[c])
    BY Connection
  <2> QED BY <2>1 DEF Told
<1> QED BY <1>1, SessionInvariance, PTL

\* A client is told once that its connection closes, and nothing after that
\* (event-web-socket-handler.ts).
THEOREM CloseFrameIsLast == Spec => []ClosedIsLast
<1>1. WInv => ClosedIsLast
  <2> SUFFICES ASSUME WInv, NEW c \in Clients, NEW i \in DOMAIN toClient[c],
                      toClient[c][i] = "close"
               PROVE  i = Len(toClient[c]) /\ client[c] # "CLOSED"
    BY DEF ClosedIsLast
  <2>1. Sent(ws[c], toClient[c], client[c]) /\ i \in 1..Len(toClient[c])
    BY Connection
  <2> QED BY <2>1 DEF Sent
<1> QED BY <1>1, SessionInvariance, PTL
================================================================================
