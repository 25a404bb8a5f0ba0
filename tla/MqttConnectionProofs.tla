------------------------- MODULE MqttConnectionProofs -------------------------
(* More theorems about MqttClient: which packets go out on a connection and  *)
(* when, how it is closed, and what its disconnect callback and its options  *)
(* are about.                                                                *)
EXTENDS MqttClientProofs, FiniteSetTheorems

-----------------------------------------------------------------------------
(* Who sends what, and when.                                               *)

Sends(packet) ==
    xioHandle \in Xio /\ wire' = [wire EXCEPT ![xioHandle] = Append(@, packet)]

InSession(packet) ==
    /\ Open(xioHandle) /\ UNCHANGED xio
    /\ \/ packet \in {"DISCONNECT", "PINGREQ"} /\ ClientUp
       \/ packet \in SendTypes \cup Ack /\ (BelievesConnected \/ "send_anytime" \in AppMay)
       \/ packet \in Reply /\ In(packet, stack)

LEMMA ItemSent ==
    ASSUME NEW up, NEW packet, NEW ok, sendPacketItem(up, packet, ok), up => xioHandle \in Xio
    PROVE  UNCHANGED wire \/ (up /\ Sends(packet))
BY DEF sendPacketItem, Sends

LEMMA ReplySent ==
    ASSUME NEW packet, NEW rest, SendReplyPacket(packet, rest)
    PROVE  UNCHANGED wire \/ (Open(xioHandle) /\ Sends(packet))
<1>1. CASE UNCHANGED wire
  BY <1>1
<1>2. CASE \E ok \in BOOLEAN : sendPacketItem(Open(xioHandle), packet, ok)
  BY <1>2, ItemSent DEF Open
<1>3. QED
  BY <1>1, <1>2 DEF SendReplyPacket

LEMMA AppSends ==
    ASSUME TypeOK, App
    PROVE  UNCHANGED wire \/ \E packet \in Packet \ {"CONNECT"} : Sends(packet) /\ InSession(packet)
<1>1. CASE \E x \in Xio : Connect(x) \/ Release(x)
  BY <1>1 DEF Connect, Release
<1>2. ASSUME NEW packet \in AppPackets, Send(packet)
      PROVE  UNCHANGED wire \/ (Sends(packet) /\ InSession(packet) /\ packet \in SendTypes)
  <2>1. PICK ok \in BOOLEAN : sendPacketItem(Open(xioHandle), packet, ok)
    BY <1>2 DEF Send
  <2>2. UNCHANGED wire \/ (Open(xioHandle) /\ Sends(packet))
    BY <2>1, ItemSent DEF Open
  <2>3. UNCHANGED xio /\ (BelievesConnected \/ "send_anytime" \in AppMay)
    BY <1>2 DEF Send
  <2>4. packet \in SendTypes
    BY ConstantsAssumption
  <2>5. QED
    BY <2>2, <2>3, <2>4 DEF InSession
<1>3. ASSUME NEW packet \in Ack, mqtt_client_send_message_response(packet)
      PROVE  UNCHANGED wire \/ (Sends(packet) /\ InSession(packet))
  BY <1>3, ReplySent DEF mqtt_client_send_message_response, InSession
<1>4. CASE mqtt_client_disconnect
  <2>1. CASE UNCHANGED wire
    BY <2>1
  <2>2. CASE ClientUp /\ \E ok \in BOOLEAN : sendPacketItem(Open(xioHandle), "DISCONNECT", ok)
    <3>1. UNCHANGED wire \/ (Open(xioHandle) /\ Sends("DISCONNECT"))
      BY <2>2, ItemSent DEF Open
    <3>2. UNCHANGED xio
      BY <1>4 DEF mqtt_client_disconnect
    <3>3. QED
      BY <2>2, <3>1, <3>2 DEF InSession, Packet
  <2>3. QED
    BY <1>4, <2>1, <2>2 DEF mqtt_client_disconnect, DisconnectConnected, DisconnectUnconnected
<1>5. SendTypes \cup Ack \subseteq Packet \ {"CONNECT"}
  BY DEF Packet, SendTypes, Reply, Ack
<1>6. QED
  BY <1>1, <1>2, <1>3, <1>4, <1>5 DEF App

LEMMA FramesSend ==
    ASSUME TypeOK, Frames
    PROVE  UNCHANGED wire \/ \E packet \in Packet \ {"CONNECT"} : Sends(packet) /\ InSession(packet)
<1>1. CASE SendReply
  <2>1. PICK packet \in Reply : Top(packet) /\ SendReplyPacket(packet, Tail(stack))
    BY <1>1 DEF SendReply
  <2>2. In(packet, stack)
    BY <2>1, InTail DEF Top, TypeOK
  <2>3. UNCHANGED xio /\ packet \in Packet \ {"CONNECT"}
    BY <1>1 DEF SendReply, Packet, Reply, Ack
  <2>4. QED
    BY <2>1, <2>2, <2>3, ReplySent DEF InSession
<1>2. CASE ~SendReply
  BY <1>2 DEF Frames, close_connection, DropXio, clear_mqtt_options, PingReset, ClearPending, Return,
              SetClientConnected, SetPendingClose, DeliverSuback, BytesRead, network
<1>3. QED
  BY <1>1, <1>2

LEMMA WorkSends ==
    ASSUME TypeOK, DoWork
    PROVE  UNCHANGED wire \/ \E packet \in Packet \ {"CONNECT"} : Sends(packet) /\ InSession(packet)
<1>1. CASE UNCHANGED wire
  BY <1>1
<1>2. CASE KeepAlive /\ KeepAliveArmed /\ PingDue
  <2>1. PICK ok \in BOOLEAN : sendPacketItem(Open(xioHandle), "PINGREQ", ok)
    BY <1>2 DEF PingDue
  <2>2. UNCHANGED wire \/ (Open(xioHandle) /\ Sends("PINGREQ"))
    BY <2>1, ItemSent DEF Open
  <2>3. UNCHANGED xio /\ ClientUp
    BY <1>2 DEF KeepAlive, KeepAliveArmed
  <2>4. QED
    BY <2>2, <2>3 DEF InSession, Packet
<1>3. QED
  BY <1>1, <1>2 DEF DoWork, mqtt_client_dowork, KeepAlive, PingOverdue, network

\* CONNECT is sent by onOpenComplete; every other packet on an open xio, by mqtt_client_disconnect
\* and mqtt_client_dowork with CLIENT_CONNECTED, by the application's calls, or as the answer that
\* a handler still has to send.
LEMMA Senders ==
    ASSUME TypeOK, [Next]_vars
    PROVE  \/ UNCHANGED wire
           \/ Sends("CONNECT") /\ \E x \in Xio : OpenOk(x) /\ StartSession(x)
           \/ \E packet \in Packet \ {"CONNECT"} : Sends(packet) /\ InSession(packet)
<1>1. CASE UNCHANGED vars
  BY <1>1 DEF vars, network
<1>2. CASE App \/ Frames \/ DoWork
  BY <1>2, AppSends, FramesSend, WorkSends
<1>3. ASSUME NEW x \in Xio, Events(x) \/ Broker(x) \/ SendComplete(x)
      PROVE  UNCHANGED wire \/ (Sends("CONNECT") /\ OpenOk(x) /\ StartSession(x))
  <2>1. CASE OpenOk(x) /\ StartSession(x)
    <3> DEFINE up == xioHandle = x \/ Open(xioHandle)
    <3>1. UNCHANGED wire \/ \E ok \in BOOLEAN : sendPacketItem(up, "CONNECT", ok)
      BY <2>1 DEF StartSession
    <3>2. up => xioHandle \in Xio
      BY DEF Open
    <3> HIDE DEF up
    <3>3. QED
      BY <2>1, <3>1, <3>2, ItemSent
  <2>2. CASE ~(OpenOk(x) /\ StartSession(x))
    BY <1>3, <2>2
    DEF Events, Broker, OpenOk, OpenError, RefuseOpen, ReportOpenError, SendComplete, SendFailed, onIoError,
        on_connection_closed, RecvConnack, RecvPublish, RecvPublishAck, RecvSubscribeAck,
        RecvPingresp, RecvMalformed, RecvInvalidSuback, BytesRejected, network
  <2>3. QED
    BY <2>1, <2>2
<1>4. QED
  BY <1>1, <1>2, <1>3 DEF Next

-----------------------------------------------------------------------------
(* Nothing but CONNECT before the broker answered it.                      *)

\* What a handler still does only on a connection that was accepted.
AnswerFrames == Reply \cup {"accept"}
Accepted == \E x \in Xio : connack[x] = "accepted"
NoAnswer(frames) == \A frame \in AnswerFrames : ~In(frame, frames)
NoNewAnswer == \A frame \in AnswerFrames : In(frame, stack') => In(frame, stack)

LEMMA PlainFrames ==
    /\ NoAnswer(<<>>) /\ NoAnswer(<<"app">>) /\ NoAnswer(<<"bytes">>)
    /\ NoAnswer(set_error_callback) /\ NoAnswer(disconnectCallback)
    /\ NoAnswer(set_error_callback \o <<"ping_reset">>) /\ NoAnswer(set_error_callback \o <<"suback">>)
    /\ NoAnswer(<<"close", "clear_opts">>) /\ NoAnswer(<<"close", "clear_pending">>)
    /\ NoAnswer(<<"app", "drop_xio">>) /\ NoAnswer(<<"app", "pend">>)
BY DEF NoAnswer, In, AnswerFrames, Reply, Ack, set_error_callback, disconnectCallback

LEMMA CallPlain ==
    ASSUME NEW frames \in Seq(Frame), stack \in Seq(Frame), Call(frames), NoAnswer(frames)
    PROVE  NoNewAnswer
BY CallStack DEF NoAnswer, NoNewAnswer

LEMMA BecomePlain ==
    ASSUME NEW frames \in Seq(Frame), stack \in Seq(Frame), stack # <<>>, Become(frames),
           NoAnswer(frames)
    PROVE  NoNewAnswer
BY BecomeStack DEF NoAnswer, NoNewAnswer

LEMMA ReplyPlain ==
    ASSUME NEW packet \in Reply, NEW rest \in Seq(Frame), SendReplyPacket(packet, rest),
           \A frame \in AnswerFrames : In(frame, rest) => In(frame, stack)
    PROVE  NoNewAnswer
<1>1. stack' = rest \/ stack' = set_error_callback \o rest
  BY DEF SendReplyPacket
<1>2. \A frame : In(frame, set_error_callback \o rest)
                    <=> In(frame, set_error_callback) \/ In(frame, rest)
  BY FramesType, InConcat
<1>3. QED
  BY <1>1, <1>2, PlainFrames DEF NoAnswer, NoNewAnswer

LEMMA AppPlain ==
    ASSUME TypeOK, App
    PROVE  NoNewAnswer
<1>1. stack \in Seq(Frame)
  BY DEF TypeOK
<1>2. CASE UNCHANGED stack
  BY <1>2 DEF NoNewAnswer
<1>3. ASSUME NEW packet \in Ack, mqtt_client_send_message_response(packet) PROVE NoNewAnswer
  <2>1. packet \in Reply /\ SendReplyPacket(packet, stack)
    BY <1>3 DEF mqtt_client_send_message_response, Reply
  <2>2. QED
    BY <1>1, <2>1, ReplyPlain
<1>4. CASE Call(<<"close", "clear_opts">>)
  BY <1>1, <1>4, CallPlain, FramesType, PlainFrames
<1>5. QED
  BY <1>2, <1>3, <1>4 DEF App, Connect, Release, Send, mqtt_client_disconnect, DisconnectConnected,
                          DisconnectUnconnected, control

LEMMA LongTail ==
    ASSUME NEW s \in Seq(Frame), Len(s) > 1
    PROVE  s # <<>> /\ Tail(s) # <<>> /\ Head(Tail(s)) = s[2]
<1>1. s # <<>> /\ Len(s) \in Nat
  BY LenProperties
<1>2. Tail(s) \in Seq(Frame) /\ Len(Tail(s)) = Len(s) - 1 /\ Tail(s)[1] = s[2]
  BY <1>1, HeadTailProperties
<1>3. Len(Tail(s)) # 0
  BY <1>1, <1>2
<1>4. ASSUME Tail(s) = <<>> PROVE FALSE
  BY <1>3, <1>4, EmptySeq
<1>5. QED
  BY <1>1, <1>2, <1>4

LEMMA FramesPlain ==
    ASSUME TypeOK, Frames
    PROVE  NoNewAnswer
<1>1. stack \in Seq(Frame) /\ stack # <<>>
  BY DEF TypeOK, Frames, Top, clear_mqtt_options, PingReset, ClearPending, Return, SetClientConnected,
         SetPendingClose, DeliverSuback, SendReply, BytesRead, DropXio, close_connection
<1>2. Tail(stack) \in Seq(Frame)
  BY <1>1, HeadTailProperties
<1>3. \A frame : In(frame, Tail(stack)) => In(frame, stack)
  BY <1>1, InTail
<1>4. ASSUME NEW frames \in {<<>>, <<"app">>, <<"app", "drop_xio">>, disconnectCallback}, Become(frames)
      PROVE  NoNewAnswer
  <2>1. frames \in Seq(Frame) /\ NoAnswer(frames)
    BY FramesType, PlainFrames
  <2>2. QED
    BY <1>1, <1>4, <2>1, BecomePlain
<1>5. CASE Return /\ Len(stack) > 1 /\ stack' = Tail(Tail(stack))
  <2>1. Tail(stack) # <<>>
    BY <1>1, <1>5, LongTail
  <2>2. \A frame : In(frame, Tail(Tail(stack))) => In(frame, Tail(stack))
    BY <1>2, <2>1, InTail
  <2>3. QED
    BY <1>3, <1>5, <2>2 DEF NoNewAnswer
<1>6. CASE SendReply
  <2>1. PICK packet \in Reply : SendReplyPacket(packet, Tail(stack))
    BY <1>6 DEF SendReply
  <2>2. QED
    BY <1>2, <1>3, <2>1, ReplyPlain
<1>7. CASE ~SendReply
  BY <1>4, <1>5, <1>7
  DEF Frames, clear_mqtt_options, PingReset, ClearPending, Return, SetClientConnected,
      SetPendingClose, DeliverSuback, BytesRead, DropXio, close_connection, CloseSocket, CloseLater,
      CloseAtOnce, CloseUnconnected
<1>8. QED
  BY <1>6, <1>7

LEMMA WorkPlain ==
    ASSUME TypeOK, DoWork
    PROVE  NoNewAnswer
<1>1. stack \in Seq(Frame)
  BY DEF TypeOK
<1>2. \/ UNCHANGED stack \/ Call(<<"close", "clear_pending">>)
      \/ Call(set_error_callback) \/ Call(set_error_callback \o <<"ping_reset">>)
  BY DEF DoWork, mqtt_client_dowork, KeepAlive, PingOverdue, PingDue
<1>3. CASE UNCHANGED stack
  BY <1>3 DEF NoNewAnswer
<1>4. QED
  BY <1>1, <1>2, <1>3, CallPlain, FramesType, PlainFrames

\* The only answers that are added belong to a packet of an accepted connection.
LEMMA EventsPlain ==
    ASSUME TypeOK, NEW x \in Xio, Events(x) \/ Broker(x) \/ SendComplete(x)
    PROVE  NoNewAnswer \/ connack'[x] = "accepted"
<1>1. stack \in Seq(Frame)
  BY DEF TypeOK
<1>2. ASSUME NEW frames \in Seq(Frame), Deliver(x, frames), NoAnswer(frames) PROVE NoNewAnswer
  <2>1. stack' = frames \o Rest /\ Rest \in Seq(Frame)
    BY <1>2, RestType DEF Deliver, Rest
  <2>2. \A frame \in AnswerFrames : In(frame, Rest) => In(frame, stack)
    BY PlainFrames DEF Rest, NoAnswer
  <2>3. \A frame : In(frame, stack') <=> In(frame, frames) \/ In(frame, Rest)
    BY <2>1, InConcat
  <2>4. QED
    BY <1>2, <2>2, <2>3 DEF NoAnswer, NoNewAnswer
<1>3. CASE BytesRejected(x)
  <2>1. CASE stack = <<>>
    BY <1>1, <1>3, <2>1, CallPlain, FramesType, PlainFrames DEF BytesRejected
  <2>2. CASE stack # <<>>
    BY <1>1, <1>3, <2>2, BecomePlain, FramesType, PlainFrames DEF BytesRejected
  <2>3. QED
    BY <2>1, <2>2
<1>4. CASE RecvConnack(x)
  <2>1. connack'[x] = "accepted" \/ Deliver(x, <<"app">>)
    BY <1>4 DEF RecvConnack, TypeOK
  <2>2. QED
    BY <1>2, <2>1, FramesType, PlainFrames
<1>5. CASE RecvMalformed(x)
  BY <1>2, <1>5, FramesType, PlainFrames DEF RecvMalformed
<1>6. CASE Broker(x) /\ ~BytesRejected(x) /\ ~RecvConnack(x) /\ ~RecvMalformed(x)
  BY <1>6 DEF Broker, RecvPublish, RecvPublishAck, RecvSubscribeAck, RecvPingresp, RecvInvalidSuback,
              Established, history
<1>7. CASE Events(x) \/ SendComplete(x)
  <2>1. \/ UNCHANGED stack \/ Call(<<"app", "pend">>) \/ Call(set_error_callback)
        \/ Call(disconnectCallback)
    BY <1>7 DEF Events, OpenOk, OpenError, StartSession, RefuseOpen, ReportOpenError, SendComplete,
                SendFailed, onIoError, on_connection_closed
  <2>2. CASE UNCHANGED stack
    BY <2>2 DEF NoNewAnswer
  <2>3. QED
    BY <1>1, <2>1, <2>2, CallPlain, FramesType, PlainFrames
<1>8. QED
  BY <1>3, <1>4, <1>5, <1>6, <1>7

LEMMA AnswerStep ==
    ASSUME TypeOK, [Next]_vars
    PROVE  /\ \A x \in Xio : connack[x] # "none" => connack'[x] = connack[x]
           /\ NoNewAnswer \/ Accepted'
           /\ ClientUp' => ClientUp \/ In("accept", stack)
<1>1. NoNewAnswer \/ Accepted'
  <2>1. CASE UNCHANGED vars
    BY <2>1 DEF vars, control, NoNewAnswer
  <2>2. QED
    BY <2>1, AppPlain, FramesPlain, WorkPlain, EventsPlain DEF Next, Accepted
<1>2. \A x \in Xio : connack[x] # "none" => connack'[x] = connack[x]
  <2>1. CASE \E x \in Xio : RecvConnack(x)
    BY <2>1 DEF RecvConnack, TypeOK
  <2>2. CASE UNCHANGED connack
    BY <2>2
  <2>3. QED
    BY <2>1, <2>2
    DEF Next, App, Frames, DoWork, Events, Broker, Connect, Release, Send, mqtt_client_send_message_response,
        mqtt_client_disconnect, clear_mqtt_options, PingReset, ClearPending, Return, SetClientConnected,
        SetPendingClose, DeliverSuback, SendReply, BytesRead, DropXio, close_connection,
        mqtt_client_dowork, KeepAlive, OpenOk, OpenError, SendComplete, SendFailed, onIoError,
        on_connection_closed, RecvPublish, RecvPublishAck, RecvSubscribeAck, RecvPingresp,
        RecvMalformed, RecvInvalidSuback, BytesRejected, history, vars
<1>3. ClientUp' => ClientUp \/ In("accept", stack)
  <2>1. CASE SetClientConnected
    BY <2>1, InTail DEF SetClientConnected, Top, TypeOK
  <2>2. CASE mqtt_status' \subseteq mqtt_status \cup {"SOCKET_CONNECTED", "PENDING_CLOSE"}
    BY <2>2 DEF ClientUp
  <2>3. QED
    BY <2>1, <2>2
    DEF Next, App, Frames, DoWork, Events, Broker, Connect, Release, Send, mqtt_client_send_message_response,
        mqtt_client_disconnect, clear_mqtt_options, PingReset, ClearPending, Return,
        SetPendingClose, DeliverSuback, SendReply, BytesRead, DropXio, close_connection, CloseSocket,
        CloseLater, CloseAtOnce, CloseUnconnected, mqtt_client_dowork, KeepAlive, PingOverdue, PingDue,
        OpenOk, OpenError, StartSession, RefuseOpen, ReportOpenError, SendComplete, SendFailed, onIoError,
        on_connection_closed, RecvConnack, RecvPublish, RecvPublishAck, RecvSubscribeAck, RecvPingresp,
        RecvMalformed, RecvInvalidSuback, BytesRejected, MarkPendingClose, client, vars
<1>4. QED
  BY <1>1, <1>2, <1>3

\* With one connection to a client: nothing is on the wire of an xio that is not open yet, and
\* what a handler sends only after CONNACK waits for it.
Greeted ==
    /\ \A x \in Xio : xio[x] \in {"created", "opening"} => wire[x] = <<>>
    /\ \A x \in Xio : connack[x] # "none" => wire[x] # <<>>
    /\ ClientUp \/ (\E frame \in AnswerFrames : In(frame, stack)) => Accepted
    /\ ConnectFirst
    /\ SessionPacketsAfterConnack

OneConnection == \A x, y \in Xio : x = y

\* The steps that change the state of an xio.
Moves(x) ==
    Connect(x) \/ Release(x) \/ OpenOk(x) \/ OpenError(x) \/ on_connection_closed(x)

LEMMA XioSteps ==
    ASSUME [Next]_vars
    PROVE  UNCHANGED xio \/ close_connection \/ \E x \in Xio : Moves(x)
BY DEF Moves, Next, App, Frames, DoWork, Events, Broker, Send, mqtt_client_send_message_response,
       mqtt_client_disconnect, clear_mqtt_options, PingReset, ClearPending, Return, SetClientConnected,
       SetPendingClose, DeliverSuback, SendReply, BytesRead, DropXio, mqtt_client_dowork, KeepAlive,
       SendComplete, SendFailed, onIoError, RecvConnack, RecvPublish, RecvPublishAck,
       RecvSubscribeAck, RecvPingresp, RecvMalformed, RecvInvalidSuback, BytesRejected, network, vars

LEMMA CloseMoves ==
    ASSUME TypeOK, close_connection
    PROVE  \/ UNCHANGED xio
           \/ /\ SocketUp /\ Closable(xioHandle) /\ xio'[xioHandle] \in {"closing", "closed"}
              /\ \A x \in Xio \ {xioHandle} : xio'[x] = xio[x]
BY DEF close_connection, CloseSocket, CloseLater, CloseAtOnce, CloseUnconnected, Closable, TypeOK

\* An xio that was opened is never opened again.
LEMMA NeverBack ==
    ASSUME TypeOK, [Next]_vars, NEW x \in Xio
    PROVE  /\ xio'[x] = "created" => xio[x] = "created"
           /\ xio'[x] \in {"created", "opening"} => xio[x] \in {"created", "opening"}
<1>1. CASE UNCHANGED xio \/ close_connection
  BY <1>1, CloseMoves
<1>2. CASE \E y \in Xio : Moves(y)
  BY <1>2 DEF Moves, Connect, Connectable, Release, OpenOk, OpenError, on_connection_closed, TypeOK
<1>3. QED
  BY <1>1, <1>2, XioSteps

\* A CONNACK answers a CONNECT that was sent.
LEMMA Answers ==
    ASSUME TypeOK, [Next]_vars, NEW x \in Xio, connack'[x] # "none"
    PROVE  connack[x] # "none" \/ (wire[x] # <<>> /\ UNCHANGED wire)
<1>1. CASE UNCHANGED connack
  BY <1>1
<1>2. ASSUME NEW y \in Xio, RecvConnack(y), y = x PROVE wire[x] # <<>> /\ UNCHANGED wire
  <2>1. PICK i \in 1 .. flushed[x] : wire[x][i] = "CONNECT"
    BY <1>2 DEF RecvConnack, ConnectReceived
  <2>2. flushed[x] \in Nat /\ flushed[x] <= Len(wire[x]) /\ wire[x] \in Seq(Packet)
    BY DEF TypeOK
  <2>3. Len(wire[x]) # 0
    BY <2>1, <2>2, LenProperties
  <2>4. QED
    BY <1>2, <2>2, <2>3, EmptySeq DEF RecvConnack, network
<1>3. ASSUME NEW y \in Xio, RecvConnack(y), y # x PROVE connack'[x] = connack[x]
  BY <1>3 DEF RecvConnack, TypeOK
<1>4. QED
  BY <1>1, <1>2, <1>3
  DEF Next, App, Frames, DoWork, Events, Broker, Connect, Release, Send, mqtt_client_send_message_response,
      mqtt_client_disconnect, clear_mqtt_options, PingReset, ClearPending, Return, SetClientConnected,
      SetPendingClose, DeliverSuback, SendReply, BytesRead, DropXio, close_connection,
      mqtt_client_dowork, KeepAlive, OpenOk, OpenError, SendComplete, SendFailed, onIoError,
      on_connection_closed, RecvPublish, RecvPublishAck, RecvSubscribeAck, RecvPingresp,
      RecvMalformed, RecvInvalidSuback, BytesRejected, history, vars

\* A packet that is sent comes after the others.
LEMMA SentLast ==
    ASSUME TypeOK, NEW packet \in Packet, Sends(packet)
    PROVE  /\ xioHandle \in Xio /\ \A x \in Xio \ {xioHandle} : wire'[x] = wire[x]
           /\ DOMAIN wire'[xioHandle] = 1 .. Len(wire[xioHandle]) + 1
           /\ DOMAIN wire[xioHandle] = 1 .. Len(wire[xioHandle]) /\ Len(wire[xioHandle]) \in Nat
           /\ wire'[xioHandle][Len(wire[xioHandle]) + 1] = packet
           /\ \A i \in 1 .. Len(wire[xioHandle]) : wire'[xioHandle][i] = wire[xioHandle][i]
           /\ wire'[xioHandle] # <<>>
<1>1. wire[xioHandle] \in Seq(Packet) /\ xioHandle \in Xio
  BY DEF Sends, TypeOK
<1>2. wire'[xioHandle] = Append(wire[xioHandle], packet)
  BY <1>1 DEF Sends, TypeOK
<1>3. \A x \in Xio \ {xioHandle} : wire'[x] = wire[x]
  BY DEF Sends, TypeOK
<1>4. QED
  BY <1>1, <1>2, <1>3, AppendProperties, LenProperties, EmptySeq

LEMMA GreetedInit == Init => Greeted
<1> SUFFICES ASSUME Init PROVE Greeted
  OBVIOUS
<1>1. \A x \in Xio : wire[x] = <<>> /\ connack[x] = "none"
  BY DEF Init
<1>2. stack = <<>> /\ ~ClientUp
  BY DEF Init, ClientUp
<1>3. DOMAIN <<>> = {}
  OBVIOUS
<1>4. ConnectFirst /\ SessionPacketsAfterConnack
  BY <1>1, <1>3 DEF ConnectFirst, SessionPacketsAfterConnack
<1>5. QED
  BY <1>1, <1>2, <1>4, PlainFrames DEF Greeted, NoAnswer

LEMMA GreetedNext ==
    ASSUME OneConnection, "send_anytime" \notin AppMay, TypeOK, Greeted, [Next]_vars
    PROVE  Greeted'
<1>1. ClientUp' \/ (\E frame \in AnswerFrames : In(frame, stack')) => Accepted'
  <2>1. Accepted => Accepted'
    BY AnswerStep DEF Accepted
  <2>2. ClientUp' => Accepted'
    BY <2>1, AnswerStep DEF Greeted, AnswerFrames
  <2>3. ASSUME NEW frame \in AnswerFrames, In(frame, stack') PROVE Accepted'
    BY <2>1, <2>3, AnswerStep DEF Greeted, NoNewAnswer
  <2>4. QED
    BY <2>2, <2>3
<1>2. CASE UNCHANGED wire
  <2>1. \A x \in Xio : xio'[x] \in {"created", "opening"} => wire'[x] = <<>>
    BY <1>2, NeverBack DEF Greeted
  <2>2. \A x \in Xio : connack'[x] # "none" => wire'[x] # <<>>
    BY <1>2, Answers DEF Greeted
  <2>3. ConnectFirst'
    BY <1>2 DEF Greeted, ConnectFirst
  <2>4. SessionPacketsAfterConnack'
    BY <1>2, AnswerStep DEF Greeted, SessionPacketsAfterConnack
  <2>5. QED
    BY <1>1, <2>1, <2>2, <2>3, <2>4 DEF Greeted
<1>3. ASSUME NEW packet \in Packet, Sends(packet),
             /\ packet = "CONNECT" <=> wire[xioHandle] = <<>>
             /\ packet \in {"DISCONNECT", "PINGREQ"} => Accepted
             /\ xio'[xioHandle] \notin {"created", "opening"}
      PROVE  Greeted'
  <2> DEFINE w == wire[xioHandle]
             v == wire'[xioHandle]
  <2>1. /\ xioHandle \in Xio /\ \A x \in Xio : x = xioHandle
        /\ DOMAIN v = 1 .. Len(w) + 1 /\ DOMAIN w = 1 .. Len(w) /\ Len(w) \in Nat
        /\ v[Len(w) + 1] = packet /\ (\A i \in 1 .. Len(w) : v[i] = w[i])
        /\ v # <<>>
    BY <1>3, SentLast DEF OneConnection
  <2>2. w = <<>> <=> Len(w) = 0
    BY <2>1, EmptySeq DEF TypeOK
  <2> HIDE DEF w, v
  <2>3. \A i \in 1 .. Len(w) : w[i] = "CONNECT" <=> i = 1
    BY <2>1 DEF Greeted, ConnectFirst, w
  <2>4. packet = "CONNECT" <=> Len(w) = 0
    BY <1>3, <2>2 DEF w
  <2>5. \A i \in 1 .. Len(w) + 1 : v[i] = "CONNECT" <=> i = 1
    BY <2>1, <2>3, <2>4
  <2>6. ConnectFirst'
    BY <2>1, <2>5 DEF ConnectFirst, v
  <2>7. \A i \in 1 .. Len(w) : w[i] \in {"DISCONNECT", "PINGREQ"} => connack[xioHandle] = "accepted"
    BY <2>1 DEF Greeted, SessionPacketsAfterConnack, w
  <2>8. \A i \in 1 .. Len(w) + 1 : v[i] \in {"DISCONNECT", "PINGREQ"} => connack[xioHandle] = "accepted"
    BY <1>3, <2>1, <2>7 DEF Accepted
  <2>9. connack[xioHandle] = "accepted" => connack'[xioHandle] = "accepted"
    BY <2>1, AnswerStep
  <2>10. SessionPacketsAfterConnack'
    BY <2>1, <2>8, <2>9 DEF SessionPacketsAfterConnack, v
  <2>11. \A x \in Xio : wire'[x] # <<>> /\ xio'[x] \notin {"created", "opening"}
    BY <1>3, <2>1 DEF v
  <2>12. QED
    BY <1>1, <2>6, <2>10, <2>11 DEF Greeted
<1>4. CASE Sends("CONNECT") /\ \E x \in Xio : OpenOk(x) /\ StartSession(x)
  <2>1. PICK x \in Xio : OpenOk(x)
    BY <1>4
  <2>2. xioHandle = x
    BY <1>4 DEF Sends, OneConnection
  <2>3. xio[x] = "opening" /\ xio'[x] = "open"
    BY <2>1 DEF OpenOk, TypeOK
  <2>4. wire[xioHandle] = <<>>
    BY <2>2, <2>3 DEF Greeted
  <2>5. QED
    BY <1>3, <1>4, <2>2, <2>3, <2>4 DEF Packet
<1>5. ASSUME NEW packet \in Packet \ {"CONNECT"}, Sends(packet), InSession(packet)
      PROVE  Greeted'
  <2>1. xioHandle \in Xio /\ xio[xioHandle] = "open" /\ UNCHANGED xio
    BY <1>5 DEF InSession, Open
  <2>2. Accepted
    BY <1>5 DEF InSession, Greeted, BelievesConnected, Accepted, AnswerFrames
  <2>3. wire[xioHandle] # <<>>
    BY <2>1, <2>2 DEF Accepted, Greeted, OneConnection
  <2>4. QED
    BY <1>3, <1>5, <2>1, <2>2, <2>3
<1>6. QED
  BY <1>2, <1>4, <1>5, Senders

LEMMA ConnectionGreeted ==
    ASSUME OneConnection, "send_anytime" \notin AppMay
    PROVE  Spec => []Greeted
<1>1. Init => TypeOK /\ Greeted
  BY TypeInit, GreetedInit
<1>2. TypeOK /\ Greeted /\ [Next]_vars => (TypeOK /\ Greeted)'
  BY TypeNext, GreetedNext
<1>3. QED
  BY <1>1, <1>2, PTL DEF Spec

(***************************************************************************)
(* For a client that is connected once, and an application that publishes  *)
(* and answers only between CONNACK and its disconnect: onOpenComplete's   *)
(* CONNECT is the first packet of the connection and the only one, however *)
(* many packets, callbacks and errors there are.                           *)
(***************************************************************************)
THEOREM ConnectGoesFirst ==
    ASSUME OneConnection, "send_anytime" \notin AppMay
    PROVE  Spec => []ConnectFirst
<1>1. Greeted => ConnectFirst
  BY DEF Greeted
<1>2. QED
  BY <1>1, ConnectionGreeted, PTL

(***************************************************************************)
(* For the same client: mqtt_client_disconnect sends no DISCONNECT and     *)
(* mqtt_client_dowork no PINGREQ before the broker accepted the            *)
(* connection, because CLIENT_CONNECTED is set only then (and, on a client *)
(* that is connected again, still: the run stale_connected).               *)
(***************************************************************************)
THEOREM SessionPacketsWait ==
    ASSUME OneConnection, "send_anytime" \notin AppMay
    PROVE  Spec => []SessionPacketsAfterConnack
<1>1. Greeted => SessionPacketsAfterConnack
  BY DEF Greeted
<1>2. QED
  BY <1>1, ConnectionGreeted, PTL

-----------------------------------------------------------------------------
(* SOCKET_CONNECTED, over successive connections.                          *)

\* What keeps a connection from being refused for the flag of an earlier one.
SocketInUse == SocketUp => \E x \in Xio : xio[x] \in {"open", "closing"}

\* One xio at a time, and each released when its close has completed.
Orderly == "overlap" \notin AppMay /\ "abandon" \notin AppMay

LEMMA SocketInit == Init => SocketInUse
BY DEF Init, SocketInUse, SocketUp

LEMMA SocketNext ==
    ASSUME "abandon" \notin AppMay, TypeOK, SocketInUse, [Next]_vars
    PROVE  SocketInUse'
<1>1. CASE /\ "SOCKET_CONNECTED" \in mqtt_status' => "SOCKET_CONNECTED" \in mqtt_status
           /\ UNCHANGED xio
  BY <1>1 DEF SocketInUse, SocketUp
<1>2. ASSUME NEW x \in Xio, Connect(x) \/ Release(x) \/ OpenError(x)
      PROVE  SocketInUse'
  <2>1. /\ xio[x] \notin {"open", "closing"}
        /\ \A y \in Xio \ {x} : xio'[y] = xio[y]
        /\ "SOCKET_CONNECTED" \in mqtt_status' => "SOCKET_CONNECTED" \in mqtt_status
    BY <1>2 DEF Connect, Connectable, Release, OpenError, ReportOpenError, RefuseOpen, MarkPendingClose, TypeOK
  <2>2. QED
    BY <2>1 DEF SocketInUse, SocketUp
<1>3. ASSUME NEW x \in Xio, OpenOk(x) PROVE SocketInUse'
  <2>1. xio'[x] = "open"
    BY <1>3 DEF OpenOk, TypeOK
  <2>2. QED
    BY <2>1 DEF SocketInUse
<1>4. CASE \E x \in Xio : on_connection_closed(x)
  BY <1>4 DEF on_connection_closed, SocketInUse, SocketUp
<1>5. CASE close_connection
  <2>1. CASE SocketUp /\ Closable(xioHandle)
    <3>1. xio'[xioHandle] = "closing" \/ "SOCKET_CONNECTED" \notin mqtt_status'
      BY <1>5, <2>1 DEF close_connection, CloseSocket, CloseLater, CloseAtOnce, Closable, TypeOK
    <3>2. xioHandle \in Xio
      BY <2>1 DEF Closable
    <3>3. QED
      BY <3>1, <3>2 DEF SocketInUse, SocketUp
  <2>2. CASE ~(SocketUp /\ Closable(xioHandle))
    <3>1. UNCHANGED <<xio, mqtt_status>>
      BY <1>5, <2>2 DEF close_connection, CloseSocket, CloseUnconnected
    <3>2. QED
      BY <1>1, <3>1
  <2>3. QED
    BY <2>1, <2>2
<1>6. QED
  BY <1>1, <1>2, <1>3, <1>4, <1>5
  DEF Next, App, Frames, DoWork, Events, Broker, Send, mqtt_client_send_message_response,
      mqtt_client_disconnect, clear_mqtt_options, PingReset, ClearPending, Return, SetClientConnected,
      SetPendingClose, MarkPendingClose, DeliverSuback, SendReply, BytesRead, DropXio,
      mqtt_client_dowork, KeepAlive, PingOverdue, PingDue, SendComplete, SendFailed, onIoError,
      RecvConnack, RecvPublish, RecvPublishAck, RecvSubscribeAck, RecvPingresp, RecvMalformed,
      RecvInvalidSuback, BytesRejected, client, network, vars

\* When an xio_open completes, the flag is clear and the handle is the one that opened.
LEMMA OpensFresh ==
    ASSUME Tracking, SocketInUse, NEW x \in Xio, xio[x] = "opening"
    PROVE  ~SocketUp /\ xioHandle = x
BY DEF Tracking, Live, SocketInUse

LEMMA OpenedBy ==
    ASSUME TypeOK, [Next]_vars, NEW x \in Xio, xio'[x] = "open", xio[x] # "open"
    PROVE  OpenOk(x)
<1>1. CASE UNCHANGED xio \/ close_connection
  BY <1>1, CloseMoves
<1>2. CASE \E y \in Xio : Moves(y)
  BY <1>2 DEF Moves, Connect, Connectable, Release, OpenOk, OpenError, on_connection_closed, TypeOK
<1>3. QED
  BY <1>1, <1>2, XioSteps

LEMMA ErrorsKept == ASSUME [Next]_vars PROVE errors \subseteq errors'
BY DEF Next, App, Frames, DoWork, Events, Broker, Connect, Release, Send, mqtt_client_send_message_response,
      SendReplyPacket, Report,
      mqtt_client_disconnect, clear_mqtt_options, PingReset, ClearPending, Return, SetClientConnected,
      SetPendingClose, DeliverSuback, SendReply, BytesRead, DropXio, close_connection,
      mqtt_client_dowork, KeepAlive, PingOverdue, PingDue, OpenOk, OpenError, StartSession, RefuseOpen,
      ReportOpenError, SendComplete, SendFailed, onIoError,
      on_connection_closed, RecvConnack, RecvPublish, RecvPublishAck, RecvSubscribeAck, RecvPingresp,
      RecvMalformed, RecvInvalidSuback, BytesRejected, history, vars

LEMMA WireKept ==
    ASSUME TypeOK, [Next]_vars, NEW x \in Xio, wire[x] # <<>>
    PROVE  wire'[x] # <<>>
<1>1. CASE UNCHANGED wire
  BY <1>1
<1>2. ASSUME NEW packet \in Packet, Sends(packet) PROVE wire'[x] # <<>>
  BY <1>2, SentLast
<1>3. QED
  BY <1>1, <1>2, Senders DEF Packet

\* Stronger than ConnectSentOrReported, and kept by every step.
SentOrReported == \A x \in Xio : xio[x] = "open" => wire[x] # <<>> \/ x \in errors

LEMMA SentNext ==
    ASSUME Orderly, "alloc" \notin Faults, TypeOK, Tracking, SocketInUse, SentOrReported, [Next]_vars
    PROVE  SentOrReported'
<1> SUFFICES ASSUME NEW x \in Xio, xio'[x] = "open" PROVE wire'[x] # <<>> \/ x \in errors'
  BY DEF SentOrReported
<1>1. CASE xio[x] = "open"
  BY <1>1, WireKept, ErrorsKept DEF SentOrReported
<1>2. CASE xio[x] # "open"
  <2>1. OpenOk(x)
    BY <1>2, OpenedBy
  <2>2. StartSession(x) /\ xioHandle = x
    BY <2>1, OpensFresh DEF OpenOk, RefuseOpen
  <2>3. CASE x \in errors'
    BY <2>3
  <2>4. CASE x \notin errors'
    <3> DEFINE up == xioHandle = x \/ Open(xioHandle)
    <3>1. sendPacketItem(up, "CONNECT", TRUE)
      BY <2>2, <2>4 DEF StartSession, Report
    <3>2. Sends("CONNECT")
      BY <2>2, <3>1 DEF sendPacketItem, Sends
    <3>3. QED
      BY <2>2, <3>2, SentLast DEF Packet
  <2>5. QED
    BY <2>3, <2>4
<1>3. QED
  BY <1>1, <1>2

(***************************************************************************)
(* If no allocation fails and the application connects again only when it  *)
(* has released an xio whose close completed: on each connection that      *)
(* opened, onOpenComplete sent the CONNECT or reported an error.           *)
(* MQTT_STATUS_SOCKET_CONNECTED of an earlier connection never makes it    *)
(* refuse the new one in silence.                                          *)
(***************************************************************************)
THEOREM ConnectOrError ==
    ASSUME Orderly, "alloc" \notin Faults
    PROVE  Spec => []ConnectSentOrReported
<1>1. Init => SentOrReported /\ TypeOK /\ Tracking /\ SocketInUse
  BY TypeInit, TrackInit, SocketInit DEF Init, SentOrReported
<1>2. TypeOK /\ Tracking /\ SocketInUse /\ SentOrReported /\ [Next]_vars
        => (TypeOK /\ Tracking /\ SocketInUse /\ SentOrReported)'
  BY TypeNext, TrackNext, SocketNext, SentNext DEF Orderly
<1>3. SentOrReported => ConnectSentOrReported
  BY DEF SentOrReported, ConnectSentOrReported
<1>4. QED
  BY <1>1, <1>2, <1>3, PTL DEF Spec

-----------------------------------------------------------------------------
(* The callback of a disconnect call.                                      *)

\* A disconnect call was made on an xio that had been opened.
CalledOn == \A d \in DOMAIN disc : disc[d].on \in Xio => xio[disc[d].on] \notin {"created", "opening"}
HandleUsed == xioHandle \in Xio => xio[xioHandle] # "created"

\* A failed mqtt_client_connect keeps an xio that was not opened as the client's xioHandle.
NoCallTooEarly ==
    /\ "disconnect_opening" \notin AppMay
    /\ "alloc" \notin Faults \/ "disconnect_idle" \notin AppMay

LEMMA HandleNext ==
    ASSUME "alloc" \notin Faults, TypeOK, HandleUsed, [Next]_vars
    PROVE  HandleUsed'
<1>1. CASE xioHandle' \in {xioHandle, NoXio}
  BY <1>1, NeverBack, ConstantsAssumption DEF HandleUsed
<1>2. ASSUME NEW x \in Xio, Connect(x) PROVE HandleUsed'
  BY <1>2, ConstantsAssumption DEF Connect, HandleUsed, TypeOK
<1>3. QED
  BY <1>1, <1>2
  DEF Next, App, Frames, DoWork, Events, Broker, Release, Send, mqtt_client_send_message_response,
      mqtt_client_disconnect, clear_mqtt_options, PingReset, ClearPending, Return, SetClientConnected,
      SetPendingClose, DeliverSuback, SendReply, BytesRead, DropXio, close_connection, CloseSocket,
      CloseLater, CloseAtOnce, CloseUnconnected, mqtt_client_dowork, KeepAlive, PingOverdue, PingDue,
      OpenOk, OpenError, SendComplete, SendFailed, onIoError, on_connection_closed,
      RecvConnack, RecvPublish, RecvPublishAck, RecvSubscribeAck, RecvPingresp, RecvMalformed,
      RecvInvalidSuback, BytesRejected, client, vars

LEMMA CalledNext ==
    ASSUME NoCallTooEarly, TypeOK, CalledOn, "alloc" \notin Faults => HandleUsed, [Next]_vars
    PROVE  CalledOn'
<1>1. ASSUME DOMAIN disc' = DOMAIN disc, \A d \in DOMAIN disc : disc'[d].on = disc[d].on
      PROVE  CalledOn'
  BY <1>1, NeverBack DEF CalledOn
<1>2. CASE UNCHANGED disc
  BY <1>1, <1>2
<1>3. CASE CountCallback
  BY <1>1, <1>3 DEF CountCallback
<1>4. CASE mqtt_client_disconnect
  <2>1. PICK ok : Disconnects(ok)
    BY <1>4 DEF mqtt_client_disconnect, DisconnectConnected, DisconnectUnconnected
  <2>2. disc \in Seq(DiscType) /\ Len(disc) \in Nat /\ DOMAIN disc = 1 .. Len(disc)
    BY LenProperties DEF TypeOK, DiscType
  <2> DEFINE new == [on |-> xioHandle, ok |-> ok, calls |-> 0]
  <2>3. /\ DOMAIN disc' = 1 .. Len(disc) + 1 /\ disc'[Len(disc) + 1] = new
        /\ \A d \in 1 .. Len(disc) : disc'[d] = disc[d]
    <3>1. disc' = Append(disc, new)
      BY <2>1 DEF Disconnects
    <3> HIDE DEF new
    <3>2. QED
      BY <2>2, <3>1
  <2>4. xioHandle \in Xio => xio[xioHandle] \notin {"created", "opening"}
    BY <1>4 DEF mqtt_client_disconnect, Disconnectable, Open, NoCallTooEarly, HandleUsed
  <2>5. UNCHANGED xio
    BY <1>4 DEF mqtt_client_disconnect
  <2>6. ASSUME NEW d \in DOMAIN disc', disc'[d].on \in Xio
        PROVE  xio'[disc'[d].on] \notin {"created", "opening"}
    <3>1. CASE d = Len(disc) + 1
      BY <2>3, <2>4, <2>5, <2>6, <3>1
    <3>2. CASE d # Len(disc) + 1
      <4>1. d \in DOMAIN disc /\ disc'[d] = disc[d]
        BY <2>2, <2>3, <2>6, <3>2
      <4>2. QED
        BY <2>5, <2>6, <4>1 DEF CalledOn
    <3>3. QED
      BY <3>1, <3>2
  <2>7. QED
    BY <2>6 DEF CalledOn
<1>5. QED
  BY <1>2, <1>3, <1>4
  DEF Next, App, Frames, DoWork, Events, Broker, Connect, Release, Send, mqtt_client_send_message_response,
      clear_mqtt_options, PingReset, ClearPending, Return, SetClientConnected,
      SetPendingClose, DeliverSuback, SendReply, BytesRead, DropXio, close_connection, CloseSocket,
      CloseLater, CloseAtOnce, CloseUnconnected, mqtt_client_dowork, KeepAlive,
      OpenOk, OpenError, SendComplete, SendFailed, onIoError, on_connection_closed,
      RecvConnack, RecvPublish, RecvPublishAck, RecvSubscribeAck, RecvPingresp, RecvMalformed,
      RecvInvalidSuback, BytesRejected, history, vars

\* A record of the history is one of a disconnect call.
LEMMA DiscRecord == ASSUME TypeOK, NEW d \in DOMAIN disc PROVE disc[d] \in DiscType
<1>1. disc \in Seq(DiscType)
  BY DEF TypeOK, DiscType
<1>2. d \in 1 .. Len(disc)
  BY <1>1, LenProperties
<1> HIDE DEF DiscType
<1>3. QED
  BY <1>1, <1>2, ElementOfSeq

\* Who calls a disconnect callback.
LEMMA Callers ==
    ASSUME TypeOK, [Next]_vars, NEW d \in DOMAIN disc, disc'[d].calls > disc[d].calls
    PROVE  close_connection \/ \E x \in Xio : on_connection_closed(x)
<1>1. disc[d].calls \in 0 .. 2
  BY DiscRecord DEF DiscType
<1>2. disc'[d] # disc[d]
  BY <1>1
<1>3. ~mqtt_client_disconnect
  <2>1. ASSUME NEW ok, Disconnects(ok) PROVE disc'[d] = disc[d]
    <3> DEFINE new == [on |-> xioHandle, ok |-> ok, calls |-> 0]
    <3>1. disc' = Append(disc, new)
      BY <2>1 DEF Disconnects
    <3>2. disc \in Seq(DiscType) /\ d \in 1 .. Len(disc)
      BY LenProperties DEF TypeOK, DiscType
    <3> HIDE DEF new
    <3>3. QED
      BY <3>1, <3>2
  <2>2. QED
    BY <1>2, <2>1 DEF mqtt_client_disconnect, DisconnectConnected, DisconnectUnconnected
<1>4. QED
  BY <1>2, <1>3
  DEF Next, App, Frames, DoWork, Events, Broker, Connect, Release, Send, mqtt_client_send_message_response,
      clear_mqtt_options, PingReset, ClearPending, Return, SetClientConnected,
      SetPendingClose, DeliverSuback, SendReply, BytesRead, DropXio, mqtt_client_dowork, KeepAlive,
      OpenOk, OpenError, SendComplete, SendFailed, onIoError,
      RecvConnack, RecvPublish, RecvPublishAck, RecvSubscribeAck, RecvPingresp, RecvMalformed,
      RecvInvalidSuback, BytesRejected, history, vars

LEMMA DownWhenCalled ==
    ASSUME TypeOK, Tracking, CalledOn, [Next]_vars,
           NEW d \in DOMAIN disc, disc'[d].calls > disc[d].calls, disc[d].on \in Xio
    PROVE  xio'[disc[d].on] \notin {"opening", "open"}
<1> DEFINE x == disc[d].on
<1>1. x \in Xio /\ xio[x] \notin {"created", "opening"}
  BY DEF CalledOn
<1> HIDE DEF x
<1>2. CASE close_connection
  <2>1. CASE SocketUp /\ Closable(xioHandle)
    <3>1. \A y \in Xio : xio[y] = "open" => y = xioHandle
      BY <2>1 DEF Tracking
    <3>2. UNCHANGED xio => UNCHANGED disc
      BY <1>2, <2>1 DEF close_connection, CloseSocket, CloseLater, CloseAtOnce, Closable, TypeOK
    <3>3. xio'[xioHandle] \in {"closing", "closed"} /\ \A y \in Xio \ {xioHandle} : xio'[y] = xio[y]
      <4>1. disc[d].calls \in 0 .. 2
        BY DiscRecord DEF DiscType
      <4>2. ~UNCHANGED disc
        BY <4>1
      <4>3. QED
        BY <1>2, <3>2, <4>2, CloseMoves
    <3>4. QED
      BY <1>1, <3>1, <3>3 DEF x
  <2>2. CASE ~SocketUp
    <3>1. UNCHANGED xio
      BY <1>2, <2>2 DEF close_connection, CloseUnconnected
    <3>2. xio[x] # "open"
      BY <1>1, <2>2 DEF Tracking, SocketUp
    <3>3. QED
      BY <1>1, <3>1, <3>2 DEF x
  <2>3. CASE SocketUp /\ ~Closable(xioHandle)
    <3>1. UNCHANGED xio
      BY <1>2, <2>3 DEF close_connection, CloseSocket
    <3>2. xio[x] # "open"
      BY <1>1, <2>3 DEF Tracking, Closable
    <3>3. QED
      BY <1>1, <3>1, <3>2 DEF x
  <2>4. QED
    BY <2>1, <2>2, <2>3
<1>3. ASSUME NEW y \in Xio, on_connection_closed(y) PROVE xio'[x] \notin {"opening", "open"}
  <2>1. /\ xio[y] = "closing" /\ xio'[y] = "closed"
        /\ \A z \in Xio \ {y} : xio'[z] = xio[z]
    BY <1>3 DEF on_connection_closed, TypeOK
  <2>2. xio[x] # "open"
    BY <1>1, <2>1 DEF Tracking, Live
  <2>3. QED
    BY <1>1, <2>1, <2>2
<1>4. QED
  BY <1>2, <1>3, Callers DEF x

(***************************************************************************)
(* For an application that connects only once the previous xio was         *)
(* released and does not disconnect an xio that was not opened: whenever   *)
(* close_connection or on_connection_closed calls the callback of a        *)
(* disconnect call, the connection it was to end is down.                  *)
(***************************************************************************)
THEOREM CallbackMeansDown ==
    ASSUME "overlap" \notin AppMay, NoCallTooEarly
    PROVE  Spec => DisconnectedWhenCalledBack
<1> DEFINE Inv == TypeOK /\ Tracking /\ CalledOn /\ ("alloc" \notin Faults => HandleUsed)
           Down == \A d \in DOMAIN disc :
                       disc'[d].calls > disc[d].calls /\ disc[d].on \in Xio =>
                           xio'[disc[d].on] \notin {"opening", "open"}
<1>1. Init => Inv
  BY TypeInit, TrackInit, ConstantsAssumption DEF Init, CalledOn, HandleUsed
<1>2. Inv /\ [Next]_vars => Inv'
  BY TypeNext, TrackNext, CalledNext, HandleNext
<1>3. Inv /\ [Next]_vars => [Down]_vars
  BY DownWhenCalled
<1>4. QED
  BY <1>1, <1>2, <1>3, PTL DEF Spec, DisconnectedWhenCalledBack, Down

-----------------------------------------------------------------------------
(* Steps and the stack.                                                    *)

\* With MaxDepth = 0 application code runs with an empty stack: its callbacks just return.
LEMMA OutsideOnly ==
    ASSUME TypeOK, MaxDepth = 0, AppTurn
    PROVE  stack = <<>> /\ pumping = NoXio
<1> SUFFICES ASSUME Top("app"), Depth <= MaxDepth PROVE FALSE
  BY DEF AppTurn
<1> DEFINE apps == {i \in 1 .. Len(stack) : stack[i] = "app"}
<1>1. 1 \in apps
  BY EmptySeq, LenProperties DEF Top, TypeOK
<1>2. IsFiniteSet(apps)
  <2>1. Len(stack) \in Nat
    BY LenProperties DEF TypeOK
  <2>2. IsFiniteSet(1 .. Len(stack))
    BY <2>1, FS_Interval
  <2>3. QED
    BY <2>2, FS_Subset
<1>3. Depth = Cardinality(apps)
  BY DEF Depth
<1> HIDE DEF apps
<1>4. Cardinality(apps) \in Nat /\ Cardinality(apps) # 0
  BY <1>1, <1>2, FS_CardinalityType, FS_EmptySet
<1>5. QED
  BY <1>3, <1>4

\* What the handlers push, and mqtt_client_disconnect apart.
Pushes ==
    Pushed \cup {<<>>, <<"app", "pend">>, <<"app", "drop_xio">>, <<"close", "clear_pending">>,
                 set_error_callback \o <<"ping_reset">>}

\* What stays of the stack, or the rest of a chunk.
Below(base) == base \in Seq(Frame) /\ \A frame : In(frame, base) => In(frame, stack) \/ frame = "bytes"

Pushing == \E frames \in Pushes, base \in Seq(Frame) : Below(base) /\ stack' = frames \o base

LEMMA PushesType == \A frames \in Pushes : frames \in Seq(Frame)
BY PushedType, FramesType DEF Pushes

LEMMA BelowStack ==
    ASSUME TypeOK
    PROVE  /\ Below(stack) /\ Below(Rest)
           /\ stack # <<>> => Below(Tail(stack))
           /\ stack # <<>> /\ Tail(stack) # <<>> => Below(Tail(Tail(stack)))
<1>1. stack \in Seq(Frame)
  BY DEF TypeOK
<1>2. Below(stack) /\ Below(Rest)
  BY <1>1, RestType DEF Below, Rest, In
<1>3. CASE stack # <<>>
  <2>1. Tail(stack) \in Seq(Frame) /\ \A frame : In(frame, Tail(stack)) => In(frame, stack)
    BY <1>1, <1>3, HeadTailProperties, InTail
  <2>2. Tail(stack) # <<>> =>
            Tail(Tail(stack)) \in Seq(Frame)
            /\ \A frame : In(frame, Tail(Tail(stack))) => In(frame, Tail(stack))
    BY <2>1, HeadTailProperties, InTail
  <2>3. QED
    BY <1>2, <2>1, <2>2 DEF Below
<1>4. QED
  BY <1>2, <1>3

LEMMA StackSteps ==
    ASSUME TypeOK, [Next]_vars
    PROVE  Pushing \/ (mqtt_client_disconnect /\ Call(<<"close", "clear_opts">>))
<1>1. stack \in Seq(Frame)
  BY DEF TypeOK
<1>2. ASSUME NEW base, Below(base), stack' = base PROVE Pushing
  <2>1. base \in Seq(Frame) /\ <<>> \in Pushes /\ stack' = <<>> \o base
    BY <1>2, ConcatEmptySeq DEF Below, Pushes
  <2>2. QED
    BY <1>2, <2>1 DEF Pushing
<1>3. ASSUME NEW frames \in Pushes, NEW base, Below(base), stack' = frames \o base PROVE Pushing
  BY <1>3 DEF Pushing, Below
<1>4. ASSUME UNCHANGED stack PROVE Pushing
  BY <1>2, <1>4, BelowStack
<1>5. ASSUME NEW frames \in Pushes, Call(frames) PROVE Pushing
  BY <1>3, <1>5, BelowStack DEF Call
<1>6. ASSUME NEW frames \in Pushes, stack # <<>>, Become(frames) PROVE Pushing
  BY <1>3, <1>6, BelowStack DEF Become
<1>7. ASSUME NEW packet, NEW rest, Below(rest), SendReplyPacket(packet, rest) PROVE Pushing
  <2>1. set_error_callback \in Pushes
    BY DEF Pushes, Pushed
  <2>2. QED
    BY <1>2, <1>3, <1>7, <2>1 DEF SendReplyPacket
<1>8. CASE App
  <2>1. CASE UNCHANGED stack
    BY <1>4, <2>1
  <2>2. CASE \E packet \in Ack : SendReplyPacket(packet, stack)
    BY <1>7, <2>2, BelowStack
  <2>3. QED
    BY <1>8, <2>1, <2>2
    DEF App, Connect, Release, Send, mqtt_client_send_message_response, mqtt_client_disconnect,
        DisconnectConnected, DisconnectUnconnected, control
<1>9. CASE Frames
  <2>1. stack # <<>>
    BY <1>9
    DEF Frames, Top, clear_mqtt_options, PingReset, ClearPending, Return, SetClientConnected,
        SetPendingClose, DeliverSuback, SendReply, BytesRead, DropXio, close_connection
  <2>2. /\ <<>> \in Pushes /\ <<"app">> \in Pushes /\ <<"app", "drop_xio">> \in Pushes
        /\ disconnectCallback \in Pushes
    BY DEF Pushes, Pushed, disconnectCallback
  <2>3. CASE Return /\ ~Become(<<>>)
    <3>1. Tail(stack) # <<>>
      BY <1>1, <2>3, LongTail DEF Return
    <3>2. QED
      BY <1>2, <2>1, <2>3, <3>1, BelowStack DEF Return
  <2>4. CASE SendReply
    BY <1>7, <2>1, <2>4, BelowStack DEF SendReply
  <2>5. QED
    BY <1>6, <1>9, <2>1, <2>2, <2>3, <2>4
    DEF Frames, clear_mqtt_options, PingReset, ClearPending, Return, SetClientConnected,
        SetPendingClose, DeliverSuback, BytesRead, DropXio, close_connection, CloseSocket, CloseLater,
        CloseAtOnce, CloseUnconnected
<1>10. CASE DoWork
  <2>1. /\ <<"close", "clear_pending">> \in Pushes /\ set_error_callback \in Pushes
        /\ set_error_callback \o <<"ping_reset">> \in Pushes
    BY DEF Pushes, Pushed
  <2>2. QED
    BY <1>4, <1>5, <1>10, <2>1 DEF DoWork, mqtt_client_dowork, KeepAlive, PingOverdue, PingDue
<1>11. ASSUME NEW x \in Xio, Events(x) \/ SendComplete(x) PROVE Pushing
  <2>1. /\ <<"app", "pend">> \in Pushes /\ set_error_callback \in Pushes
        /\ disconnectCallback \in Pushes
    BY DEF Pushes, Pushed, disconnectCallback
  <2>2. \/ UNCHANGED stack \/ Call(<<"app", "pend">>) \/ Call(set_error_callback)
        \/ Call(disconnectCallback)
    BY <1>11 DEF Events, OpenOk, OpenError, StartSession, RefuseOpen, ReportOpenError, SendComplete,
                 SendFailed, onIoError, on_connection_closed
  <2>3. QED
    BY <1>4, <1>5, <2>1, <2>2
<1>12. ASSUME NEW x \in Xio, Broker(x) PROVE Pushing
  <2>1. CASE BytesRejected(x)
    <3>1. set_error_callback \in Pushes
      BY DEF Pushes, Pushed
    <3>2. QED
      BY <1>5, <1>6, <2>1, <3>1 DEF BytesRejected
  <2>2. ASSUME NEW frames \in Pushed, Deliver(x, frames) PROVE Pushing
    <3>1. frames \in Pushes /\ stack' = frames \o Rest
      BY <2>2 DEF Pushes, Deliver, Rest
    <3>2. QED
      BY <1>3, <3>1, BelowStack
  <2>3. QED
    BY <1>12, <2>1, <2>2, BrokerDelivers
<1>13. CASE UNCHANGED vars
  BY <1>4, <1>13 DEF vars, control
<1>14. QED
  BY <1>8, <1>9, <1>10, <1>11, <1>12, <1>13 DEF Next

-----------------------------------------------------------------------------
(* The options of a CONNECT.                                               *)

\* While an xio opens, the strings are those given for it, and no mqtt_client_disconnect is left
\* that would free them: one that is to go on was called with an xio in use.
OwnOptions ==
    /\ \A x \in Xio : xio[x] = "opening" => mqttOptions = [f \in Field |-> x] /\ ~In("clear_opts", stack)
    /\ "disconnect_idle" \notin AppMay /\ In("clear_opts", stack) => \E x \in Xio : Live(x)

PlainOptions == /\ "overlap" \notin AppMay /\ "disconnect_opening" \notin AppMay
                /\ "disconnect_idle" \notin AppMay \/ MaxDepth = 0
                /\ \A x \in Xio : Supplies[x] = Field

LEMMA NoClearing == \A frames \in Pushes : ~In("clear_opts", frames)
<1>1. \A packet \in Reply : ~In("clear_opts", <<"app", packet>>)
  BY DEF In, Reply, Ack
<1>2. QED
  BY <1>1 DEF Pushes, Pushed, In, set_error_callback

LEMMA ClearingStep ==
    ASSUME TypeOK, [Next]_vars, In("clear_opts", stack'), ~In("clear_opts", stack)
    PROVE  mqtt_client_disconnect
<1>1. CASE Pushing
  <2>1. PICK frames \in Pushes, base \in Seq(Frame) : Below(base) /\ stack' = frames \o base
    BY <1>1 DEF Pushing
  <2>2. In("clear_opts", frames) \/ In("clear_opts", base)
    BY <2>1, PushesType, InConcat
  <2>3. QED
    BY <2>1, <2>2, NoClearing DEF Below
<1>2. QED
  BY <1>1, StackSteps

LEMMA OpeningBy ==
    ASSUME TypeOK, [Next]_vars, NEW x \in Xio, xio'[x] = "opening", xio[x] # "opening"
    PROVE  Connect(x)
<1>1. CASE UNCHANGED xio \/ close_connection
  BY <1>1, CloseMoves
<1>2. CASE \E y \in Xio : Moves(y)
  BY <1>2 DEF Moves, Connect, Connectable, Release, OpenOk, OpenError, on_connection_closed, TypeOK
<1>3. QED
  BY <1>1, <1>2, XioSteps

\* An xio is in use until its owner, outside every callback, releases it.
LEMMA LiveKept ==
    ASSUME TypeOK, [Next]_vars, stack # <<>>, NEW x \in Xio, Live(x)
    PROVE  Live(x)'
<1>1. CASE UNCHANGED xio \/ close_connection
  BY <1>1, CloseMoves DEF Live
<1>2. CASE \E y \in Xio : Moves(y)
  BY <1>2 DEF Moves, Connect, Connectable, Release, OpenOk, OpenError, on_connection_closed, Live, TypeOK
<1>3. QED
  BY <1>1, <1>2, XioSteps

LEMMA OptionsNext ==
    ASSUME PlainOptions, TypeOK, Tracking, OwnOptions, [Next]_vars
    PROVE  OwnOptions'
<1>1. ~In("clear_opts", <<>>)
  BY DEF In
<1>2. ASSUME NEW x \in Xio, xio'[x] = "opening", xio[x] = "opening"
      PROVE  mqttOptions' = [f \in Field |-> x] /\ ~In("clear_opts", stack')
  <2>1. mqttOptions = [f \in Field |-> x] /\ ~In("clear_opts", stack) /\ xioHandle = x
    BY <1>2 DEF OwnOptions, Tracking
  <2>2. ~mqtt_client_disconnect
    BY <1>2, <2>1 DEF mqtt_client_disconnect, Disconnectable, PlainOptions
  <2>3. ASSUME NEW y \in Xio, Connect(y) PROVE FALSE
    <3>1. Live(x) /\ "overlap" \notin AppMay
      BY <1>2 DEF Live, PlainOptions
    <3>2. QED
      BY <2>3, <3>1 DEF Connect, Connectable
  <2>4. ~clear_mqtt_options
    BY <2>1, InTail DEF clear_mqtt_options, Top, TypeOK
  <2>5. UNCHANGED mqttOptions
    BY <2>2, <2>3, <2>4
    DEF Next, App, Frames, DoWork, Events, Broker, Release, Send, mqtt_client_send_message_response,
        PingReset, ClearPending, Return, SetClientConnected, SetPendingClose, DeliverSuback, SendReply,
        BytesRead, DropXio, close_connection, mqtt_client_dowork, KeepAlive, PingOverdue, PingDue,
        OpenOk, OpenError, SendComplete, SendFailed, onIoError, on_connection_closed,
        RecvConnack, RecvPublish, RecvPublishAck, RecvSubscribeAck, RecvPingresp, RecvMalformed,
        RecvInvalidSuback, BytesRejected, client, vars
  <2>6. QED
    BY <2>1, <2>2, <2>5, ClearingStep
<1>3. ASSUME NEW x \in Xio, xio'[x] = "opening", xio[x] # "opening"
      PROVE  mqttOptions' = [f \in Field |-> x] /\ ~In("clear_opts", stack')
  <2>1. Connect(x)
    BY <1>3, OpeningBy
  <2>2. UNCHANGED stack
    BY <2>1 DEF Connect, control
  <2>3. \A y \in Xio : ~Live(y)
    BY <2>1 DEF Connect, Connectable, PlainOptions
  <2>4. ~In("clear_opts", stack)
    <3>1. CASE "disconnect_idle" \notin AppMay
      BY <2>3, <3>1 DEF OwnOptions
    <3>2. CASE MaxDepth = 0
      BY <1>1, <2>1, <3>2, OutsideOnly DEF Connect
    <3>3. QED
      BY <3>1, <3>2 DEF PlainOptions
  <2>5. mqttOptions' = Cloned(x)
    BY <1>3, <2>1 DEF Connect, TypeOK
  <2>6. QED
    BY <2>2, <2>4, <2>5 DEF Cloned, PlainOptions
<1>4. ASSUME "disconnect_idle" \notin AppMay, In("clear_opts", stack')
      PROVE  (\E x \in Xio : Live(x))'
  <2>1. CASE In("clear_opts", stack)
    <3>1. PICK x \in Xio : Live(x)
      BY <1>4, <2>1 DEF OwnOptions
    <3>2. Live(x)'
      BY <1>1, <2>1, <3>1, LiveKept
    <3>3. QED
      BY <3>2
  <2>2. CASE ~In("clear_opts", stack)
    <3>1. mqtt_client_disconnect
      BY <1>4, <2>2, ClearingStep
    <3>2. Open(xioHandle) /\ UNCHANGED xio
      BY <1>4, <3>1 DEF mqtt_client_disconnect, Disconnectable, PlainOptions
    <3>3. PICK x \in Xio : xio[x] = "open"
      BY <3>2 DEF Open
    <3>4. Live(x)'
      BY <3>2, <3>3 DEF Live
    <3>5. QED
      BY <3>4
  <2>3. QED
    BY <2>1, <2>2
<1>5. QED
  BY <1>2, <1>3, <1>4 DEF OwnOptions

\* A CONNECT that is the first packet of an xio is sent when that xio has opened.
LEMMA FirstConnect ==
    ASSUME TypeOK, Tracking, [Next]_vars, NEW x \in Xio, wire[x] = <<>>, wire'[x] = <<"CONNECT">>
    PROVE  xio[x] = "opening"
<1>1. wire'[x] # wire[x]
  BY EmptySeq
<1>2. ASSUME NEW packet \in Packet, Sends(packet) PROVE x = xioHandle /\ packet = "CONNECT"
  <2>1. x = xioHandle
    BY <1>1, <1>2, SentLast
  <2>2. Len(wire[x]) = 0
    OBVIOUS
  <2>3. wire'[x][1] = packet
    BY <1>2, <2>1, <2>2, SentLast
  <2>4. QED
    BY <2>1, <2>3
<1>3. PICK y \in Xio : OpenOk(y)
  BY <1>1, <1>2, Senders DEF Packet
<1>4. Sends("CONNECT")
  BY <1>1, <1>2, Senders
<1>5. QED
  BY <1>2, <1>3, <1>4 DEF OpenOk, Tracking, Packet

(***************************************************************************)
(* For connections that give every option string, and an application that  *)
(* neither connects before the previous xio was released nor disconnects   *)
(* one that is opening, nor, if it calls the API from its callbacks,       *)
(* disconnects a client that has no xio: onOpenComplete builds each        *)
(* CONNECT from the strings cloneMqttOptions copied for that connection,   *)
(* whatever fails.                                                         *)
(***************************************************************************)
THEOREM OwnOptionsSent ==
    ASSUME PlainOptions
    PROVE  Spec => ConnectCarriesOwnOptions
<1> DEFINE Own == \A x \in Xio : wire[x] = <<>> /\ wire'[x] = <<"CONNECT">> =>
                      mqttOptions = [f \in Field |-> IF f \in Supplies[x] THEN x ELSE NoXio]
<1>1. Init => TypeOK /\ Tracking /\ OwnOptions
  <2> SUFFICES ASSUME Init PROVE TypeOK /\ Tracking /\ OwnOptions
    OBVIOUS
  <2>1. stack = <<>> /\ ~In("clear_opts", <<>>) /\ \A x \in Xio : xio[x] = "created"
    BY DEF Init, In
  <2>2. QED
    BY <2>1, TypeInit, TrackInit DEF OwnOptions
<1>2. TypeOK /\ Tracking /\ OwnOptions /\ [Next]_vars => (TypeOK /\ Tracking /\ OwnOptions)'
  BY TypeNext, TrackNext, OptionsNext DEF PlainOptions
<1>3. TypeOK /\ Tracking /\ OwnOptions /\ [Next]_vars => [Own]_vars
  BY FirstConnect DEF OwnOptions, PlainOptions
<1>4. QED
  BY <1>1, <1>2, <1>3, PTL DEF Spec, ConnectCarriesOwnOptions, Own

-----------------------------------------------------------------------------
(* The stack while no error was reported.  An application may call the API *)
(* from any callback, so that the handlers of several calls are on it.     *)

\* A frame that only the bottom of the stack can be, and one that only its top can be.
AtBottom(frame, s) == \A i \in 1 .. Len(s) : s[i] = frame => i = Len(s)
AtTop(frame, s) == \A i \in 1 .. Len(s) : s[i] = frame => i = 1

\* A chunk is read, and mqtt_client_dowork carries out a pending close, below everything else; a
\* chunk holds no packet before its CONNACK; and an accepted connection is open while one of its
\* chunks is read, so that its answers can be sent.
Chunk ==
    /\ AtBottom("bytes", stack) /\ AtBottom("clear_pending", stack)
    /\ In("bytes", stack) =>
          /\ feeding \in Xio /\ connack[feeding] # "none"
          /\ connack[feeding] = "accepted" => xio[feeding] = "open"
    /\ \A packet \in Reply : In(packet, stack) => In("bytes", stack) /\ connack[feeding] = "accepted"

\* The steps that are left, by what they do to the stack.
Handled == {<<"app">>, <<"app", "accept">>} \cup {<<"app", packet>> : packet \in Reply}
Delivers(x) ==
    /\ xio[x] = "open" /\ UNCHANGED xio /\ feeding' = x /\ connack'[x] # "none"
    /\ stack = <<>> \/ stack = <<"bytes">>
    /\ \E frames \in Handled :
           stack' = frames \o <<"bytes">> /\ (frames # <<"app">> => connack'[x] = "accepted")

Pops ==
    /\ stack # <<>> /\ Head(stack) # "close" /\ UNCHANGED <<xio, connack>>
    /\ UNCHANGED feeding \/ Head(stack) = "bytes"
    /\ Head(stack) = "clear_pending" => ClearPending
    /\ Head(stack) = "accept" => SetClientConnected
    /\ \/ stack' = Tail(stack)
       \/ /\ Head(stack) = "app" /\ Tail(stack) # <<>> /\ Head(Tail(stack)) \in Ack
          /\ stack' = Tail(Tail(stack))
       \/ Head(stack) = "suback" /\ stack' = <<"app">> \o Tail(stack)

Asked(frames) == Call(frames) /\ UNCHANGED <<feeding, xio, wire, flushed, connack>>

Closes ==
    \/ mqtt_client_disconnect /\ ~ClientUp /\ Asked(<<"close", "clear_opts">>)
    \/ mqtt_client_dowork /\ "PENDING_CLOSE" \in mqtt_status /\ Asked(<<"close", "clear_pending">>)
    \/ /\ xioHandle \notin Xio
       /\ KeepAlive \/ \E packet \in Ack : mqtt_client_send_message_response(packet)
       /\ Asked(set_error_callback) \/ Asked(set_error_callback \o <<"ping_reset">>)

Stays == UNCHANGED stack /\ (stack = <<>> \/ UNCHANGED <<feeding, connack>>)

QuietStep ==
    \/ (Stays /\ ~close_connection) \/ Pops \/ close_connection \/ (Closes /\ Settled)
    \/ stack = <<>> /\ \E x \in Xio : on_connection_closed(x)
    \/ \E x \in Xio : SendComplete(x) /\ DisconnectSent /\ Call(<<"app", "pend">>)
    \/ \E x \in Xio : Delivers(x)

\* An error that the client's own handlers report for the connection in use is recorded.
Unreported == errors' = {}

LEMMA NotReported ==
    ASSUME NEW h, Report(h), Unreported
    PROVE  h \notin Xio
BY DEF Report, Unreported

\* A frame at the bottom stays there, whatever is pushed and popped above it.
LEMMA BottomTail ==
    ASSUME NEW frame, NEW s \in Seq(Frame), s # <<>>, AtBottom(frame, s)
    PROVE  /\ AtBottom(frame, Tail(s))
           /\ Head(s) = frame => Tail(s) = <<>>
<1> DEFINE t == Tail(s)
           n == Len(s)
           m == Len(t)
<1>1. /\ n \in Nat \ {0} /\ t \in Seq(Frame) /\ m = n - 1
      /\ \A i \in 1 .. m : t[i] = s[i + 1]
  BY EmptySeq, LenProperties, HeadTailProperties
<1>2. Head(s) = s[1]
  OBVIOUS
<1>3. \A i \in 1 .. n : s[i] = frame => i = n
  BY DEF AtBottom
<1>4. ASSUME m = 0 PROVE t = <<>>
  <2> HIDE DEF t
  <2>1. Len(t) = 0 /\ t \in Seq(Frame)
    BY <1>1, <1>4
  <2>2. QED
    BY <2>1, EmptySeq
<1> HIDE DEF t, n, m
<1>5. ASSUME NEW i \in 1 .. m, t[i] = frame PROVE i = m
  <2>1. i + 1 \in 1 .. n /\ s[i + 1] = frame
    BY <1>1, <1>5
  <2>2. i + 1 = n
    BY <1>3, <2>1
  <2>3. QED
    BY <1>1, <2>2
<1>6. Head(s) = frame => t = <<>>
  BY <1>1, <1>2, <1>3, <1>4
<1>7. AtBottom(frame, t)
  BY <1>5 DEF AtBottom, m
<1>8. QED
  BY <1>6, <1>7 DEF t

LEMMA BottomConcat ==
    ASSUME NEW frame, NEW s \in Seq(Frame), NEW frames \in Seq(Frame),
           AtBottom(frame, s), ~In(frame, frames)
    PROVE  AtBottom(frame, frames \o s)
<1> DEFINE m == Len(frames)
           n == Len(s)
           all == frames \o s
<1>1. /\ m \in Nat /\ n \in Nat /\ Len(all) = m + n
      /\ \A i \in 1 .. m + n : all[i] = IF i <= m THEN frames[i] ELSE s[i - m]
  BY LenProperties, ConcatProperties
<1>2. \A i \in 1 .. m : frames[i] # frame
  BY DEF In
<1>3. \A i \in 1 .. n : s[i] = frame => i = n
  BY DEF AtBottom
<1> HIDE DEF m, n, all
<1>4. ASSUME NEW i \in 1 .. m + n, all[i] = frame PROVE i = m + n
  <2>1. i \notin 1 .. m
    BY <1>1, <1>2, <1>4
  <2>2. i - m \in 1 .. n /\ s[i - m] = frame
    BY <1>1, <1>4, <2>1
  <2>3. QED
    BY <1>1, <1>3, <2>2
<1>5. AtBottom(frame, all)
  BY <1>1, <1>4 DEF AtBottom
<1>6. QED
  BY <1>5 DEF all

LEMMA BottomFree ==
    ASSUME NEW frame, NEW s, ~In(frame, s)
    PROVE  AtBottom(frame, s) /\ AtTop(frame, s)
BY DEF AtBottom, AtTop, In

\* There is one bottom.
LEMMA OneBottom ==
    ASSUME NEW s, AtBottom("bytes", s), AtBottom("clear_pending", s)
    PROVE  ~In("bytes", s) \/ ~In("clear_pending", s)
BY DEF AtBottom, In

\* A frame at the top, pushed there by a handler.
LEMMA TopConcat ==
    ASSUME NEW frame, NEW s \in Seq(Frame), NEW frames \in Seq(Frame),
           AtTop(frame, frames), ~In(frame, s)
    PROVE  AtTop(frame, frames \o s)
<1> DEFINE m == Len(frames)
           n == Len(s)
           all == frames \o s
<1>1. /\ m \in Nat /\ n \in Nat /\ Len(all) = m + n
      /\ \A i \in 1 .. m + n : all[i] = IF i <= m THEN frames[i] ELSE s[i - m]
  BY LenProperties, ConcatProperties
<1>2. \A i \in 1 .. m : frames[i] = frame => i = 1
  BY DEF AtTop
<1>3. \A i \in 1 .. n : s[i] # frame
  BY DEF In
<1> HIDE DEF m, n, all
<1>4. ASSUME NEW i \in 1 .. m + n, all[i] = frame PROVE i = 1
  <2>1. i - m \notin 1 .. n
    BY <1>1, <1>3, <1>4
  <2>2. i \in 1 .. m /\ frames[i] = frame
    BY <1>1, <1>4, <2>1
  <2>3. QED
    BY <1>2, <2>2
<1>5. AtTop(frame, all)
  BY <1>1, <1>4 DEF AtTop
<1>6. QED
  BY <1>5 DEF all

LEMMA TopOnly ==
    ASSUME NEW frame, NEW s \in Seq(Frame), In(frame, s), AtTop(frame, s)
    PROVE  s # <<>> /\ Head(s) = frame /\ ~In(frame, Tail(s))
<1>1. PICK i \in 1 .. Len(s) : s[i] = frame
  BY DEF In
<1>2. i = 1 /\ Len(s) \in Nat \ {0}
  BY <1>1, LenProperties DEF AtTop
<1>3. s # <<>> /\ Head(s) = frame
  BY <1>1, <1>2, EmptySeq
<1>4. /\ Len(Tail(s)) = Len(s) - 1
      /\ \A j \in 1 .. Len(Tail(s)) : Tail(s)[j] = s[j + 1]
  BY <1>3, HeadTailProperties
<1>5. ASSUME NEW j \in 1 .. Len(Tail(s)), Tail(s)[j] = frame PROVE FALSE
  <2>1. j + 1 \in 1 .. Len(s) /\ s[j + 1] = frame
    BY <1>2, <1>4, <1>5
  <2>2. QED
    BY <2>1 DEF AtTop
<1>6. QED
  BY <1>3, <1>5 DEF In

LEMMA QuietApp ==
    ASSUME TypeOK, Unreported, App
    PROVE  Stays \/ Closes
<1>1. CASE UNCHANGED <<stack, feeding, connack>>
  BY <1>1 DEF Stays
<1>2. ASSUME NEW packet \in Ack, mqtt_client_send_message_response(packet) PROVE Stays \/ Closes
  <2>1. UNCHANGED <<feeding, xio, flushed, connack>>
    BY <1>2 DEF mqtt_client_send_message_response
  <2>2. CASE ~UNCHANGED stack
    <3>1. Report(xioHandle) /\ Call(set_error_callback)
      BY <1>2, <2>2 DEF mqtt_client_send_message_response, SendReplyPacket, Call
    <3>2. xioHandle \notin Xio
      BY <3>1, NotReported
    <3>3. UNCHANGED wire
      BY <1>2, <2>2, <3>2 DEF mqtt_client_send_message_response, SendReplyPacket, sendPacketItem, Open
    <3>4. QED
      BY <1>2, <2>1, <3>1, <3>2, <3>3 DEF Closes, Asked
  <2>3. QED
    BY <1>1, <2>1, <2>2
<1>3. CASE mqtt_client_disconnect /\ DisconnectUnconnected
  BY <1>3 DEF Closes, Asked, mqtt_client_disconnect, DisconnectUnconnected
<1>4. QED
  BY <1>1, <1>2, <1>3
  DEF App, Connect, Release, Send, mqtt_client_disconnect, DisconnectConnected, control, history

LEMMA QuietFrames ==
    ASSUME TypeOK, Tracking, Chunk, Unreported, Frames
    PROVE  Pops \/ close_connection
<1>1. stack \in Seq(Frame)
  BY DEF TypeOK
<1>2. stack # <<>>
  BY DEF Frames, Top, clear_mqtt_options, PingReset, ClearPending, Return, SetClientConnected,
         SetPendingClose, DeliverSuback, SendReply, BytesRead, DropXio, close_connection
<1>3. \A frames \in Seq(Frame) : Become(frames) => stack' = frames \o Tail(stack)
  BY DEF Become
<1>4. Tail(stack) \in Seq(Frame) /\ <<>> \o Tail(stack) = Tail(stack)
  BY <1>1, <1>2, HeadTailProperties, ConcatEmptySeq
<1>5. CASE SendReply
  <2>1. PICK packet \in Reply : Top(packet) /\ SendReplyPacket(packet, Tail(stack))
    BY <1>5 DEF SendReply
  <2>2. xioHandle \in Xio
    <3>1. In(packet, stack)
      BY <1>1, <1>2, <2>1, InTail DEF Top
    <3>2. feeding \in Xio /\ xio[feeding] = "open"
      BY <3>1 DEF Chunk
    <3>3. QED
      BY <3>2 DEF Tracking
  <2>3. stack' = Tail(stack)
    BY <2>1, <2>2, NotReported DEF SendReplyPacket
  <2>4. packet \notin {"close", "clear_pending", "accept"}
    BY DEF Reply, Ack
  <2>5. QED
    BY <1>2, <1>5, <2>1, <2>3, <2>4 DEF Pops, SendReply, Top
<1>6. CASE Return /\ ~Become(<<>>)
  <2>1. Tail(stack) # <<>> /\ Head(Tail(stack)) = stack[2]
    BY <1>1, <1>6, LongTail DEF Return
  <2>2. QED
    BY <1>2, <1>6, <2>1 DEF Pops, Return, Top, network, history
<1>7. CASE ~SendReply /\ ~close_connection /\ ~(Return /\ ~Become(<<>>))
  <2>1. \/ Become(<<>>) \/ (Head(stack) = "suback" /\ Become(<<"app">>))
    BY <1>7
    DEF Frames, clear_mqtt_options, PingReset, ClearPending, Return, SetClientConnected, Top,
        SetPendingClose, DeliverSuback, BytesRead, DropXio
  <2>2. /\ Head(stack) # "close" /\ UNCHANGED <<xio, connack>>
        /\ UNCHANGED feeding \/ Head(stack) = "bytes"
        /\ Head(stack) = "clear_pending" => ClearPending
        /\ Head(stack) = "accept" => SetClientConnected
    BY <1>7
    DEF Frames, clear_mqtt_options, PingReset, ClearPending, Return, SetClientConnected, Top,
        SetPendingClose, DeliverSuback, BytesRead, DropXio, network, history
  <2>3. QED
    BY <1>2, <1>4, <2>1, <2>2 DEF Pops, Become
<1>8. QED
  BY <1>5, <1>6, <1>7

LEMMA QuietWork ==
    ASSUME Unreported, DoWork
    PROVE  Stays \/ Closes
<1>1. stack = <<>>
  BY DEF DoWork, mqtt_client_dowork, KeepAlive
<1>2. CASE UNCHANGED stack
  BY <1>1, <1>2 DEF Stays
<1>3. CASE mqtt_client_dowork /\ ~UNCHANGED stack
  BY <1>3 DEF Closes, Asked, mqtt_client_dowork, network, history
<1>4. CASE KeepAlive /\ ~UNCHANGED stack
  <2>1. Report(xioHandle)
    BY <1>4 DEF KeepAlive, PingOverdue, PingDue
  <2>2. xioHandle \notin Xio
    BY <2>1, NotReported
  <2>3. Call(set_error_callback) \/ Call(set_error_callback \o <<"ping_reset">>)
    BY <1>4 DEF KeepAlive, PingOverdue, PingDue
  <2>4. UNCHANGED <<feeding, xio, wire, flushed, connack>>
    BY <1>4, <2>2 DEF KeepAlive, PingOverdue, PingDue, sendPacketItem, Open
  <2>5. QED
    BY <1>4, <2>2, <2>3, <2>4 DEF Closes, Asked
<1>5. QED
  BY <1>2, <1>3, <1>4 DEF DoWork

LEMMA QuietEvents ==
    ASSUME Unreported, NEW x \in Xio, Events(x) \/ SendComplete(x)
    PROVE  \/ Stays
           \/ stack = <<>> /\ on_connection_closed(x)
           \/ SendComplete(x) /\ DisconnectSent /\ Call(<<"app", "pend">>)
<1>1. ~Report(x)
  BY NotReported
<1>2. CASE SendComplete(x)
  BY <1>2 DEF SendComplete, Stays, history
<1>3. CASE on_connection_closed(x)
  BY <1>3 DEF on_connection_closed, XioTurn
<1>4. CASE OpenOk(x) \/ OpenError(x)
  BY <1>1, <1>4 DEF OpenOk, OpenError, StartSession, RefuseOpen, ReportOpenError, XioTurn, Stays
<1>5. CASE SendFailed(x) \/ onIoError(x)
  BY <1>1, <1>5 DEF SendFailed, onIoError
<1>6. QED
  BY <1>2, <1>3, <1>4, <1>5 DEF Events

LEMMA QuietBroker ==
    ASSUME TypeOK, Chunk, Unreported, NEW x \in Xio, Broker(x)
    PROVE  /\ Delivers(x)
           /\ RecvConnack(x) => stack = <<>>
<1>1. ~Report(x)
  BY NotReported
<1>2. stack \in Seq(Frame)
  BY DEF TypeOK
<1>3. /\ Reading(x) /\ UNCHANGED xio
      /\ RecvConnack(x) \/ (connack[x] = "accepted" /\ UNCHANGED connack)
  BY <1>1 DEF Broker, RecvConnack, RecvPublish, RecvPublishAck, RecvSubscribeAck, RecvPingresp,
              RecvMalformed, RecvInvalidSuback, BytesRejected, Established, network, history
<1>4. /\ xio[x] = "open" /\ (stack = <<>> \/ stack = <<"bytes">>)
      /\ RecvConnack(x) => stack = <<>>
  <2>1. CASE stack = <<>>
    BY <1>3, <2>1 DEF Reading, Top
  <2>2. CASE stack # <<>>
    <3>1. Head(stack) = "bytes" /\ feeding = x
      BY <1>3, <2>2 DEF Reading, XioTurn, Top
    <3>2. In("bytes", stack) /\ Tail(stack) = <<>>
      BY <1>2, <2>2, <3>1, InTail, BottomTail DEF Chunk
    <3>3. ~RecvConnack(x) /\ connack[x] = "accepted" /\ xio[x] = "open"
      BY <1>3, <3>1, <3>2 DEF Chunk, RecvConnack
    <3>4. stack = <<"bytes">>
      <4>1. Len(stack) = 1 /\ stack[1] = "bytes"
        <5> DEFINE n == Len(stack)
                   m == Len(Tail(stack))
        <5>1. m = n - 1 /\ n \in Nat
          BY <1>2, <2>2, HeadTailProperties, LenProperties
        <5>2. m = 0
          BY <3>2, Zenon, EmptySeq
        <5>3. stack[1] = "bytes"
          BY <3>1
        <5> HIDE DEF n, m
        <5>4. n = 1
          BY <5>1, <5>2
        <5>5. QED
          BY <5>3, <5>4 DEF n
      <4>2. stack = [i \in 1 .. 1 |-> "bytes"]
        BY <1>2, <4>1, LenProperties
      <4>3. QED
        BY <4>2
    <3>5. QED
      BY <3>3, <3>4
  <2>3. QED
    BY <2>1, <2>2
<1>5. \A frames : Deliver(x, frames) => stack' = frames \o <<"bytes">> /\ feeding' = x
  BY <1>4 DEF Deliver
<1>6. \E frames \in Handled : Deliver(x, frames) /\ (frames # <<"app">> => connack'[x] = "accepted")
  <2>1. ASSUME NEW answers \in SUBSET Reply, Answered(x, answers)
        PROVE  \E frames \in Handled : Deliver(x, frames)
    BY <2>1 DEF Answered, Handled
  <2>2. Ack \in SUBSET Reply /\ Reply \ Ack \in SUBSET Reply
    BY DEF Reply
  <2>3. CASE RecvPublish(x) \/ RecvPublishAck(x)
    <3>1. \E frames \in Handled : Deliver(x, frames)
      BY <2>1, <2>2, <2>3 DEF RecvPublish, RecvPublishAck
    <3>2. connack'[x] = "accepted"
      BY <2>3 DEF RecvPublish, RecvPublishAck, Established, history
    <3>3. QED
      BY <3>1, <3>2
  <2>4. CASE RecvConnack(x)
    BY <2>4 DEF RecvConnack, Handled, TypeOK
  <2>5. CASE RecvSubscribeAck(x) \/ RecvPingresp(x)
    BY <2>5 DEF RecvSubscribeAck, RecvPingresp, Handled
  <2>6. QED
    BY <1>1, <2>3, <2>4, <2>5 DEF Broker, RecvMalformed, RecvInvalidSuback, BytesRejected
<1>7. connack'[x] # "none"
  BY <1>3 DEF RecvConnack, TypeOK
<1>8. QED
  BY <1>3, <1>4, <1>5, <1>6, <1>7 DEF Delivers

LEMMA QuietSteps ==
    ASSUME TypeOK, Tracking, Chunk, Unreported, [Next]_vars
    PROVE  QuietStep
<1>1. CASE UNCHANGED vars
  BY <1>1 DEF vars, control, history, QuietStep, Stays
<1>2. CASE Settled
  BY <1>1, <1>2, QuietApp, QuietFrames, QuietWork, QuietEvents, QuietBroker DEF Next, QuietStep
<1>3. QED
  BY <1>1, <1>2, QuietEvents DEF Next, QuietStep

LEMMA OpenKept ==
    ASSUME TypeOK, [Next]_vars, NEW x \in Xio, xio[x] = "open", xio'[x] # "open"
    PROVE  close_connection
<1>1. CASE \E y \in Xio : Moves(y)
  BY <1>1 DEF Moves, Connect, Connectable, Release, OpenOk, OpenError, on_connection_closed, TypeOK
<1>2. QED
  BY <1>1, XioSteps

\* No xio becomes open while a handler is on the stack.
LEMMA NoOpening ==
    ASSUME TypeOK, [Next]_vars, stack # <<>>, NEW x \in Xio, xio'[x] = "open"
    PROVE  xio[x] = "open"
BY OpenedBy DEF OpenOk, XioTurn

AnyOpen == \E x \in Xio : xio[x] = "open"
PendingClose == "PENDING_CLOSE" \in mqtt_status
NoneInFlight == \A x \in Xio : ~InFlight(x)

\* A close_connection that is to run on an open connection is the next step and the only one, and an
\* accepted connection is closed only for a PENDING_CLOSE.
Closing ==
    /\ AnyOpen => AtTop("close", stack)
    /\ In("close", stack) =>
          \A x \in Xio : xio[x] = "open" /\ connack[x] = "accepted" => In("clear_pending", stack)

\* What becomes of the frames that are to run.
LEMMA PopsFrame ==
    ASSUME TypeOK, Pops, NEW frame, frame # "app"
    PROVE  /\ In(frame, stack') => In(frame, stack)
           /\ frame \notin Ack /\ In(frame, stack) => Head(stack) = frame \/ In(frame, stack')
           /\ AtBottom(frame, stack) => AtBottom(frame, stack')
<1>1. stack \in Seq(Frame) /\ stack # <<>> /\ Tail(stack) \in Seq(Frame)
  BY HeadTailProperties DEF TypeOK, Pops
<1>2. In(frame, stack) <=> Head(stack) = frame \/ In(frame, Tail(stack))
  BY <1>1, InTail
<1>3. Tail(stack) # <<>> =>
          (In(frame, Tail(stack)) <=> Head(Tail(stack)) = frame \/ In(frame, Tail(Tail(stack))))
  BY <1>1, InTail
<1>4. ~In(frame, <<"app">>) /\ <<"app">> \in Seq(Frame)
  BY FramesType DEF In
<1>5. In(frame, <<"app">> \o Tail(stack)) <=> In(frame, Tail(stack))
  BY <1>1, <1>4, InConcat
<1>6. ASSUME AtBottom(frame, stack) PROVE AtBottom(frame, stack')
  <2>1. AtBottom(frame, Tail(stack))
    BY <1>1, <1>6, BottomTail
  <2>2. Tail(stack) # <<>> => AtBottom(frame, Tail(Tail(stack)))
    BY <1>1, <2>1, BottomTail
  <2>3. AtBottom(frame, <<"app">> \o Tail(stack))
    BY <1>1, <1>4, <2>1, BottomConcat
  <2>4. QED
    BY <2>1, <2>2, <2>3 DEF Pops
<1>7. QED
  BY <1>2, <1>3, <1>5, <1>6 DEF Pops

LEMMA CloseFrames ==
    ASSUME close_connection
    PROVE  /\ stack # <<>> /\ Head(stack) = "close" /\ UNCHANGED <<pumping, feeding, connack>>
           /\ Become(<<>>) \/ Become(<<"app">>) \/ Become(<<"app", "drop_xio">>)
BY DEF close_connection, Top, CloseSocket, CloseLater, CloseAtOnce, CloseUnconnected, disconnectCallback

LEMMA CloseFrame ==
    ASSUME TypeOK, close_connection, NEW frame, frame \notin {"app", "drop_xio"}
    PROVE  /\ In("close", stack)
           /\ In(frame, stack') => In(frame, stack)
           /\ In(frame, stack) => frame = "close" \/ In(frame, stack')
           /\ frame = "close" /\ AtTop("close", stack) => ~In("close", stack')
           /\ AtBottom(frame, stack) => AtBottom(frame, stack')
<1>1. stack \in Seq(Frame)
  BY DEF TypeOK
<1>2. PICK frames \in {<<>>, <<"app">>, <<"app", "drop_xio">>} : Become(frames)
  BY CloseFrames
<1>3. stack # <<>> /\ Head(stack) = "close" /\ Tail(stack) \in Seq(Frame)
  BY <1>1, CloseFrames, HeadTailProperties
<1>4. ~In(frame, frames) /\ frames \in Seq(Frame)
  <2>1. ~In(frame, <<>>) /\ ~In(frame, <<"app">>) /\ ~In(frame, <<"app", "drop_xio">>)
    BY DEF In
  <2>2. QED
    BY <1>2, <2>1, FramesType
<1>5. In("close", stack)
  BY <1>1, <1>3, InTail
<1>6. AtTop("close", stack) => ~In("close", Tail(stack))
  BY <1>1, <1>5, TopOnly
<1>7. AtBottom(frame, stack) => AtBottom(frame, frames \o Tail(stack))
  BY <1>1, <1>3, <1>4, BottomTail, BottomConcat
<1>8. QED
  BY <1>1, <1>2, <1>3, <1>4, <1>5, <1>6, <1>7, BecomeStack DEF Become

\* The frames of a close that was asked for.
AskedFrames == {<<"close", "clear_opts">>, <<"close", "clear_pending">>, set_error_callback,
                set_error_callback \o <<"ping_reset">>}

LEMMA ClosesFrames ==
    ASSUME TypeOK, Closes
    PROVE  /\ stack = <<>> \/ Top("app")
           /\ \A frame \in Reply \cup {"pend", "accept", "bytes", "drop_xio"} :
                  In(frame, stack') <=> In(frame, stack)
           /\ In("clear_pending", stack) => In("clear_pending", stack')
           /\ \A frame \in {"bytes", "clear_pending"} :
                  AtBottom(frame, stack) => AtBottom(frame, stack')
           /\ UNCHANGED <<feeding, xio, wire, flushed, connack>>
<1>1. stack \in Seq(Frame)
  BY DEF TypeOK
<1>2. PICK frames \in AskedFrames :
          /\ Asked(frames)
          /\ frames = <<"close", "clear_pending">> => stack = <<>>
  <2>1. CASE mqtt_client_dowork
    BY <2>1 DEF Closes, AskedFrames, mqtt_client_dowork
  <2>2. CASE ~mqtt_client_dowork
    BY <2>2 DEF Closes, AskedFrames, set_error_callback
  <2>3. QED
    BY <2>1, <2>2
<1>3. stack = <<>> \/ Top("app")
  BY DEF Closes, mqtt_client_disconnect, mqtt_client_dowork, KeepAlive, mqtt_client_send_message_response,
         AppTurn
<1>4. frames \in Seq(Frame)
  BY FramesType DEF AskedFrames
<1>5. /\ \A frame \in Reply \cup {"pend", "accept", "bytes", "drop_xio"} : ~In(frame, frames)
      /\ In("clear_pending", frames) => frames = <<"close", "clear_pending">>
  BY DEF AskedFrames, In, set_error_callback, Reply, Ack
<1>6. AtBottom("bytes", stack) => AtBottom("bytes", stack')
  BY <1>1, <1>2, <1>4, <1>5, BottomConcat DEF Asked, Call
<1>7. AtBottom("clear_pending", stack) => AtBottom("clear_pending", stack')
  <2>1. CASE frames = <<"close", "clear_pending">>
    <3>1. stack' = <<"close", "clear_pending">>
      BY <1>2, <1>4, <2>1, ConcatEmptySeq DEF Asked, Call
    <3>2. QED
      BY <3>1 DEF AtBottom
  <2>2. CASE frames # <<"close", "clear_pending">>
    BY <1>1, <1>2, <1>4, <1>5, <2>2, BottomConcat DEF Asked, Call
  <2>3. QED
    BY <2>1, <2>2
<1>8. QED
  BY <1>1, <1>2, <1>3, <1>4, <1>5, <1>6, <1>7, CallStack DEF Asked

\* The frames of a delivery, and of the callbacks of the xio.
LEMMA DeliveredFrames ==
    ASSUME NEW frames \in Handled
    PROVE  /\ frames \o <<"bytes">> \in Seq(Frame)
           /\ In("bytes", frames \o <<"bytes">>) /\ AtBottom("bytes", frames \o <<"bytes">>)
           /\ \A frame \in {"pend", "close", "clear_pending", "drop_xio"} :
                  ~In(frame, frames \o <<"bytes">>)
           /\ \A packet \in Reply : In(packet, frames \o <<"bytes">>) => frames # <<"app">>
<1>1. frames \in Seq(Frame) /\ <<"bytes">> \in Seq(Frame)
  BY FramesType DEF Handled
<1>2. /\ \A frame \in {"bytes", "pend", "close", "clear_pending", "drop_xio"} : ~In(frame, frames)
      /\ \A packet \in Reply : In(packet, frames) => frames # <<"app">>
  BY DEF Handled, Reply, Ack, In
<1>3. /\ In("bytes", <<"bytes">>) /\ AtBottom("bytes", <<"bytes">>)
      /\ \A frame \in Reply \cup {"pend", "close", "clear_pending", "drop_xio"} : ~In(frame, <<"bytes">>)
  BY DEF In, AtBottom, Reply, Ack
<1>4. AtBottom("bytes", frames \o <<"bytes">>)
  BY <1>1, <1>2, <1>3, BottomConcat
<1>5. frames \o <<"bytes">> \in Seq(Frame)
  BY <1>1, ConcatProperties
<1>6. QED
  BY <1>1, <1>2, <1>3, <1>4, <1>5, InConcat

LEMMA CallbackFrames ==
    ASSUME NEW frame
    PROVE  /\ ~In(frame, <<>>)
           /\ frame # "app" => ~In(frame, disconnectCallback)
           /\ frame \notin {"app", "pend"} => ~In(frame, <<"app", "pend">>)
           /\ frame # "bytes" => ~In(frame, <<"bytes">>)
BY DEF In, disconnectCallback

LEMMA ClosedCallback ==
    ASSUME TypeOK, stack = <<>>, NEW x \in Xio, on_connection_closed(x)
    PROVE  stack' = disconnectCallback
BY ConcatEmptySeq, FramesType DEF on_connection_closed, Call, TypeOK

LEMMA ChunkNext ==
    ASSUME TypeOK, Tracking, Chunk, Closing, Unreported, [Next]_vars
    PROVE  Chunk'
<1>1. stack \in Seq(Frame)
  BY DEF TypeOK
<1>2. Reply \subseteq Frame \ {"app", "pend", "drop_xio", "bytes", "close"} /\ {"bytes", "clear_pending"} \subseteq Frame
  BY DEF Reply, Ack, Frame
<1>3. ASSUME \A frame \in Reply \cup {"bytes"} : ~In(frame, stack'), AtBottom("clear_pending", stack')
      PROVE  Chunk'
  <2>1. AtBottom("bytes", stack')
    BY <1>3, BottomFree
  <2>2. QED
    BY <1>3, <2>1 DEF Chunk
<1>4. ASSUME AtBottom("bytes", stack'), AtBottom("clear_pending", stack'),
             \A packet \in Reply : In(packet, stack') => In(packet, stack) /\ In("bytes", stack'),
             In("bytes", stack') => In("bytes", stack), UNCHANGED <<feeding, connack>>,
             In("bytes", stack') /\ connack[feeding] = "accepted" /\ xio[feeding] = "open" => xio'[feeding] = "open"
      PROVE  Chunk'
  BY <1>4 DEF Chunk
<1>5. CASE Stays /\ ~close_connection
  <2>1. CASE stack = <<>>
    <3>1. stack' = <<>>
      BY <1>5, <2>1 DEF Stays
    <3>2. AtBottom("clear_pending", stack')
      BY <3>1, CallbackFrames, BottomFree
    <3>3. QED
      BY <1>3, <3>1, <3>2, CallbackFrames
  <2>2. CASE stack # <<>>
    BY <1>4, <1>5, <2>2, OpenKept DEF Stays, Chunk
  <2>3. QED
    BY <2>1, <2>2
<1>6. CASE Pops
  <2>1. AtBottom("bytes", stack') /\ AtBottom("clear_pending", stack')
    BY <1>6, PopsFrame DEF Chunk
  <2>2. \A packet \in Reply : In(packet, stack') => In(packet, stack)
    BY <1>2, <1>6, PopsFrame
  <2>3. In("bytes", stack') => In("bytes", stack)
    BY <1>6, PopsFrame
  <2>4. CASE Head(stack) = "bytes"
    <3>1. stack' = <<>>
      BY <1>1, <1>6, <2>4, BottomTail DEF Pops, Chunk
    <3>2. QED
      BY <1>3, <2>1, <3>1, CallbackFrames
  <2>5. CASE Head(stack) # "bytes"
    <3>1. UNCHANGED <<feeding, xio, connack>>
      BY <1>6, <2>5 DEF Pops
    <3>2. In("bytes", stack) => In("bytes", stack')
      BY <1>6, <2>5, PopsFrame DEF Ack
    <3>3. QED
      BY <1>4, <2>1, <2>2, <2>3, <3>1, <3>2 DEF Chunk
  <2>6. QED
    BY <2>4, <2>5
<1>7. CASE close_connection
  <2>1. /\ AtBottom("bytes", stack') /\ AtBottom("clear_pending", stack')
        /\ In("bytes", stack') <=> In("bytes", stack)
        /\ In("close", stack)
    BY <1>7, CloseFrame DEF Chunk
  <2>2. \A packet \in Reply : In(packet, stack') => In(packet, stack)
    BY <1>2, <1>7, CloseFrame
  <2>3. UNCHANGED <<feeding, connack>>
    BY <1>7, CloseFrames
  <2>4. In("bytes", stack) => ~(connack[feeding] = "accepted" /\ xio[feeding] = "open")
    BY <2>1, OneBottom DEF Chunk, Closing
  <2>5. QED
    BY <1>4, <2>1, <2>2, <2>3, <2>4 DEF Chunk
<1>8. CASE Closes
  <2>1. AtBottom("bytes", stack') /\ AtBottom("clear_pending", stack')
    BY <1>8, ClosesFrames DEF Chunk
  <2>2. /\ \A frame \in Reply \cup {"bytes"} : In(frame, stack') <=> In(frame, stack)
        /\ UNCHANGED <<feeding, connack, xio>>
    BY <1>8, ClosesFrames
  <2>3. QED
    BY <1>4, <2>1, <2>2 DEF Chunk
<1>9. ASSUME NEW x \in Xio, stack = <<>>, on_connection_closed(x) PROVE Chunk'
  <2>1. \A frame \in Reply \cup {"bytes", "clear_pending"} : ~In(frame, stack')
    BY <1>2, <1>9, ClosedCallback, CallbackFrames
  <2>2. QED
    BY <1>3, <2>1, BottomFree
<1>10. ASSUME NEW x \in Xio, SendComplete(x), Call(<<"app", "pend">>) PROVE Chunk'
  <2>1. UNCHANGED <<feeding, xio, connack>>
    BY <1>10 DEF SendComplete, history
  <2>2. \A frame \in Reply \cup {"bytes", "clear_pending"} : In(frame, stack') <=> In(frame, stack)
    BY <1>1, <1>2, <1>10, CallStack, FramesType, CallbackFrames
  <2>3. AtBottom("bytes", stack') /\ AtBottom("clear_pending", stack')
    BY <1>1, <1>2, <1>10, BottomConcat, FramesType, CallbackFrames DEF Call, Chunk
  <2>4. QED
    BY <1>4, <2>1, <2>2, <2>3 DEF Chunk
<1>11. ASSUME NEW x \in Xio, Delivers(x) PROVE Chunk'
  <2>1. PICK frames \in Handled :
            stack' = frames \o <<"bytes">> /\ (frames # <<"app">> => connack'[x] = "accepted")
    BY <1>11 DEF Delivers
  <2>2. AtBottom("bytes", stack') /\ AtBottom("clear_pending", stack') /\ In("bytes", stack')
    BY <2>1, DeliveredFrames, BottomFree
  <2>3. \A packet \in Reply : In(packet, stack') => connack'[x] = "accepted"
    BY <2>1, DeliveredFrames
  <2>4. feeding' = x /\ connack'[x] # "none" /\ xio'[x] = "open"
    BY <1>11 DEF Delivers
  <2>5. QED
    BY <2>2, <2>3, <2>4 DEF Chunk
<1>12. QED
  BY <1>5, <1>6, <1>7, <1>8, <1>9, <1>10, <1>11, QuietSteps DEF QuietStep

\* PENDING_CLOSE, or the callback before it is set, means that a connection is still open or that
\* mqtt_client_dowork is closing it; a close_connection that is to run for another reason does not
\* meet it.
Pending ==
    /\ packetState = "DISCONNECT" => ClientUp
    /\ In("pend", stack) => ClientUp /\ AnyOpen /\ ~In("close", stack)
    /\ PendingClose => ClientUp /\ (AnyOpen \/ In("clear_pending", stack))
    /\ In("close", stack) /\ PendingClose => In("clear_pending", stack)
    /\ In("close", stack) /\ ~QueuedSends => NoneInFlight

LEMMA FlushGrows ==
    ASSUME TypeOK, [Next]_vars, NEW x \in Xio
    PROVE  flushed[x] \in Nat /\ flushed'[x] \in Nat /\ flushed'[x] >= flushed[x]
<1>1. flushed[x] \in Nat
  BY DEF TypeOK
<1>2. CASE \E y \in Xio : SendComplete(y)
  BY <1>1, <1>2 DEF SendComplete, TypeOK
<1>3. CASE UNCHANGED flushed
  BY <1>1, <1>3
<1>4. QED
  BY <1>2, <1>3
  DEF Next, App, Frames, DoWork, Events, Broker, Connect, Release, Send, mqtt_client_send_message_response,
      mqtt_client_disconnect, clear_mqtt_options, PingReset, ClearPending, Return, SetClientConnected,
      SetPendingClose, DeliverSuback, SendReply, BytesRead, DropXio, close_connection, mqtt_client_dowork,
      KeepAlive, OpenOk, OpenError, SendFailed, onIoError, on_connection_closed,
      RecvConnack, RecvPublish, RecvPublishAck, RecvSubscribeAck, RecvPingresp, RecvMalformed,
      RecvInvalidSuback, BytesRejected, network, vars

\* Where CLIENT_CONNECTED, PENDING_CLOSE and the packet state come from.
LEMMA StatusSteps ==
    ASSUME TypeOK, Tracking, SocketInUse, Unreported, [Next]_vars
    PROVE  /\ ClientUp => ClientUp'
           /\ PendingClose' => PendingClose \/ SetPendingClose
           /\ packetState' = "DISCONNECT" =>
                  packetState = "DISCONNECT" \/ (mqtt_client_disconnect /\ DisconnectConnected)
<1>1. CASE UNCHANGED <<mqtt_status, packetState>>
  BY <1>1 DEF ClientUp, PendingClose
<1>2. ASSUME NEW x \in Xio, OpenOk(x) \/ OpenError(x)
      PROVE  /\ ClientUp => ClientUp'
             /\ PendingClose' => PendingClose
             /\ packetState' = "DISCONNECT" => packetState = "DISCONNECT"
  <2>1. ~SocketUp
    BY <1>2, OpensFresh DEF OpenOk, OpenError
  <2>2. QED
    BY <1>2, <2>1 DEF OpenOk, OpenError, StartSession, RefuseOpen, ReportOpenError, ClientUp, PendingClose
<1>3. CASE SetClientConnected \/ SetPendingClose \/ ClearPending
  BY <1>3 DEF SetClientConnected, SetPendingClose, ClearPending, MarkPendingClose, ClientUp, PendingClose
<1>4. CASE mqtt_client_disconnect
  BY <1>4 DEF mqtt_client_disconnect, DisconnectConnected, DisconnectUnconnected, ClientUp, PendingClose
<1>5. CASE UNCHANGED packetState /\ mqtt_status' \in {mqtt_status, mqtt_status \ {"SOCKET_CONNECTED"}}
  BY <1>5 DEF ClientUp, PendingClose
<1>6. CASE UNCHANGED mqtt_status /\ packetState' # "DISCONNECT"
  BY <1>6 DEF ClientUp, PendingClose
<1>7. ASSUME NEW packet \in AppPackets, Send(packet)
      PROVE  UNCHANGED mqtt_status /\ packetState' # "DISCONNECT"
  BY <1>7, ConstantsAssumption DEF Send, SendTypes
<1>8. QED
  BY <1>1, <1>2, <1>3, <1>4, <1>5, <1>6, <1>7
  DEF Next, App, Frames, DoWork, Events, Broker, Connect, Release, mqtt_client_send_message_response,
      clear_mqtt_options, PingReset, Return, DeliverSuback, SendReply, BytesRead, DropXio, close_connection,
      CloseSocket, CloseLater, CloseAtOnce, CloseUnconnected, mqtt_client_dowork, KeepAlive, PingOverdue,
      PingDue, SendComplete, SendFailed, onIoError, on_connection_closed,
      RecvConnack, RecvPublish, RecvPublishAck, RecvSubscribeAck, RecvPingresp, RecvMalformed,
      RecvInvalidSuback, BytesRejected, client, vars

\* mqtt_client_disconnect is not called from the callback of a CONNACK.
Patient == "disconnect_early" \notin AppMay \/ MaxDepth = 0

LEMMA NoAcceptBelow ==
    ASSUME Patient, TypeOK, mqtt_client_disconnect
    PROVE  ~In("accept", stack)
<1>1. CASE MaxDepth = 0
  <2>1. stack = <<>>
    BY <1>1, OutsideOnly DEF mqtt_client_disconnect
  <2>2. QED
    BY <2>1, CallbackFrames
<1>2. CASE "disconnect_early" \notin AppMay
  BY <1>2 DEF mqtt_client_disconnect, Disconnectable, OnStack, In
<1>3. QED
  BY <1>1, <1>2 DEF Patient

\* Afterwards nothing is open: close_connection closes the client's xio, and there is no other.
LEMMA CloseShuts ==
    ASSUME TypeOK, Tracking, close_connection
    PROVE  ~AnyOpen'
<1> SUFFICES ASSUME NEW x \in Xio, xio'[x] = "open" PROVE FALSE
  BY DEF AnyOpen
<1>1. xio[x] = "open"
  BY CloseMoves DEF Closable, TypeOK, close_connection, CloseSocket, CloseUnconnected, CloseLater, CloseAtOnce
<1>2. SocketUp /\ xioHandle = x /\ Closable(xioHandle)
  BY <1>1 DEF Tracking, SocketUp, Closable
<1>3. CloseLater(x) \/ CloseAtOnce(x)
  BY <1>2 DEF close_connection, CloseSocket
<1>4. QED
  BY <1>3 DEF CloseLater, CloseAtOnce, TypeOK

\* An open connection is closed before anything else is sent.
LEMMA WireStays ==
    ASSUME TypeOK, Closing, AnyOpen, In("close", stack), [Next]_vars
    PROVE  UNCHANGED wire /\ \A x \in Xio : xio'[x] = "open" => xio[x] = "open"
<1>1. stack \in Seq(Frame)
  BY DEF TypeOK
<1>2. stack # <<>> /\ Head(stack) = "close"
  BY <1>1, TopOnly DEF Closing
<1>3. ~AppTurn /\ (\A x \in Xio : ~XioTurn(x)) /\ ~SendReply
  BY <1>2 DEF XioTurn, AppTurn, Top, SendReply, Reply, Ack
<1>4. UNCHANGED wire
  BY <1>2, <1>3
  DEF Next, App, Frames, DoWork, Events, Broker, Connect, Release, Send, mqtt_client_send_message_response,
      mqtt_client_disconnect, clear_mqtt_options, PingReset, ClearPending, Return, SetClientConnected,
      SetPendingClose, DeliverSuback, BytesRead, DropXio, close_connection, mqtt_client_dowork,
      KeepAlive, OpenOk, OpenError, SendComplete, SendFailed, onIoError, on_connection_closed,
      RecvConnack, RecvPublish, RecvPublishAck, RecvSubscribeAck, RecvPingresp, RecvMalformed,
      RecvInvalidSuback, BytesRejected, network, vars
<1>5. QED
  BY <1>2, <1>4, NoOpening

\* A completed DISCONNECT is recognised only when no close_connection is to run.
LEMMA SentAlone ==
    ASSUME Pending, NEW x \in Xio, SendComplete(x)
    PROVE  xio[x] = "open" /\ ~In("close", stack)
<1>1. CASE QueuedSends
  BY <1>1, CallbackFrames DEF SendComplete, SendTurn, XioTurn, InFlight
<1>2. CASE ~QueuedSends
  BY <1>2 DEF SendComplete, Pending, NoneInFlight, InFlight
<1>3. QED
  BY <1>1, <1>2

\* A close that is asked for meets a PENDING_CLOSE only in mqtt_client_dowork.
LEMMA PendingCloses ==
    ASSUME TypeOK, Tracking, Pending, Closes
    PROVE  /\ ~In("pend", stack) /\ ~SetPendingClose
           /\ PendingClose => In("clear_pending", stack')
<1>1. stack \in Seq(Frame)
  BY DEF TypeOK
<1>2. AnyOpen => xioHandle \in Xio
  BY DEF AnyOpen, Tracking
<1>3. CASE mqtt_client_dowork /\ PendingClose /\ Asked(<<"close", "clear_pending">>)
  <2>1. stack = <<>>
    BY <1>3 DEF mqtt_client_dowork
  <2>2. In("clear_pending", <<"close", "clear_pending">>)
    <3>1. 2 \in 1 .. Len(<<"close", "clear_pending">>) /\ <<"close", "clear_pending">>[2] = "clear_pending"
      OBVIOUS
    <3>2. QED
      BY <3>1 DEF In
  <2>3. In("clear_pending", stack')
    BY <1>1, <1>3, <2>2, CallStack, FramesType DEF Asked
  <2>4. QED
    BY <2>1, <2>3, CallbackFrames DEF SetPendingClose, Top
<1>4. CASE mqtt_client_disconnect /\ ~ClientUp
  <2>1. ~In("pend", stack) /\ ~PendingClose
    BY <1>4 DEF Pending
  <2>2. ~SetPendingClose
    BY <1>4, ClosesFrames DEF SetPendingClose, Top
  <2>3. QED
    BY <2>1, <2>2
<1>5. CASE xioHandle \notin Xio
  <2>1. ~In("pend", stack) /\ (PendingClose => In("clear_pending", stack))
    BY <1>2, <1>5 DEF Pending
  <2>2. ~SetPendingClose
    BY ClosesFrames DEF SetPendingClose, Top
  <2>3. QED
    BY <2>1, <2>2, ClosesFrames
<1>6. QED
  BY <1>3, <1>4, <1>5 DEF Closes, PendingClose

LEMMA PendingNext ==
    ASSUME TypeOK, Tracking, SocketInUse, Chunk, Pending, Closing, Unreported, [Next]_vars
    PROVE  Pending'
<1>1. stack \in Seq(Frame)
  BY DEF TypeOK
<1>2. /\ ClientUp => ClientUp'
      /\ PendingClose' => PendingClose \/ SetPendingClose
      /\ packetState' = "DISCONNECT" => ClientUp'
  BY StatusSteps DEF Pending, DisconnectConnected
<1>3. SetPendingClose => In("pend", stack) /\ UNCHANGED xio
  BY <1>1, InTail DEF SetPendingClose, Top, network
<1>4. PendingClose' => ClientUp'
  BY <1>2, <1>3 DEF Pending
<1>5. In("close", stack) /\ PendingClose' => In("clear_pending", stack)
  BY <1>2, <1>3 DEF Pending
<1>6. ~close_connection => (AnyOpen => AnyOpen')
  BY OpenKept DEF AnyOpen
<1>7. In("close", stack) /\ ~QueuedSends => NoneInFlight'
  <2>1. SUFFICES ASSUME In("close", stack), NoneInFlight, NEW x \in Xio PROVE ~InFlight(x)'
    BY DEF Pending, NoneInFlight
  <2>2. CASE xio'[x] = "open"
    <3>1. xio[x] = "open"
      BY <2>1, <2>2, NoOpening, CallbackFrames
    <3>2. UNCHANGED wire
      BY <2>1, <3>1, WireStays DEF AnyOpen
    <3>3. flushed[x] \in Nat /\ flushed'[x] \in Nat /\ flushed'[x] >= flushed[x] /\ Len(wire[x]) \in Nat
      BY FlushGrows, LenProperties DEF TypeOK
    <3>4. QED
      BY <2>1, <3>1, <3>2, <3>3 DEF NoneInFlight, InFlight
  <2>3. QED
    BY <2>2 DEF InFlight
<1> DEFINE Frames3 == /\ In("pend", stack') => AnyOpen' /\ ClientUp' /\ ~In("close", stack')
                      /\ PendingClose' => AnyOpen' \/ In("clear_pending", stack')
                      /\ In("close", stack') /\ PendingClose' => In("clear_pending", stack')
                      /\ In("close", stack') /\ ~QueuedSends => NoneInFlight'
<1> SUFFICES Frames3
  BY <1>2, <1>4 DEF Pending
<1>8. CASE Stays /\ ~close_connection
  <2>1. stack' = stack
    BY <1>8 DEF Stays
  <2>2. QED
    BY <1>2, <1>3, <1>5, <1>6, <1>7, <1>8, <2>1 DEF Pending
<1>9. CASE Pops
  <2>1. UNCHANGED xio
    BY <1>9 DEF Pops
  <2>2. Head(stack) = "clear_pending" => ~PendingClose'
    BY <1>9 DEF Pops, ClearPending, PendingClose
  <2>3. AnyOpen => AnyOpen'
    BY <2>1 DEF AnyOpen
  <2>4. /\ In("pend", stack') => In("pend", stack)
        /\ In("close", stack') => In("close", stack)
        /\ In("clear_pending", stack) => Head(stack) = "clear_pending" \/ In("clear_pending", stack')
    BY <1>9, PopsFrame DEF Ack
  <2>5. QED
    BY <1>2, <1>3, <1>5, <1>7, <2>2, <2>3, <2>4 DEF Pending
<1>10. CASE close_connection
  <2>1. /\ In("close", stack) /\ (In("close", stack') => In("close", stack))
        /\ In("pend", stack') => In("pend", stack)
        /\ In("clear_pending", stack) => In("clear_pending", stack')
    BY <1>10, CloseFrame
  <2>2. QED
    BY <1>5, <1>7, <2>1 DEF Pending
<1>11. CASE Closes /\ Settled
  <2>1. UNCHANGED <<xio, wire, flushed>> /\ (In("pend", stack') => In("pend", stack))
    BY <1>11, ClosesFrames
  <2>2. ~In("pend", stack') /\ (PendingClose' => In("clear_pending", stack'))
    BY <1>2, <1>11, <2>1, PendingCloses
  <2>3. ~QueuedSends => NoneInFlight'
    BY <1>11, <2>1 DEF Settled, NoneInFlight, InFlight
  <2>4. QED
    BY <2>2, <2>3
<1>12. CASE stack = <<>> /\ \E x \in Xio : on_connection_closed(x)
  <2>1. ~In("pend", stack') /\ ~In("close", stack')
    BY <1>12, ClosedCallback, CallbackFrames
  <2>2. ~close_connection /\ ~In("pend", stack) /\ ~In("clear_pending", stack)
    BY <1>12, CloseFrames, CallbackFrames
  <2>3. QED
    BY <1>2, <1>3, <1>6, <2>1, <2>2 DEF Pending
<1>13. ASSUME NEW x \in Xio, SendComplete(x), DisconnectSent, Call(<<"app", "pend">>) PROVE Frames3
  <2>1. xio'[x] = "open" /\ ~In("close", stack)
    BY <1>13, SentAlone DEF SendComplete
  <2>2. ClientUp'
    BY <1>2, <1>13 DEF Pending, DisconnectSent
  <2>3. ~In("close", stack')
    BY <1>1, <1>13, <2>1, CallStack, FramesType, CallbackFrames
  <2>4. QED
    BY <2>1, <2>2, <2>3 DEF AnyOpen
<1>14. ASSUME NEW x \in Xio, Delivers(x) PROVE Frames3
  BY <1>14, DeliveredFrames DEF Delivers, AnyOpen
<1>15. QED
  BY <1>8, <1>9, <1>10, <1>11, <1>12, <1>13, <1>14, QuietSteps DEF QuietStep

-----------------------------------------------------------------------------
(* What goes out before a connection is closed.                            *)

Ended(x) == \E i \in 1 .. flushed[x] : wire[x][i] = "DISCONNECT"
Sent(x) == \E i \in 1 .. Len(wire[x]) : wire[x][i] = "DISCONNECT"

LEMMA WireGrows ==
    ASSUME TypeOK, [Next]_vars, NEW x \in Xio
    PROVE  /\ Len(wire[x]) \in Nat /\ Len(wire'[x]) \in Nat
           /\ Len(wire'[x]) >= Len(wire[x]) /\ Len(wire'[x]) <= Len(wire[x]) + 1
           /\ \A i \in 1 .. Len(wire[x]) : wire'[x][i] = wire[x][i]
<1>1. wire[x] \in Seq(Packet) /\ Len(wire[x]) \in Nat
  BY LenProperties DEF TypeOK
<1>2. CASE wire'[x] = wire[x]
  BY <1>1, <1>2
<1>3. ASSUME NEW packet \in Packet, Sends(packet), x = xioHandle
      PROVE  /\ Len(wire'[x]) = Len(wire[x]) + 1
             /\ \A i \in 1 .. Len(wire[x]) : wire'[x][i] = wire[x][i]
  <2>1. wire'[x] = Append(wire[x], packet)
    BY <1>3 DEF Sends, TypeOK
  <2>2. QED
    BY <1>1, <2>1, AppendProperties
<1>4. CASE \E packet \in Packet : Sends(packet)
  <2>1. PICK packet \in Packet : Sends(packet)
    BY <1>4
  <2>2. CASE x = xioHandle
    BY <1>1, <1>3, <2>1, <2>2
  <2>3. CASE x # xioHandle
    BY <1>2, <2>1, <2>3, SentLast
  <2>4. QED
    BY <2>2, <2>3
<1>5. UNCHANGED wire \/ \E packet \in Packet : Sends(packet)
  BY Senders DEF Packet
<1>6. QED
  BY <1>2, <1>4, <1>5

LEMMA EndedKept ==
    ASSUME TypeOK, [Next]_vars, NEW x \in Xio
    PROVE  /\ Ended(x) => Ended(x)'
           /\ Sent(x) => Sent(x)'
<1>1. /\ Len(wire[x]) \in Nat /\ Len(wire'[x]) \in Nat /\ Len(wire'[x]) >= Len(wire[x])
      /\ \A i \in 1 .. Len(wire[x]) : wire'[x][i] = wire[x][i]
  BY WireGrows
<1>2. flushed[x] \in Nat /\ flushed'[x] \in Nat /\ flushed'[x] >= flushed[x]
  BY FlushGrows
<1>3. flushed[x] <= Len(wire[x])
  BY DEF TypeOK
<1>4. QED
  BY <1>1, <1>2, <1>3 DEF Ended, Sent

\* Packets of the other kinds of xio, and the answers to CONNECT.
Fresh ==
    /\ \A x \in Xio : xio[x] \in {"created", "opening"} => wire[x] = <<>>
    /\ \A x \in Xio : connack[x] # "none" => wire[x] # <<>>

LEMMA FreshNext ==
    ASSUME TypeOK, Tracking, Fresh, [Next]_vars
    PROVE  Fresh'
<1>1. ASSUME NEW x \in Xio, xio'[x] \in {"created", "opening"} PROVE wire'[x] = <<>>
  <2>1. xio[x] \in {"created", "opening"} /\ wire[x] = <<>>
    BY <1>1, NeverBack DEF Fresh
  <2>2. ASSUME NEW packet \in Packet, Sends(packet), InSession(packet) PROVE wire'[x] = wire[x]
    BY <2>1, <2>2, SentLast DEF InSession, Open
  <2>3. ASSUME NEW y \in Xio, OpenOk(y), Sends("CONNECT") PROVE wire'[x] = wire[x]
    <3>1. xioHandle = y /\ xio'[y] = "open"
      BY <2>3 DEF OpenOk, Tracking, TypeOK
    <3>2. QED
      BY <1>1, <2>3, <3>1, SentLast DEF Packet
  <2>4. QED
    BY <2>1, <2>2, <2>3, Senders DEF Packet
<1>2. ASSUME NEW x \in Xio, connack'[x] # "none" PROVE wire'[x] # <<>>
  BY <1>2, Answers, WireKept DEF Fresh
<1>3. QED
  BY <1>1, <1>2 DEF Fresh

LEMMA AcceptedBy ==
    ASSUME TypeOK, [Next]_vars, NEW x \in Xio, connack'[x] = "accepted", connack[x] # "accepted"
    PROVE  RecvConnack(x) /\ Deliver(x, <<"app", "accept">>)
<1>1. ASSUME NEW y \in Xio, RecvConnack(y) PROVE y = x /\ Deliver(x, <<"app", "accept">>)
  BY <1>1 DEF RecvConnack, TypeOK
<1>2. QED
  BY <1>1
  DEF Next, App, Frames, DoWork, Events, Broker, Connect, Release, Send, mqtt_client_send_message_response,
      mqtt_client_disconnect, clear_mqtt_options, PingReset, ClearPending, Return, SetClientConnected,
      SetPendingClose, DeliverSuback, SendReply, BytesRead, DropXio, close_connection,
      mqtt_client_dowork, KeepAlive, OpenOk, OpenError, SendComplete, SendFailed, onIoError,
      on_connection_closed, RecvPublish, RecvPublishAck, RecvSubscribeAck, RecvPingresp,
      RecvMalformed, RecvInvalidSuback, BytesRejected, history, vars

\* A connection is accepted by an answer in an empty chunk.
LEMMA AcceptedOpen ==
    ASSUME TypeOK, Chunk, Unreported, NEW x \in Xio, RecvConnack(x), Deliver(x, <<"app", "accept">>)
    PROVE  /\ stack = <<>> /\ xio[x] = "open" /\ UNCHANGED xio
           /\ ~In("close", stack') /\ In("accept", stack')
<1>1. Delivers(x) /\ stack = <<>>
  BY QuietBroker DEF Broker
<1>2. xio[x] = "open" /\ UNCHANGED xio /\ ~In("close", stack')
  BY <1>1, DeliveredFrames DEF Delivers
<1>3. In("accept", stack')
  <2>1. stack' = <<"app", "accept">> \o Rest /\ Rest \in Seq(Frame)
    BY RestType DEF Deliver, Rest
  <2>2. In("accept", <<"app", "accept">>)
    <3>1. 2 \in 1 .. Len(<<"app", "accept">>) /\ <<"app", "accept">>[2] = "accept"
      OBVIOUS
    <3>2. QED
      BY <3>1 DEF In
  <2>3. QED
    BY <2>1, <2>2, InConcat, FramesType
<1>4. QED
  BY <1>1, <1>2, <1>3

Known == \A x \in Xio : xio[x] = "open" /\ connack[x] = "accepted" => ClientUp \/ In("accept", stack)
DisconnectOnWire == packetState = "DISCONNECT" => \A x \in Xio : xio[x] = "open" => Sent(x)
AtMostOneLeft == \A x \in Xio : xio[x] = "open" => flushed[x] >= Len(wire[x]) - 1

\* The close that is decided, and the one that is made, of a connection whose DISCONNECT went out.
EndedWhenPending == In("pend", stack) \/ PendingClose => \A x \in Xio : xio[x] = "open" => Ended(x)
EndedWhenClosing ==
    In("close", stack) => \A x \in Xio : xio[x] = "open" /\ connack[x] = "accepted" => Ended(x)
EndedWhenClosed ==
    \A x \in Xio : xio[x] \in {"closing", "closed"} /\ connack[x] = "accepted" => Ended(x)

LEMMA KnownNext ==
    ASSUME TypeOK, Tracking, SocketInUse, Fresh, Chunk, Known, Unreported, [Next]_vars
    PROVE  Known'
<1> SUFFICES ASSUME NEW x \in Xio, xio'[x] = "open", connack'[x] = "accepted"
             PROVE  ClientUp' \/ In("accept", stack')
  BY DEF Known
<1>1. CASE connack[x] # "accepted"
  BY <1>1, AcceptedBy, AcceptedOpen
<1>2. CASE connack[x] = "accepted" /\ xio[x] # "open"
  BY <1>2, OpenedBy DEF OpenOk, Fresh
<1>3. CASE connack[x] = "accepted" /\ xio[x] = "open" /\ ~ClientUp
  <2>1. In("accept", stack) /\ stack # <<>> /\ stack # <<"bytes">> /\ stack \in Seq(Frame)
    BY <1>3, CallbackFrames DEF Known, TypeOK
  <2>2. CASE Pops
    <3>1. Head(stack) = "accept" => ClientUp'
      BY <2>2 DEF Pops, SetClientConnected, ClientUp
    <3>2. QED
      BY <2>1, <2>2, <3>1, PopsFrame DEF Ack
  <2>3. CASE close_connection
    BY <2>1, <2>3, CloseFrame
  <2>4. CASE Call(<<"app", "pend">>)
    BY <2>1, <2>4, CallStack, FramesType
  <2>5. CASE Closes
    BY <2>1, <2>5, ClosesFrames
  <2>6. QED
    BY <2>1, <2>2, <2>3, <2>4, <2>5, QuietSteps DEF QuietStep, Stays, Delivers
<1>4. CASE ClientUp
  BY <1>4, StatusSteps
<1>5. QED
  BY <1>1, <1>2, <1>3, <1>4

LEMMA ClosingNext ==
    ASSUME Patient, TypeOK, Tracking, Chunk, Pending, Closing, Known, Unreported, [Next]_vars
    PROVE  Closing'
<1>1. stack \in Seq(Frame)
  BY DEF TypeOK
<1>2. ASSUME ~In("close", stack') PROVE Closing'
  BY <1>2, BottomFree DEF Closing
<1>3. ASSUME ~AnyOpen' PROVE Closing'
  BY <1>3 DEF Closing, AnyOpen
<1>4. CASE close_connection
  BY <1>3, <1>4, CloseShuts
<1>5. CASE Stays /\ ~close_connection
  <2>1. CASE stack = <<>>
    BY <1>2, <1>5, <2>1, CallbackFrames DEF Stays
  <2>2. CASE stack # <<>>
    BY <1>5, <2>2, NoOpening DEF Stays, Closing, AnyOpen
  <2>3. QED
    BY <2>1, <2>2
<1>6. CASE Pops
  <2>1. UNCHANGED xio /\ Head(stack) # "close" /\ (In("close", stack') => In("close", stack))
    BY <1>6, PopsFrame DEF Pops
  <2>2. In("close", stack) => ~AnyOpen
    BY <1>1, <2>1, TopOnly DEF Closing
  <2>3. QED
    BY <1>2, <1>3, <2>1, <2>2 DEF AnyOpen
<1>7. CASE Closes /\ Settled
  <2>1. stack = <<>> \/ Top("app")
    BY <1>7, ClosesFrames
  <2>2. SUFFICES ASSUME AnyOpen PROVE Closing'
    BY <1>3, <1>7, ClosesFrames DEF AnyOpen
  <2>3. ~In("close", stack)
    <3>1. stack = <<>> \/ Head(stack) = "app"
      BY <2>1 DEF Top
    <3>2. QED
      BY <1>1, <2>2, <3>1, TopOnly, CallbackFrames DEF Closing
  <2>4. PICK frames \in {<<"close", "clear_opts">>, <<"close", "clear_pending">>} :
            /\ Call(frames) /\ UNCHANGED <<xio, connack>>
            /\ frames = <<"close", "clear_opts">> => mqtt_client_disconnect /\ ~ClientUp
    <3>1. xioHandle \in Xio
      BY <2>2 DEF AnyOpen, Tracking
    <3>2. QED
      BY <1>7, <3>1 DEF Closes, Asked
  <2>5. frames \in Seq(Frame) /\ AtTop("close", frames)
    <3>1. AtTop("close", <<"close", "clear_opts">>) /\ AtTop("close", <<"close", "clear_pending">>)
      BY DEF AtTop
    <3>2. QED
      BY <3>1, FramesType
  <2>6. AtTop("close", stack')
    BY <1>1, <2>3, <2>4, <2>5, TopConcat DEF Call
  <2>7. CASE frames = <<"close", "clear_opts">>
    <3>1. \A x \in Xio : ~(xio[x] = "open" /\ connack[x] = "accepted")
      BY <2>4, <2>7, NoAcceptBelow DEF Known
    <3>2. QED
      BY <2>4, <2>6, <3>1 DEF Closing
  <2>8. CASE frames = <<"close", "clear_pending">>
    <3>1. In("clear_pending", frames)
      <4>1. 2 \in 1 .. Len(frames) /\ frames[2] = "clear_pending"
        BY <2>8
      <4>2. QED
        BY <4>1 DEF In
    <3>2. In("clear_pending", stack')
      BY <1>1, <2>4, <2>5, <3>1, CallStack
    <3>3. QED
      BY <2>6, <3>2 DEF Closing
  <2>9. QED
    BY <2>7, <2>8
<1>8. CASE stack = <<>> /\ \E x \in Xio : on_connection_closed(x)
  BY <1>2, <1>8, ClosedCallback, CallbackFrames
<1>9. ASSUME NEW x \in Xio, SendComplete(x), Call(<<"app", "pend">>) PROVE Closing'
  <2>1. ~In("close", stack')
    BY <1>1, <1>9, SentAlone, CallStack, FramesType, CallbackFrames
  <2>2. QED
    BY <1>2, <2>1
<1>10. CASE \E x \in Xio : Delivers(x)
  BY <1>2, <1>10, DeliveredFrames DEF Delivers
<1>11. QED
  BY <1>4, <1>5, <1>6, <1>7, <1>8, <1>9, <1>10, QuietSteps DEF QuietStep

\* While no error was reported.
Quietly ==
    /\ Chunk /\ Pending /\ Closing /\ Known /\ DisconnectOnWire
    /\ EndedWhenPending /\ EndedWhenClosing /\ EndedWhenClosed

\* The xio completes a send before anything else happens, and no send fails.
SendsComplete == ~QueuedSends /\ "send" \notin Faults /\ Patient /\ Orderly

LEMMA OnWireNext ==
    ASSUME "send" \notin Faults, TypeOK, Tracking, SocketInUse, DisconnectOnWire, Unreported, [Next]_vars
    PROVE  DisconnectOnWire'
<1> SUFFICES ASSUME packetState' = "DISCONNECT", NEW x \in Xio, xio'[x] = "open" PROVE Sent(x)'
  BY DEF DisconnectOnWire
<1>1. CASE mqtt_client_disconnect /\ DisconnectConnected
  <2>1. xioHandle = x /\ xio[x] = "open"
    BY <1>1 DEF mqtt_client_disconnect, Tracking
  <2>2. PICK ok \in BOOLEAN : sendPacketItem(TRUE, "DISCONNECT", ok)
    BY <1>1, <2>1 DEF DisconnectConnected, Open
  <2>3. Sends("DISCONNECT")
    BY <2>1, <2>2 DEF sendPacketItem, Sends
  <2>4. /\ wire'[x] = Append(wire[x], "DISCONNECT") /\ wire[x] \in Seq(Packet)
        /\ "DISCONNECT" \in Packet
    BY <2>1, <2>3 DEF Sends, TypeOK, Packet
  <2>5. /\ Len(wire'[x]) = Len(wire[x]) + 1 /\ wire'[x][Len(wire[x]) + 1] = "DISCONNECT"
        /\ Len(wire[x]) \in Nat
    BY <2>4, AppendProperties, LenProperties
  <2>6. QED
    BY <2>5 DEF Sent
<1>2. CASE packetState = "DISCONNECT" /\ xio[x] = "open"
  BY <1>2, EndedKept DEF DisconnectOnWire
<1>3. CASE xio[x] # "open"
  <2>1. OpenOk(x)
    BY <1>3, OpenedBy
  <2>2. StartSession(x)
    BY <2>1, OpensFresh DEF OpenOk, RefuseOpen
  <2>3. QED
    BY <2>2 DEF StartSession
<1>4. QED
  BY <1>1, <1>2, <1>3, StatusSteps

LEMMA OneLeftNext ==
    ASSUME ~QueuedSends, TypeOK, Fresh, AtMostOneLeft, [Next]_vars
    PROVE  AtMostOneLeft'
<1> SUFFICES ASSUME NEW x \in Xio, xio'[x] = "open" PROVE flushed'[x] >= Len(wire'[x]) - 1
  BY DEF AtMostOneLeft
<1>1. /\ Len(wire[x]) \in Nat /\ Len(wire'[x]) \in Nat /\ Len(wire'[x]) <= Len(wire[x]) + 1
      /\ flushed[x] \in Nat /\ flushed'[x] \in Nat /\ flushed'[x] >= flushed[x]
  BY WireGrows, FlushGrows
<1>2. CASE xio[x] # "open"
  <2>1. wire[x] = <<>>
    BY <1>2, OpenedBy DEF OpenOk, Fresh
  <2>2. Len(wire[x]) = 0
    BY <2>1
  <2>3. QED
    BY <1>1, <2>2
<1>3. CASE xio[x] = "open" /\ Settled
  <2>1. ~(flushed[x] < Len(wire[x]))
    BY <1>3 DEF Settled, InFlight
  <2>2. QED
    BY <1>1, <2>1
<1>4. CASE xio[x] = "open" /\ ~Settled
  <2>1. UNCHANGED wire
    BY <1>4 DEF Next, SendComplete, vars, network
  <2>2. flushed[x] >= Len(wire[x]) - 1
    BY <1>4 DEF AtMostOneLeft
  <2>3. QED
    BY <1>1, <2>1, <2>2
<1>5. QED
  BY <1>2, <1>3, <1>4

\* The callback before PENDING_CLOSE comes from a completed DISCONNECT.
LEMMA PendFrom ==
    ASSUME TypeOK, Tracking, Chunk, Unreported, [Next]_vars, In("pend", stack'), ~In("pend", stack)
    PROVE  \E x \in Xio : SendComplete(x) /\ DisconnectSent
<1>1. CASE Pops
  BY <1>1, PopsFrame
<1>2. CASE close_connection
  BY <1>2, CloseFrame
<1>3. CASE stack = <<>> /\ \E x \in Xio : on_connection_closed(x)
  BY <1>3, ClosedCallback, CallbackFrames
<1>4. CASE Closes
  BY <1>4, ClosesFrames
<1>5. CASE Stays \/ \E x \in Xio : Delivers(x)
  BY <1>5, DeliveredFrames DEF Stays, Delivers
<1>6. QED
  BY <1>1, <1>2, <1>3, <1>4, <1>5, QuietSteps DEF QuietStep

LEMMA PendingEndsNext ==
    ASSUME SendsComplete, TypeOK, Tracking, SocketInUse, AtMostOneLeft, Quietly, Unreported, [Next]_vars
    PROVE  EndedWhenPending'
<1> SUFFICES ASSUME In("pend", stack') \/ PendingClose', NEW x \in Xio, xio'[x] = "open"
             PROVE  Ended(x)'
  BY DEF EndedWhenPending
<1>1. stack \in Seq(Frame)
  BY DEF TypeOK
<1>2. CASE (In("pend", stack) \/ PendingClose) /\ xio[x] = "open"
  BY <1>2, EndedKept DEF Quietly, EndedWhenPending
<1>3. CASE (In("pend", stack) \/ PendingClose) /\ xio[x] # "open"
  <2>1. OpenOk(x)
    BY <1>3, OpenedBy
  <2>2. stack = <<>> /\ xio[x] = "opening"
    BY <2>1 DEF OpenOk, XioTurn
  <2>3. AnyOpen
    BY <1>3, <2>2, CallbackFrames DEF Quietly, Pending
  <2>4. QED
    BY <2>2, <2>3 DEF AnyOpen, Tracking, Live
<1>4. CASE ~In("pend", stack) /\ ~PendingClose
  <2>1. ~SetPendingClose
    BY <1>1, <1>4, InTail DEF SetPendingClose, Top
  <2>2. In("pend", stack')
    BY <1>4, <2>1, StatusSteps
  <2>3. PICK y \in Xio : SendComplete(y) /\ DisconnectSent
    BY <1>4, <2>2, PendFrom DEF Quietly
  <2>4. x = y /\ xio[x] = "open" /\ UNCHANGED wire /\ flushed'[x] = flushed[x] + 1
    BY <2>3 DEF SendComplete, InFlight, Tracking, TypeOK
  <2>5. Sent(x) /\ flushed[x] >= Len(wire[x]) - 1
    BY <2>3, <2>4 DEF Quietly, DisconnectOnWire, DisconnectSent, AtMostOneLeft
  <2>6. Len(wire[x]) \in Nat /\ flushed[x] \in Nat
    BY LenProperties DEF TypeOK
  <2>7. QED
    BY <2>4, <2>5, <2>6 DEF Sent, Ended
<1>5. QED
  BY <1>2, <1>3, <1>4

\* A close_connection that is to run was asked for.
LEMMA CloseFrom ==
    ASSUME TypeOK, Tracking, Chunk, Unreported, [Next]_vars, In("close", stack'), ~In("close", stack)
    PROVE  Closes
<1>1. stack \in Seq(Frame)
  BY DEF TypeOK
<1>2. CASE Pops
  BY <1>2, PopsFrame
<1>3. CASE close_connection
  BY <1>3, CloseFrame
<1>4. CASE stack = <<>> /\ \E x \in Xio : on_connection_closed(x)
  BY <1>4, ClosedCallback, CallbackFrames
<1>5. CASE Call(<<"app", "pend">>)
  BY <1>1, <1>5, CallStack, FramesType, CallbackFrames
<1>6. CASE Stays \/ \E x \in Xio : Delivers(x)
  BY <1>6, DeliveredFrames DEF Stays, Delivers
<1>7. QED
  BY <1>2, <1>3, <1>4, <1>5, <1>6, QuietSteps DEF QuietStep

LEMMA ClosingEndsNext ==
    ASSUME Patient, TypeOK, Tracking, Fresh, Quietly, Unreported, [Next]_vars
    PROVE  EndedWhenClosing'
<1> SUFFICES ASSUME In("close", stack'), NEW x \in Xio, xio'[x] = "open", connack'[x] = "accepted"
             PROVE  Ended(x)'
  BY DEF EndedWhenClosing
<1>1. Chunk
  BY DEF Quietly
<1>2. connack[x] = "accepted"
  BY <1>1, AcceptedBy, AcceptedOpen
<1>3. xio[x] = "open"
  BY <1>2, OpenedBy DEF OpenOk, Fresh
<1>4. CASE In("close", stack)
  BY <1>2, <1>3, <1>4, EndedKept DEF Quietly, EndedWhenClosing
<1>5. CASE ~In("close", stack)
  <2>1. Closes
    BY <1>1, <1>5, CloseFrom
  <2>2. ~(mqtt_client_disconnect /\ ~ClientUp)
    BY <1>2, <1>3, NoAcceptBelow DEF Quietly, Known
  <2>3. xioHandle \in Xio
    BY <1>3 DEF Tracking
  <2>4. PendingClose
    BY <2>1, <2>2, <2>3 DEF Closes, PendingClose
  <2>5. QED
    BY <1>3, <2>4, EndedKept DEF Quietly, EndedWhenPending
<1>6. QED
  BY <1>4, <1>5

LEMMA ClosedEndsNext ==
    ASSUME TypeOK, Tracking, Fresh, Quietly, Unreported, [Next]_vars
    PROVE  EndedWhenClosed'
<1> SUFFICES ASSUME NEW x \in Xio, xio'[x] \in {"closing", "closed"}, connack'[x] = "accepted"
             PROVE  Ended(x)'
  BY DEF EndedWhenClosed
<1>1. connack[x] = "accepted"
  BY AcceptedBy, AcceptedOpen DEF Quietly
<1>2. xio[x] \notin {"created", "opening"}
  BY <1>1 DEF Fresh
<1>3. CASE xio[x] \in {"closing", "closed"}
  BY <1>1, <1>3, EndedKept DEF Quietly, EndedWhenClosed
<1>4. CASE xio[x] = "open"
  <2>1. In("close", stack)
    BY <1>4, OpenKept, CloseFrame
  <2>2. QED
    BY <1>1, <1>4, <2>1, EndedKept DEF Quietly, EndedWhenClosing
<1>5. CASE xio[x] = "destroyed"
  <2>1. CASE UNCHANGED xio \/ close_connection
    BY <1>5, <2>1, CloseMoves DEF Closable
  <2>2. CASE \E y \in Xio : Moves(y)
    BY <1>5, <2>2 DEF Moves, Connect, Connectable, Release, OpenOk, OpenError, on_connection_closed, TypeOK
  <2>3. QED
    BY <2>1, <2>2, XioSteps
<1>6. QED
  BY <1>2, <1>3, <1>4, <1>5 DEF TypeOK, XioState

(***************************************************************************)
(* For an xio that completes each send before anything else happens, and   *)
(* an application that connects again only when the previous xio was       *)
(* released and does not disconnect from the callback of a CONNACK: until  *)
(* an error is reported, the client closes an accepted connection only     *)
(* after the DISCONNECT of mqtt_client_disconnect went out, from whichever *)
(* callback it was called.  sendComplete takes the right packet for it,    *)
(* PENDING_CLOSE is not left to a later connection, and                    *)
(* mqtt_client_disconnect itself closes only what was not accepted.        *)
(***************************************************************************)
THEOREM ClosesGracefully ==
    ASSUME SendsComplete
    PROVE  Spec => []GracefulClose
<1> DEFINE Inv == /\ TypeOK /\ Tracking /\ SocketInUse /\ Fresh /\ AtMostOneLeft
                  /\ errors = {} => Quietly
<1>1. Init => Inv
  <2>1. Init => TypeOK /\ Tracking /\ SocketInUse
    BY TypeInit, TrackInit, SocketInit
  <2>2. Init => Fresh /\ AtMostOneLeft
    BY DEF Init, Fresh, AtMostOneLeft
  <2>3. ASSUME Init PROVE Quietly
    <3>1. stack = <<>> /\ packetState = "UNKNOWN" /\ mqtt_status = {} /\ \A x \in Xio : xio[x] = "created"
      BY <2>3 DEF Init
    <3>2. Chunk /\ Closing
      BY <3>1, CallbackFrames, BottomFree DEF Chunk, Closing
    <3>3. Pending
      BY <3>1, CallbackFrames DEF Pending, PendingClose
    <3>4. QED
      BY <3>1, <3>2, <3>3, CallbackFrames
      DEF Quietly, Known, DisconnectOnWire, EndedWhenPending, EndedWhenClosing, EndedWhenClosed, PendingClose
  <2>4. QED
    BY <2>1, <2>2, <2>3
<1>2. Inv /\ [Next]_vars => Inv'
  <2> SUFFICES ASSUME Inv, [Next]_vars PROVE Inv'
    OBVIOUS
  <2>1. (TypeOK /\ Tracking /\ SocketInUse /\ Fresh /\ AtMostOneLeft)'
    BY TypeNext, TrackNext, SocketNext, FreshNext, OneLeftNext DEF SendsComplete, Orderly
  <2>2. ASSUME Unreported PROVE Quietly'
    <3>1. Quietly
      BY <2>2, ErrorsKept DEF Unreported
    <3>2. Chunk' /\ Pending' /\ Closing' /\ Known' /\ DisconnectOnWire'
      BY <2>2, <3>1, ChunkNext, PendingNext, ClosingNext, KnownNext, OnWireNext DEF Quietly, SendsComplete
    <3>3. EndedWhenPending' /\ EndedWhenClosing' /\ EndedWhenClosed'
      BY <2>2, <3>1, PendingEndsNext, ClosingEndsNext, ClosedEndsNext DEF SendsComplete
    <3>4. QED
      BY <3>2, <3>3 DEF Quietly
  <2>3. QED
    BY <2>1, <2>2 DEF Unreported
<1>3. Inv => GracefulClose
  BY DEF Quietly, EndedWhenClosed, Ended, GracefulClose
<1>4. QED
  BY <1>1, <1>2, <1>3, PTL DEF Spec
-----------------------------------------------------------------------------
(* How often the callback of a disconnect call is called.                  *)

\* While no error was reported, a close_connection that is to run finds the connection open.
Lone == In("close", stack) => AnyOpen

\* An xio whose xio_dowork mqtt_client_dowork is inside of stays the client's once its connection is
\* accepted: no callback closes it there.
Pumped ==
    /\ pumping \in Xio /\ connack[pumping] = "accepted" => xioHandle = pumping /\ ~In("drop_xio", stack)
    /\ In("clear_pending", stack) => pumping = NoXio

\* The callbacks come when the xio has closed, and that happens once.
Uncalled ==
    /\ \A d \in DOMAIN disc : disc[d].calls <= 1
    /\ (\E x \in Xio : xio[x] \notin {"closed", "destroyed"}) => \A d \in DOMAIN disc : disc[d].calls = 0

\* mqtt_client_disconnect is called with an xio, but not from the callback of a CONNACK, and publish
\* etc. on a connection that was accepted.
Disciplined ==
    /\ Patient
    /\ {"overlap", "abandon", "disconnect_opening", "disconnect_idle", "send_anytime"} \cap AppMay = {}

LEMMA PumpSteps ==
    ASSUME [Next]_vars
    PROVE  UNCHANGED pumping \/ mqtt_client_dowork \/ KeepAlive
BY DEF Next, App, Frames, DoWork, Events, Broker, Connect, Release, Send, mqtt_client_send_message_response,
      mqtt_client_disconnect, clear_mqtt_options, PingReset, ClearPending, Return, SetClientConnected,
      SetPendingClose, DeliverSuback, SendReply, BytesRead, DropXio, close_connection, OpenOk, OpenError,
      SendComplete, SendFailed, onIoError, on_connection_closed,
      RecvConnack, RecvPublish, RecvPublishAck, RecvSubscribeAck, RecvPingresp, RecvMalformed,
      RecvInvalidSuback, BytesRejected, control, vars

LEMMA HandleSteps ==
    ASSUME [Next]_vars
    PROVE  UNCHANGED xioHandle \/ close_connection \/ DropXio \/ \E x \in Xio : Connect(x) \/ Release(x)
BY DEF Next, App, Frames, DoWork, Events, Broker, Send, mqtt_client_send_message_response,
      mqtt_client_disconnect, clear_mqtt_options, PingReset, ClearPending, Return, SetClientConnected,
      SetPendingClose, DeliverSuback, SendReply, BytesRead, mqtt_client_dowork, KeepAlive, PingOverdue,
      PingDue, OpenOk, OpenError, SendComplete, SendFailed, onIoError, on_connection_closed,
      RecvConnack, RecvPublish, RecvPublishAck, RecvSubscribeAck, RecvPingresp, RecvMalformed,
      RecvInvalidSuback, BytesRejected, client, vars

\* Without an error report, only an open xio is closed.
LEMMA ClosesOpen ==
    ASSUME Disciplined, OneConnection, TypeOK, Greeted, Pending, Pumped, Closes
    PROVE  AnyOpen
<1>1. ASSUME xioHandle \notin Xio, KeepAlive, ~UNCHANGED stack PROVE FALSE
  <2>1. ClientUp /\ pumping \in Xio
    BY <1>1 DEF KeepAlive, KeepAliveArmed, TypeOK, Handle
  <2>2. connack[pumping] = "accepted"
    BY <2>1 DEF Greeted, Accepted, OneConnection
  <2>3. QED
    BY <1>1, <2>1, <2>2 DEF Pumped
<1>2. ASSUME xioHandle \notin Xio, NEW packet \in Ack, mqtt_client_send_message_response(packet) PROVE FALSE
  BY <1>2 DEF mqtt_client_send_message_response, BelievesConnected, Disciplined
<1>3. CASE mqtt_client_disconnect
  BY <1>3 DEF mqtt_client_disconnect, Disconnectable, Disciplined, Open, AnyOpen
<1>4. CASE mqtt_client_dowork /\ PendingClose
  <2>1. stack = <<>>
    BY <1>4 DEF mqtt_client_dowork
  <2>2. QED
    BY <1>4, <2>1, CallbackFrames DEF Pending
<1>5. ASSUME NEW frames \in {set_error_callback, set_error_callback \o <<"ping_reset">>}, Asked(frames)
      PROVE  ~UNCHANGED stack
  <2>1. stack' = frames \o stack /\ stack \in Seq(Frame) /\ frames \in Seq(Frame)
    BY <1>5, FramesType DEF Asked, Call, TypeOK
  <2>2. Len(frames) # 0
    BY <1>5 DEF set_error_callback
  <2>3. Len(stack') = Len(frames) + Len(stack) /\ Len(frames) \in Nat /\ Len(stack) \in Nat
    BY <2>1, ConcatProperties, LenProperties
  <2>4. QED
    BY <2>2, <2>3
<1>6. QED
  BY <1>1, <1>2, <1>3, <1>4, <1>5 DEF Closes, PendingClose

LEMMA LoneNext ==
    ASSUME Disciplined, OneConnection, TypeOK, Tracking, Greeted, Chunk, Pending, Closing, Pumped, Lone,
           Unreported, [Next]_vars
    PROVE  Lone'
<1> SUFFICES ASSUME In("close", stack') PROVE AnyOpen'
  BY DEF Lone
<1>1. CASE ~In("close", stack)
  <2>1. Closes
    BY <1>1, CloseFrom
  <2>2. QED
    BY <2>1, ClosesOpen, ClosesFrames DEF AnyOpen
<1>2. CASE In("close", stack) /\ close_connection
  BY <1>2, CloseFrame DEF Lone, Closing
<1>3. CASE In("close", stack) /\ ~close_connection
  BY <1>3, OpenKept DEF Lone, AnyOpen
<1>4. QED
  BY <1>1, <1>2, <1>3

\* The end of a close_connection comes from a close_connection.
LEMMA DropFrom ==
    ASSUME TypeOK, Tracking, Chunk, Unreported, [Next]_vars, In("drop_xio", stack'), ~In("drop_xio", stack)
    PROVE  close_connection
<1>1. stack \in Seq(Frame)
  BY DEF TypeOK
<1>2. CASE Pops
  BY <1>2, PopsFrame
<1>3. CASE stack = <<>> /\ \E x \in Xio : on_connection_closed(x)
  BY <1>3, ClosedCallback, CallbackFrames
<1>4. CASE Call(<<"app", "pend">>)
  BY <1>1, <1>4, CallStack, FramesType, CallbackFrames
<1>5. CASE Stays \/ Closes \/ \E x \in Xio : Delivers(x)
  BY <1>5, ClosesFrames, DeliveredFrames DEF Stays, Delivers
<1>6. QED
  BY <1>2, <1>3, <1>4, <1>5, QuietSteps DEF QuietStep

\* A pending close is carried out by mqtt_client_dowork.
LEMMA ClearFrom ==
    ASSUME TypeOK, Tracking, Chunk, Unreported, [Next]_vars,
           In("clear_pending", stack'), ~In("clear_pending", stack)
    PROVE  mqtt_client_dowork
<1>1. stack \in Seq(Frame)
  BY DEF TypeOK
<1>2. CASE Pops
  BY <1>2, PopsFrame DEF Ack
<1>3. CASE close_connection
  BY <1>3, CloseFrame
<1>4. CASE stack = <<>> /\ \E x \in Xio : on_connection_closed(x)
  BY <1>4, ClosedCallback, CallbackFrames
<1>5. CASE Call(<<"app", "pend">>)
  BY <1>1, <1>5, CallStack, FramesType, CallbackFrames
<1>6. CASE Stays \/ \E x \in Xio : Delivers(x)
  BY <1>6, DeliveredFrames DEF Stays, Delivers
<1>7. CASE Closes
  <2>1. /\ ~In("clear_pending", <<"close", "clear_opts">>) /\ ~In("clear_pending", set_error_callback)
        /\ ~In("clear_pending", set_error_callback \o <<"ping_reset">>)
    BY DEF In, set_error_callback
  <2>2. QED
    BY <1>1, <1>7, <2>1, CallStack, FramesType DEF Closes, Asked
<1>8. QED
  BY <1>2, <1>3, <1>4, <1>5, <1>6, <1>7, QuietSteps DEF QuietStep

LEMMA PumpedNext ==
    ASSUME OneConnection, TypeOK, Tracking, Greeted, Chunk, Closing, Lone, Pumped, Unreported, [Next]_vars
    PROVE  Pumped'
<1>1. stack \in Seq(Frame) /\ NoXio \notin Xio
  BY ConstantsAssumption DEF TypeOK
<1>2. CASE KeepAlive
  <2>1. pumping' = NoXio
    BY <1>2 DEF KeepAlive
  <2>2. QED
    BY <1>1, <2>1 DEF Pumped
<1>3. CASE mqtt_client_dowork /\ UNCHANGED stack
  <2>1. stack' = <<>> /\ pumping' \in {pumping, xioHandle} /\ pumping = NoXio /\ UNCHANGED xioHandle
    BY <1>3 DEF mqtt_client_dowork, client
  <2>2. QED
    BY <1>1, <2>1, CallbackFrames DEF Pumped
<1>4. CASE mqtt_client_dowork /\ ~UNCHANGED stack
  <2>1. pumping' = NoXio
    BY <1>4 DEF mqtt_client_dowork
  <2>2. QED
    BY <1>1, <2>1 DEF Pumped
<1>5. CASE UNCHANGED pumping /\ ~mqtt_client_dowork
  <2>1. In("clear_pending", stack') => pumping' = NoXio
    BY <1>5, ClearFrom DEF Pumped
  <2>2. ASSUME pumping \in Xio, connack'[pumping] = "accepted"
        PROVE  xioHandle' = pumping /\ ~In("drop_xio", stack')
    <3>1. CASE connack[pumping] # "accepted"
      <4>1. RecvConnack(pumping) /\ Deliver(pumping, <<"app", "accept">>)
        BY <2>2, <3>1, AcceptedBy
      <4>2. stack = <<>> /\ xio[pumping] = "open" /\ UNCHANGED xioHandle
        BY <2>2, <4>1, AcceptedOpen DEF RecvConnack, client
      <4>3. ~close_connection /\ ~In("drop_xio", stack)
        BY <4>2, CloseFrames, CallbackFrames
      <4>4. QED
        BY <2>2, <4>2, <4>3, DropFrom DEF Tracking
    <3>2. CASE connack[pumping] = "accepted"
      <4>1. xioHandle = pumping /\ ~In("drop_xio", stack)
        BY <2>2, <3>2 DEF Pumped
      <4>2. ~close_connection
        BY <1>1, <2>2, <3>2, CloseFrame DEF Lone, AnyOpen, Closing, OneConnection, Pumped
      <4>3. ~DropXio
        BY <1>1, <4>1, InTail DEF DropXio, Top
      <4>4. \A x \in Xio : ~Connect(x) /\ ~Release(x)
        BY <1>1, <2>2, <3>2 DEF Connect, Connectable, Release, Greeted, OneConnection
      <4>5. QED
        BY <4>1, <4>2, <4>3, <4>4, HandleSteps, DropFrom
    <3>3. QED
      BY <3>1, <3>2
  <2>3. QED
    BY <1>5, <2>1, <2>2 DEF Pumped
<1>6. QED
  BY <1>2, <1>3, <1>4, <1>5, PumpSteps

\* What becomes of the record of a disconnect call.
LEMMA CallSteps ==
    ASSUME TypeOK, [Next]_vars, NEW d \in DOMAIN disc'
    PROVE  \/ disc'[d].calls = 0
           \/ /\ d \in DOMAIN disc
              /\ disc[d].calls \in 0 .. 2 /\ disc'[d].calls \in Nat
              /\ disc'[d].calls <= disc[d].calls + 1
<1>1. CASE UNCHANGED disc
  BY <1>1, DiscRecord DEF DiscType
<1>2. CASE CountCallback
  <2>1. d \in DOMAIN disc
    BY <1>2 DEF CountCallback
  <2>2. disc[d] \in DiscType
    BY <2>1, DiscRecord
  <2>3. disc[d].calls \in 0 .. 2
    BY <2>2 DEF DiscType
  <2>4. disc'[d].calls \in {disc[d].calls, IF disc[d].calls < 2 THEN disc[d].calls + 1 ELSE disc[d].calls}
    BY <1>2, <2>1, <2>2 DEF CountCallback, DiscType
  <2>5. QED
    BY <2>1, <2>3, <2>4
<1>3. ASSUME NEW ok, Disconnects(ok)
      PROVE  disc'[d].calls = 0 \/ (d \in DOMAIN disc /\ disc'[d] = disc[d])
  <2> DEFINE new == [on |-> xioHandle, ok |-> ok, calls |-> 0]
  <2>1. disc \in Seq(DiscType) /\ Len(disc) \in Nat /\ DOMAIN disc = 1 .. Len(disc)
    BY LenProperties DEF TypeOK, DiscType
  <2>2. disc' = Append(disc, new) /\ new.calls = 0
    BY <1>3 DEF Disconnects
  <2> HIDE DEF new
  <2>3. /\ DOMAIN disc' = 1 .. Len(disc) + 1 /\ disc'[Len(disc) + 1] = new
        /\ \A e \in 1 .. Len(disc) : disc'[e] = disc[e]
    BY <2>1, <2>2
  <2>4. QED
    BY <2>1, <2>2, <2>3
<1>4. CASE mqtt_client_disconnect
  <2>1. disc'[d].calls = 0 \/ (d \in DOMAIN disc /\ disc'[d] = disc[d])
    BY <1>3, <1>4 DEF mqtt_client_disconnect, DisconnectConnected, DisconnectUnconnected
  <2>2. d \in DOMAIN disc => disc[d].calls \in 0 .. 2
    BY DiscRecord DEF DiscType
  <2>3. QED
    BY <2>1, <2>2
<1>5. QED
  BY <1>1, <1>2, <1>4
  DEF Next, App, Frames, DoWork, Events, Broker, Connect, Release, Send, mqtt_client_send_message_response,
      clear_mqtt_options, PingReset, ClearPending, Return, SetClientConnected,
      SetPendingClose, DeliverSuback, SendReply, BytesRead, DropXio, close_connection, CloseSocket,
      CloseLater, CloseAtOnce, CloseUnconnected, mqtt_client_dowork, KeepAlive,
      OpenOk, OpenError, SendComplete, SendFailed, onIoError, on_connection_closed,
      RecvConnack, RecvPublish, RecvPublishAck, RecvSubscribeAck, RecvPingresp, RecvMalformed,
      RecvInvalidSuback, BytesRejected, history, vars

\* An xio that has closed stays closed.
LEMMA StaysClosed ==
    ASSUME TypeOK, [Next]_vars, NEW x \in Xio, xio[x] \in {"closed", "destroyed"}
    PROVE  xio'[x] \in {"closed", "destroyed"}
<1>1. CASE UNCHANGED xio \/ close_connection
  BY <1>1, CloseMoves DEF Closable
<1>2. CASE \E y \in Xio : Moves(y)
  BY <1>2 DEF Moves, Connect, Connectable, Release, OpenOk, OpenError, on_connection_closed, TypeOK
<1>3. QED
  BY <1>1, <1>2, XioSteps

LEMMA UncalledNext ==
    ASSUME OneConnection, TypeOK, Tracking, Lone, Uncalled, [Next]_vars
    PROVE  Uncalled'
<1> DEFINE Up == \E x \in Xio : xio[x] \notin {"closed", "destroyed"}
           Counted == \E d \in DOMAIN disc : disc'[d].calls > disc[d].calls
<1>1. Up' => Up
  BY StaysClosed
<1>2. ASSUME Counted PROVE Up /\ ~Up'
  <2>1. close_connection \/ \E x \in Xio : on_connection_closed(x)
    BY <1>2, Callers
  <2>2. ASSUME NEW x \in Xio, on_connection_closed(x) PROVE Up /\ ~Up'
    BY <2>2 DEF on_connection_closed, OneConnection, TypeOK
  <2>3. CASE close_connection
    <3>1. PICK x \in Xio : xio[x] = "open"
      BY <2>3, CloseFrame DEF Lone, AnyOpen
    <3>2. SocketUp /\ xioHandle = x /\ Closable(xioHandle)
      BY <3>1 DEF Tracking, SocketUp, Closable
    <3>3. CloseLater(x) \/ CloseAtOnce(x)
      BY <2>3, <3>2 DEF close_connection, CloseSocket
    <3>4. ~UNCHANGED disc
      <4>1. PICK d \in DOMAIN disc : disc'[d].calls > disc[d].calls
        BY <1>2
      <4>2. disc[d].calls \in 0 .. 2
        BY <4>1, DiscRecord DEF DiscType
      <4>3. QED
        BY <4>1, <4>2
    <3>5. xio'[x] = "closed"
      BY <3>1, <3>3, <3>4 DEF CloseLater, CloseAtOnce, TypeOK
    <3>6. QED
      BY <3>1, <3>5 DEF OneConnection
  <2>4. QED
    BY <2>1, <2>2, <2>3
<1>3. CASE Up'
  <2>1. ASSUME NEW d \in DOMAIN disc' PROVE disc'[d].calls = 0
    BY <1>1, <1>2, <1>3, <2>1, CallSteps DEF Uncalled
  <2>2. QED
    BY <2>1 DEF Uncalled
<1>4. CASE ~Up'
  <2>1. ASSUME NEW d \in DOMAIN disc' PROVE disc'[d].calls <= 1
    <3>1. CASE Up
      BY <3>1, CallSteps DEF Uncalled
    <3>2. CASE ~Up
      BY <1>2, <3>2, CallSteps DEF Uncalled
    <3>3. QED
      BY <3>1, <3>2
  <2>2. QED
    BY <1>4, <2>1 DEF Uncalled
<1>5. QED
  BY <1>3, <1>4

\* mqtt_client_disconnect was called with an xio.
CalledWithXio == \A d \in DOMAIN disc : disc[d].on \in Xio

LEMMA WithXioNext ==
    ASSUME Disciplined, TypeOK, CalledWithXio, [Next]_vars
    PROVE  CalledWithXio'
<1>1. ASSUME DOMAIN disc' = DOMAIN disc, \A d \in DOMAIN disc : disc'[d].on = disc[d].on
      PROVE  CalledWithXio'
  BY <1>1 DEF CalledWithXio
<1>2. CASE UNCHANGED disc
  BY <1>1, <1>2
<1>3. CASE CountCallback
  BY <1>1, <1>3 DEF CountCallback
<1>4. CASE mqtt_client_disconnect
  <2>1. xioHandle \in Xio
    BY <1>4 DEF mqtt_client_disconnect, Disconnectable, Open, Disciplined
  <2>2. PICK ok : Disconnects(ok)
    BY <1>4 DEF mqtt_client_disconnect, DisconnectConnected, DisconnectUnconnected
  <2> DEFINE new == [on |-> xioHandle, ok |-> ok, calls |-> 0]
  <2>3. disc \in Seq(DiscType) /\ Len(disc) \in Nat /\ DOMAIN disc = 1 .. Len(disc)
    BY LenProperties DEF TypeOK, DiscType
  <2>4. disc' = Append(disc, new) /\ new.on \in Xio
    BY <2>1, <2>2 DEF Disconnects
  <2> HIDE DEF new
  <2>5. /\ DOMAIN disc' = 1 .. Len(disc) + 1 /\ disc'[Len(disc) + 1] = new
        /\ \A e \in 1 .. Len(disc) : disc'[e] = disc[e]
    BY <2>3, <2>4
  <2>6. QED
    BY <2>3, <2>4, <2>5 DEF CalledWithXio
<1>5. QED
  BY <1>2, <1>3, <1>4
  DEF Next, App, Frames, DoWork, Events, Broker, Connect, Release, Send, mqtt_client_send_message_response,
      clear_mqtt_options, PingReset, ClearPending, Return, SetClientConnected,
      SetPendingClose, DeliverSuback, SendReply, BytesRead, DropXio, close_connection, CloseSocket,
      CloseLater, CloseAtOnce, CloseUnconnected, mqtt_client_dowork, KeepAlive,
      OpenOk, OpenError, SendComplete, SendFailed, onIoError, on_connection_closed,
      RecvConnack, RecvPublish, RecvPublishAck, RecvSubscribeAck, RecvPingresp, RecvMalformed,
      RecvInvalidSuback, BytesRejected, history, vars

(***************************************************************************)
(* For a client that is connected once, and an application that            *)
(* disconnects an open connection but not from the callback of its         *)
(* CONNACK, and publishes or answers only between CONNACK and its          *)
(* disconnect: close_connection and on_connection_closed call the callback *)
(* of a disconnect call once, unless an error is reported for the          *)
(* connection.  Without one, no close_connection meets a connection that   *)
(* is down or already closing, from whichever callback it was asked for.   *)
(***************************************************************************)
THEOREM CallbackOnce ==
    ASSUME OneConnection, Disciplined
    PROVE  Spec => []DisconnectCallbackOnce
<1> DEFINE Once == Chunk /\ Pending /\ Closing /\ Known /\ Lone /\ Pumped /\ Uncalled
           Inv == /\ TypeOK /\ Tracking /\ SocketInUse /\ Greeted /\ CalledWithXio
                  /\ errors = {} => Once
<1>1. Init => Inv
  <2> SUFFICES ASSUME Init PROVE Inv
    OBVIOUS
  <2>1. TypeOK /\ Tracking /\ SocketInUse /\ Greeted
    BY TypeInit, TrackInit, SocketInit, GreetedInit
  <2>2. /\ stack = <<>> /\ packetState = "UNKNOWN" /\ mqtt_status = {} /\ pumping = NoXio /\ disc = <<>>
        /\ \A x \in Xio : xio[x] = "created"
    BY DEF Init
  <2>3. Chunk /\ Closing
    BY <2>2, CallbackFrames, BottomFree DEF Chunk, Closing
  <2>4. Pending /\ Known
    BY <2>2, CallbackFrames DEF Pending, PendingClose, Known
  <2>5. Lone /\ Pumped
    BY <2>2, CallbackFrames, ConstantsAssumption DEF Lone, Pumped
  <2>6. Uncalled /\ CalledWithXio
    BY <2>2 DEF Uncalled, CalledWithXio
  <2>7. QED
    BY <2>1, <2>3, <2>4, <2>5, <2>6
<1>2. Inv /\ [Next]_vars => Inv'
  <2> SUFFICES ASSUME Inv, [Next]_vars PROVE Inv'
    OBVIOUS
  <2>1. (TypeOK /\ Tracking /\ SocketInUse /\ Greeted /\ CalledWithXio)'
    BY TypeNext, TrackNext, SocketNext, GreetedNext, WithXioNext DEF Disciplined
  <2>2. ASSUME Unreported PROVE Once'
    <3>1. Once /\ Fresh
      BY <2>2, ErrorsKept DEF Unreported, Greeted, Fresh
    <3>2. Chunk' /\ Pending' /\ Closing' /\ Known'
      BY <2>2, <3>1, ChunkNext, PendingNext, ClosingNext, KnownNext DEF Disciplined
    <3>3. Lone' /\ Pumped' /\ Uncalled'
      BY <2>2, <3>1, LoneNext, PumpedNext, UncalledNext
    <3>4. QED
      BY <3>2, <3>3
  <2>3. QED
    BY <2>1, <2>2 DEF Unreported
<1>3. Inv => DisconnectCallbackOnce
  BY DEF Uncalled, CalledWithXio, DisconnectCallbackOnce, OneConnection, TypeOK
<1>4. QED
  BY <1>1, <1>2, <1>3, PTL DEF Spec

=============================================================================
