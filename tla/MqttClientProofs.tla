-------------------------- MODULE MqttClientProofs --------------------------
(* Theorems about MqttClient, for every value of its constants.             *)
EXTENDS MqttClient, SequenceTheorems, TLAPS

-----------------------------------------------------------------------------
(* The operators the actions are built from.                                *)

LEMMA CallType ==
    ASSUME NEW frames \in Seq(Frame), stack \in Seq(Frame), Call(frames)
    PROVE  stack' \in Seq(Frame)
BY ConcatProperties DEF Call

LEMMA BecomeType ==
    ASSUME NEW frames \in Seq(Frame), stack \in Seq(Frame), stack # <<>>, Become(frames)
    PROVE  stack' \in Seq(Frame)
<1>1. Tail(stack) \in Seq(Frame)
  BY HeadTailProperties
<1>2. QED
  BY <1>1, ConcatProperties DEF Become

\* Every list of frames a handler pushes.
LEMMA FramesType ==
    /\ <<>> \in Seq(Frame) /\ <<"app">> \in Seq(Frame)
    /\ set_error_callback \in Seq(Frame)
    /\ set_error_callback \o <<"ping_reset">> \in Seq(Frame)
    /\ set_error_callback \o <<"suback">> \in Seq(Frame)
    /\ disconnectCallback \in Seq(Frame)
    /\ <<"close", "clear_opts">> \in Seq(Frame)
    /\ <<"close", "clear_pending">> \in Seq(Frame)
    /\ <<"bytes">> \in Seq(Frame)
    /\ <<"app", "drop_xio">> \in Seq(Frame)
    /\ <<"app", "pend">> \in Seq(Frame)
    /\ <<"app", "accept">> \in Seq(Frame)
    /\ \A packet \in Reply : <<"app", packet>> \in Seq(Frame)
<1> DEFINE F == Frame
<1>1. {"app", "close", "drop_xio", "accept", "pend", "clear_opts", "ping_reset",
       "clear_pending", "suback", "bytes"} \cup Reply \subseteq F
  BY DEF Frame
<1> HIDE DEF F
<1>2. \A a, b \in F : <<>> \in Seq(F) /\ <<a>> \in Seq(F) /\ <<a, b>> \in Seq(F)
  OBVIOUS
<1>3. \A a \in F : set_error_callback \o <<a>> \in Seq(F)
  BY <1>1, <1>2, ConcatProperties DEF set_error_callback
<1>4. QED
  BY <1>1, <1>2, <1>3 DEF F, set_error_callback, disconnectCallback

LEMMA SendType ==
    ASSUME TypeOK, NEW up, NEW packet \in Packet, NEW ok, up => xioHandle \in Xio,
           sendPacketItem(up, packet, ok)
    PROVE  /\ wire' \in [Xio -> Seq(Packet)]
           /\ \A x \in Xio : flushed[x] <= Len(wire'[x])
<1>1. CASE UNCHANGED wire
  BY <1>1, LenProperties DEF TypeOK
<1>2. CASE up /\ wire' = [wire EXCEPT ![xioHandle] = Append(@, packet)]
  <2>1. \A x \in Xio : wire[x] \in Seq(Packet)
    BY DEF TypeOK
  <2>2. /\ Append(wire[xioHandle], packet) \in Seq(Packet)
        /\ Len(Append(wire[xioHandle], packet)) = Len(wire[xioHandle]) + 1
    BY <1>2, <2>1, AppendProperties
  <2>3. \A x \in Xio : Len(wire[x]) \in Nat
    BY <2>1, LenProperties
  <2>4. QED
    BY <1>2, <2>1, <2>2, <2>3 DEF TypeOK
<1>3. QED
  BY <1>1, <1>2 DEF sendPacketItem

LEMMA CountType ==
    ASSUME TypeOK, CountCallback
    PROVE  /\ disc' \in Seq([on : Handle, ok : BOOLEAN, calls : 0 .. 2])
           /\ Len(disc') = Len(disc)
<1> DEFINE D == [on : Handle, ok : BOOLEAN, calls : 0 .. 2]
<1>1. disc \in Seq(D)
  BY DEF TypeOK
<1>2. CASE disconnect_cb = 0
  BY <1>1, <1>2 DEF CountCallback
<1>3. CASE disconnect_cb # 0
  <2>1. disconnect_cb \in 1 .. Len(disc)
    BY <1>1, <1>3, LenProperties DEF TypeOK
  <2> DEFINE old == disc[disconnect_cb]
             new == [old EXCEPT !.calls = IF @ < 2 THEN @ + 1 ELSE @]
  <2>2. old \in D
    BY <1>1, <2>1, ElementOfSeq
  <2>3. new \in D
    BY <2>2
  <2>4. disc' = [disc EXCEPT ![disconnect_cb] = new]
    BY <1>3 DEF CountCallback
  <2> HIDE DEF new, D
  <2>5. QED
    BY <1>1, <2>1, <2>3, <2>4, ExceptSeq DEF D
<1>4. QED
  BY <1>2, <1>3


-----------------------------------------------------------------------------
(* Type correctness.                                                        *)

\* The part of TypeOK that only the disconnect calls and callbacks disturb.
DiscType == [on : Handle, ok : BOOLEAN, calls : 0 .. 2]

LEMMA DisconnectType ==
    ASSUME TypeOK, NEW ok \in BOOLEAN, Disconnects(ok)
    PROVE  disc' \in Seq(DiscType) /\ Len(disc') = Len(disc) + 1 /\ Len(disc) \in Nat
<1> DEFINE new == [on |-> xioHandle, ok |-> ok, calls |-> 0]
<1>1. new \in DiscType
  BY DEF TypeOK, DiscType
<1>2. disc \in Seq(DiscType)
  BY DEF TypeOK, DiscType
<1>3. disc' = Append(disc, new)
  BY DEF Disconnects
<1> HIDE DEF new
<1>4. QED
  BY <1>1, <1>2, <1>3, AppendProperties, LenProperties

LEMMA TypeInit == Init => TypeOK
<1> SUFFICES ASSUME Init PROVE TypeOK
  OBVIOUS
<1>1. /\ <<>> \in Seq(Frame) /\ <<>> \in Seq(Packet) /\ disc \in Seq(DiscType)
      /\ Len(disc) = 0
  BY EmptySeq DEF Init
<1>2. /\ flushed \in [Xio -> Nat]
      /\ \A x \in Xio : flushed[x] <= Len(wire[x])
  BY EmptySeq DEF Init
<1>3. mqttOptions \in [Field -> Handle] /\ disconnect_cb \in 0 .. Len(disc)
  BY <1>1 DEF Init, NoOptions, Handle
<1>4. QED
  BY <1>1, <1>2, <1>3 DEF Init, TypeOK, DiscType, Handle, XioState

LEMMA TypeConnect ==
    ASSUME TypeOK, NEW x \in Xio, Connect(x)
    PROVE  TypeOK'
<1>1. Cloned(x) \in [Field -> Handle] /\ NoOptions \in [Field -> Handle]
  BY DEF Cloned, NoOptions, TypeOK, Handle
<1>2. xio' \in [Xio -> XioState]
  BY DEF Connect, TypeOK, XioState
<1>3. QED
  BY <1>1, <1>2 DEF Connect, TypeOK, Handle, control, history

LEMMA TypeSend ==
    ASSUME TypeOK, NEW packet \in SendTypes, Send(packet)
    PROVE  TypeOK'
<1>1. PICK ok \in BOOLEAN : sendPacketItem(Open(xioHandle), packet, ok)
  BY DEF Send
<1>2. /\ wire' \in [Xio -> Seq(Packet)]
      /\ \A x \in Xio : flushed[x] <= Len(wire'[x])
  BY <1>1, SendType DEF Open, Packet
<1>3. QED
  BY <1>2 DEF Send, TypeOK, control, history

LEMMA TypeReplyPacket ==
    ASSUME TypeOK, NEW packet \in Reply, NEW rest \in Seq(Frame),
           SendReplyPacket(packet, rest)
    PROVE  /\ wire' \in [Xio -> Seq(Packet)]
           /\ \A x \in Xio : flushed[x] <= Len(wire'[x])
           /\ stack' \in Seq(Frame)
           /\ errors' \in SUBSET Xio
<1>1. set_error_callback \o rest \in Seq(Frame)
  BY FramesType, ConcatProperties
<1>2. stack' \in Seq(Frame) /\ errors' \in SUBSET Xio
  BY <1>1 DEF SendReplyPacket, TypeOK, Report
<1>3. CASE UNCHANGED wire
  BY <1>2, <1>3, LenProperties DEF TypeOK
<1>4. CASE \E ok \in BOOLEAN : sendPacketItem(Open(xioHandle), packet, ok)
  BY <1>2, <1>4, SendType DEF Open, Packet
<1>5. QED
  BY <1>3, <1>4 DEF SendReplyPacket

LEMMA TypeSendResponse ==
    ASSUME TypeOK, NEW packet \in Ack, mqtt_client_send_message_response(packet)
    PROVE  TypeOK'
<1>1. packet \in Reply /\ stack \in Seq(Frame)
  BY DEF Reply, TypeOK
<1>2. SendReplyPacket(packet, stack)
  BY DEF mqtt_client_send_message_response
<1>3. QED
  BY <1>1, <1>2, TypeReplyPacket
  DEF mqtt_client_send_message_response, TypeOK, client

LEMMA TypeSendReply ==
    ASSUME TypeOK, SendReply
    PROVE  TypeOK'
<1>1. PICK packet \in Reply : Top(packet) /\ SendReplyPacket(packet, Tail(stack))
  BY DEF SendReply
<1>2. Tail(stack) \in Seq(Frame)
  BY <1>1, HeadTailProperties DEF Top, TypeOK
<1>3. UNCHANGED <<client, pumping, feeding, xio, flushed, connack, ioerr, disc>>
  BY DEF SendReply
<1>4. QED
  BY <1>1, <1>2, <1>3, TypeReplyPacket DEF TypeOK, client

LEMMA TypeDisconnect ==
    ASSUME TypeOK, mqtt_client_disconnect
    PROVE  TypeOK'
<1>1. PICK ok \in BOOLEAN : Disconnects(ok)
  BY DEF mqtt_client_disconnect, DisconnectConnected, DisconnectUnconnected
<1>2. disc' \in Seq(DiscType) /\ Len(disc') = Len(disc) + 1 /\ Len(disc) \in Nat
  BY <1>1, DisconnectType
<1>3. disconnect_cb' \in 0 .. Len(disc')
  <2>1. disconnect_cb \in 0 .. Len(disc)
    BY DEF TypeOK
  <2>2. disconnect_cb' = disconnect_cb \/ disconnect_cb' \in {0, Len(disc) + 1}
    BY DEF mqtt_client_disconnect, DisconnectConnected, DisconnectUnconnected, NextCallback
  <2>3. QED
    BY <1>2, <2>1, <2>2
<1>4. mqttOptions' \in [Field -> Handle]
  BY DEF mqtt_client_disconnect, DisconnectConnected, DisconnectUnconnected, NoOptions,
         TypeOK, Handle
<1>5. CASE DisconnectConnected
  <2>1. CASE UNCHANGED wire
    BY <1>2, <1>3, <1>4, <1>5, <2>1
    DEF mqtt_client_disconnect, DisconnectConnected, TypeOK, DiscType
  <2>2. CASE \E k \in BOOLEAN : sendPacketItem(Open(xioHandle), "DISCONNECT", k)
    <3>1. /\ wire' \in [Xio -> Seq(Packet)]
          /\ \A x \in Xio : flushed[x] <= Len(wire'[x])
      BY <2>2, SendType DEF Open, Packet
    <3>2. packetState' \in {"UNKNOWN", "ERROR", "CONNECT", "DISCONNECT"} \cup SendTypes
      BY <1>5 DEF DisconnectConnected
    <3>3. UNCHANGED <<mqtt_status, xioHandle, pingWait, stack, pumping, feeding, xio, flushed,
                      connack, errors, ioerr>>
      BY <1>5 DEF DisconnectConnected, mqtt_client_disconnect
    <3>4. QED
      BY <1>2, <1>3, <1>4, <3>1, <3>2, <3>3 DEF TypeOK, DiscType
  <2>3. QED
    BY <1>5, <2>1, <2>2 DEF DisconnectConnected
<1>6. CASE DisconnectUnconnected
  <2>1. stack' \in Seq(Frame)
    BY <1>6, CallType, FramesType DEF DisconnectUnconnected, TypeOK
  <2>2. QED
    BY <1>2, <1>3, <1>4, <1>6, <2>1
    DEF mqtt_client_disconnect, DisconnectUnconnected, TypeOK, DiscType
<1>7. QED
  BY <1>5, <1>6 DEF mqtt_client_disconnect

LEMMA TypeRelease ==
    ASSUME TypeOK, NEW x \in Xio, Release(x)
    PROVE  TypeOK'
<1>1. xio' \in [Xio -> XioState] /\ xioHandle' \in Handle
  BY DEF Release, TypeOK, XioState, Handle
<1>2. QED
  BY <1>1 DEF Release, TypeOK, control, history

LEMMA TypeDoWork ==
    ASSUME TypeOK, mqtt_client_dowork
    PROVE  TypeOK'
<1>1. stack' \in Seq(Frame)
  BY CallType, FramesType DEF mqtt_client_dowork, TypeOK
<1>2. pumping' \in Handle
  BY DEF mqtt_client_dowork, TypeOK
<1>3. UNCHANGED <<client, feeding, network, history>>
  BY DEF mqtt_client_dowork
<1>4. QED
  BY <1>1, <1>2, <1>3 DEF TypeOK, client, network, history

LEMMA TypeKeepAlive ==
    ASSUME TypeOK, KeepAlive
    PROVE  TypeOK'
<1>1. pumping' \in Handle /\ UNCHANGED <<feeding, xio, flushed, connack, ioerr, disc>>
  BY DEF KeepAlive, Handle
<1>2. CASE UNCHANGED <<client, stack, wire, errors>>
  BY <1>1, <1>2 DEF TypeOK, client
<1>3. CASE PingOverdue
  <2>1. stack' \in Seq(Frame) /\ errors' \in SUBSET Xio
    BY <1>3, CallType, FramesType DEF PingOverdue, Report, TypeOK
  <2>2. UNCHANGED <<client, wire>>
    BY <1>3 DEF PingOverdue
  <2>3. QED
    BY <1>1, <2>1, <2>2 DEF TypeOK, client
<1>4. CASE PingDue
  <2>1. /\ wire' \in [Xio -> Seq(Packet)]
        /\ \A x \in Xio : flushed[x] <= Len(wire'[x])
    BY <1>4, SendType DEF PingDue, Open, Packet
  <2>2. stack' \in Seq(Frame) /\ errors' \in SUBSET Xio
    BY <1>4, CallType, FramesType DEF PingDue, Report, TypeOK
  <2>3. /\ pingWait' \in BOOLEAN
        /\ packetState' = packetState \/ packetState' = "UNKNOWN"
        /\ UNCHANGED <<mqtt_status, xioHandle, disconnect_cb, mqttOptions>>
    BY <1>4 DEF PingDue, TypeOK
  <2>4. QED
    BY <1>1, <2>1, <2>2, <2>3 DEF TypeOK
<1>5. QED
  BY <1>2, <1>3, <1>4 DEF KeepAlive

\* The frames that only change MQTT_CLIENT fields, and the return of a callback.
LEMMA TypeFrames ==
    ASSUME TypeOK,
           \/ clear_mqtt_options \/ PingReset \/ ClearPending \/ Return
           \/ SetClientConnected \/ SetPendingClose \/ DeliverSuback \/ DropXio \/ BytesRead
    PROVE  TypeOK'
<1>1. stack # <<>> /\ stack \in Seq(Frame)
  BY DEF TypeOK, Top, clear_mqtt_options, PingReset, ClearPending, Return,
         SetClientConnected, SetPendingClose, DeliverSuback, DropXio, BytesRead
<1>2. \/ Become(<<>>) \/ Become(<<"app">>)
      \/ Return /\ Len(stack) > 1 /\ stack' = Tail(Tail(stack))
  BY DEF clear_mqtt_options, PingReset, ClearPending, Return, SetClientConnected,
         SetPendingClose, DeliverSuback, DropXio, BytesRead
<1>3. ASSUME Len(stack) > 1, stack' = Tail(Tail(stack))
      PROVE  stack' \in Seq(Frame)
  <2>1. Tail(stack) \in Seq(Frame) /\ Len(Tail(stack)) = Len(stack) - 1
    BY <1>1, HeadTailProperties
  <2>2. Len(stack) \in Nat
    BY <1>1, LenProperties
  <2>3. Tail(stack) # <<>>
    <3>1. Len(Tail(stack)) # 0
      BY <1>3, <2>1, <2>2
    <3>2. ASSUME Tail(stack) = <<>> PROVE FALSE
      BY <3>1, <3>2, EmptySeq
    <3>3. QED
      BY <3>2
  <2>4. QED
    BY <1>3, <2>1, <2>3, HeadTailProperties
<1>4. stack' \in Seq(Frame)
  BY <1>1, <1>2, <1>3, BecomeType, FramesType
<1>5. /\ UNCHANGED <<pumping, network, history, disconnect_cb>>
      /\ feeding' \in Handle
      /\ mqtt_status' \in SUBSET Flag
      /\ xioHandle' \in Handle
      /\ packetState' = packetState \/ packetState' = "UNKNOWN"
      /\ mqttOptions' \in [Field -> Handle]
      /\ pingWait' \in BOOLEAN
  BY DEF TypeOK, Flag, Handle, NoOptions, MarkPendingClose, client, clear_mqtt_options,
         PingReset, ClearPending, Return, SetClientConnected, SetPendingClose,
         DeliverSuback, DropXio, BytesRead
<1>6. QED
  BY <1>4, <1>5 DEF TypeOK, network, history

LEMMA TypeClose ==
    ASSUME TypeOK, close_connection
    PROVE  TypeOK'
<1>1. stack # <<>> /\ stack \in Seq(Frame)
  BY DEF close_connection, Top, TypeOK
<1>2. /\ disc' \in Seq(DiscType) /\ Len(disc') = Len(disc)
  BY CountType DEF close_connection, CloseSocket, CloseLater, CloseAtOnce, CloseUnconnected,
                   TypeOK, DiscType
<1>3. \E frames \in {<<>>, <<"app", "drop_xio">>, disconnectCallback} : Become(frames)
  BY DEF close_connection, CloseSocket, CloseLater, CloseAtOnce, CloseUnconnected
<1>4. stack' \in Seq(Frame)
  BY <1>1, <1>3, BecomeType, FramesType
<1>5. /\ mqtt_status' \in SUBSET Flag
      /\ xioHandle' \in Handle
      /\ xio' \in [Xio -> XioState]
  BY DEF close_connection, CloseSocket, CloseLater, CloseAtOnce, CloseUnconnected, Closable,
         TypeOK, Flag, Handle, XioState
<1>6. UNCHANGED <<packetState, disconnect_cb, mqttOptions, pingWait, pumping, feeding,
                  wire, flushed, connack, errors, ioerr>>
  BY DEF close_connection
<1>7. QED
  BY <1>2, <1>4, <1>5, <1>6 DEF TypeOK, DiscType

LEMMA TypeOpened ==
    ASSUME TypeOK, NEW x \in Xio, OpenOk(x) \/ OpenError(x)
    PROVE  TypeOK'
<1>1. /\ xio' \in [Xio -> XioState]
      /\ UNCHANGED <<xioHandle, disconnect_cb, mqttOptions, pingWait, pumping, feeding, flushed,
                     connack, ioerr, disc>>
  BY DEF OpenOk, OpenError, TypeOK, XioState
<1>2. /\ mqtt_status' \in SUBSET Flag
      /\ errors' \in SUBSET Xio
      /\ packetState' = packetState \/ packetState' = "CONNECT"
  BY DEF OpenOk, OpenError, StartSession, RefuseOpen, ReportOpenError, MarkPendingClose,
         Report, TypeOK, Flag
<1>3. UNCHANGED stack \/ Call(<<"app", "pend">>)
  BY DEF OpenOk, OpenError, StartSession, RefuseOpen, ReportOpenError
<1>4. stack' \in Seq(Frame)
  BY <1>3, CallType, FramesType DEF TypeOK
<1>5. UNCHANGED wire \/ (StartSession(x) /\ ~UNCHANGED wire)
  BY DEF OpenOk, OpenError, RefuseOpen, ReportOpenError
<1>6. CASE UNCHANGED wire
  BY <1>1, <1>2, <1>4, <1>6 DEF TypeOK
<1>7. CASE StartSession(x) /\ ~UNCHANGED wire
  <2> DEFINE up == xioHandle = x \/ Open(xioHandle)
  <2>1. \E ok \in BOOLEAN : sendPacketItem(up, "CONNECT", ok)
    BY <1>7 DEF StartSession
  <2>2. up => xioHandle \in Xio
    BY DEF Open
  <2> HIDE DEF up
  <2>3. /\ wire' \in [Xio -> Seq(Packet)]
        /\ \A y \in Xio : flushed[y] <= Len(wire'[y])
    BY <2>1, <2>2, SendType DEF Packet
  <2>4. QED
    BY <1>1, <1>2, <1>4, <2>3 DEF TypeOK
<1>8. QED
  BY <1>5, <1>6, <1>7

LEMMA TypeSendComplete ==
    ASSUME TypeOK, NEW x \in Xio, SendComplete(x)
    PROVE  TypeOK'
<1>1. stack' \in Seq(Frame)
  BY CallType, FramesType DEF SendComplete, TypeOK
<1>2. UNCHANGED <<client, pumping, feeding, xio, wire, history>>
  BY DEF SendComplete
<1>3. \A y \in Xio : Len(wire[y]) \in Nat
  BY LenProperties DEF TypeOK
<1>4. /\ flushed' \in [Xio -> Nat]
      /\ \A y \in Xio : flushed'[y] <= Len(wire'[y])
  BY <1>2, <1>3 DEF SendComplete, InFlight, TypeOK
<1>5. QED
  BY <1>1, <1>2, <1>4 DEF TypeOK, client, history

LEMMA TypeClosed ==
    ASSUME TypeOK, NEW x \in Xio, on_connection_closed(x)
    PROVE  TypeOK'
<1>1. stack' \in Seq(Frame)
  BY CallType, FramesType DEF on_connection_closed, TypeOK
<1>2. disc' \in Seq(DiscType) /\ Len(disc') = Len(disc)
  BY CountType DEF on_connection_closed, DiscType
<1>3. xio' \in [Xio -> XioState] /\ mqtt_status' \in SUBSET Flag
  BY DEF on_connection_closed, TypeOK, XioState
<1>4. UNCHANGED <<xioHandle, packetState, disconnect_cb, mqttOptions, pingWait, pumping, feeding,
                  wire, flushed, connack, errors, ioerr>>
  BY DEF on_connection_closed
<1>5. QED
  BY <1>1, <1>2, <1>3, <1>4 DEF TypeOK, DiscType

\* What is pushed when a packet is delivered.
Pushed ==
    {<<"app">>, <<"app", "accept">>, set_error_callback, set_error_callback \o <<"suback">>}
        \cup {<<"app", packet>> : packet \in Reply}

LEMMA PushedType == \A frames \in Pushed : frames \in Seq(Frame)
BY FramesType DEF Pushed

LEMMA BrokerDelivers ==
    ASSUME NEW x \in Xio, Broker(x)
    PROVE  BytesRejected(x) \/ \E frames \in Pushed : Deliver(x, frames)
<1>1. ASSUME NEW answers \in SUBSET Reply, Answered(x, answers)
      PROVE  \E frames \in Pushed : Deliver(x, frames)
  BY <1>1 DEF Answered, Pushed
<1>2. CASE RecvPublish(x) \/ RecvPublishAck(x)
  <2>1. Ack \in SUBSET Reply /\ Reply \ Ack \in SUBSET Reply
    BY DEF Reply
  <2>2. Answered(x, Ack) \/ Answered(x, Reply \ Ack)
    BY <1>2 DEF RecvPublish, RecvPublishAck
  <2>3. QED
    BY <1>1, <2>1, <2>2
<1>3. CASE RecvConnack(x) \/ RecvSubscribeAck(x) \/ RecvPingresp(x)
  BY <1>3 DEF RecvConnack, RecvSubscribeAck, RecvPingresp, Pushed
<1>4. CASE RecvMalformed(x) \/ RecvInvalidSuback(x)
  BY <1>4 DEF RecvMalformed, RecvInvalidSuback, Pushed
<1>5. QED
  BY <1>2, <1>3, <1>4 DEF Broker

\* What is below the frames of a handler: the rest of the chunk.
Rest == IF stack = <<>> THEN <<"bytes">> ELSE stack

LEMMA RestType == TypeOK => Rest \in Seq(Frame)
BY FramesType DEF Rest, TypeOK

LEMMA DeliverType ==
    ASSUME TypeOK, NEW x \in Xio, NEW frames \in Seq(Frame), Deliver(x, frames)
    PROVE  stack' \in Seq(Frame) /\ feeding' \in Handle
<1>1. stack' = frames \o Rest /\ feeding' = x
  BY DEF Deliver, Rest
<1>2. QED
  BY <1>1, RestType, ConcatProperties DEF Handle

LEMMA RejectedType ==
    ASSUME TypeOK, NEW x \in Xio, BytesRejected(x)
    PROVE  stack' \in Seq(Frame) /\ feeding' \in Handle
<1>1. CASE stack = <<>>
  BY <1>1, CallType, FramesType DEF BytesRejected, TypeOK, Handle
<1>2. CASE stack # <<>>
  BY <1>2, BecomeType, FramesType DEF BytesRejected, TypeOK, Handle
<1>3. QED
  BY <1>1, <1>2

\* What the xio reports and the broker sends: callbacks, and little state.
LEMMA TypeReceived ==
    ASSUME TypeOK, NEW x \in Xio, SendFailed(x) \/ onIoError(x) \/ Broker(x)
    PROVE  TypeOK'
<1>1. stack' \in Seq(Frame) /\ feeding' \in Handle
  <2>1. CASE SendFailed(x) \/ onIoError(x)
    BY <2>1, CallType, FramesType DEF SendFailed, onIoError, TypeOK
  <2>2. CASE Broker(x)
    BY <2>2, BrokerDelivers, PushedType, DeliverType, RejectedType
  <2>3. QED
    BY <2>1, <2>2
<1>2. /\ UNCHANGED <<mqtt_status, xioHandle, packetState, disconnect_cb, mqttOptions,
                     pumping, network, disc>>
      /\ pingWait' \in BOOLEAN
      /\ connack' \in [Xio -> {"none", "accepted", "refused"}]
      /\ errors' \in SUBSET Xio
      /\ ioerr' \in SUBSET Xio
  BY DEF SendFailed, onIoError, Broker, RecvConnack, RecvPublish, RecvPublishAck,
         RecvSubscribeAck, RecvPingresp, RecvMalformed, RecvInvalidSuback, BytesRejected,
         TypeOK, client, history, Report
<1>3. QED
  BY <1>1, <1>2 DEF TypeOK, network

\* Every step preserves the types.
LEMMA TypeNext == TypeOK /\ [Next]_vars => TypeOK'
<1> SUFFICES ASSUME TypeOK, [Next]_vars PROVE TypeOK'
  OBVIOUS
<1>1. CASE UNCHANGED vars
  BY <1>1 DEF TypeOK, vars, client, control, network, history
<1>2. CASE App
  BY <1>2, ConstantsAssumption, TypeConnect, TypeRelease, TypeSend, TypeSendResponse,
     TypeDisconnect DEF App
<1>3. CASE Frames
  BY <1>3, TypeClose, TypeFrames, TypeSendReply DEF Frames
<1>4. CASE DoWork
  BY <1>4, TypeDoWork, TypeKeepAlive DEF DoWork
<1>5. CASE \E x \in Xio : Events(x) \/ Broker(x) \/ SendComplete(x)
  BY <1>5, TypeOpened, TypeSendComplete, TypeClosed, TypeReceived DEF Events
<1>6. QED
  BY <1>1, <1>2, <1>3, <1>4, <1>5 DEF Next

(***************************************************************************)
(* The types of every variable hold in every reachable state, whatever the *)
(* application does and whatever fails; in particular the xio never        *)
(* completes a send that mqtt_client.c did not make, and disconnect_cb is  *)
(* NULL or the callback of a disconnect call that was made.                *)
(***************************************************************************)
THEOREM TypeCorrect == Spec => []TypeOK
<1>1. QED
  BY TypeInit, TypeNext, PTL DEF Spec

-----------------------------------------------------------------------------
(* No connection leaks, and an xio error closes the xio.                    *)

In(frame, frames) == \E i \in 1 .. Len(frames) : frames[i] = frame

LEMMA InConcat ==
    ASSUME NEW s \in Seq(Frame), NEW t \in Seq(Frame), NEW frame
    PROVE  In(frame, s \o t) <=> In(frame, s) \/ In(frame, t)
<1>1. Len(s) \in Nat /\ Len(t) \in Nat
  BY LenProperties
<1>2. ASSUME In(frame, s \o t) PROVE In(frame, s) \/ In(frame, t)
  <2>1. PICK i \in 1 .. Len(s) + Len(t) : (s \o t)[i] = frame
    BY <1>2, ConcatProperties DEF In
  <2>2. CASE i <= Len(s)
    BY <1>1, <2>1, <2>2, ConcatProperties DEF In
  <2>3. CASE i > Len(s)
    <3>1. i - Len(s) \in 1 .. Len(t) /\ t[i - Len(s)] = frame
      BY <1>1, <2>1, <2>3, ConcatProperties
    <3>2. QED
      BY <3>1 DEF In
  <2>4. QED
    BY <1>1, <2>2, <2>3
<1>3. ASSUME In(frame, s) PROVE In(frame, s \o t)
  BY <1>1, <1>3, ConcatProperties DEF In
<1>4. ASSUME In(frame, t) PROVE In(frame, s \o t)
  <2>1. PICK i \in 1 .. Len(t) : t[i] = frame
    BY <1>4 DEF In
  <2>2. /\ Len(s) + i \in 1 .. Len(s) + Len(t)
        /\ (s \o t)[Len(s) + i] = frame
    BY <1>1, <2>1, ConcatProperties
  <2>3. QED
    BY <2>2, ConcatProperties DEF In
<1>5. QED
  BY <1>2, <1>3, <1>4

LEMMA InTail ==
    ASSUME NEW s \in Seq(Frame), s # <<>>, NEW frame
    PROVE  In(frame, s) <=> Head(s) = frame \/ In(frame, Tail(s))
<1>1. /\ Len(s) \in Nat /\ Len(s) >= 1
      /\ Len(Tail(s)) = Len(s) - 1
      /\ \A i \in 1 .. Len(Tail(s)) : Tail(s)[i] = s[i + 1]
  BY EmptySeq, HeadTailProperties
<1>2. Head(s) = s[1]
  OBVIOUS
<1>3. ASSUME In(frame, s) PROVE Head(s) = frame \/ In(frame, Tail(s))
  <2>1. PICK i \in 1 .. Len(s) : s[i] = frame
    BY <1>3 DEF In
  <2>2. CASE i = 1
    BY <1>2, <2>1, <2>2
  <2>3. CASE i # 1
    <3>1. i - 1 \in 1 .. Len(Tail(s)) /\ Tail(s)[i - 1] = frame
      BY <1>1, <2>1, <2>3
    <3>2. QED
      BY <3>1 DEF In
  <2>4. QED
    BY <2>2, <2>3
<1>4. ASSUME Head(s) = frame PROVE In(frame, s)
  BY <1>1, <1>2, <1>4 DEF In
<1>5. ASSUME In(frame, Tail(s)) PROVE In(frame, s)
  <2>1. PICK i \in 1 .. Len(Tail(s)) : Tail(s)[i] = frame
    BY <1>5 DEF In
  <2>2. i + 1 \in 1 .. Len(s) /\ s[i + 1] = frame
    BY <1>1, <2>1
  <2>3. QED
    BY <2>2 DEF In
<1>6. QED
  BY <1>3, <1>4, <1>5

\* What the frame lists of the handlers contain.
LEMMA InFrames ==
    /\ ~In("drop_xio", <<>>) /\ ~In("drop_xio", <<"app">>)
    /\ ~In("drop_xio", set_error_callback) /\ In("close", set_error_callback)
    /\ ~In("drop_xio", disconnectCallback)
    /\ In("drop_xio", <<"app", "drop_xio">>)
    /\ \A frame \in Frame \ {"drop_xio"} : ~In("drop_xio", <<frame>>)
    /\ \A a, b \in Frame \ {"drop_xio"} : ~In("drop_xio", <<a, b>>)
BY DEF In, set_error_callback, disconnectCallback

LEMMA CallStack ==
    ASSUME NEW frames \in Seq(Frame), stack \in Seq(Frame), Call(frames), NEW frame
    PROVE  In(frame, stack') <=> In(frame, frames) \/ In(frame, stack)
BY InConcat DEF Call

LEMMA BecomeStack ==
    ASSUME NEW frames \in Seq(Frame), stack \in Seq(Frame), stack # <<>>, Become(frames),
           NEW frame
    PROVE  /\ In(frame, stack') <=> In(frame, frames) \/ In(frame, Tail(stack))
           /\ In(frame, stack) <=> Head(stack) = frame \/ In(frame, Tail(stack))
<1>1. Tail(stack) \in Seq(Frame)
  BY HeadTailProperties
<1>2. QED
  BY <1>1, InConcat, InTail DEF Become

-----------------------------------------------------------------------------
(* Tracking is an inductive invariant.  Most steps leave the xios alone and *)
(* neither drop a close_connection that is to run nor add a "drop_xio".     *)

StackKept ==
    /\ In("close", stack) => In("close", stack')
    /\ In("drop_xio", stack') => In("drop_xio", stack)

LEMMA CallKeeps ==
    ASSUME NEW frames \in Seq(Frame), stack \in Seq(Frame), Call(frames),
           ~In("drop_xio", frames)
    PROVE  StackKept
BY CallStack DEF StackKept

LEMMA BecomeKeeps ==
    ASSUME NEW frames \in Seq(Frame), stack \in Seq(Frame), stack # <<>>, Become(frames),
           ~In("drop_xio", frames), Head(stack) # "close"
    PROVE  StackKept
BY BecomeStack DEF StackKept

\* The conjuncts of Tracking in terms of In, the stack made explicit.
TrackingOf(s) ==
    /\ \A x, y \in Xio : Live(x) /\ Live(y) => x = y
    /\ \A x \in Xio : xio[x] \in {"opening", "open"} => xioHandle = x
    /\ \A x \in Xio : xio[x] = "open" => "SOCKET_CONNECTED" \in mqtt_status
    /\ In("drop_xio", s) => \E x \in Xio : xio[x] = "closed"
    /\ \A x \in ioerr : xio[x] \notin {"created", "opening"}
    /\ \A x \in ioerr : xio[x] = "open" => In("close", s)

LEMMA TrackingIn == Tracking <=> TrackingOf(stack)
BY DEF Tracking, TrackingOf, OnStack, In

LEMMA Quiet ==
    ASSUME TypeOK, Tracking, StackKept, UNCHANGED <<xio, xioHandle>>,
           "SOCKET_CONNECTED" \in mqtt_status => "SOCKET_CONNECTED" \in mqtt_status',
           \/ UNCHANGED ioerr
           \/ \E x \in Xio : /\ ioerr' = ioerr \cup {x} /\ xio[x] = "open"
                            /\ In("close", stack')
    PROVE  Tracking'
<1>1. TrackingOf(stack)
  BY TrackingIn
<1>2. \A x, y \in Xio : Live(x)' /\ Live(y)' => x = y
  BY <1>1 DEF TrackingOf, Live
<1>3. \A x \in ioerr' : xio'[x] \notin {"created", "opening"}
  BY <1>1 DEF TrackingOf
<1>4. \A x \in ioerr' : xio'[x] = "open" => In("close", stack')
  BY <1>1 DEF TrackingOf, StackKept
<1>5. TrackingOf(stack)'
  BY <1>1, <1>2, <1>3, <1>4 DEF TrackingOf, StackKept
<1>6. QED
  BY <1>5 DEF Tracking, TrackingOf, OnStack, In

LEMMA StackSame == UNCHANGED stack => StackKept
BY DEF StackKept

LEMMA ReplyStack ==
    ASSUME NEW packet \in Reply, NEW rest \in Seq(Frame), SendReplyPacket(packet, rest)
    PROVE  /\ In("close", rest) => In("close", stack')
           /\ In("drop_xio", stack') => In("drop_xio", rest)
<1>1. stack' = rest \/ stack' = set_error_callback \o rest
  BY DEF SendReplyPacket
<1>2. /\ set_error_callback \in Seq(Frame)
      /\ ~In("drop_xio", set_error_callback)
  BY FramesType, InFrames
<1>3. \A frame : In(frame, set_error_callback \o rest)
                    <=> In(frame, set_error_callback) \/ In(frame, rest)
  BY <1>2, InConcat
<1>4. QED
  BY <1>1, <1>2, <1>3

\* API calls that leave the xio and xioHandle alone.
LEMMA TrackCalls ==
    ASSUME TypeOK, Tracking,
           \/ \E packet \in SendTypes : Send(packet)
           \/ \E packet \in Ack : mqtt_client_send_message_response(packet)
           \/ mqtt_client_disconnect
           \/ mqtt_client_dowork
    PROVE  Tracking'
<1>1. stack \in Seq(Frame)
  BY DEF TypeOK
<1>2. UNCHANGED <<xio, xioHandle, mqtt_status, ioerr>>
  BY DEF Send, mqtt_client_send_message_response, mqtt_client_disconnect,
         mqtt_client_dowork, control, client, network, history
<1>3. StackKept
  <2>1. CASE UNCHANGED stack
    BY <2>1, StackSame
  <2>2. CASE \E packet \in Ack : mqtt_client_send_message_response(packet)
    <3>1. PICK packet \in Reply : SendReplyPacket(packet, stack)
      BY <2>2 DEF mqtt_client_send_message_response, Reply
    <3>2. QED
      BY <1>1, <3>1, ReplyStack DEF StackKept
  <2>3. CASE mqtt_client_disconnect /\ ~UNCHANGED stack
    <3>1. Call(<<"close", "clear_opts">>)
      BY <2>3 DEF mqtt_client_disconnect, DisconnectConnected, DisconnectUnconnected
    <3>2. QED
      BY <1>1, <3>1, CallKeeps, FramesType, InFrames DEF Frame
  <2>4. CASE mqtt_client_dowork /\ ~UNCHANGED stack
    <3>1. Call(<<"close", "clear_pending">>)
      BY <2>4 DEF mqtt_client_dowork
    <3>2. QED
      BY <1>1, <3>1, CallKeeps, FramesType, InFrames DEF Frame
  <2>5. QED
    BY <2>1, <2>2, <2>3, <2>4 DEF Send, control
<1>4. QED
  BY <1>2, <1>3, Quiet

LEMMA TrackKeepAlive ==
    ASSUME TypeOK, Tracking, KeepAlive
    PROVE  Tracking'
<1>1. stack \in Seq(Frame)
  BY DEF TypeOK
<1>2. UNCHANGED <<xio, xioHandle, mqtt_status, ioerr>>
  BY DEF KeepAlive, PingOverdue, PingDue, client
<1>3. \/ UNCHANGED stack
      \/ Call(set_error_callback)
      \/ Call(set_error_callback \o <<"ping_reset">>)
  BY DEF KeepAlive, PingOverdue, PingDue
<1>4. ~In("drop_xio", set_error_callback \o <<"ping_reset">>)
  BY InConcat, FramesType, InFrames DEF In
<1>5. StackKept
  BY <1>1, <1>3, <1>4, CallKeeps, StackSame, FramesType, InFrames
<1>6. QED
  BY <1>2, <1>5, Quiet

\* The rest of a handler, except close_connection and DropXio.
LEMMA TrackFrames ==
    ASSUME TypeOK, Tracking,
           \/ clear_mqtt_options \/ PingReset \/ ClearPending \/ Return
           \/ SetClientConnected \/ SetPendingClose \/ DeliverSuback \/ SendReply \/ BytesRead
    PROVE  Tracking'
<1>1. stack # <<>> /\ stack \in Seq(Frame)
  BY DEF TypeOK, Top, clear_mqtt_options, PingReset, ClearPending, Return,
         SetClientConnected, SetPendingClose, DeliverSuback, SendReply, BytesRead
<1>2. Tail(stack) \in Seq(Frame)
  BY <1>1, HeadTailProperties
<1>3. /\ UNCHANGED <<xio, xioHandle, ioerr>>
      /\ "SOCKET_CONNECTED" \in mqtt_status => "SOCKET_CONNECTED" \in mqtt_status'
  BY DEF clear_mqtt_options, PingReset, ClearPending, Return, SetClientConnected,
         SetPendingClose, DeliverSuback, SendReply, BytesRead, MarkPendingClose, client, network, history
<1>4. CASE Become(<<>>) /\ Head(stack) # "close"
  BY <1>1, <1>3, <1>4, BecomeKeeps, Quiet, FramesType, InFrames
<1>5. CASE DeliverSuback
  <2>1. Become(<<"app">>) /\ Head(stack) = "suback"
    BY <1>5 DEF DeliverSuback, Top
  <2>2. QED
    BY <1>1, <1>3, <2>1, BecomeKeeps, Quiet, FramesType, InFrames
<1>6. CASE Return /\ Len(stack) > 1 /\ stack[2] \in Ack /\ stack' = Tail(Tail(stack))
  <2>1. Head(stack) = "app"
    BY <1>6 DEF Return, Top
  <2>2. Tail(stack) # <<>> /\ Head(Tail(stack)) = stack[2]
    <3>1. /\ Len(stack) \in Nat /\ Len(Tail(stack)) = Len(stack) - 1
          /\ Tail(stack)[1] = stack[2]
      BY <1>1, <1>6, HeadTailProperties, LenProperties
    <3>2. Len(Tail(stack)) # 0
      BY <1>6, <3>1
    <3>3. ASSUME Tail(stack) = <<>> PROVE FALSE
      BY <3>2, <3>3, EmptySeq
    <3>4. QED
      BY <3>1, <3>3
  <2>3. stack[2] \notin {"close", "drop_xio"}
    BY <1>6 DEF Ack
  <2>4. \A frame : In(frame, stack) <=>
            Head(stack) = frame \/ stack[2] = frame \/ In(frame, stack')
    BY <1>1, <1>2, <1>6, <2>2, InTail
  <2>5. StackKept
    BY <2>1, <2>3, <2>4 DEF StackKept
  <2>6. QED
    BY <1>3, <2>5, Quiet
<1>7. CASE SendReply
  <2>1. PICK packet \in Reply : Top(packet) /\ SendReplyPacket(packet, Tail(stack))
    BY <1>7 DEF SendReply
  <2>2. Head(stack) \notin {"close", "drop_xio"}
    BY <2>1 DEF Top, Reply, Ack
  <2>3. StackKept
    BY <1>1, <1>2, <2>1, <2>2, ReplyStack, InTail DEF StackKept
  <2>4. QED
    BY <1>3, <2>3, Quiet
<1>8. QED
  BY <1>4, <1>5, <1>6, <1>7
  DEF clear_mqtt_options, PingReset, ClearPending, Return, SetClientConnected,
      SetPendingClose, BytesRead, Top

\* What the broker sends: the frames of its handler go on top of the chunk's.
LEMMA DeliverKeeps ==
    ASSUME TypeOK, NEW x \in Xio, NEW frames \in Pushed, Deliver(x, frames)
    PROVE  StackKept
<1>1. ~In("drop_xio", frames)
  <2>1. {"app", "accept"} \cup Reply \subseteq Frame \ {"drop_xio"}
    BY DEF Frame, Reply, Ack
  <2>2. \A packet \in Reply : ~In("drop_xio", <<"app", packet>>)
    BY <2>1, InFrames
  <2>3. ~In("drop_xio", <<"app", "accept">>)
    BY <2>1, InFrames
  <2>4. ~In("drop_xio", set_error_callback \o <<"suback">>)
    BY InConcat, FramesType, InFrames DEF In
  <2>5. QED
    BY <2>2, <2>3, <2>4, InFrames DEF Pushed
<1>2. /\ In("close", stack) => In("close", Rest)
      /\ In("drop_xio", Rest) => In("drop_xio", stack)
  BY InFrames DEF Rest, In, Frame
<1>3. stack' = frames \o Rest /\ frames \in Seq(Frame) /\ Rest \in Seq(Frame)
  BY PushedType, RestType DEF Deliver, Rest
<1>4. \A frame : In(frame, stack') <=> In(frame, frames) \/ In(frame, Rest)
  BY <1>3, InConcat
<1>5. QED
  BY <1>1, <1>2, <1>4 DEF StackKept

LEMMA RejectedKeeps ==
    ASSUME TypeOK, NEW x \in Xio, BytesRejected(x)
    PROVE  StackKept
<1>1. stack \in Seq(Frame)
  BY DEF TypeOK
<1>2. CASE stack = <<>>
  BY <1>1, <1>2, CallKeeps, FramesType, InFrames DEF BytesRejected
<1>3. CASE stack # <<>>
  <2>1. Become(set_error_callback) /\ Head(stack) = "bytes"
    BY <1>3 DEF BytesRejected, Reading, XioTurn, Top
  <2>2. QED
    BY <1>1, <1>3, <2>1, BecomeKeeps, FramesType, InFrames
<1>4. QED
  BY <1>2, <1>3

LEMMA TrackBroker ==
    ASSUME TypeOK, Tracking, NEW x \in Xio, Broker(x)
    PROVE  Tracking'
<1>1. StackKept
  BY BrokerDelivers, DeliverKeeps, RejectedKeeps
<1>2. UNCHANGED <<xio, xioHandle, mqtt_status, ioerr>>
  BY DEF Broker, RecvConnack, RecvPublish, RecvPublishAck, RecvSubscribeAck, RecvPingresp,
         RecvMalformed, RecvInvalidSuback, BytesRejected, client, network, history
<1>3. QED
  BY <1>1, <1>2, Quiet

\* Completed sends, and the errors an open xio reports.
LEMMA TrackReported ==
    ASSUME TypeOK, Tracking, NEW x \in Xio, SendComplete(x) \/ SendFailed(x) \/ onIoError(x)
    PROVE  Tracking'
<1>1. stack \in Seq(Frame)
  BY DEF TypeOK
<1>2. UNCHANGED <<xio, xioHandle, mqtt_status>>
  BY DEF SendComplete, SendFailed, onIoError, client, network
<1>3. CASE SendFailed(x) \/ onIoError(x)
  <2>1. Call(set_error_callback) /\ xio[x] = "open" /\ ioerr' = ioerr \cup {x}
    BY <1>3 DEF SendFailed, onIoError, InFlight
  <2>2. StackKept
    BY <1>1, <2>1, CallKeeps, FramesType, InFrames
  <2>3. In("close", stack')
    BY <1>1, <2>1, CallStack, FramesType, InFrames
  <2>4. QED
    BY <1>2, <2>1, <2>2, <2>3, Quiet
<1>4. CASE SendComplete(x)
  <2>1. UNCHANGED ioerr
    BY <1>4 DEF SendComplete, history
  <2>2. UNCHANGED stack \/ Call(<<"app", "pend">>)
    BY <1>4 DEF SendComplete
  <2>3. <<"app", "pend">> \in Seq(Frame) /\ ~In("drop_xio", <<"app", "pend">>)
    BY FramesType, InFrames DEF Frame
  <2>4. StackKept
    BY <1>1, <2>2, <2>3, CallKeeps, StackSame
  <2>5. QED
    BY <1>2, <2>1, <2>4, Quiet
<1>5. QED
  BY <1>3, <1>4

\* The steps that change the xios or the handle.
LEMMA TrackConnect ==
    ASSUME TypeOK, Tracking, "overlap" \notin AppMay, NEW x \in Xio, Connect(x)
    PROVE  Tracking'
<1>1. TrackingOf(stack)
  BY TrackingIn
<1>2. xio[x] = "created" /\ \A y \in Xio : ~Live(y)
  BY DEF Connect, Connectable
<1>3. UNCHANGED <<stack, ioerr, mqtt_status>>
  BY DEF Connect, control, history
<1>4. /\ \A y \in Xio \ {x} : xio'[y] = xio[y]
      /\ \/ xio'[x] = "opening" /\ xioHandle' = x
         \/ xio'[x] \in {"created", "closed"}
  BY <1>2 DEF Connect, TypeOK
<1>5. \A y \in Xio : Live(y)' => y = x
  BY <1>2, <1>4 DEF Live
<1>6. x \notin ioerr /\ ~In("drop_xio", stack)
  BY <1>1, <1>2 DEF TrackingOf, Live
<1>7. \A y \in ioerr : y \in Xio \ {x}
  BY <1>6 DEF TypeOK
<1>8. TrackingOf(stack)'
  BY <1>1, <1>2, <1>3, <1>4, <1>5, <1>6, <1>7 DEF TrackingOf, Live
<1>9. QED
  BY <1>8 DEF Tracking, TrackingOf, OnStack, In

LEMMA TrackRelease ==
    ASSUME TypeOK, Tracking, NEW x \in Xio, Release(x)
    PROVE  Tracking'
<1>1. TrackingOf(stack)
  BY TrackingIn
<1>2. stack = <<>> /\ xio[x] \in {"closed", "closing"}
      /\ UNCHANGED <<stack, ioerr, mqtt_status>>
  BY DEF Release, control, history
<1>3. /\ \A y \in Xio \ {x} : xio'[y] = xio[y]
      /\ xio'[x] = "destroyed"
      /\ xioHandle # x => xioHandle' = xioHandle
  BY DEF Release, TypeOK
<1>4. \A y \in Xio : Live(y)' => Live(y)
  BY <1>3 DEF Live
<1>5. ~In("drop_xio", stack)
  BY <1>2, InFrames
<1>6. ioerr \subseteq Xio
  BY DEF TypeOK
<1>7. TrackingOf(stack)'
  BY <1>1, <1>2, <1>3, <1>4, <1>5, <1>6 DEF TrackingOf
<1>8. QED
  BY <1>7 DEF Tracking, TrackingOf, OnStack, In

LEMMA TrackDropXio ==
    ASSUME TypeOK, Tracking, DropXio
    PROVE  Tracking'
<1>1. TrackingOf(stack)
  BY TrackingIn
<1>2. /\ stack \in Seq(Frame) /\ stack # <<>> /\ Head(stack) = "drop_xio"
      /\ Become(<<>>)
      /\ UNCHANGED <<xio, ioerr, mqtt_status>>
  BY DEF DropXio, Top, TypeOK, network, history
<1>3. StackKept
  <2>1. /\ ~In("drop_xio", <<>>) /\ <<>> \in Seq(Frame)
    BY FramesType, InFrames
  <2>2. QED
    BY <1>2, <2>1, BecomeKeeps
<1>4. \A x \in Xio : xio[x] \notin {"opening", "open"}
  <2>1. In("drop_xio", stack)
    BY <1>2, InTail
  <2>2. PICK y \in Xio : xio[y] = "closed"
    BY <1>1, <2>1 DEF TrackingOf
  <2>3. QED
    BY <1>1, <2>2 DEF TrackingOf, Live
<1>5. TrackingOf(stack)'
  BY <1>1, <1>2, <1>3, <1>4 DEF TrackingOf, Live, StackKept
<1>6. QED
  BY <1>5 DEF Tracking, TrackingOf, OnStack, In

LEMMA TrackClose ==
    ASSUME TypeOK, Tracking, close_connection
    PROVE  Tracking'
<1>1. TrackingOf(stack)
  BY TrackingIn
<1>2. /\ stack # <<>> /\ stack \in Seq(Frame) /\ Head(stack) = "close"
      /\ UNCHANGED ioerr
  BY DEF close_connection, Top, TypeOK
\* Nothing is open or opening afterwards unless the flag was clear.
<1>3. CASE SocketUp /\ Closable(xioHandle)
  <2> DEFINE h == xioHandle
  <2>1. h \in Xio /\ xio[h] \in {"opening", "open"}
    BY <1>3 DEF Closable
  <2>2. /\ xio'[h] \in {"closing", "closed"}
        /\ \A y \in Xio \ {h} : xio'[y] = xio[y]
    BY <1>3, <2>1 DEF close_connection, CloseSocket, CloseLater, CloseAtOnce, TypeOK
  <2>3. \A y \in Xio \ {h} : ~Live(y)
    BY <1>1, <2>1 DEF TrackingOf, Live
  <2>4. \A y \in Xio : (Live(y)' => y = h) /\ xio'[y] \notin {"opening", "open"}
    BY <2>2, <2>3 DEF Live
  <2>5. h \in Xio /\ (In("drop_xio", stack') => xio'[h] = "closed")
    <3>1. CASE xio'[h] = "closed"
      BY <2>1, <3>1
    <3>2. CASE xio'[h] # "closed"
      <4>1. Become(<<>>)
        BY <1>3, <2>1, <3>2 DEF close_connection, CloseSocket, CloseLater, CloseAtOnce, TypeOK
      <4>2. ~In("drop_xio", Tail(stack))
        <5>1. ~In("drop_xio", stack)
          BY <1>1, <2>1, <2>3 DEF TrackingOf, Live
        <5>2. QED
          BY <1>2, <5>1, InTail
      <4>3. <<>> \in Seq(Frame) /\ ~In("drop_xio", <<>>)
        BY FramesType, InFrames
      <4>4. QED
        BY <1>2, <2>1, <4>1, <4>2, <4>3, BecomeStack
    <3>3. QED
      BY <3>1, <3>2
  <2> HIDE DEF h
  <2>6. \A y \in ioerr : y \in Xio /\ xio[y] \notin {"created", "opening"}
    BY <1>1 DEF TrackingOf, TypeOK
  <2>7. \A y \in ioerr : xio'[y] \notin {"created", "opening"}
    BY <2>2, <2>6
  <2>8. TrackingOf(stack)'
    BY <1>2, <2>4, <2>5, <2>6, <2>7 DEF TrackingOf
  <2>9. QED
    BY <2>8 DEF Tracking, TrackingOf, OnStack, In
<1>4. CASE ~(SocketUp /\ Closable(xioHandle))
  <2>1. UNCHANGED <<xio, mqtt_status>>
    BY <1>4 DEF close_connection, CloseSocket, CloseUnconnected
  <2>2. Become(<<>>) \/ Become(disconnectCallback)
    BY <1>4 DEF close_connection, CloseSocket, CloseUnconnected
  <2>3. In("drop_xio", stack') => In("drop_xio", stack)
    <3>1. /\ <<>> \in Seq(Frame) /\ disconnectCallback \in Seq(Frame)
          /\ ~In("drop_xio", <<>>) /\ ~In("drop_xio", disconnectCallback)
      BY FramesType, InFrames
    <3>2. QED
      BY <1>2, <2>2, <3>1, BecomeStack
  <2>4. \A y \in Xio : xio[y] # "open"
    BY <1>1, <1>4 DEF TrackingOf, SocketUp, Closable
  <2>5. \A y \in Xio : xio[y] = "opening" => xioHandle' = y
    BY <1>1, <1>4, <2>1 DEF TrackingOf, SocketUp, Closable, close_connection, CloseSocket,
                            CloseUnconnected
  <2>6. ioerr \subseteq Xio
    BY DEF TypeOK
  <2>7. TrackingOf(stack)'
    BY <1>1, <1>2, <2>1, <2>3, <2>4, <2>5, <2>6 DEF TrackingOf, Live
  <2>8. QED
    BY <2>7 DEF Tracking, TrackingOf, OnStack, In
<1>5. QED
  BY <1>3, <1>4

\* xio_open completed: the one live xio is x, and no close is to run.
LEMMA TrackOpened ==
    ASSUME TypeOK, Tracking, NEW x \in Xio, OpenOk(x) \/ OpenError(x)
    PROVE  Tracking'
<1>1. TrackingOf(stack)
  BY TrackingIn
<1>2. stack = <<>> /\ xio[x] = "opening" /\ UNCHANGED <<xioHandle, ioerr>>
  BY DEF OpenOk, OpenError, XioTurn
<1>3. /\ \A y \in Xio \ {x} : xio'[y] = xio[y] /\ ~Live(y)
      /\ \/ xio'[x] = "open" /\ "SOCKET_CONNECTED" \in mqtt_status'
         \/ xio'[x] = "closed"
  BY <1>1, <1>2 DEF OpenOk, OpenError, StartSession, RefuseOpen, SocketUp, MarkPendingClose,
                    TypeOK, TrackingOf, Live
<1>4. \A y \in Xio : (Live(y)' => y = x) /\ (xio'[y] \in {"opening", "open"} => y = x)
  BY <1>3 DEF Live
<1>5. ~In("drop_xio", stack')
  <2>1. UNCHANGED stack \/ Call(<<"app", "pend">>)
    BY DEF OpenOk, OpenError, StartSession, RefuseOpen, ReportOpenError
  <2>2. /\ <<"app", "pend">> \in Seq(Frame)
        /\ ~In("drop_xio", <<"app", "pend">>) /\ ~In("drop_xio", stack)
    BY <1>2, FramesType, InFrames DEF Frame
  <2>3. stack \in Seq(Frame)
    BY DEF TypeOK
  <2>4. QED
    BY <2>1, <2>2, <2>3, CallStack
<1>6. \A y \in ioerr : y \in Xio \ {x}
  BY <1>1, <1>2 DEF TypeOK, TrackingOf
<1>7. TrackingOf(stack)'
  BY <1>1, <1>2, <1>3, <1>4, <1>5, <1>6 DEF TrackingOf, Live
<1>8. QED
  BY <1>7 DEF Tracking, TrackingOf, OnStack, In

\* The one live xio closes: nothing is left that SOCKET_CONNECTED could be about.
LEMMA TrackClosed ==
    ASSUME TypeOK, Tracking, NEW x \in Xio, on_connection_closed(x)
    PROVE  Tracking'
<1>1. TrackingOf(stack)
  BY TrackingIn
<1>2. /\ xio[x] = "closing" /\ xio'[x] = "closed"
      /\ \A y \in Xio \ {x} : xio'[y] = xio[y] /\ ~Live(y)
  BY <1>1 DEF on_connection_closed, TypeOK, TrackingOf, Live
<1>3. UNCHANGED <<xioHandle, ioerr>> /\ ioerr \subseteq Xio
  BY DEF on_connection_closed, TypeOK
<1>4. \A y \in Xio : (Live(y)' => y = x) /\ xio'[y] \notin {"opening", "open"}
  BY <1>2 DEF Live
<1>5. TrackingOf(stack)'
  BY <1>1, <1>2, <1>3, <1>4 DEF TrackingOf
<1>6. QED
  BY <1>5 DEF Tracking, TrackingOf, OnStack, In

LEMMA TrackInit == Init => Tracking
<1> SUFFICES ASSUME Init PROVE Tracking
  OBVIOUS
<1>1. TrackingOf(stack)
  BY InFrames DEF Init, TrackingOf, Live
<1>2. QED
  BY <1>1, TrackingIn

LEMMA TrackNext ==
    ASSUME "overlap" \notin AppMay, TypeOK, Tracking, [Next]_vars
    PROVE  Tracking'
<1>1. CASE UNCHANGED vars
  BY <1>1 DEF Tracking, OnStack, Live, vars, client, control, network, history
<1>2. CASE App
  BY <1>2, ConstantsAssumption, TrackConnect, TrackRelease, TrackCalls DEF App
<1>3. CASE Frames
  BY <1>3, TrackClose, TrackDropXio, TrackFrames DEF Frames
<1>4. CASE DoWork
  BY <1>4, TrackCalls, TrackKeepAlive DEF DoWork
<1>5. CASE \E x \in Xio : Events(x) \/ Broker(x) \/ SendComplete(x)
  BY <1>5, TrackOpened, TrackClosed, TrackBroker, TrackReported DEF Events
<1>6. QED
  BY <1>1, <1>2, <1>3, <1>4, <1>5 DEF Next

(***************************************************************************)
(* For an application that connects only once the previous xio was         *)
(* released: the inductive invariant of the two theorems below holds.      *)
(***************************************************************************)
THEOREM ConnectionsTracked ==
    ASSUME "overlap" \notin AppMay
    PROVE  Spec => []Tracking
<1>1. Init => TypeOK /\ Tracking
  BY TypeInit, TrackInit
<1>2. TypeOK /\ Tracking /\ [Next]_vars => (TypeOK /\ Tracking)'
  BY TypeNext, TrackNext
<1>3. QED
  BY <1>1, <1>2, PTL DEF Spec

(***************************************************************************)
(* For the same application, whatever else it does: every open xio is the  *)
(* client's xioHandle and has SOCKET_CONNECTED set, so that                *)
(* close_connection closes it; no connection leaks.                        *)
(***************************************************************************)
THEOREM NoConnectionLeaks ==
    ASSUME "overlap" \notin AppMay
    PROVE  Spec => []OpenIsTracked
<1>1. Tracking => OpenIsTracked
  BY DEF Tracking, OpenIsTracked
<1>2. QED
  BY <1>1, ConnectionsTracked, PTL

(***************************************************************************)
(* For the same application: when onIoError and everything it called have  *)
(* returned, the xio that reported the error is not open any more, as      *)
(* SRS_MQTT_CLIENT_07_036 asks, even if the error callback disconnected or *)
(* sent packets in between.                                                *)
(***************************************************************************)
THEOREM IoErrorsClose ==
    ASSUME "overlap" \notin AppMay
    PROVE  Spec => []IoErrorCloses
<1>1. Tracking => IoErrorCloses
  <2>1. ~In("close", <<>>)
    BY DEF In
  <2>2. QED
    BY <2>1, TrackingIn DEF TrackingOf, IoErrorCloses
<1>2. QED
  BY <1>1, ConnectionsTracked, PTL
=============================================================================
