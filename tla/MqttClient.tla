----------------------------- MODULE MqttClient -----------------------------
(***************************************************************************)
(* The connection life cycle of src/src/mqtt_client.c: one MQTT_CLIENT,    *)
(* the xio instances its owner passes to mqtt_client_connect, and the      *)
(* application that calls the API, also from inside its own callbacks.     *)
(*                                                                         *)
(* The library is single threaded but re-entrant: a handler calls an       *)
(* application callback and goes on when it returns, and in between the    *)
(* application may have called the API.  The call stack is therefore       *)
(* state: `stack` holds what is still to run, innermost first.  The frame  *)
(* "app" is an application callback that has not returned; every other     *)
(* frame is the rest of a handler and names what that rest does.           *)
(*                                                                         *)
(* Packets are their types, an options field is the connection that        *)
(* supplied it, and time is left out: whether a keep-alive deadline has    *)
(* passed is a choice here (module KeepAlive has the clock).               *)
(***************************************************************************)
EXTENDS Naturals, Sequences, FiniteSets

CONSTANTS
    Xio,             \* the xio handles; each is connected at most once
    NoXio,           \* the NULL handle
    Field,           \* the string fields of MQTT_CLIENT_OPTIONS
    Supplies,        \* Supplies[x]: the fields given when connecting with x
    AppPackets,      \* which of PUBLISH, SUBSCRIBE, UNSUBSCRIBE the application sends
    AppMay,          \* what the application does beyond the plain discipline
    Faults,          \* which faults can strike
    QueuedSends,     \* FALSE: a send completes before anything else happens
    MaxSends,        \* bound: packets accepted per xio before optional sends stop
    MaxDepth,        \* bound: callbacks from which the application calls the API
    MaxDisconnects   \* bound: calls of mqtt_client_disconnect

(***************************************************************************)
(* Usage beyond the plain discipline (connect once the previous xio was    *)
(* released, disconnect an open connection, send only while connected):    *)
(*   overlap             connect while an earlier xio is still closing     *)
(*   abandon             release an xio whose close has not completed      *)
(*   disconnect_opening  disconnect while xio_open has not completed       *)
(*   disconnect_idle     disconnect while no connection is up              *)
(*   disconnect_early    disconnect from the callback of a CONNACK         *)
(*   send_anytime        send before CONNACK or after disconnect           *)
(***************************************************************************)
Liberties == {"overlap", "abandon", "disconnect_opening", "disconnect_idle", "disconnect_early",
              "send_anytime"}

(***************************************************************************)
(*   alloc  an allocation fails (option cloning, packet construction)      *)
(*   open   xio_open fails, or completes with an error                     *)
(*   send   xio_send fails, or a send completes with IO_SEND_ERROR         *)
(*   clock  tickcounter_get_current_ms fails                               *)
(*   io     the xio reports an error                                       *)
(*   parse  the peer sends bytes or packets the client rejects             *)
(*   drain  a close outlasts the MAX_CLOSE_RETRIES polls of the client     *)
(***************************************************************************)
FaultKinds == {"alloc", "open", "send", "clock", "io", "parse", "drain"}

Ack == {"PUBACK", "PUBREC"}                  \* SendMessageAck's packets
Reply == Ack \cup {"PUBREL", "PUBCOMP"}
SendTypes == {"PUBLISH", "SUBSCRIBE", "UNSUBSCRIBE"}
Packet == {"CONNECT", "PINGREQ", "DISCONNECT"} \cup SendTypes \cup Reply

Flag == {"CLIENT_CONNECTED", "SOCKET_CONNECTED", "PENDING_CLOSE"}
Frame == Reply \cup {"app", "close", "drop_xio", "accept", "pend", "clear_opts",
                     "ping_reset", "clear_pending", "suback", "bytes"}
XioState == {"created", "opening", "open", "closing", "closed", "destroyed"}

ASSUME ConstantsAssumption ==
    /\ NoXio \notin Xio
    /\ Supplies \in [Xio -> SUBSET Field]
    /\ AppPackets \subseteq SendTypes
    /\ AppMay \subseteq Liberties
    /\ Faults \subseteq FaultKinds
    /\ QueuedSends \in BOOLEAN
    /\ MaxSends \in Nat /\ MaxDepth \in Nat /\ MaxDisconnects \in Nat

VARIABLES
    \* MQTT_CLIENT
    mqtt_status,     \* the set of status bits
    xioHandle,
    packetState,
    disconnect_cb,   \* 0 is NULL, d the callback of the d-th disconnect call
    mqttOptions,     \* who supplied each string; NoXio is a freed (NULL) string
    pingWait,        \* timeSincePing > 0
    \* control
    stack,           \* what is still to run, innermost first
    pumping,         \* the xio inside whose xio_dowork mqtt_client_dowork is
    feeding,         \* the xio whose bytes onBytesReceived is reading
    \* the xio instances
    xio,             \* their states
    wire,            \* wire[x]: the packets xio_send accepted on x, in order
    flushed,         \* flushed[x]: how many of them have completed
    \* history
    connack,         \* what the broker answered on each connection
    errors,          \* connections for which the error callback was called
    ioerr,           \* connections whose xio reported an error
    disc             \* the disconnect calls: connection, result, callbacks so far

client  == <<mqtt_status, xioHandle, packetState, disconnect_cb, mqttOptions, pingWait>>
control == <<stack, pumping, feeding>>
network == <<xio, wire, flushed>>
history == <<connack, errors, ioerr, disc>>
vars == <<client, control, network, history>>

Handle == Xio \cup {NoXio}
Live(x) == xio[x] \notin {"created", "destroyed"}

TypeOK ==
    /\ mqtt_status \in SUBSET Flag
    /\ xioHandle \in Handle
    /\ packetState \in {"UNKNOWN", "ERROR", "CONNECT", "DISCONNECT"} \cup SendTypes
    /\ disconnect_cb \in 0 .. Len(disc)
    /\ mqttOptions \in [Field -> Handle]
    /\ pingWait \in BOOLEAN
    /\ stack \in Seq(Frame)
    /\ pumping \in Handle
    /\ feeding \in Handle
    /\ xio \in [Xio -> XioState]
    /\ wire \in [Xio -> Seq(Packet)]
    /\ flushed \in [Xio -> Nat] /\ \A x \in Xio : flushed[x] <= Len(wire[x])
    /\ connack \in [Xio -> {"none", "accepted", "refused"}]
    /\ errors \in SUBSET Xio
    /\ ioerr \in SUBSET Xio
    /\ disc \in Seq([on : Handle, ok : BOOLEAN, calls : 0 .. 2])

NoOptions == [f \in Field |-> NoXio]

\* mqtt_client_init: a zeroed MQTT_CLIENT with packetState UNKNOWN_TYPE.
Init ==
    /\ mqtt_status = {}
    /\ xioHandle = NoXio
    /\ packetState = "UNKNOWN"
    /\ disconnect_cb = 0
    /\ mqttOptions = NoOptions
    /\ pingWait = FALSE
    /\ stack = <<>>
    /\ pumping = NoXio
    /\ feeding = NoXio
    /\ xio = [x \in Xio |-> "created"]
    /\ wire = [x \in Xio |-> <<>>]
    /\ flushed = [x \in Xio |-> 0]
    /\ connack = [x \in Xio |-> "none"]
    /\ errors = {}
    /\ ioerr = {}
    /\ disc = <<>>

-----------------------------------------------------------------------------
(* Who may take the next step.                                             *)

Top(frame) == stack # <<>> /\ Head(stack) = frame
OnStack(frame) == \E i \in 1 .. Len(stack) : stack[i] = frame
Depth == Cardinality({i \in 1 .. Len(stack) : stack[i] = "app"})

\* Application code runs outside the library or inside one of its callbacks.
AppTurn ==
    \/ stack = <<>> /\ pumping = NoXio
    \/ Top("app") /\ Depth <= MaxDepth

\* An xio calls back from its xio_dowork: the client's, or the owner's own poll.
XioTurn(x) == stack = <<>> /\ pumping \in {NoXio, x}

Call(frames) == stack' = frames \o stack
Become(frames) == stack' = frames \o Tail(stack)
Open(h) == h \in Xio /\ xio[h] = "open"

\* A definition with a suffix, here and below, is the one after it with a slip:
\* what a run must notice (see "mutants" in PROJECT.json).
SocketUp_WrongBit == "CLIENT_CONNECTED" \in mqtt_status
SocketUp == "SOCKET_CONNECTED" \in mqtt_status
ClientUp_WrongBit == "SOCKET_CONNECTED" \in mqtt_status
ClientUp == "CLIENT_CONNECTED" \in mqtt_status
\* sendPacketItem that sends again when the clock fails.
sendPacketItem_Again(up, packet, ok) ==
    LET Accept(n) == wire' = [wire EXCEPT ![xioHandle] = @ \o [i \in 1 .. n |-> packet]] IN
    \/ ok /\ up /\ Accept(1)
    \/ ~ok /\ up /\ "clock" \in Faults /\ Accept(2)
    \/ ~ok /\ (up => "send" \in Faults) /\ UNCHANGED wire

(***************************************************************************)
(* sendPacketItem(mqtt_client, packet): `ok` is "it returned 0".  A clock  *)
(* that fails after xio_send turns a packet that was accepted into a       *)
(* failure.  `up` is whether the client's xio is open.                     *)
(***************************************************************************)
sendPacketItem(up, packet, ok) ==
    LET Accept == wire' = [wire EXCEPT ![xioHandle] = Append(@, packet)] IN
    \/ ok /\ up /\ Accept
    \/ ~ok /\ up /\ "clock" \in Faults /\ Accept
    \/ ~ok /\ (up => "send" \in Faults) /\ UNCHANGED wire

MarkPendingClose_Lost == mqtt_status
MarkPendingClose == mqtt_status \cup {"PENDING_CLOSE"}

\* set_error_callback without its close_connection.
set_error_callback_NoClose == <<"app">>

\* set_error_callback: the error callback first, close_connection after it.
set_error_callback == <<"app", "close">>

\* The disconnect callback, when there is one.
disconnectCallback == IF disconnect_cb = 0 THEN <<>> ELSE <<"app">>
CountCallback ==
    disc' = IF disconnect_cb = 0 THEN disc
            ELSE [disc EXCEPT ![disconnect_cb].calls = IF @ < 2 THEN @ + 1 ELSE @]
Report_Silent(h) == UNCHANGED errors
Report(h) == errors' = errors \cup ({h} \cap Xio)

-----------------------------------------------------------------------------
(* The API, called by the application.                                     *)

Connectable(x) ==
    /\ xio[x] = "created"
    /\ \A y \in Xio : Live(y) => "overlap" \in AppMay /\ xio[y] \in {"closing", "closed"}

Cloned_KeepsOld(x) ==
    [f \in Field |-> IF mqttOptions[f] = NoXio /\ f \in Supplies[x] THEN x ELSE mqttOptions[f]]

\* cloneMqttOptions overwrites the strings that were given and keeps the others.
Cloned(x) == [f \in Field |-> IF f \in Supplies[x] THEN x ELSE mqttOptions[f]]

(***************************************************************************)
(* mqtt_client_connect.  mqtt_status, disconnect_cb and the send time of   *)
(* the previous connection are left as they are; a failed clone leaves     *)
(* xioHandle set, a failed xio_open does not.                              *)
(***************************************************************************)
Connect(x) ==
    /\ AppTurn
    /\ Connectable(x)
    /\ packetState' = "UNKNOWN"
    /\ pingWait' = FALSE
    /\ \/ /\ "alloc" \in Faults
          /\ xioHandle' = x
          /\ mqttOptions' = NoOptions
          /\ UNCHANGED xio
       \/ /\ "open" \in Faults
          /\ xioHandle' = NoXio
          /\ mqttOptions' = NoOptions
          /\ xio' = [xio EXCEPT ![x] = "closed"]
       \/ /\ xioHandle' = x
          /\ mqttOptions' = Cloned(x)
          /\ xio' = [xio EXCEPT ![x] = "opening"]
    /\ UNCHANGED <<mqtt_status, disconnect_cb, control, wire, flushed, history>>

\* The application believes it is connected: CONNACK seen, no disconnect called.
BelievesConnected ==
    /\ xioHandle \in Xio
    /\ connack[xioHandle] = "accepted"
    /\ \A d \in DOMAIN disc : disc[d].on # xioHandle

(***************************************************************************)
(* mqtt_client_publish, mqtt_client_subscribe and mqtt_client_unsubscribe: *)
(* none looks at the connection state, and packetState is assigned before  *)
(* the send and whatever becomes of it.                                    *)
(***************************************************************************)
Send(packet) ==
    /\ AppTurn
    /\ BelievesConnected \/ "send_anytime" \in AppMay
    /\ xioHandle \in Xio => Len(wire[xioHandle]) < MaxSends
    /\ packetState' = packet
    /\ \E ok \in BOOLEAN : sendPacketItem(Open(xioHandle), packet, ok)
    /\ UNCHANGED <<mqtt_status, xioHandle, disconnect_cb, mqttOptions, pingWait,
                   control, xio, flushed, history>>

(***************************************************************************)
(* SendMessageAck, for mqtt_client_send_message_response and for the reply *)
(* to a packet just delivered; the frames of the caller follow `rest`.     *)
(***************************************************************************)
SendReplyPacket(packet, rest) ==
    \/ /\ sendPacketItem(Open(xioHandle), packet, TRUE)
       /\ stack' = rest
       /\ UNCHANGED errors
    \/ /\ \/ "alloc" \in Faults /\ UNCHANGED wire
          \/ sendPacketItem(Open(xioHandle), packet, FALSE)
       /\ stack' = set_error_callback \o rest
       /\ Report(xioHandle)

mqtt_client_send_message_response(packet) ==
    /\ AppTurn
    /\ BelievesConnected \/ "send_anytime" \in AppMay
    /\ xioHandle \in Xio => Len(wire[xioHandle]) < MaxSends
    /\ SendReplyPacket(packet, stack)
    /\ UNCHANGED <<client, pumping, feeding, xio, flushed, connack, ioerr, disc>>

\* "accept" is what follows the callback of a CONNACK: CLIENT_CONNECTED is not set yet.
Disconnectable ==
    /\ OnStack("accept") => "disconnect_early" \in AppMay
    /\ IF xioHandle \in Xio /\ xio[xioHandle] = "opening" THEN "disconnect_opening" \in AppMay
       ELSE Open(xioHandle) \/ "disconnect_idle" \in AppMay

\* The callback argument of the disconnect call being made: 0 is NULL.
NextCallback == {0, Len(disc) + 1}
Disconnects(ok) == disc' = Append(disc, [on |-> xioHandle, ok |-> ok, calls |-> 0])

\* mqtt_client_disconnect with MQTT_STATUS_CLIENT_CONNECTED: send a DISCONNECT.
DisconnectConnected ==
    /\ ClientUp
    /\ mqttOptions' = NoOptions
    /\ UNCHANGED stack
    /\ \/ /\ "alloc" \in Faults
          /\ packetState' = "ERROR"
          /\ Disconnects(FALSE)
          /\ UNCHANGED <<disconnect_cb, wire>>
       \/ /\ packetState' = "DISCONNECT"
          /\ disconnect_cb' \in NextCallback
          /\ \E ok \in BOOLEAN :
                /\ sendPacketItem(Open(xioHandle), "DISCONNECT", ok)
                /\ Disconnects(ok)

\* ... and without it: close the socket, then free the options, and return 0.
DisconnectUnconnected ==
    /\ ~ClientUp
    /\ disconnect_cb' \in NextCallback
    /\ Disconnects(TRUE)
    /\ Call(<<"close", "clear_opts">>)
    /\ UNCHANGED <<packetState, mqttOptions, wire>>

mqtt_client_disconnect ==
    /\ AppTurn
    /\ Disconnectable
    /\ Len(disc) < MaxDisconnects
    /\ DisconnectConnected \/ DisconnectUnconnected
    /\ UNCHANGED <<mqtt_status, xioHandle, pingWait, pumping, feeding, xio, flushed,
                   connack, errors, ioerr>>

\* clear_mqtt_options at the end of mqtt_client_disconnect.
clear_mqtt_options ==
    /\ Top("clear_opts")
    /\ mqttOptions' = NoOptions
    /\ Become(<<>>)
    /\ UNCHANGED <<mqtt_status, xioHandle, packetState, disconnect_cb, pingWait,
                   pumping, feeding, network, history>>

(***************************************************************************)
(* The owner destroys the xio and tells the client (mqtt_client_clear_xio),*)
(* outside every callback: xio_destroy may not be called from one.         *)
(***************************************************************************)
Release(x) ==
    /\ stack = <<>> /\ pumping = NoXio
    /\ xio[x] = "closed" \/ (xio[x] = "closing" /\ "abandon" \in AppMay)
    /\ xio' = [xio EXCEPT ![x] = "destroyed"]
    /\ xioHandle' = IF xioHandle = x THEN NoXio ELSE xioHandle
    /\ UNCHANGED <<mqtt_status, packetState, disconnect_cb, mqttOptions, pingWait,
                   control, wire, flushed, history>>

(***************************************************************************)
(* mqtt_client_dowork: nothing without an xio; carry out a pending close;  *)
(* or else xio_dowork, during which the xio calls back, and then KeepAlive.*)
(***************************************************************************)
mqtt_client_dowork ==
    /\ stack = <<>> /\ pumping = NoXio
    /\ xioHandle # NoXio
    /\ IF "PENDING_CLOSE" \in mqtt_status
       THEN Call(<<"close", "clear_pending">>) /\ UNCHANGED pumping
       ELSE pumping' = xioHandle /\ UNCHANGED stack
    /\ UNCHANGED <<client, feeding, network, history>>

(***************************************************************************)
(* The rest of mqtt_client_dowork after xio_dowork returned.  xioHandle    *)
(* may be NULL by now and the status may have changed: both are read again *)
(* or used as they are, as in the code.                                    *)
(***************************************************************************)
PingOverdue ==
    /\ pingWait
    /\ Call(set_error_callback \o <<"ping_reset">>)
    /\ Report(xioHandle)
    /\ UNCHANGED <<client, wire>>

PingDue ==
    /\ xioHandle \in Xio => Len(wire[xioHandle]) < MaxSends
    /\ \/ /\ sendPacketItem(Open(xioHandle), "PINGREQ", TRUE)
          /\ pingWait' = TRUE \/ ("clock" \in Faults /\ UNCHANGED pingWait)
          /\ UNCHANGED <<packetState, stack, errors>>
       \/ /\ sendPacketItem(Open(xioHandle), "PINGREQ", FALSE)
          /\ pingWait' = FALSE
          /\ packetState' = "UNKNOWN"
          /\ Call(set_error_callback)
          /\ Report(xioHandle)
    /\ UNCHANGED <<mqtt_status, xioHandle, disconnect_cb, mqttOptions>>

KeepAliveArmed == SocketUp /\ ClientUp

KeepAlive ==
    /\ stack = <<>> /\ pumping # NoXio
    /\ pumping' = NoXio
    /\ \/ UNCHANGED <<client, stack, wire, errors>>    \* nothing due, or no clock
       \/ KeepAliveArmed /\ PingOverdue
       \/ KeepAliveArmed /\ PingDue
    /\ UNCHANGED <<feeding, xio, flushed, connack, ioerr, disc>>

\* ... and after the NO_PING_RESPONSE error was reported and the xio closed.
PingReset ==
    /\ Top("ping_reset")
    /\ pingWait' = FALSE
    /\ packetState' = "UNKNOWN"
    /\ Become(<<>>)
    /\ UNCHANGED <<mqtt_status, xioHandle, disconnect_cb, mqttOptions, pumping, feeding,
                   network, history>>

\* ... and after a pending close was carried out.
ClearPending ==
    /\ Top("clear_pending")
    /\ mqtt_status' = mqtt_status \ {"PENDING_CLOSE"}
    /\ Become(<<>>)
    /\ UNCHANGED <<xioHandle, packetState, disconnect_cb, mqttOptions, pingWait,
                   pumping, feeding, network, history>>

-----------------------------------------------------------------------------
(* What the handlers do when a callback returns.                           *)

\* An application callback returns; PUBACK and PUBREC follow only MQTT_CLIENT_ACK_SYNC.
Return ==
    /\ Top("app")
    /\ \/ Become(<<>>)
       \/ /\ Len(stack) > 1 /\ stack[2] \in Ack
          /\ stack' = Tail(Tail(stack))
    /\ UNCHANGED <<client, pumping, feeding, network, history>>

\* The answer to PUBREC or PUBREL, or SendMessageAck after a PUBLISH.
SendReply ==
    /\ \E packet \in Reply : Top(packet) /\ SendReplyPacket(packet, Tail(stack))
    /\ UNCHANGED <<client, pumping, feeding, xio, flushed, connack, ioerr, disc>>

\* After the ON_CONNACK callback of an accepted connection.
SetClientConnected ==
    /\ Top("accept")
    /\ mqtt_status' = mqtt_status \cup {"CLIENT_CONNECTED"}
    /\ Become(<<>>)
    /\ UNCHANGED <<xioHandle, packetState, disconnect_cb, mqttOptions, pingWait,
                   pumping, feeding, network, history>>

\* After ON_DISCONNECT, or after the error callback of a failed open.
SetPendingClose ==
    /\ Top("pend")
    /\ mqtt_status' = MarkPendingClose
    /\ Become(<<>>)
    /\ UNCHANGED <<xioHandle, packetState, disconnect_cb, mqttOptions, pingWait,
                   pumping, feeding, network, history>>

\* An invalid SUBACK was reported and the xio closed; ON_SUBSCRIBE_ACK still follows.
DeliverSuback ==
    /\ Top("suback")
    /\ Become(<<"app">>)
    /\ UNCHANGED <<client, pumping, feeding, network, history>>

(***************************************************************************)
(* close_connection with MQTT_STATUS_SOCKET_CONNECTED.  xio_close of an    *)
(* open or opening xio completes at once (on_connection_closed runs inside *)
(* it) or later, and fails without completing on any other handle; its     *)
(* result is ignored.  Without a disconnect callback the client polls      *)
(* until the close has completed, but at most MAX_CLOSE_RETRIES times.     *)
(***************************************************************************)
Closable(h) == h \in Xio /\ xio[h] \in {"opening", "open"}

\* The disconnect callback when the close is requested, and again when it completes.
CloseLater_Eager(h) ==
    /\ disconnect_cb # 0 \/ "drain" \in Faults
    /\ xio' = [xio EXCEPT ![h] = "closing"]
    /\ xioHandle' = NoXio
    /\ CountCallback
    /\ Become(disconnectCallback)
    /\ UNCHANGED mqtt_status

CloseLater(h) ==
    /\ disconnect_cb # 0 \/ "drain" \in Faults
    /\ xio' = [xio EXCEPT ![h] = "closing"]
    /\ xioHandle' = NoXio
    /\ Become(<<>>)
    /\ UNCHANGED <<mqtt_status, disc>>

CloseAtOnce_NoCallback(h) ==
    /\ xio' = [xio EXCEPT ![h] = "closed"]
    /\ mqtt_status' = mqtt_status \ {"SOCKET_CONNECTED"}
    /\ xioHandle' = NoXio
    /\ Become(<<>>)
    /\ UNCHANGED disc

CloseAtOnce(h) ==
    /\ xio' = [xio EXCEPT ![h] = "closed"]
    /\ mqtt_status' = mqtt_status \ {"SOCKET_CONNECTED"}
    /\ CountCallback
    /\ IF disconnect_cb = 0
       THEN xioHandle' = NoXio /\ Become(<<>>)
       ELSE Become(<<"app", "drop_xio">>) /\ UNCHANGED xioHandle

CloseSocket ==
    \/ Closable(xioHandle) /\ (CloseLater(xioHandle) \/ CloseAtOnce(xioHandle))
    \/ /\ ~Closable(xioHandle)
       /\ xioHandle' = NoXio
       /\ Become(<<>>)
       /\ UNCHANGED <<mqtt_status, xio, disc>>

\* The handle dropped whether or not the xio was closed.
CloseUnconnected_Drop ==
    /\ Become(disconnectCallback)
    /\ CountCallback
    /\ xioHandle' = NoXio
    /\ UNCHANGED <<mqtt_status, xio>>

\* close_connection without it: only the callback is made, the xio stays as it is.
CloseUnconnected ==
    /\ Become(disconnectCallback)
    /\ CountCallback
    /\ UNCHANGED <<mqtt_status, xioHandle, xio>>

close_connection ==
    /\ Top("close")
    /\ IF SocketUp THEN CloseSocket ELSE CloseUnconnected
    /\ UNCHANGED <<packetState, disconnect_cb, mqttOptions, pingWait, pumping, feeding,
                   wire, flushed, connack, errors, ioerr>>

\* The end of close_connection after an xio_close that completed at once.
DropXio ==
    /\ Top("drop_xio")
    /\ xioHandle' = NoXio
    /\ Become(<<>>)
    /\ UNCHANGED <<mqtt_status, packetState, disconnect_cb, mqttOptions, pingWait,
                   pumping, feeding, network, history>>

-----------------------------------------------------------------------------
(* Callbacks from the xio.                                                 *)

\* onOpenComplete(IO_OPEN_OK) with the socket flag clear: send the CONNECT.
StartSession(x) ==
    LET up == xioHandle = x \/ Open(xioHandle) IN
    /\ ~SocketUp
    /\ packetState' = "CONNECT"
    /\ mqtt_status' = mqtt_status \cup {"SOCKET_CONNECTED"}
    /\ \/ /\ \/ "alloc" \in Faults /\ UNCHANGED wire    \* only a log entry
             \/ sendPacketItem(up, "CONNECT", TRUE)
          /\ UNCHANGED <<stack, errors>>
       \/ /\ sendPacketItem(up, "CONNECT", FALSE)
          /\ Call(<<"app", "pend">>)
          /\ Report(x)

\* onOpenComplete with the flag already set: no error is reported.
RefuseOpen ==
    /\ SocketUp
    /\ mqtt_status' = MarkPendingClose
    /\ UNCHANGED <<packetState, wire, stack, errors>>

OpenOk(x) ==
    /\ XioTurn(x)
    /\ xio[x] = "opening"
    /\ xio' = [xio EXCEPT ![x] = "open"]
    /\ StartSession(x) \/ RefuseOpen
    /\ UNCHANGED <<xioHandle, disconnect_cb, mqttOptions, pingWait, pumping, feeding, flushed,
                   connack, ioerr, disc>>

\* onOpenComplete(IO_OPEN_ERROR or IO_OPEN_CANCELLED).
ReportOpenError(x) ==
    /\ ~SocketUp
    /\ Call(<<"app", "pend">>)
    /\ Report(x)
    /\ UNCHANGED <<mqtt_status, packetState, wire>>

OpenError(x) ==
    /\ "open" \in Faults
    /\ XioTurn(x)
    /\ xio[x] = "opening"
    /\ xio' = [xio EXCEPT ![x] = "closed"]
    /\ ReportOpenError(x) \/ RefuseOpen
    /\ UNCHANGED <<xioHandle, disconnect_cb, mqttOptions, pingWait, pumping, feeding, flushed,
                   connack, ioerr, disc>>

\* With QueuedSends = FALSE the completion belongs to the xio_send before it.
SendTurn(x) == QueuedSends => XioTurn(x)
InFlight_Again(x) == xio[x] = "open" /\ wire[x] # <<>>
InFlight(x) == xio[x] = "open" /\ flushed[x] < Len(wire[x])

DisconnectSent_Any == packetState # "CONNECT"
DisconnectSent == packetState = "DISCONNECT"

(***************************************************************************)
(* sendComplete.  It does not know which packet completed: packetState,    *)
(* the last packet type assigned, decides whether it was the DISCONNECT.   *)
(* xio_close completes what is left with IO_SEND_CANCELLED, which the      *)
(* handler ignores, so a closed xio just keeps its unflushed packets.      *)
(***************************************************************************)
SendComplete(x) ==
    /\ SendTurn(x)
    /\ InFlight(x)
    /\ flushed' = [flushed EXCEPT ![x] = @ + 1]
    /\ IF DisconnectSent THEN Call(<<"app", "pend">>) ELSE UNCHANGED stack
    /\ UNCHANGED <<client, pumping, feeding, xio, wire, history>>

SendFailed(x) ==
    /\ "send" \in Faults /\ QueuedSends
    /\ XioTurn(x)
    /\ InFlight(x)
    /\ Call(set_error_callback)
    /\ Report(x)
    /\ ioerr' = ioerr \cup {x}
    /\ UNCHANGED <<client, pumping, feeding, network, connack, disc>>

onIoError(x) ==
    /\ "io" \in Faults
    /\ XioTurn(x)
    /\ xio[x] = "open"
    /\ x \notin ioerr
    /\ Call(set_error_callback)
    /\ Report(x)
    /\ ioerr' = ioerr \cup {x}
    /\ UNCHANGED <<client, pumping, feeding, network, connack, disc>>

\* on_connection_closed, for an xio_close that did not complete at once.
on_connection_closed(x) ==
    /\ XioTurn(x)
    /\ xio[x] = "closing"
    /\ xio' = [xio EXCEPT ![x] = "closed"]
    /\ mqtt_status' = mqtt_status \ {"SOCKET_CONNECTED"}
    /\ Call(disconnectCallback)
    /\ CountCallback
    /\ UNCHANGED <<xioHandle, packetState, disconnect_cb, mqttOptions, pingWait, pumping, feeding,
                   wire, flushed, connack, errors, ioerr>>

-----------------------------------------------------------------------------
(* Packets from the broker, as recvCompleteCallback handles them.  The     *)
(* broker answers a CONNECT it received with one CONNACK, and sends        *)
(* nothing else before it accepted the connection.                         *)
(*                                                                         *)
(* onBytesReceived gives the codec a chunk of bytes that may hold several  *)
(* packets: the frame "bytes" is the rest of its loop, which goes on       *)
(* whatever the handlers of the packets before did, even if they closed    *)
(* the connection.                                                         *)

Reading(x) ==
    \/ XioTurn(x) /\ xio[x] = "open"
    \/ Top("bytes") /\ feeding = x

\* A packet was complete: the frames of its handler, then the rest of the loop.
Deliver(x, frames) ==
    /\ stack' = frames \o (IF stack = <<>> THEN <<"bytes">> ELSE stack)
    /\ feeding' = x

ConnectReceived(x) == \E i \in 1 .. flushed[x] : wire[x][i] = "CONNECT"

RecvConnack(x) ==
    /\ Reading(x)
    /\ ConnectReceived(x) /\ connack[x] = "none"
    /\ \/ connack' = [connack EXCEPT ![x] = "accepted"] /\ Deliver(x, <<"app", "accept">>)
       \/ connack' = [connack EXCEPT ![x] = "refused"] /\ Deliver(x, <<"app">>)
    /\ UNCHANGED <<client, pumping, network, errors, ioerr, disc>>

Established(x) == Reading(x) /\ connack[x] = "accepted"

\* The callback is called and then, for some packets, an answer is sent.
Answered(x, answers) ==
    \/ Deliver(x, <<"app">>)
    \/ Len(wire[x]) < MaxSends /\ \E packet \in answers : Deliver(x, <<"app", packet>>)

\* ProcessPublishMessage: a QoS 1 PUBLISH is answered by PUBACK, QoS 2 by PUBREC.
RecvPublish(x) ==
    /\ Established(x)
    /\ Answered(x, Ack)
    /\ UNCHANGED <<client, pumping, network, history>>

\* PUBREC is answered by PUBREL and PUBREL by PUBCOMP, PUBACK and PUBCOMP by nothing.
RecvPublishAck(x) ==
    /\ Established(x)
    /\ Answered(x, Reply \ Ack)
    /\ UNCHANGED <<client, pumping, network, history>>

\* SUBACK and UNSUBACK.
RecvSubscribeAck(x) ==
    /\ Established(x)
    /\ Deliver(x, <<"app">>)
    /\ UNCHANGED <<client, pumping, network, history>>

RecvPingresp(x) ==
    /\ Established(x)
    /\ pingWait' = FALSE
    /\ Deliver(x, <<"app">>)
    /\ UNCHANGED <<mqtt_status, xioHandle, packetState, disconnect_cb, mqttOptions,
                   pumping, network, history>>

\* A packet with a wrong length or content, or for which there is no memory.
RecvMalformed(x) ==
    /\ "parse" \in Faults
    /\ Reading(x)
    /\ Deliver(x, set_error_callback)
    /\ Report(x)
    /\ UNCHANGED <<client, pumping, network, connack, ioerr, disc>>

\* A SUBACK with an invalid return code: an error, and still an ON_SUBSCRIBE_ACK.
RecvInvalidSuback(x) ==
    /\ "parse" \in Faults
    /\ Established(x)
    /\ Deliver(x, set_error_callback \o <<"suback">>)
    /\ Report(x)
    /\ UNCHANGED <<client, pumping, network, connack, ioerr, disc>>

\* The codec rejects the bytes: the rest of the chunk is dropped.
BytesRejected(x) ==
    /\ "parse" \in Faults
    /\ Reading(x)
    /\ IF stack = <<>> THEN Call(set_error_callback) ELSE Become(set_error_callback)
    /\ feeding' = NoXio
    /\ Report(x)
    /\ UNCHANGED <<client, pumping, network, connack, ioerr, disc>>

\* The end of the chunk.
BytesRead ==
    /\ Top("bytes")
    /\ Become(<<>>)
    /\ feeding' = NoXio
    /\ UNCHANGED <<client, pumping, network, history>>

-----------------------------------------------------------------------------
App ==
    \/ \E x \in Xio : Connect(x) \/ Release(x)
    \/ \E packet \in AppPackets : Send(packet)
    \/ \E packet \in Ack : mqtt_client_send_message_response(packet)
    \/ mqtt_client_disconnect

\* The rest of a handler runs, or a callback returns.
Frames ==
    \/ close_connection \/ DropXio \/ clear_mqtt_options \/ PingReset \/ ClearPending
    \/ Return \/ SendReply \/ SetClientConnected \/ SetPendingClose \/ DeliverSuback
    \/ BytesRead

DoWork == mqtt_client_dowork \/ KeepAlive

Events(x) ==
    \/ OpenOk(x) \/ OpenError(x) \/ SendComplete(x) \/ SendFailed(x)
    \/ onIoError(x) \/ on_connection_closed(x)

Broker(x) ==
    \/ RecvConnack(x) \/ RecvPublish(x) \/ RecvPublishAck(x) \/ RecvSubscribeAck(x)
    \/ RecvPingresp(x) \/ RecvMalformed(x) \/ RecvInvalidSuback(x) \/ BytesRejected(x)

\* With QueuedSends = FALSE a send in flight completes before anything else.
Settled == QueuedSends \/ \A x \in Xio : ~InFlight(x)

Next ==
    \/ Settled /\ (App \/ Frames \/ DoWork \/ \E x \in Xio : Events(x) \/ Broker(x))
    \/ ~Settled /\ \E x \in Xio : SendComplete(x)

Spec == Init /\ [][Next]_vars

(***************************************************************************)
(* Callbacks return and handlers run to their end; the owner keeps calling *)
(* mqtt_client_dowork, whose xio_dowork returns; an xio completes opens,   *)
(* sends and closes, however much it has to receive in between (strong     *)
(* fairness: each poll serves both directions).  Nothing is assumed of the *)
(* application's calls, of the broker or of faults.                        *)
(***************************************************************************)
Fairness ==
    /\ WF_vars(Settled /\ Frames)
    /\ SF_vars(Settled /\ BytesRead)
    /\ SF_vars(Settled /\ mqtt_client_dowork)
    /\ SF_vars(Settled /\ KeepAlive)
    /\ \A x \in Xio :
        /\ SF_vars(Settled /\ (OpenOk(x) \/ OpenError(x)))
        /\ SF_vars(SendComplete(x) \/ (Settled /\ SendFailed(x)))
        /\ SF_vars(Settled /\ on_connection_closed(x))

FairSpec == Spec /\ Fairness

-----------------------------------------------------------------------------
(* What the life cycle promises.                                           *)

(***************************************************************************)
(* No connection leaks: an open xio is the one the client would close.     *)
(* close_connection closes xioHandle, and only with SOCKET_CONNECTED set.  *)
(***************************************************************************)
OpenIsTracked == \A x \in Xio : xio[x] = "open" => "SOCKET_CONNECTED" \in mqtt_status /\ xioHandle = x

(***************************************************************************)
(* SRS_MQTT_CLIENT_07_036: when the handler of an xio error has returned,  *)
(* xio_close was called on that xio.                                       *)
(***************************************************************************)
IoErrorCloses == stack = <<>> => \A x \in ioerr : xio[x] # "open"

(***************************************************************************)
(* SRS_MQTT_CLIENT_07_009: on a connection that opened, onOpenComplete     *)
(* sent the CONNECT or the application was told of an error.               *)
(***************************************************************************)
ConnectSentOrReported ==
    \A x \in Xio : xio[x] = "open" => ConnectReceived(x) \/ wire[x] # <<>> \/ x \in errors

\* onOpenComplete's CONNECT is the first packet of a connection and the only one.
ConnectFirst == \A x \in Xio : \A i \in DOMAIN wire[x] : wire[x][i] = "CONNECT" <=> i = 1

(***************************************************************************)
(* mqtt_client_disconnect sends a DISCONNECT, and mqtt_client_dowork a     *)
(* PINGREQ, only on a connection the broker accepted: before that the      *)
(* socket is just closed.                                                  *)
(***************************************************************************)
SessionPacketsAfterConnack ==
    \A x \in Xio : \A i \in DOMAIN wire[x] :
        wire[x][i] \in {"DISCONNECT", "PINGREQ"} => connack[x] = "accepted"

(***************************************************************************)
(* SRS_MQTT_CLIENT_07_012: until an error is reported, an accepted         *)
(* connection is closed by the client only after a DISCONNECT went out:    *)
(* what makes sendComplete set PENDING_CLOSE is the DISCONNECT's own       *)
(* completion.  (An error can leave PENDING_CLOSE to the next connection.) *)
(***************************************************************************)
GracefulClose ==
    \A x \in Xio :
        xio[x] \in {"closing", "closed"} /\ connack[x] = "accepted" /\ errors = {} =>
            \E i \in 1 .. flushed[x] : wire[x][i] = "DISCONNECT"

(***************************************************************************)
(* SRS_MQTT_CLIENT_07_037: whenever the callback of a disconnect call is   *)
(* called, the connection it was to end is down.                           *)
(***************************************************************************)
DisconnectedWhenCalledBack ==
    [][\A d \in DOMAIN disc :
        disc'[d].calls > disc[d].calls /\ disc[d].on \in Xio =>
            xio'[disc[d].on] \notin {"opening", "open"}]_vars

(***************************************************************************)
(* on_connection_closed and close_connection call a disconnect callback    *)
(* once for a connection that ends without an error.  (With errors, two    *)
(* packets of one chunk can each close the connection, and each call it.)  *)
(***************************************************************************)
DisconnectCallbackOnce == \A d \in DOMAIN disc : disc[d].on \in errors \/ disc[d].calls <= 1

(***************************************************************************)
(* onOpenComplete builds the CONNECT from the options of the connection it *)
(* is for: every string given for it, and none from anywhere else.         *)
(***************************************************************************)
ConnectCarriesOwnOptions ==
    [][\A x \in Xio : wire[x] = <<>> /\ wire'[x] = <<"CONNECT">> =>
        mqttOptions = [f \in Field |-> IF f \in Supplies[x] THEN x ELSE NoXio]]_vars

(***************************************************************************)
(* An open connection for which the error callback was called is closed,   *)
(* by set_error_callback or by the pending close onOpenComplete leaves.    *)
(***************************************************************************)
ErrorLeadsToClose ==
    \A x \in Xio : (x \in errors /\ xio[x] = "open") ~> (xio[x] # "open")

(***************************************************************************)
(* A disconnect call that returned 0 ends the connection: its DISCONNECT   *)
(* completes, sendComplete recognises it, mqtt_client_dowork closes.       *)
(***************************************************************************)
DisconnectOk(x) == \E d \in DOMAIN disc : disc[d].on = x /\ disc[d].ok
DisconnectLeadsToClose ==
    \A x \in Xio : (DisconnectOk(x) /\ xio[x] = "open") ~> (xio[x] # "open")

\* SRS_MQTT_CLIENT_07_037: ... and its callback is called, unless a later call replaced it.
DisconnectCallbackCalled ==
    \A d \in 1 .. MaxDisconnects :
        (d \in DOMAIN disc /\ disc[d].ok /\ disconnect_cb = d)
            ~> (disconnect_cb # d \/ disc[d].calls > 0)

-----------------------------------------------------------------------------
(***************************************************************************)
(* Why no connection leaks, as an inductive invariant, for an application  *)
(* that does not connect while an earlier xio is not released ("overlap"): *)
(* one xio at a time is in use; while it opens or is open it is the        *)
(* client's; a close_connection still to finish means that it is closed    *)
(* already; and after an xio error, which only an open xio reports, a      *)
(* close_connection is still to run.                                       *)
(***************************************************************************)
Tracking ==
    /\ \A x, y \in Xio : Live(x) /\ Live(y) => x = y
    /\ \A x \in Xio : xio[x] \in {"opening", "open"} => xioHandle = x
    /\ \A x \in Xio : xio[x] = "open" => "SOCKET_CONNECTED" \in mqtt_status
    /\ OnStack("drop_xio") => \E x \in Xio : xio[x] = "closed"
    /\ \A x \in ioerr : xio[x] \notin {"created", "opening"}
    /\ \A x \in ioerr : xio[x] = "open" => OnStack("close")
=============================================================================
