----------------------------- MODULE MqttSession -----------------------------
(***************************************************************************)
(* What the packets between an application and a broker amount to: the     *)
(* flows of QoS 1 and 2 and of subscriptions, through ProcessPublishMessage,*)
(* SendMessageAck, recvCompleteCallback and the calls of mqtt_client.c.    *)
(* The client keeps no session: which identifier stands for which message  *)
(* is known to its application and to the broker only, and both are here,  *)
(* the broker as MQTT 3.1.1 has it.                                        *)
(*                                                                         *)
(* A connection is up or not (module MqttClient has the rest); each of its *)
(* directions is a sequence of packets.  The session outlives it.  A       *)
(* handler takes two steps when it calls the application: to the callback, *)
(* and on from there; in between the application may call the client.      *)
(***************************************************************************)
EXTENDS FixedHeader, FiniteSets, SequencesExt

CONSTANTS
    Up, Down,         \* messages to publish, and to receive
    Qos,              \* their QoS
    UpId, DownId,     \* the packet identifiers the two sides use for them
    RequestId,        \* RequestId[r]: that of r, SUBSCRIBE_TYPE or UNSUBSCRIBE_TYPE
    ReturnCodes,      \* what the broker may answer to a SUBSCRIBE
    Workloads,        \* what messages and requests a session may have
    AckOptions,       \* what fnMessageRecv returns
    AppMay,           \* "retry": publish again on the connection a call failed on
    Faults,
    NoPacket,
    MaxConnections,   \* bound: connections
    MaxChannel        \* bound: packets on the way before optional ones wait

Request == DOMAIN RequestId

ASSUME SessionAssumption ==
    /\ Up \cap Down = {} /\ IsFiniteSet(Down)
    /\ \A m \in Up \cup Down : Qos[m] \in 0 .. 2
    /\ \A m \in Up : Qos[m] > 0
    /\ UpId \subseteq Nat \ {0} /\ DownId \subseteq Nat \ {0}
    /\ Request \subseteq {SUBSCRIBE_TYPE, UNSUBSCRIBE_TYPE}
    /\ \A r \in Request : RequestId[r] \in Nat \ (UpId \cup {0})
    /\ ReturnCodes \subseteq Seq(Byte)
    /\ Workloads \subseteq SUBSET (Up \cup Down \cup Request)
    /\ AckOptions \subseteq {"SYNC", "ASYNC"}
    /\ AppMay \subseteq {"retry"}
    /\ Faults \subseteq {"alloc", "send", "clock", "lost", "bad"}
    /\ MaxConnections \in Nat \ {0} /\ MaxChannel \in Nat

VARIABLES
    \* the client
    connected,   \* xioHandle is an open connection that the broker accepted
    chunk,       \* the packets left of the bytes onBytesReceived was given
    handling,    \* the packet whose callback is running
    \* the connection
    toBroker, toClient,
    connection,  \* how many there were
    reported,    \* the error callback was called for this one
    \* the application
    state,       \* of a message to publish
    upId,        \* its packet identifier
    taken,       \* how often it took a message
    known,       \* the identifiers of QoS 2 whose messages it took
    owed,        \* the messages for which it has to call send_message_response
    request,     \* what became of a request
    granted,     \* the qosReturn of the SUBSCRIBE_ACK
    \* the broker
    passed,      \* how often it passed a message on
    held,        \* the identifiers of QoS 2 whose messages it passed on
    progress,    \* of a message to deliver
    downId,      \* its packet identifier
    served,      \* the requests it served
    answered     \* the return codes it answered

client      == <<connected, chunk, handling>>
network     == <<toBroker, toClient, connection, reported>>
publishing  == <<state, upId>>
receiving   == <<taken, known, owed>>
requesting  == <<request, granted>>
application == <<publishing, receiving, requesting>>
broker      == <<passed, held, progress, downId, served, answered>>
vars == <<client, network, application, broker>>

Codes == {DELIVER_AT_MOST_ONCE, DELIVER_AT_LEAST_ONCE, DELIVER_EXACTLY_ONCE, DELIVER_FAILURE}

(***************************************************************************)
(* A message to publish is new, sent, unsure (the call failed), again (of  *)
(* an earlier connection), received (ON_PUBLISH_RECV) or done; or absent,  *)
(* not of this session.                                                    *)
(***************************************************************************)
InFlight == {"sent", "unsure", "again", "received"}
Delivering == {"sent", "received"}    \* of a message to deliver

TypeOK ==
    /\ connected \in BOOLEAN /\ reported \in BOOLEAN
    /\ connection \in 1 .. MaxConnections
    /\ state \in [Up -> InFlight \cup {"absent", "new", "done"}]
    /\ upId \in [Up -> UpId \cup {0}]
    /\ taken \in [Down -> Nat] /\ passed \in [Up -> Nat]
    /\ known \subseteq DownId /\ held \subseteq UpId
    /\ \A o \in owed : o.msg \in Down /\ o.id \in DownId /\ o.qos \in 1 .. 2
    /\ request \in [Request -> {"absent", "none", "asked", "told"}]
    /\ granted \in Seq(Codes)
    /\ progress \in [Down -> {"absent", "new", "sent", "received", "done"}]
    /\ downId \in [Down -> DownId \cup {0}]
    /\ served \subseteq Request /\ answered \in Seq(Byte)

Init ==
    /\ connected = TRUE /\ chunk = <<>> /\ handling = NoPacket
    /\ toBroker = <<>> /\ toClient = <<>> /\ connection = 1 /\ reported = FALSE
    /\ \E work \in Workloads :
        /\ state = [m \in Up |-> IF m \in work THEN "new" ELSE "absent"]
        /\ progress = [d \in Down |-> IF d \in work THEN "new" ELSE "absent"]
        /\ request = [r \in Request |-> IF r \in work THEN "none" ELSE "absent"]
    /\ upId = [m \in Up |-> 0] /\ downId = [d \in Down |-> 0]
    /\ taken = [d \in Down |-> 0] /\ known = {} /\ owed = {}
    /\ granted = <<>>
    /\ passed = [m \in Up |-> 0] /\ held = {}
    /\ served = {} /\ answered = <<>>

\* `content` is a message, return codes or nothing; a body that is not `whole` is too
\* short for its type.
Packet(type, flags, id, content) ==
    [type |-> type, flags |-> flags, id |-> id, content |-> content, whole |-> TRUE]
Answer(type, id) == Packet(type, IF type = PUBREL_TYPE THEN 2 ELSE 0, id, NoPacket)

-----------------------------------------------------------------------------
(* Sending.                                                                *)

Accepted(packet) == connected /\ toBroker' = Append(toBroker, packet)

\* xio_send refuses, or takes the packet and the clock fails.
sendPacketItem(packet, result) ==
    \/ result = "ok" /\ Accepted(packet)
    \/ /\ result = "failed"
       /\ \/ (~connected \/ "send" \in Faults) /\ UNCHANGED toBroker
          \/ "clock" \in Faults /\ Accepted(packet)

\* The codec has no memory for a packet.
NotBuilt == "alloc" \in Faults /\ UNCHANGED toBroker

\* fnOnErrorCallBack and close_connection, in one step.  (What the application does in
\* the callback, between the two, is in MqttClient.)
set_error_callback == connected' = FALSE /\ reported' = TRUE

\* A packet that the client itself answers with.
SendAnswer(type, id) ==
    \/ sendPacketItem(Answer(type, id), "ok") /\ UNCHANGED <<connected, reported>>
    \/ sendPacketItem(Answer(type, id), "failed") /\ set_error_callback
    \/ NotBuilt /\ set_error_callback

SendMessageAck(id, qos) ==
    CASE qos = DELIVER_EXACTLY_ONCE -> SendAnswer(PUBREC_TYPE, id)
      [] qos = DELIVER_AT_LEAST_ONCE -> SendAnswer(PUBACK_TYPE, id)
      [] OTHER -> UNCHANGED <<toBroker, connected, reported>>

-----------------------------------------------------------------------------
(* The calls of the application, from anywhere, also from its callbacks.   *)

\* mqtt_client_publish, of a message with this identifier and DUP flag.
mqtt_client_publish(m, id, duplicate) ==
    LET packet == Packet(PUBLISH_TYPE, PublishFlags(Qos[m], duplicate, FALSE), id, m) IN
    /\ \/ sendPacketItem(packet, "ok") /\ state' = [state EXCEPT ![m] = "sent"]
       \/ (sendPacketItem(packet, "failed") \/ NotBuilt) /\ state' = [state EXCEPT ![m] = "unsure"]
    /\ upId' = [upId EXCEPT ![m] = id]
    /\ UNCHANGED <<client, toClient, connection, reported, receiving, requesting, broker>>

Publish(m) ==
    /\ state[m] = "new"
    /\ \E id \in UpId \ {upId[n] : n \in {o \in Up : state[o] \in InFlight}} :
            mqtt_client_publish(m, id, FALSE)

\* What is not known to have arrived goes out again, with DUP, on the next connection.
PublishAgain(m) ==
    /\ state[m] = "again" \/ (state[m] = "unsure" /\ "retry" \in AppMay)
    /\ mqtt_client_publish(m, upId[m], TRUE)

\* mqtt_client_subscribe and mqtt_client_unsubscribe.
AskFor(r) ==
    /\ request[r] = "none"
    /\ request' = [request EXCEPT ![r] = "asked"]
    /\ \/ \E result \in {"ok", "failed"} :
            sendPacketItem(Packet(r, 2, RequestId[r], NoPacket), result)
       \/ NotBuilt
    /\ UNCHANGED <<client, toClient, connection, reported, publishing, receiving, granted, broker>>

\* The application takes a message; of QoS 2, only if it did not take it before.
Take(d, id) ==
    /\ taken' = IF Qos[d] = 2 /\ id \in known THEN taken ELSE [taken EXCEPT ![d] = @ + 1]
    /\ known' = IF Qos[d] = 2 THEN known \cup {id} ELSE known

\* mqtt_client_send_message_response, which succeeds whatever became of the packet.
mqtt_client_send_message_response(o) ==
    /\ o \in owed
    /\ owed' = owed \ {o}
    /\ Take(o.msg, o.id)
    /\ SendMessageAck(o.id, o.qos)
    /\ UNCHANGED <<chunk, handling, toClient, connection, publishing, requesting, broker>>

-----------------------------------------------------------------------------
(* The handlers.                                                           *)

\* onBytesReceived is given some whole packets of an open connection, and goes through
\* them also when one of them makes it close the connection.
BytesReceived ==
    /\ connected /\ chunk = <<>> /\ handling = NoPacket
    /\ \E n \in 1 .. Len(toClient) :
            /\ chunk' = SubSeq(toClient, 1, n)
            /\ toClient' = SubSeq(toClient, n + 1, Len(toClient))
    /\ UNCHANGED <<connected, handling, toBroker, connection, reported, application, broker>>

Incoming(type) ==
    /\ handling = NoPacket /\ chunk # <<>> /\ Head(chunk).type = type /\ Head(chunk).whole
    /\ chunk' = Tail(chunk)
    /\ UNCHANGED <<toBroker, toClient, connection, broker>>

\* A PUBLISH without topic or packetId, a body that is not two bytes, a SUBACK of one.
RecvShort ==
    /\ handling = NoPacket /\ chunk # <<>> /\ ~Head(chunk).whole
    /\ chunk' = Tail(chunk)
    /\ set_error_callback
    /\ UNCHANGED <<handling, toBroker, toClient, connection, application, broker>>

\* ProcessPublishMessage, to fnMessageRecv; there may be no memory for the message.
RecvPublish ==
    /\ Incoming(PUBLISH_TYPE)
    /\ \/ handling' = Head(chunk) /\ UNCHANGED <<connected, reported>>
       \/ "alloc" \in Faults /\ set_error_callback /\ UNCHANGED handling
    /\ UNCHANGED application

AckNow_Always(option) == TRUE
AckNow(option) == option = "SYNC"

\* fnMessageRecv returns.  A message of QoS 0 needs no answer, and is just taken.
PublishReturn ==
    /\ handling # NoPacket /\ handling.type = PUBLISH_TYPE
    /\ LET d == handling.content
           qos == QosOfFlags(handling.flags)
       IN \E option \in IF Qos[d] = 0 THEN {"SYNC"} ELSE AckOptions :
            /\ IF option = "SYNC"
               THEN Take(d, handling.id) /\ UNCHANGED owed
               ELSE /\ owed' = owed \cup {[msg |-> d, id |-> handling.id, qos |-> qos]}
                    /\ UNCHANGED <<taken, known>>
            /\ IF AckNow(option) THEN SendMessageAck(handling.id, qos)
               ELSE UNCHANGED <<toBroker, connected, reported>>
    /\ handling' = NoPacket
    /\ UNCHANGED <<chunk, toClient, connection, publishing, requesting, broker>>

Action_Swapped(type) ==
    CASE type = PUBACK_TYPE -> "ON_PUBLISH_ACK"
      [] type = PUBREC_TYPE -> "ON_PUBLISH_REL"
      [] type = PUBREL_TYPE -> "ON_PUBLISH_RECV"
      [] type = PUBCOMP_TYPE -> "ON_PUBLISH_COMP"

Action(type) ==
    CASE type = PUBACK_TYPE -> "ON_PUBLISH_ACK"
      [] type = PUBREC_TYPE -> "ON_PUBLISH_RECV"
      [] type = PUBREL_TYPE -> "ON_PUBLISH_REL"
      [] type = PUBCOMP_TYPE -> "ON_PUBLISH_COMP"

\* What the application makes of an event: its message has arrived, or is done with.
Told(action, id) ==
    LET after == IF action = "ON_PUBLISH_RECV" THEN "received" ELSE "done" IN
    IF action = "ON_PUBLISH_REL"
    THEN known' = known \ {id} /\ UNCHANGED <<state, upId>>
    ELSE /\ state' = [m \in Up |-> IF upId[m] = id /\ state[m] \in InFlight
                                  THEN after ELSE state[m]]
         /\ UNCHANGED <<upId, known>>

RecvPublishReply ==
    \E type \in {PUBACK_TYPE, PUBREC_TYPE, PUBREL_TYPE, PUBCOMP_TYPE} :
        /\ Incoming(type)
        /\ handling' = Head(chunk)
        /\ Told(Action(type), Head(chunk).id)
        /\ UNCHANGED <<connected, reported, taken, owed, requesting>>

ReplyTo_Always(type) == IF type = PUBREL_TYPE THEN PUBCOMP_TYPE ELSE PUBREL_TYPE
ReplyTo_OnlyRel(type) == IF type = PUBREL_TYPE THEN PUBCOMP_TYPE ELSE UNKNOWN_TYPE

\* UNKNOWN_TYPE: no packet.
ReplyTo(type) ==
    CASE type = PUBREC_TYPE -> PUBREL_TYPE
      [] type = PUBREL_TYPE -> PUBCOMP_TYPE
      [] OTHER -> UNKNOWN_TYPE

\* fnOperationCallback returns.
EventReturn ==
    /\ handling # NoPacket /\ handling.type # PUBLISH_TYPE
    /\ IF ReplyTo(handling.type) = UNKNOWN_TYPE
       THEN UNCHANGED <<toBroker, connected, reported>>
       ELSE SendAnswer(ReplyTo(handling.type), handling.id)
    /\ handling' = NoPacket
    /\ UNCHANGED <<chunk, toClient, connection, application, broker>>

ValidReturnCode(code) == code % 128 < 4

QosReturn_Raw(code) == code
QosReturn(code) == IF code <= DELIVER_EXACTLY_ONCE THEN code ELSE DELIVER_FAILURE

SubackCodes_NotLast(codes) == [i \in 1 .. (Len(codes) - 1) |-> QosReturn(codes[i])]

\* The loop of SUBACK_TYPE, which stops at the first byte that is not a return code.
SubackCodes(codes) ==
    LET valid == {n \in 0 .. Len(codes) : \A i \in 1 .. n : ValidReturnCode(codes[i])}
    IN [i \in 1 .. Cardinality(valid) - 1 |-> QosReturn(codes[i])]

\* An invalid code is an error, and what came before it is delivered all the same.  No
\* code at all is an error if malloc(0) returns NULL.
RecvSubscribeAck ==
    /\ Incoming(SUBACK_TYPE)
    /\ LET codes == Head(chunk).content IN
       \/ /\ handling' = Head(chunk)
          /\ granted' = SubackCodes(codes)
          /\ request' = [request EXCEPT ![SUBSCRIBE_TYPE] = "told"]
          /\ IF \A i \in DOMAIN codes : ValidReturnCode(codes[i])
             THEN UNCHANGED <<connected, reported>> ELSE set_error_callback
       \/ /\ "alloc" \in Faults \/ codes = <<>>
          /\ set_error_callback
          /\ UNCHANGED <<handling, requesting>>
    /\ UNCHANGED <<publishing, receiving>>

RecvUnsubscribeAck ==
    /\ Incoming(UNSUBACK_TYPE)
    /\ handling' = Head(chunk)
    /\ request' = [request EXCEPT ![UNSUBSCRIBE_TYPE] = "told"]
    /\ UNCHANGED <<connected, reported, granted, publishing, receiving>>

-----------------------------------------------------------------------------
(* The broker, as MQTT 3.1.1 has it (4.3, method B).                       *)

Received(types) ==
    /\ toBroker # <<>> /\ Head(toBroker).type \in types
    /\ toBroker' = Tail(toBroker)
    /\ UNCHANGED <<client, connection, reported, application>>

Reply(type, id) == toClient' = Append(toClient, Answer(type, id))

\* It passes a message on, one of QoS 2 unless it holds the identifier.
BrokerPublish ==
    /\ Received({PUBLISH_TYPE})
    /\ LET packet == Head(toBroker)
           exactly == Qos[packet.content] = 2
       IN /\ passed' = IF exactly /\ packet.id \in held THEN passed
                       ELSE [passed EXCEPT ![packet.content] = @ + 1]
          /\ held' = IF exactly THEN held \cup {packet.id} ELSE held
          /\ Reply(IF exactly THEN PUBREC_TYPE ELSE PUBACK_TYPE, packet.id)
    /\ UNCHANGED <<progress, downId, served, answered>>

BrokerRelease ==
    /\ Received({PUBREL_TYPE})
    /\ held' = held \ {Head(toBroker).id}
    /\ Reply(PUBCOMP_TYPE, Head(toBroker).id)
    /\ UNCHANGED <<passed, progress, downId, served, answered>>

\* It takes an acknowledgement for the message that has the identifier, if there is one
\* and the acknowledgement is of its QoS.
BrokerAcknowledged ==
    /\ Received({PUBACK_TYPE, PUBREC_TYPE, PUBCOMP_TYPE})
    /\ LET packet == Head(toBroker)
           of == {d \in Down : /\ downId[d] = packet.id /\ progress[d] \in Delivering
                               /\ Qos[d] = IF packet.type = PUBACK_TYPE THEN 1 ELSE 2}
           after == IF packet.type = PUBREC_TYPE THEN "received" ELSE "done"
       IN /\ progress' = [d \in Down |-> IF d \in of THEN after ELSE progress[d]]
          /\ IF packet.type = PUBREC_TYPE THEN Reply(PUBREL_TYPE, packet.id)
             ELSE UNCHANGED toClient
    /\ UNCHANGED <<passed, held, downId, served, answered>>

BrokerServe ==
    /\ Received({SUBSCRIBE_TYPE, UNSUBSCRIBE_TYPE})
    /\ LET packet == Head(toBroker) IN
       /\ served' = served \cup {packet.type}
       /\ IF packet.type = SUBSCRIBE_TYPE
          THEN \E codes \in ReturnCodes :
                    /\ answered' = codes
                    /\ toClient' = Append(toClient, Packet(SUBACK_TYPE, 0, packet.id, codes))
          ELSE Reply(UNSUBACK_TYPE, packet.id) /\ UNCHANGED answered
    /\ UNCHANGED <<passed, held, progress, downId>>

Delivery(d, id, duplicate) == Packet(PUBLISH_TYPE, PublishFlags(Qos[d], duplicate, FALSE), id, d)

BrokerDeliver(d) ==
    /\ progress[d] = "new" /\ Len(toClient) < MaxChannel
    /\ \E id \in IF Qos[d] = 0 THEN {0}
                 ELSE DownId \ {downId[e] : e \in {o \in Down : progress[o] \in Delivering}} :
            /\ downId' = [downId EXCEPT ![d] = id]
            /\ toClient' = Append(toClient, Delivery(d, id, FALSE))
    /\ progress' = [progress EXCEPT ![d] = IF Qos[d] = 0 THEN "done" ELSE "sent"]
    /\ UNCHANGED <<client, toBroker, connection, reported, application,
                   passed, held, served, answered>>

-----------------------------------------------------------------------------
(* The connection.                                                         *)

Lost ==
    /\ "lost" \in Faults /\ connected
    /\ set_error_callback
    /\ UNCHANGED <<chunk, handling, toBroker, toClient, connection, application, broker>>

\* The broker sends a body that is too short for its type.
Shortened ==
    /\ "bad" \in Faults /\ Len(toClient) < MaxChannel
    /\ \A i \in DOMAIN toClient : toClient[i].whole
    /\ toClient' = Append(toClient, [Packet(SUBACK_TYPE, 0, 0, NoPacket) EXCEPT !.whole = FALSE])
    /\ UNCHANGED <<client, toBroker, connection, reported, application, broker>>

\* What the broker sends again of its session.
Resent ==
    LET again == SetToSeq({d \in Down : progress[d] \in Delivering}) IN
    [i \in DOMAIN again |->
        IF progress[again[i]] = "sent" THEN Delivery(again[i], downId[again[i]], TRUE)
        ELSE Answer(PUBREL_TYPE, downId[again[i]])]

(***************************************************************************)
(* mqtt_client_connect, to an accepting CONNACK with isSessionPresent.     *)
(* What was on the way is lost.  The application answers for no message of *)
(* an earlier connection, publishes again what has not arrived for all it  *)
(* knows, and asks again.  (There is no call to send a PUBREL again: a     *)
(* message whose PUBREC came stays "received".)                            *)
(***************************************************************************)
Reconnect ==
    /\ ~connected /\ chunk = <<>> /\ handling = NoPacket
    /\ connection < MaxConnections
    /\ connected' = TRUE /\ connection' = connection + 1 /\ reported' = FALSE
    /\ toBroker' = <<>> /\ toClient' = Resent
    /\ state' = [m \in Up |-> IF state[m] \in {"sent", "unsure"} THEN "again" ELSE state[m]]
    /\ owed' = {}
    /\ request' = [r \in Request |-> IF request[r] = "absent" THEN "absent" ELSE "none"]
    /\ granted' = <<>>
    /\ UNCHANGED <<chunk, handling, upId, taken, known, broker>>

-----------------------------------------------------------------------------
Calls ==
    \/ \E m \in Up : Publish(m) \/ PublishAgain(m)
    \/ \E r \in Request : AskFor(r)
    \/ \E o \in owed : mqtt_client_send_message_response(o)

Handlers ==
    \/ BytesReceived \/ RecvShort \/ RecvPublish \/ PublishReturn
    \/ RecvPublishReply \/ EventReturn \/ RecvSubscribeAck \/ RecvUnsubscribeAck

Broker == BrokerPublish \/ BrokerRelease \/ BrokerAcknowledged \/ BrokerServe

Next ==
    \/ Calls \/ Handlers \/ Broker
    \/ \E d \in Down : BrokerDeliver(d)
    \/ Lost \/ Shortened \/ Reconnect

Spec == Init /\ [][Next]_vars

(***************************************************************************)
(* mqtt_client_dowork is polled, the callbacks return, the application     *)
(* answers what it took to answer, and the broker reads.  Nobody has to    *)
(* publish, deliver or connect.                                            *)
(***************************************************************************)
Fairness ==
    /\ WF_vars(Handlers)
    /\ WF_vars(Broker)
    /\ WF_vars(\E o \in owed : mqtt_client_send_message_response(o))

FairSpec == Spec /\ Fairness

-----------------------------------------------------------------------------
(***************************************************************************)
(* A message is acknowledged to the application only after the broker has  *)
(* it, and a request only after the broker served it: identifiers that     *)
(* are used again never make an answer to one the answer to another.       *)
(* (SRS_MQTT_CLIENT_07_029 to 07_031.)                                     *)
(***************************************************************************)
AckMeansDelivered ==
    /\ \A m \in Up : state[m] \in {"received", "done"} => passed[m] > 0
    /\ \A r \in Request : request[r] = "told" => r \in served

(***************************************************************************)
(* The broker gives up a message only after the application took it: the   *)
(* PUBACK or PUBREC waits for MQTT_CLIENT_ACK_SYNC or for                  *)
(* mqtt_client_send_message_response, and is for that message.             *)
(***************************************************************************)
ReleasedWhenTaken ==
    \A d \in Down : Qos[d] > 0 /\ progress[d] \in {"received", "done"} => taken[d] > 0

(***************************************************************************)
(* DELIVER_EXACTLY_ONCE: over lost connections, messages sent again and    *)
(* packets handled after their connection was closed, the broker passes a  *)
(* message on once and the application takes one once.                     *)
(***************************************************************************)
ExactlyOnce ==
    /\ \A m \in Up : Qos[m] = 2 => passed[m] <= 1
    /\ \A d \in Down : Qos[d] = 2 => taken[d] <= 1

(***************************************************************************)
(* Both flows implement Delivery, step by step: the sender is the          *)
(* application for a message in Up and the broker for one in Down, and     *)
(* lost connections, messages sent again and the client's automatic        *)
(* answers are steps of it or change nothing in it.  (The broker is done   *)
(* with a message of QoS 0 when it is sent.)                               *)
(***************************************************************************)
Stage(m) ==
    LET at == IF m \in Up THEN state[m] ELSE progress[m] IN
    CASE at \in {"absent", "new"} -> "new"
      [] at \in {"received", "done"} /\ Qos[m] > 0 -> "settled"
      [] OTHER -> "open"

QosDelivery == INSTANCE Delivery WITH
    Message <- Up \cup Down,
    status <- [m \in Up \cup Down |-> Stage(m)],
    handed <- [m \in Up \cup Down |-> IF m \in Up THEN passed[m] ELSE taken[m]]

\* The QoS that mqtt_client_publish and fnMessageRecv speak of is what comes about.
DeliverySpec == QosDelivery!Spec

(***************************************************************************)
(* The qosReturn of a SUBSCRIBE_ACK is what the broker answered, filter by *)
(* filter; it is cut short only if an error was reported.                  *)
(***************************************************************************)
SubackWhole ==
    SUBSCRIBE_TYPE \in Request /\ request[SUBSCRIBE_TYPE] = "told" =>
        /\ reported \/ Len(granted) = Len(answered)
        /\ \A i \in DOMAIN granted :
                granted[i] = answered[i] \/ (granted[i] = DELIVER_FAILURE /\ answered[i] > 2)

(***************************************************************************)
(* Why, as an inductive invariant: under way for a packet identifier there *)
(* is one packet at a time, on the connection, in the hands of the client  *)
(* or as an answer that the application owes.  Where it is says how far    *)
(* the flow of its message got, on both sides.                             *)
(***************************************************************************)
incoming == chunk \o toClient

Kind(packet) == IF packet.whole THEN packet.type ELSE UNKNOWN_TYPE
FromSender == {PUBLISH_TYPE, PUBREL_TYPE}
FromReceiver == {PUBACK_TYPE, PUBREC_TYPE, PUBCOMP_TYPE}

Of(packets, kinds) == {packets[i] : i \in {j \in DOMAIN packets : Kind(packets[j]) \in kinds}}
InHand(kinds) == {p \in {handling} : p # NoPacket /\ Kind(p) \in kinds}

\* Packets of one flow.  (Messages of QoS 0 have no identifier.)
Same(p, q) == p.id = q.id /\ (p.id = 0 => p.content = q.content)
Apart(P, Q) == \A p \in P, q \in Q : ~Same(p, q)
Alone(packets, kinds) ==
    \A i, j \in DOMAIN packets :
        /\ Kind(packets[i]) \in kinds /\ Kind(packets[j]) \in kinds
        /\ Same(packets[i], packets[j])
        => i = j

\* A message to publish, with what its sender and its receiver know of it.
UpMessage(m) ==
    /\ state[m] \in {"absent", "new"} => passed[m] = 0
    /\ state[m] \in {"received", "done"} => passed[m] > 0
    /\ state[m] = "received" => Qos[m] = 2
    /\ Qos[m] = 2 => passed[m] <= 1
    /\ state[m] \in InFlight => upId[m] \in UpId
    /\ state[m] \in {"sent", "unsure", "again"} /\ Qos[m] = 2 => (passed[m] > 0 <=> upId[m] \in held)

UpOut(p) ==
    \E m \in Up :
        /\ upId[m] = p.id
        /\ \/ p.type = PUBLISH_TYPE /\ p.content = m /\ state[m] \in {"sent", "unsure"}
           \/ p.type = PUBREL_TYPE /\ state[m] = "received"

UpIn(p) ==
    \E m \in Up :
        /\ upId[m] = p.id
        /\ \/ /\ p.type = IF Qos[m] = 1 THEN PUBACK_TYPE ELSE PUBREC_TYPE
              /\ state[m] \in {"sent", "unsure"} /\ passed[m] > 0
           \/ p.type = PUBCOMP_TYPE /\ state[m] = "received" /\ p.id \notin held

\* A PUBREC in hand, to be answered with the PUBREL.
UpInHand(p) == \E m \in Up : upId[m] = p.id /\ state[m] = "received"

UpMessages ==
    /\ \A m \in Up : UpMessage(m)
    /\ \A m, n \in Up : {state[m], state[n]} \subseteq InFlight /\ upId[m] = upId[n] => m = n
    /\ \A id \in held : \E m \in Up : state[m] \in InFlight /\ upId[m] = id /\ Qos[m] = 2

UpPackets ==
    /\ \A p \in Of(toBroker, FromSender) : UpOut(p)
    /\ \A p \in Of(incoming, FromReceiver) : UpIn(p)
    /\ \A p \in InHand({PUBREC_TYPE}) : UpInHand(p)

UpOneAtATime ==
    /\ Alone(toBroker, FromSender) /\ Alone(incoming, FromReceiver)
    /\ Apart(Of(toBroker, FromSender), Of(incoming, FromReceiver))
    /\ Apart(Of(toBroker, FromSender), InHand({PUBREC_TYPE}))
    /\ Apart(Of(incoming, FromReceiver), InHand({PUBREC_TYPE}))

UpFlow == UpMessages /\ UpPackets /\ UpOneAtATime

\* The same for a message to deliver.
DownMessage(d) ==
    /\ progress[d] \in {"absent", "new"} => taken[d] = 0
    /\ Qos[d] > 0 /\ progress[d] \in {"received", "done"} => taken[d] > 0
    /\ progress[d] = "received" => Qos[d] = 2
    /\ Qos[d] = 2 => taken[d] <= 1
    /\ progress[d] \in Delivering => downId[d] \in DownId
    /\ progress[d] = "sent" => Qos[d] > 0
    /\ progress[d] = "sent" /\ Qos[d] = 2 => (taken[d] > 0 <=> downId[d] \in known)

DownIn(p) ==
    \E d \in Down :
        /\ downId[d] = p.id
        /\ \/ /\ p.type = PUBLISH_TYPE /\ p.content = d /\ QosOfFlags(p.flags) = Qos[d]
              /\ IF Qos[d] = 0 THEN progress[d] = "done" /\ taken[d] = 0 /\ p.id = 0
                 ELSE progress[d] = "sent"
           \/ p.type = PUBREL_TYPE /\ progress[d] = "received"

DownOut(p) ==
    \E d \in Down :
        /\ downId[d] = p.id
        /\ \/ /\ p.type = IF Qos[d] = 1 THEN PUBACK_TYPE ELSE PUBREC_TYPE
              /\ progress[d] = "sent" /\ taken[d] > 0
           \/ p.type = PUBCOMP_TYPE /\ progress[d] = "received" /\ p.id \notin known

Owing(o) == o.msg \in Down /\ downId[o.msg] = o.id /\ o.qos = Qos[o.msg] /\ progress[o.msg] = "sent"

DownMessages ==
    /\ \A d \in Down : DownMessage(d)
    /\ \A d, e \in Down : {progress[d], progress[e]} \subseteq Delivering /\ downId[d] = downId[e] => d = e
    /\ \A id \in known : \E d \in Down : progress[d] \in Delivering /\ downId[d] = id /\ Qos[d] = 2

DownPackets ==
    /\ \A p \in Of(incoming, FromSender) : DownIn(p)
    /\ \A p \in InHand(FromSender) : DownIn(p) /\ (p.type = PUBREL_TYPE => p.id \notin known)
    /\ \A p \in Of(toBroker, FromReceiver) : DownOut(p)
    /\ \A o \in owed : Owing(o)

DownOneAtATime ==
    /\ Alone(incoming, FromSender) /\ Alone(toBroker, FromReceiver)
    /\ \A o, other \in owed : o.id = other.id => o = other
    /\ Apart(Of(incoming, FromSender), Of(toBroker, FromReceiver))
    /\ Apart(Of(incoming, FromSender), InHand(FromSender))
    /\ Apart(Of(toBroker, FromReceiver), InHand(FromSender))
    /\ Apart(owed, Of(incoming, FromSender) \cup Of(toBroker, FromReceiver) \cup InHand(FromSender))

DownFlow == DownMessages /\ DownPackets /\ DownOneAtATime

\* A request is asked for once on a connection, and told with the broker's answer.
RequestFlow ==
    /\ \A r \in Request : request[r] = "told" => r \in served
    /\ \A p \in Of(toBroker, {SUBSCRIBE_TYPE, UNSUBSCRIBE_TYPE}) :
            p.type \in Request /\ p.id = RequestId[p.type]
    /\ Of(incoming, {UNSUBACK_TYPE}) # {} => UNSUBSCRIBE_TYPE \in served
    /\ \A p \in Of(incoming, {SUBACK_TYPE}) :
            /\ SUBSCRIBE_TYPE \in served /\ p.id = RequestId[SUBSCRIBE_TYPE]
            /\ p.content = answered
    /\ Alone(toBroker, {SUBSCRIBE_TYPE}) /\ Alone(incoming, {SUBACK_TYPE})
    /\ Apart(Of(toBroker, {SUBSCRIBE_TYPE}), Of(incoming, {SUBACK_TYPE}))
    /\ SUBSCRIBE_TYPE \in Request =>
        /\ request[SUBSCRIBE_TYPE] # "asked" =>
                Of(toBroker, {SUBSCRIBE_TYPE}) = {} /\ Of(incoming, {SUBACK_TYPE}) = {}
        /\ request[SUBSCRIBE_TYPE] = "told" =>
                /\ granted = SubackCodes(answered)
                /\ reported \/ \A i \in DOMAIN answered : ValidReturnCode(answered[i])

Flows == UpFlow /\ DownFlow /\ RequestFlow

\* A published message is done with, unless the connection ends.
PublishCompletes ==
    \A m \in Up : state[m] = "sent" /\ connected ~> state[m] = "done" \/ ~connected

(***************************************************************************)
(* So is a message that the broker sent: the client answers with what its  *)
(* QoS asks for, also for one with the DUP flag.                           *)
(***************************************************************************)
DeliveryCompletes ==
    \A d \in Down :
        progress[d] \in Delivering /\ connected ~> progress[d] = "done" \/ ~connected
=============================================================================
