------------------------------ MODULE MqttWire ------------------------------
(***************************************************************************)
(* The encoders, the decoder and the readers together: what one party      *)
(* encodes (MqttPackets) comes out of the other's decoder (MqttCodec) as   *)
(* what was meant.  The client's own packets are read by a broker, here as *)
(* the MQTT 3.1.1 standard says; what both parties send is read by         *)
(* mqtt_client.c.                                                          *)
(***************************************************************************)
EXTENDS MqttCodec, MqttPackets

CONSTANT Requests    \* what is to be encoded

\* Which of the encoders a call of the client reaches.
Encode(request) ==
    CASE request.call = "connect" -> mqtt_codec_connect(request.options)
      [] request.call = "publish" -> mqtt_codec_publish(request.message)
      [] request.call = "reply" -> constructPublishReply(request.type, request.packetId)
      [] request.call = "subscribe" -> mqtt_codec_subscribe(request.packetId, request.list)
      [] request.call = "unsubscribe" -> mqtt_codec_unsubscribe(request.packetId, request.list)
      [] request.call = "ping" -> mqtt_codec_ping
      [] request.call = "disconnect" -> mqtt_codec_disconnect

UShort == {n \in Nat : n <= 65535}

(***************************************************************************)
(* The calls that mean something to a broker: a string is not given, or    *)
(* not empty (an empty one leaves its place in a CONNECT unwritten), and a *)
(* message that is answered has a number.  What one client publishes at    *)
(* QoS 0 has no flags: mqtt_client.c would read them as QoS 2.             *)
(***************************************************************************)
Meaningful(request) ==
    CASE request.call = "connect" ->
            LET options == request.options IN
            /\ options.clientId \in Seq(Byte)
            /\ \A string \in {options.willTopic, options.willMessage,
                              options.username, options.password} :
                  string = NULL \/ string \in Seq(Byte) \ {<<>>}
            /\ options.keepAliveInterval \in UShort
            /\ options.qualityOfServiceValue \in 0 .. 2
            /\ options.messageRetain \in BOOLEAN /\ options.useCleanSession \in BOOLEAN
      [] request.call = "publish" ->
            /\ request.message \in [qos : 0 .. 2, duplicate : BOOLEAN, retain : BOOLEAN,
                                    packetId : UShort, topicName : Seq(Byte) \ {<<>>},
                                    payload : Seq(Byte)]
            /\ IF request.message.qos = DELIVER_AT_MOST_ONCE
               THEN ~request.message.duplicate /\ ~request.message.retain
               ELSE request.message.packetId # 0
      [] request.call = "reply" ->
            /\ request.type \in {PUBACK_TYPE, PUBREC_TYPE, PUBREL_TYPE, PUBCOMP_TYPE}
            /\ request.packetId \in UShort
      [] request.call = "subscribe" ->
            /\ request.packetId \in UShort
            /\ request.list \in Seq([topic : Seq(Byte), qos : 0 .. 2])
      [] request.call = "unsubscribe" ->
            request.packetId \in UShort /\ request.list \in Seq(Seq(Byte))
      [] OTHER -> TRUE

Encoded == {Encode(request) : request \in Requests} \ {NULL}

-----------------------------------------------------------------------------
(* MQTT 3.1.1, for comparison.                                             *)

(***************************************************************************)
(* The bytes are these strings (1.5.3), each after its length and with     *)
(* `extra` bytes behind it, and nothing else.  after[n] is where the n-th  *)
(* ends.                                                                   *)
(***************************************************************************)
IsList(bytes, extra, strings) ==
    LET after[n \in 0 .. Len(strings)] ==
            IF n = 0 THEN 0
            ELSE after[n - 1] + 2 + byteutil_read_uint16(From(bytes, after[n - 1] + 1)) + extra
    IN /\ after[Len(strings)] = Len(bytes)
       /\ \A n \in 1 .. Len(strings) :
              strings[n] = SubSeq(bytes, after[n - 1] + 3, after[n])

Given(string) == IF string = NULL THEN <<>> ELSE <<string>>

\* 3.1: protocol name and level, connect flags, keep alive, and the strings in order.
IsConnect(bytes, options) ==
    LET flags == bytes[8]
        will == options.willTopic # NULL
    IN /\ SubSeq(bytes, 1, 7) = <<0, 4, 77, 81, 84, 84, 4>>
       /\ Bit(flags, 128) <=> options.username # NULL
       /\ Bit(flags, 64) <=> options.password # NULL
       /\ Bit(flags, 32) <=> will /\ options.messageRetain
       /\ (flags \div 8) % 4 = IF will THEN options.qualityOfServiceValue ELSE 0
       /\ Bit(flags, 4) <=> will
       /\ Bit(flags, 2) <=> options.useCleanSession
       /\ ~Bit(flags, 1)
       /\ byteutil_read_uint16(From(bytes, 9)) = options.keepAliveInterval
       /\ IsList(From(bytes, 11), 0,
                 Given(options.clientId)
                 \o Given(options.willTopic) \o Given(options.willMessage)
                 \o Given(options.username) \o Given(options.password))

\* 3.8: a packet identifier, and topic filters with their QoS.
IsSubscribe(bytes, packetId, list) ==
    /\ byteutil_read_uint16(bytes) = packetId
    /\ IsList(From(bytes, 3), 1, [i \in DOMAIN list |-> Append(list[i].topic, list[i].qos)])

\* 3.10: a packet identifier and topic filters.
IsUnsubscribe(bytes, packetId, list) ==
    byteutil_read_uint16(bytes) = packetId /\ IsList(From(bytes, 3), 0, list)

-----------------------------------------------------------------------------
\* The packets received that were encoded of a request.
Arrived(request) == {received[i] : i \in {j \in DOMAIN received : sent[j] = Encode(request)}}

(***************************************************************************)
(* SRS_MQTT_CODEC_07_009, 07_026, 07_030: what mqtt_codec_connect,         *)
(* _subscribe and _unsubscribe encode is a packet from which a broker      *)
(* reads the options, filters and identifier given, all and no more.       *)
(***************************************************************************)
BrokerUnderstands ==
    \A request \in Requests : \A packet \in Arrived(request) :
        CASE request.call = "connect" ->
                packet.type = CONNECT_TYPE /\ IsConnect(packet.data, request.options)
          [] request.call = "subscribe" ->
                /\ packet.type = SUBSCRIBE_TYPE
                /\ IsSubscribe(packet.data, request.packetId, request.list)
          [] request.call = "unsubscribe" ->
                /\ packet.type = UNSUBSCRIBE_TYPE
                /\ IsUnsubscribe(packet.data, request.packetId, request.list)
          [] OTHER -> TRUE

\* A message on the wire: QoS 0 has no packet identifier.
Sent(message) ==
    IF message.qos = DELIVER_AT_MOST_ONCE THEN [message EXCEPT !.packetId = 0] ELSE message

(***************************************************************************)
(* SRS_MQTT_CODEC_07_007, 07_013 to 07_020: the message and the packet     *)
(* identifiers that one client encodes (and a broker passes on) are those  *)
(* that mqtt_client.c of another reads: topic, payload, QoS and flags.     *)
(***************************************************************************)
PublishUnderstood ==
    \A request \in Requests : \A packet \in Arrived(request) :
        CASE request.call = "publish" ->
                /\ packet.type = PUBLISH_TYPE
                /\ PublishedMessage(packet.flags, packet.data) = Sent(request.message)
          [] request.call = "reply" ->
                packet.type = request.type /\ AcknowledgedId(packet.data) = request.packetId
          [] OTHER -> TRUE
=============================================================================
