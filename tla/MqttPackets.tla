----------------------------- MODULE MqttPackets -----------------------------
(***************************************************************************)
(* What is in a packet: the encoders of src/src/mqtt_codec.c, and how      *)
(* src/src/mqtt_client.c reads the bodies it is given.  A string is a      *)
(* sequence of bytes, none of them 0, or NULL.  A packet is a first byte,  *)
(* the bytes of the Remaining Length and a body; NULL is the encoder's     *)
(* failure.  Memory does not fail here: a failed allocation is one more    *)
(* way to return NULL.                                                     *)
(***************************************************************************)
EXTENDS FixedHeader

CONSTANTS
    NULL,
    USHRT_MAX,       \* the longest string
    MAX_SEND_SIZE,   \* the longest payload, 0xFFFFFF7F
    Leftover         \* a byte that BUFFER_enlarge adds and nothing writes

ASSUME PacketsAssumption ==
    /\ USHRT_MAX \in Nat /\ USHRT_MAX <= 65535
    /\ MAX_SEND_SIZE \in Nat
    /\ Leftover \in Byte
    /\ NULL \notin Seq(Byte)
    /\ NULL \notin [head : Byte, length : Seq(Byte), body : Seq(Byte)]

Length(string) == IF string = NULL THEN 0 ELSE Len(string)

-----------------------------------------------------------------------------
(* The encoders.                                                           *)

byteutil_writeInt_Swapped(value) == <<value % 256, value \div 256>>
byteutil_writeInt(value) == <<value \div 256, value % 256>>
byteutil_writeUTF(string) == byteutil_writeInt(Len(string)) \o string
Optional(string) == IF Length(string) = 0 THEN <<>> ELSE byteutil_writeUTF(string)

HasWill(options) == Length(options.willTopic) > 0 /\ Length(options.willMessage) > 0

ConnectFlags(options) ==
    (IF Length(options.username) > 0 THEN 128 ELSE 0)
    + (IF Length(options.password) > 0 THEN 64 ELSE 0)
    + (IF HasWill(options)
       THEN 4 + 8 * options.qualityOfServiceValue + (IF options.messageRetain THEN 32 ELSE 0)
       ELSE 0)
    + (IF options.useCleanSession THEN 2 ELSE 0)

constructConnectVariableHeader(options) ==
    byteutil_writeUTF(<<77, 81, 84, 84>>) \o <<4, ConnectFlags(options)>>
    \o byteutil_writeInt(options.keepAliveInterval)

ConnectStrings(options) ==
    <<options.clientId, options.willTopic, options.willMessage, options.username,
      options.password>>

\* What BUFFER_enlarge adds for the payload of a CONNECT.
Space(string) == IF string = NULL THEN 0 ELSE 2 + Len(string)
ConnectSpace(options) ==
    Space(options.clientId) + Space(options.willTopic) + Space(options.willMessage)
    + Space(options.username) + Space(options.password)

ConnectWritten_NameLast(options) ==
    byteutil_writeUTF(options.clientId)
    \o (IF HasWill(options) THEN byteutil_writeUTF(options.willTopic)
                                 \o byteutil_writeUTF(options.willMessage) ELSE <<>>)
    \o Optional(options.password) \o Optional(options.username)

\* What is then written there.
ConnectWritten(options) ==
    byteutil_writeUTF(options.clientId)
    \o (IF HasWill(options) THEN byteutil_writeUTF(options.willTopic)
                                 \o byteutil_writeUTF(options.willMessage) ELSE <<>>)
    \o Optional(options.username) \o Optional(options.password)

(***************************************************************************)
(* constructConnPayload, for options with a clientId: space that is not    *)
(* written, that of an empty string, keeps what was there.  (Without a     *)
(* clientId its two length bytes have no space.)                           *)
(***************************************************************************)
constructConnPayload(options) ==
    LET written == ConnectWritten(options) IN
    [i \in 1 .. ConnectSpace(options) |-> IF i <= Len(written) THEN written[i] ELSE Leftover]

ConnectRefused(options) ==
    \/ \E i \in 1 .. 5 : Length(ConnectStrings(options)[i]) > USHRT_MAX
    \/ Length(options.username) = 0 /\ Length(options.password) > 0
    \/ (Length(options.willMessage) > 0) # (Length(options.willTopic) > 0)

mqtt_codec_connect(options) ==
    IF ConnectRefused(options) THEN NULL
    ELSE constructFixedHeader(CONNECT_TYPE, 0,
             constructConnectVariableHeader(options) \o constructConnPayload(options))

constructPublishVariableHeader(message) ==
    byteutil_writeUTF(message.topicName)
    \o (IF message.qos = DELIVER_AT_MOST_ONCE THEN <<>>
        ELSE byteutil_writeInt(message.packetId))

mqtt_codec_publish(message) ==
    IF \/ message.topicName = NULL \/ Length(message.topicName) > USHRT_MAX
       \/ Len(message.payload) > MAX_SEND_SIZE
    THEN NULL
    ELSE constructFixedHeader(PUBLISH_TYPE,
             PublishFlags(message.qos, message.duplicate, message.retain),
             constructPublishVariableHeader(message) \o message.payload)

\* mqtt_codec_publishAck, _publishReceived, _publishRelease and _publishComplete.
constructPublishReply(type, packetId) ==
    constructFixedHeader(type, IF type = PUBREL_TYPE THEN 2 ELSE 0, byteutil_writeInt(packetId))

\* addListItemsToSubscribePacket and addListItemsToUnsubscribePacket, which enlarge the
\* packet by one item after the other.
addListItems(items) ==
    LET ctrlPacket[n \in 0 .. Len(items)] ==
            IF n = 0 THEN <<>> ELSE ctrlPacket[n - 1] \o items[n]
    IN ctrlPacket[Len(items)]

mqtt_codec_subscribe(packetId, list) ==
    IF list = <<>> \/ (\E i \in DOMAIN list : Length(list[i].topic) > USHRT_MAX) THEN NULL
    ELSE constructFixedHeader(SUBSCRIBE_TYPE, 2,
             byteutil_writeInt(packetId)
             \o addListItems([i \in DOMAIN list |-> byteutil_writeUTF(list[i].topic)
                                                    \o <<list[i].qos>>]))

mqtt_codec_unsubscribe(packetId, list) ==
    IF list = <<>> \/ (\E i \in DOMAIN list : Length(list[i]) > USHRT_MAX) THEN NULL
    ELSE constructFixedHeader(UNSUBSCRIBE_TYPE, 2,
             byteutil_writeInt(packetId)
             \o addListItems([i \in DOMAIN list |-> byteutil_writeUTF(list[i])]))

mqtt_codec_ping == constructFixedHeader(PINGREQ_TYPE, 0, <<>>)
mqtt_codec_disconnect == constructFixedHeader(DISCONNECT_TYPE, 0, <<>>)

-----------------------------------------------------------------------------
(* The readers of mqtt_client.c.                                           *)

From(bytes, at) == SubSeq(bytes, at, Len(bytes))

\* 0 if there are not two bytes.
byteutil_read_uint16(bytes) == IF Len(bytes) >= 2 THEN 256 * bytes[1] + bytes[2] ELSE 0

\* An empty string is refused.
byteutil_readUTF(bytes) ==
    LET stringLen == byteutil_read_uint16(bytes) IN
    IF stringLen > 0 /\ stringLen + 2 <= Len(bytes) THEN SubSeq(bytes, 3, stringLen + 2) ELSE NULL

PARSE_ERROR == "MQTT_CLIENT_PARSE_ERROR"

\* ProcessPublishMessage: the message that fnMessageRecv is called with.
PublishedMessage(flags, bytes) ==
    LET qos == QosOfFlags(flags)
        topicName == byteutil_readUTF(bytes)
        rest == From(bytes, Length(topicName) + 3)
        packetId == IF qos = DELIVER_AT_MOST_ONCE THEN 0 ELSE byteutil_read_uint16(rest)
    IN IF topicName = NULL \/ (qos # DELIVER_AT_MOST_ONCE /\ packetId = 0) THEN PARSE_ERROR
       ELSE [qos |-> qos, duplicate |-> Bit(flags, 8), retain |-> Bit(flags, 1),
             packetId |-> packetId, topicName |-> topicName,
             payload |-> IF qos = DELIVER_AT_MOST_ONCE THEN rest ELSE From(rest, 3)]

COMMUNICATION_ERROR == "MQTT_CLIENT_COMMUNICATION_ERROR"

\* The packetId of PUBACK, PUBREC, PUBREL, PUBCOMP and UNSUBACK.
AcknowledgedId(bytes) ==
    IF Len(bytes) # 2 THEN COMMUNICATION_ERROR ELSE byteutil_read_uint16(bytes)
=============================================================================
