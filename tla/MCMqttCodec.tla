---------------------------- MODULE MCMqttCodec ----------------------------
(* MqttCodec and MqttWire for TLC: what the peer of each run sends.        *)
EXTENDS MqttWire

A == <<97>>
BB == <<98, 98>>
C == <<99>>

Options(will, name, word, qos, retain, clean) ==
    [clientId |-> A, willTopic |-> IF will THEN BB ELSE NULL,
     willMessage |-> IF will THEN C ELSE NULL,
     username |-> name, password |-> word, keepAliveInterval |-> 300,
     qualityOfServiceValue |-> qos, messageRetain |-> retain, useCleanSession |-> clean]

Connects ==
    {[call |-> "connect", options |-> options] : options \in
        {Options(TRUE, A, BB, 2, TRUE, FALSE), Options(FALSE, BB, NULL, 1, TRUE, TRUE),
         Options(TRUE, NULL, NULL, 1, FALSE, TRUE), Options(FALSE, NULL, NULL, 0, FALSE, FALSE),
         Options(FALSE, NULL, A, 0, FALSE, FALSE)}}

\* A name that is given, and empty.
EmptyName == {[call |-> "connect", options |-> Options(FALSE, <<>>, NULL, 0, FALSE, TRUE)]}

Message(qos, duplicate, retain, id, payload) ==
    [call |-> "publish", message |->
        [qos |-> qos, duplicate |-> duplicate, retain |-> retain, packetId |-> id,
         topicName |-> A, payload |-> payload]]

Long == [i \in 1 .. 125 |-> i]

Publishes ==
    {Message(0, FALSE, FALSE, 7, <<>>), Message(0, FALSE, FALSE, 7, BB),
     Message(1, FALSE, TRUE, 258, <<0, 5>>), Message(1, TRUE, FALSE, 1, <<>>),
     Message(2, TRUE, TRUE, 65535, C), Message(2, FALSE, FALSE, 256, Long)}

\* A message that the broker kept, sent to a new subscriber of QoS 0.
Retained == {Message(0, FALSE, TRUE, 0, <<1, 2, 3>>)}

Replies ==
    {[call |-> "reply", type |-> type, packetId |-> 513] :
        type \in {PUBACK_TYPE, PUBREC_TYPE, PUBREL_TYPE, PUBCOMP_TYPE}}

Lists ==
    {[call |-> "subscribe", packetId |-> 259, list |-> <<[topic |-> BB, qos |-> 2]>>],
     [call |-> "subscribe", packetId |-> 1, list |-> <<[topic |-> A, qos |-> 0],
                                                        [topic |-> BB, qos |-> 1]>>],
     [call |-> "subscribe", packetId |-> 1, list |-> <<>>],
     [call |-> "unsubscribe", packetId |-> 2, list |-> <<BB, A>>]}

HeadersOnly == {[call |-> "ping"], [call |-> "disconnect"]}

Understandable == Connects \cup Publishes \cup Replies \cup Lists
ASSUME AllMeaningful == \A request \in Understandable : Meaningful(request)
AllRequests == Understandable \cup HeadersOnly

-----------------------------------------------------------------------------
Bytes(head, length, size) ==
    [head |-> head, length |-> length, body |-> [i \in 1 .. size |-> (head + i) % 256]]

CONNACK == Bytes(32, <<2>>, 2)
PUBREL == Bytes(98, <<130, 0>>, 2)      \* a length in more bytes than it needs
PINGRESP == Bytes(208, <<0>>, 0)

BadType == Bytes(240, <<>>, 0)
BadFlags == Bytes(35, <<2>>, 2)
LongPing == Bytes(208, <<128, 0>>, 0)
PingWithBody == Bytes(208, <<1>>, 1)
FiveByteLength == Bytes(48, <<128, 128, 128, 128>>, 2)
Stray == Bytes(7, <<>>, 0)

\* Packets of MQTT that the code refuses: no passing run has them in Packets.
FourByteLength == {Bytes(48, <<129, 128, 128, 0>>, 1)}

Good == {CONNACK, PUBREL, PINGRESP}
Bad == {BadType, BadFlags, LongPing, PingWithBody, FiveByteLength}
GoodAndBad == Encoded \cup Good \cup Bad
Short == {PUBREL, PINGRESP, PingWithBody, FiveByteLength, mqtt_codec_ping, Stray}
OnlyCONNACK == {CONNACK}
=============================================================================
