--------------------------- MODULE MCMqttMessage ---------------------------
(* MqttMessage for TLC: two topics, payloads, packet identifiers and QoS.  *)
EXTENDS MqttMessage

CONSTANTS t1, t2, p1

Of(packetId, qos, topic, payload, retained) ==
    [packetId |-> packetId, qosInfo |-> qos, topic |-> topic, payload |-> payload,
     isDuplicateMsg |-> FALSE, isMessageRetained |-> retained]

Contents == {Of(1, 2, t1, p1, FALSE), Of(0, 0, t2, Empty, TRUE)}
=============================================================================
