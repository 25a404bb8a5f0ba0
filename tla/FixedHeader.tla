----------------------------- MODULE FixedHeader -----------------------------
(***************************************************************************)
(* The fixed header of an MQTT packet as src/src/mqtt_codec.c writes and   *)
(* reads it: the first byte (type and flags) and the Remaining Length.     *)
(* Nothing here has a state.                                               *)
(***************************************************************************)
EXTENDS Naturals, Sequences

Byte == 0 .. 255
Unset == 256     \* a byte that an allocation leaves uninitialized
Cell == Byte \cup {Unset}

CONNECT_TYPE == 16
CONNACK_TYPE == 32
PUBLISH_TYPE == 48
PUBACK_TYPE == 64
PUBREC_TYPE == 80
PUBREL_TYPE == 96
PUBCOMP_TYPE == 112
SUBSCRIBE_TYPE == 128
SUBACK_TYPE == 144
UNSUBSCRIBE_TYPE == 160
UNSUBACK_TYPE == 176
PINGREQ_TYPE == 192
PINGRESP_TYPE == 208
DISCONNECT_TYPE == 224
PACKET_TYPE_ERROR == 225
UNKNOWN_TYPE == 226
ControlPacketTypes == {16 * n : n \in 0 .. 15} \cup {PACKET_TYPE_ERROR, UNKNOWN_TYPE}

TypeOf(byte) == 16 * (byte \div 16)
FlagsOf(byte) == byte % 16

\* A definition with a suffix, here and in every module, is the one after it with
\* a slip: what a run must notice (see "mutants" in PROJECT.json).
ValidHead_AnyFlags(byte) == TypeOf(byte) \notin {0, 240}

\* PUBLISH has its own flags; PUBREL, SUBSCRIBE and UNSUBSCRIBE have bit 1 set.
ValidHead(byte) ==
    /\ TypeOf(byte) \notin {0, 240}
    /\ \/ TypeOf(byte) = PUBLISH_TYPE
       \/ FlagsOf(byte) = IF TypeOf(byte) \in {PUBREL_TYPE, SUBSCRIBE_TYPE, UNSUBSCRIBE_TYPE}
                          THEN 2 ELSE 0

Digit(digits, i) == IF i <= Len(digits) THEN digits[i] % 128 ELSE 0

TotalLen_Base127(digits) ==
    Digit(digits, 1) + 127 * Digit(digits, 2) + 127 * 127 * Digit(digits, 3)

\* The loop of prepareheaderDataInfo, which gives up on a fourth digit.
TotalLen(digits) == Digit(digits, 1) + 128 * Digit(digits, 2) + 16384 * Digit(digits, 3)

Base128 == <<1, 128, 16384, 2097152, 268435456>>
Digits(n) ==
    IF n < 128 THEN 1 ELSE IF n < 16384 THEN 2 ELSE IF n < 2097152 THEN 3
    ELSE IF n < 268435456 THEN 4 ELSE 5

\* The loop of constructFixedHeader: seven bits per byte, and one more if there are
\* more to come.  A fifth byte is one more than MQTT, or remainSize, has room for.
LengthBytes(n) ==
    [i \in 1 .. Digits(n) |->
        ((n \div Base128[i]) % 128) + (IF i < Digits(n) THEN 128 ELSE 0)]

constructFixedHeader(packetType, flags, body) ==
    [head |-> packetType + flags, length |-> LengthBytes(Len(body)), body |-> body]

-----------------------------------------------------------------------------
(* The flags of a PUBLISH, written by the codec and read by the client.    *)

DELIVER_AT_MOST_ONCE == 0
DELIVER_AT_LEAST_ONCE == 1
DELIVER_EXACTLY_ONCE == 2
DELIVER_FAILURE == 128

PublishFlags(qos, duplicate, retain) ==
    (IF duplicate THEN 8 ELSE 0) + (IF retain THEN 1 ELSE 0)
    + (CASE qos = DELIVER_AT_MOST_ONCE -> 0
         [] qos = DELIVER_AT_LEAST_ONCE -> 2
         [] qos = DELIVER_EXACTLY_ONCE -> 4)

Bit(flags, mask) == (flags \div mask) % 2 = 1

QosOfFlags_Swapped(flags) ==
    IF flags = 0 THEN DELIVER_AT_MOST_ONCE
    ELSE IF Bit(flags, 4) THEN DELIVER_AT_LEAST_ONCE ELSE DELIVER_EXACTLY_ONCE

\* Any flag but that of AT_LEAST_ONCE, DUP and RETAIN included, makes EXACTLY_ONCE.
QosOfFlags(flags) ==
    IF flags = 0 THEN DELIVER_AT_MOST_ONCE
    ELSE IF Bit(flags, 2) THEN DELIVER_AT_LEAST_ONCE ELSE DELIVER_EXACTLY_ONCE
=============================================================================
