------------------------------ MODULE MqttCodec ------------------------------
(***************************************************************************)
(* The decoder of src/src/mqtt_codec.c: mqtt_codec_bytesReceived puts the  *)
(* bytes of a connection together to packets, one step per byte, and the   *)
(* client calls mqtt_codec_reset when it returned an error.                *)
(*                                                                         *)
(* How the bytes are cut into calls of mqtt_codec_bytesReceived does not   *)
(* matter to the codec, whose state outlives a call, except that a failed  *)
(* byte ends the call.  The codec also outlives connections: it is created *)
(* by mqtt_client_init and not touched by mqtt_client_connect.  Nothing    *)
(* calls the codec again from inside its callback.                         *)
(***************************************************************************)
EXTENDS FixedHeader

CONSTANTS
    Packets,      \* what the peer may send
    NoBuffer,     \* the NULL BUFFER_HANDLE
    Faults,       \* which of "alloc", "empty" and "drop" can strike
    Resets,       \* TRUE: the caller is mqtt_client.c's onBytesReceived, which
                  \* resets the codec after a failure and closes the connection;
                  \* FALSE: a caller that goes on
    MaxPackets,   \* bound: packets sent on a connection
    MaxBuffers,   \* bound: buffers allocated at a time
    MaxBody       \* bound: the longest buffer

(***************************************************************************)
(* What a peer sends is a packet, or nearly one: a first byte, the bytes   *)
(* of the Remaining Length field, and the bytes after it.                  *)
(*                                                                         *)
(*   alloc   BUFFER_new or BUFFER_pre_build fails                          *)
(*   empty   mqtt_codec_bytesReceived is called with no bytes              *)
(*   drop    a connection ends in the middle of a packet                   *)
(***************************************************************************)
ASSUME ConstantsAssumption ==
    /\ Packets \subseteq [head : Byte, length : Seq(Byte), body : Seq(Byte)]
    /\ NoBuffer \notin Seq(Cell)
    /\ Faults \subseteq {"alloc", "empty", "drop"}
    /\ Resets \in BOOLEAN
    /\ MaxPackets \in Nat /\ MaxBuffers \in Nat /\ MaxBody \in Nat

VARIABLES
    \* MQTTCODEC_INSTANCE
    currPacket,
    codecState,
    headerFlags,
    bufferOffset,
    headerData,      \* the buffer's bytes; <<>> if BUFFER_pre_build failed
    storeRemainLen,  \* the bytes below remainLenIndex
    \* the world around it
    alive,           \* the codec was not destroyed
    failed,          \* why mqtt_codec_bytesReceived returned an error, or "no"
    heap,            \* buffers allocated and not deleted
    wire, read,      \* packets not read to their end; bytes read of the first
    \* history, of this connection
    sent,            \* packets the peer sent
    received         \* packets the callback was called with

codec == <<currPacket, codecState, headerFlags, bufferOffset, headerData, storeRemainLen>>
stream == <<wire, read, sent>>
vars == <<codec, alive, failed, heap, stream, received>>

\* An error for the bytes that came, or for want of memory or of bytes.
Reasons == {"no", "malformed", "fault"}

TypeOK ==
    /\ currPacket \in ControlPacketTypes
    /\ codecState \in {"FIXED_HEADER", "VAR_HEADER", "PAYLOAD"}
    /\ headerFlags \in 0 .. 15
    /\ bufferOffset \in Nat
    /\ headerData \in Seq(Cell) \cup {NoBuffer}
    /\ storeRemainLen \in Seq(Byte) /\ Len(storeRemainLen) <= 4
    /\ alive \in BOOLEAN /\ failed \in Reasons
    /\ heap \in Nat
    /\ wire \in Seq(Packets) /\ sent \in Seq(Packets) /\ read \in Nat
    /\ received \in Seq([type : ControlPacketTypes, flags : 0 .. 15,
                         data : Seq(Cell) \cup {NoBuffer}])

\* mqtt_codec_create: clear_codec_data on a new instance.
Init ==
    /\ currPacket = UNKNOWN_TYPE
    /\ codecState = "FIXED_HEADER"
    /\ headerFlags = 0
    /\ bufferOffset = 0
    /\ headerData = NoBuffer
    /\ storeRemainLen = <<>>
    /\ alive = TRUE
    /\ failed = "no"
    /\ heap = 0
    /\ wire = <<>> /\ read = 0
    /\ sent = <<>> /\ received = <<>>

-----------------------------------------------------------------------------
(* Bytes.                                                                  *)

HeaderSize(packet) == 1 + Len(packet.length)

NextByte ==
    LET packet == Head(wire) IN
    IF read = 0 THEN packet.head
    ELSE IF read < HeaderSize(packet) THEN packet.length[read]
    ELSE packet.body[read + 1 - HeaderSize(packet)]

Consume ==
    IF read + 1 < HeaderSize(Head(wire)) + Len(Head(wire).body)
    THEN read' = read + 1 /\ UNCHANGED wire
    ELSE read' = 0 /\ wire' = Tail(wire)

-----------------------------------------------------------------------------
(* mqtt_codec_bytesReceived, one byte at a time.                           *)

Fail(why) ==
    /\ currPacket' = PACKET_TYPE_ERROR
    /\ failed' = why
    /\ UNCHANGED received

Freed_Nothing(buffer) == 0

\* How many buffers BUFFER_delete(buffer) frees.
Freed(buffer) == IF buffer = NoBuffer THEN 0 ELSE 1

completePacketData_KeepsHandle(buffer) ==
    /\ received' = Append(received, [type |-> currPacket, flags |-> headerFlags, data |-> buffer])
    /\ currPacket' = UNKNOWN_TYPE
    /\ codecState' = "FIXED_HEADER"
    /\ headerFlags' = 0
    /\ headerData' = buffer
    /\ heap' = heap - Freed(buffer)
    /\ UNCHANGED failed

\* completePacketData: the callback, then the clean-up.
completePacketData(buffer) ==
    /\ received' = Append(received, [type |-> currPacket, flags |-> headerFlags, data |-> buffer])
    /\ currPacket' = UNKNOWN_TYPE
    /\ codecState' = "FIXED_HEADER"
    /\ headerFlags' = 0
    /\ headerData' = NoBuffer
    /\ heap' = heap - Freed(buffer)
    /\ UNCHANGED failed

\* processControlPacketType and the checks after it.
ReadType(byte) ==
    /\ codecState = "FIXED_HEADER" /\ currPacket = UNKNOWN_TYPE
    /\ headerFlags' = FlagsOf(byte)
    /\ \/ ValidHead(byte) /\ currPacket' = TypeOf(byte) /\ UNCHANGED <<failed, received>>
       \/ ~ValidHead(byte) /\ Fail("malformed")
    /\ UNCHANGED <<codecState, bufferOffset, headerData, storeRemainLen, heap>>

ReadingLength == codecState = "FIXED_HEADER" /\ currPacket # UNKNOWN_TYPE

LengthRefused_NoGuard(byte) ==
    /\ ReadingLength
    /\ Len(storeRemainLen) >= 3 /\ storeRemainLen' = Append(storeRemainLen, byte)
    /\ Fail("malformed")
    /\ UNCHANGED <<codecState, headerFlags, bufferOffset, headerData, heap>>

(***************************************************************************)
(* prepareheaderDataInfo: there is no room for the byte, or it is a fourth *)
(* one: whatever its value, the field must have ended before it.           *)
(***************************************************************************)
LengthRefused(byte) ==
    /\ ReadingLength
    /\ \/ Len(storeRemainLen) = 4 /\ UNCHANGED storeRemainLen
       \/ Len(storeRemainLen) = 3 /\ storeRemainLen' = Append(storeRemainLen, byte)
    /\ Fail("malformed")
    /\ UNCHANGED <<codecState, headerFlags, bufferOffset, headerData, heap>>

\* The only length of a PINGRESP is a 0 byte.
LengthContinues(byte) ==
    /\ ReadingLength
    /\ Len(storeRemainLen) < 3 /\ byte >= 128
    /\ storeRemainLen' = Append(storeRemainLen, byte)
    /\ IF currPacket = PINGRESP_TYPE THEN Fail("malformed")
       ELSE UNCHANGED <<currPacket, failed, received>>
    /\ UNCHANGED <<codecState, headerFlags, bufferOffset, headerData, heap>>

LengthEnds(byte) ==
    /\ ReadingLength
    /\ Len(storeRemainLen) < 3 /\ byte < 128
    /\ storeRemainLen' = <<>>

\* A packet of the fixed header alone: only a PINGRESP is complete now.
LengthZero(byte) ==
    /\ LengthEnds(byte)
    /\ TotalLen(Append(storeRemainLen, byte)) = 0
    /\ \/ /\ currPacket = PINGRESP_TYPE
          /\ completePacketData(headerData)
       \/ /\ currPacket # PINGRESP_TYPE
          /\ codecState' = "VAR_HEADER"
          /\ UNCHANGED <<currPacket, headerFlags, headerData, heap, failed, received>>
    /\ UNCHANGED bufferOffset

\* The buffer for the rest of the packet: BUFFER_new, BUFFER_pre_build.
NewBuffer(byte) ==
    LET total == TotalLen(Append(storeRemainLen, byte)) IN
    /\ LengthEnds(byte)
    /\ total \in 1 .. MaxBody
    /\ heap < MaxBuffers
    /\ codecState' = "VAR_HEADER"
    /\ bufferOffset' = 0
    /\ \/ /\ "alloc" \in Faults
          /\ \/ headerData' = NoBuffer /\ UNCHANGED heap
             \/ headerData' = <<>> /\ heap' = heap + 1
          /\ Fail("fault")
       \/ /\ headerData' = [i \in 1 .. total |-> Unset]
          /\ heap' = heap + 1
          /\ IF currPacket = PINGRESP_TYPE THEN Fail("malformed")
             ELSE UNCHANGED <<currPacket, failed, received>>
    /\ UNCHANGED headerFlags

Full_TooLate(buffer) == bufferOffset + 1 > Len(buffer)
Full(buffer) == bufferOffset + 1 >= Len(buffer)

ReadBody(byte) ==
    /\ codecState = "VAR_HEADER" /\ headerData \notin {NoBuffer, <<>>}
    /\ bufferOffset' = bufferOffset + 1
    /\ LET buffer == [headerData EXCEPT ![bufferOffset + 1] = byte] IN
       IF Full(buffer) THEN completePacketData(buffer)
       ELSE /\ headerData' = buffer
            /\ UNCHANGED <<currPacket, codecState, headerFlags, heap, failed, received>>
    /\ UNCHANGED storeRemainLen

\* The byte after a length of 0 is dropped.
NoBody ==
    /\ codecState = "VAR_HEADER" /\ headerData = NoBuffer
    /\ codecState' = "PAYLOAD"
    /\ UNCHANGED <<currPacket, headerFlags, bufferOffset, headerData, storeRemainLen, heap,
                   failed, received>>

\* CODEC_STATE_PAYLOAD, or a buffer without memory.
BodyRefused ==
    /\ codecState = "PAYLOAD" \/ (codecState = "VAR_HEADER" /\ headerData = <<>>)
    /\ Fail("malformed")
    /\ UNCHANGED <<codecState, headerFlags, bufferOffset, headerData, storeRemainLen, heap>>

Listening == alive /\ ~(failed # "no" /\ Resets)

ReadByte ==
    /\ Listening
    /\ wire # <<>>
    /\ Consume
    /\ \/ ReadType(NextByte)
       \/ LengthRefused(NextByte) \/ LengthContinues(NextByte)
       \/ LengthZero(NextByte) \/ NewBuffer(NextByte)
       \/ ReadBody(NextByte) \/ NoBody \/ BodyRefused
    /\ UNCHANGED <<alive, sent>>

\* mqtt_codec_bytesReceived without a byte.
NoBytes ==
    /\ "empty" \in Faults
    /\ Listening
    /\ Fail("fault")
    /\ UNCHANGED <<codecState, headerFlags, bufferOffset, headerData, storeRemainLen, alive,
                   heap, stream>>

-----------------------------------------------------------------------------
(* The rest of the codec's life.                                           *)

HangUp ==
    /\ wire' = <<>> /\ read' = 0
    /\ sent' = <<>> /\ received' = <<>>
    /\ failed' = "no"

clear_codec_data_KeepsLength ==
    /\ currPacket' = UNKNOWN_TYPE
    /\ codecState' = "FIXED_HEADER"
    /\ headerFlags' = 0 /\ bufferOffset' = 0
    /\ headerData' = NoBuffer /\ UNCHANGED storeRemainLen

clear_codec_data ==
    /\ currPacket' = UNKNOWN_TYPE
    /\ codecState' = "FIXED_HEADER"
    /\ headerFlags' = 0 /\ bufferOffset' = 0
    /\ headerData' = NoBuffer /\ storeRemainLen' = <<>>

\* onBytesReceived after an error: mqtt_codec_reset, and the connection is closed.
mqtt_codec_reset ==
    /\ alive /\ failed # "no" /\ Resets
    /\ clear_codec_data
    /\ HangUp
    /\ UNCHANGED <<alive, heap>>

\* The connection ends for another reason, and the next one begins.
Lose ==
    /\ Listening
    /\ read = 0 \/ "drop" \in Faults
    /\ HangUp
    /\ UNCHANGED <<codec, alive, heap>>

Transmit(packet) ==
    /\ Len(sent) < MaxPackets
    /\ sent' = Append(sent, packet)
    /\ wire' = Append(wire, packet)
    /\ UNCHANGED <<codec, alive, failed, heap, read, received>>

mqtt_codec_destroy ==
    /\ Listening
    /\ alive' = FALSE
    /\ headerData' = NoBuffer
    /\ heap' = heap - Freed(headerData)
    /\ UNCHANGED <<currPacket, codecState, headerFlags, bufferOffset, storeRemainLen,
                   failed, stream, received>>

Next ==
    \/ ReadByte \/ NoBytes \/ mqtt_codec_reset
    \/ Lose \/ mqtt_codec_destroy
    \/ \E packet \in Packets : Transmit(packet)

Spec == Init /\ [][Next]_vars

-----------------------------------------------------------------------------
(* What the decoder promises.                                              *)

\* The first bytes of the packets of MQTT 3.1.1.
MqttHead == {48 + flags : flags \in 0 .. 15} \cup {16, 32, 64, 80, 112, 144, 176, 192, 208, 224}
            \cup {98, 130, 162}

LengthField(digits) ==
    /\ digits # <<>>
    /\ \A i \in DOMAIN digits : digits[i] >= 128 <=> i < Len(digits)

\* A Remaining Length of MQTT: seven bits per byte, the lowest first.
RemainingLength(digits) ==
    Digit(digits, 1) + 128 * Digit(digits, 2) + 16384 * Digit(digits, 3)
    + 2097152 * Digit(digits, 4)

\* The packets of MQTT, whose Remaining Length has one to four bytes.
Wellformed(packet) ==
    /\ packet.head \in MqttHead
    /\ LengthField(packet.length) /\ Len(packet.length) <= 4
    /\ RemainingLength(packet.length) = Len(packet.body)
    /\ TypeOf(packet.head) = PINGRESP_TYPE => packet.length = <<0>>

\* Those that the code reads: prepareheaderDataInfo refuses a fourth length byte.
Readable(packet) == Wellformed(packet) /\ Len(packet.length) <= 3

\* What the callback must be called with for a packet.
Content(packet) ==
    [type |-> TypeOf(packet.head), flags |-> FlagsOf(packet.head),
     data |-> IF packet.body = <<>> THEN NoBuffer ELSE packet.body]

Garbage == [type |-> PACKET_TYPE_ERROR, flags |-> 0, data |-> NoBuffer]
Meaning(packet) == IF Wellformed(packet) THEN Content(packet) ELSE Garbage

(***************************************************************************)
(* SRS_MQTT_CODEC_07_033, 07_035: the bytes become the packets they were,  *)
(* in order; the first that are no packet are refused, and nothing else is *)
(* but for want of memory.  Every connection begins afresh, whatever ended *)
(* the ones before.                                                        *)
(***************************************************************************)
Stream == INSTANCE PacketStream WITH
    Packet <- {Meaning(packet) : packet \in Packets},
    sent <- [i \in DOMAIN sent |-> Meaning(sent[i])],
    broken <- failed

StreamSpec == Stream!Spec

(***************************************************************************)
(* SRS_MQTT_CODEC_07_034: completePacketData is called with the last byte  *)
(* of every packet, not one byte earlier or later.                         *)
(***************************************************************************)
ReceivedWhenComplete == failed # "no" \/ Len(received) = Len(sent) - Len(wire)

(***************************************************************************)
(* Why, as an inductive invariant: until something fails, the packets on   *)
(* the wire are those the callback was not called with, and the decoder's  *)
(* fields stand for what was read of the first of them.                    *)
(***************************************************************************)
BetweenPackets ==
    /\ codecState = "FIXED_HEADER" /\ currPacket = UNKNOWN_TYPE
    /\ headerData = NoBuffer /\ storeRemainLen = <<>>

InPacket(packet) ==
    /\ ValidHead(packet.head)
    /\ currPacket = TypeOf(packet.head) /\ headerFlags = FlagsOf(packet.head)

InLength(packet) ==
    /\ codecState = "FIXED_HEADER" /\ headerData = NoBuffer
    /\ Len(storeRemainLen) = read - 1 /\ read <= Len(packet.length)
    /\ currPacket = PINGRESP_TYPE => read = 1
    /\ \A i \in 1 .. read - 1 : storeRemainLen[i] = packet.length[i] /\ packet.length[i] >= 128

InBody(packet) ==
    /\ codecState = "VAR_HEADER" /\ storeRemainLen = <<>>
    /\ Readable(packet)
    /\ headerData # NoBuffer /\ Len(headerData) = Len(packet.body) /\ packet.body # <<>>
    /\ read = HeaderSize(packet) + bufferOffset
    /\ \A i \in 1 .. bufferOffset : headerData[i] = packet.body[i]

Synchronized ==
    failed = "no" =>
        /\ Len(sent) = Len(received) + Len(wire)
        /\ \A i \in 1 .. Len(wire) : wire[i] = sent[Len(received) + i]
        /\ alive => IF read = 0 THEN BetweenPackets
                    ELSE InPacket(Head(wire)) /\ (InLength(Head(wire)) \/ InBody(Head(wire)))

(***************************************************************************)
(* What a peer may send for all of this to be true.  Not in it, because    *)
(* the code does not serve them: a packet of MQTT with a length of four    *)
(* bytes, which is refused although it is well formed.  A broker sends no  *)
(* packet without a body but the PINGRESP: the decoder would swallow it,   *)
(* and the first byte of the next.  And what it sends instead of a packet  *)
(* can be told from one; a wrong length just makes other packets of the    *)
(* same bytes.                                                             *)
(***************************************************************************)
Refused(packet) ==
    \/ ~ValidHead(packet.head)
    \/ Len(packet.length) > 3 /\ \A i \in 1 .. 3 : packet.length[i] >= 128
    \/ /\ TypeOf(packet.head) = PINGRESP_TYPE
       /\ packet.length # <<>> /\ packet.length[1] # 0

Framed ==
    \A packet \in Packets :
        \/ Refused(packet) /\ ~Wellformed(packet)
        \/ /\ Readable(packet)
           /\ packet.body = <<>> => TypeOf(packet.head) = PINGRESP_TYPE

\* mqtt_codec_bytesReceived: the next byte of a body falls into its buffer.
InBounds == headerData \notin {NoBuffer, <<>>} => bufferOffset < Len(headerData)

\* Allocated buffers that the codec does not hold: nothing can free them any more.
Lost == heap - (IF headerData = NoBuffer THEN 0 ELSE 1)

(***************************************************************************)
(* SRS_MQTT_CODEC_07_004 and the clean-up of completePacketData: for every *)
(* caller, the codec frees what it holds, once, and never writes over a    *)
(* handle that it still needs, whatever failed before.  The one exception  *)
(* is mqtt_codec_reset, which the client calls after an error and which    *)
(* forgets the buffer of a packet that had begun.                          *)
(***************************************************************************)
OnlyResetLoses == [][Lost' # Lost => mqtt_codec_reset /\ Lost' = Lost + 1]_vars
=============================================================================
