-------------------------- MODULE MqttStreamProofs --------------------------
(* MqttCodec implements PacketStream, for every value of its constants but    *)
(* those that the code does not serve: Resets, a caller that resets the codec *)
(* after an error; no "drop", since nobody resets it between connections; and *)
(* Framed packets.                                                            *)
EXTENDS MqttCodecProofs

LEMMA HeadsOfMqtt == \A byte \in Byte : byte \in MqttHead => ValidHead(byte)
<1> SUFFICES ASSUME NEW byte \in Byte, byte \in MqttHead PROVE ValidHead(byte)
  OBVIOUS
<1>1. CASE \E flags \in 0 .. 15 : byte = 48 + flags
  <2>1. PICK flags \in 0 .. 15 : byte = 48 + flags
    BY <1>1
  <2>2. byte \div 16 = 3
    BY <2>1
  <2>3. QED
    BY <2>2 DEF ValidHead, TypeOf, PUBLISH_TYPE
<1>2. CASE byte \in {16, 32, 64, 80, 112, 144, 176, 192, 208, 224}
  <2>1. byte % 16 = 0
    BY <1>2
  <2>2. TypeOf(byte) = byte
    BY <1>2 DEF TypeOf
  <2>3. QED
    BY <1>2, <2>1, <2>2 DEF ValidHead, FlagsOf, PUBREL_TYPE, SUBSCRIBE_TYPE, UNSUBSCRIBE_TYPE
<1>3. CASE byte \in {98, 130, 162}
  <2>1. byte % 16 = 2
    BY <1>3
  <2>2. TypeOf(byte) = byte - 2
    BY <1>3 DEF TypeOf
  <2>3. QED
    BY <1>3, <2>1, <2>2 DEF ValidHead, FlagsOf, PUBREL_TYPE, SUBSCRIBE_TYPE, UNSUBSCRIBE_TYPE
<1>4. QED
  BY <1>1, <1>2, <1>3 DEF MqttHead

LEMMA PacketType ==
    ASSUME NEW packet \in Packets
    PROVE  /\ packet.head \in Byte
           /\ packet.length \in Seq(Byte) /\ Len(packet.length) \in Nat
           /\ packet.body \in Seq(Byte) /\ Len(packet.body) \in Nat
           /\ packet.body = <<>> <=> Len(packet.body) = 0
           /\ \A i \in 1 .. Len(packet.length) : packet.length[i] \in Byte
           /\ \A i \in 1 .. Len(packet.body) : packet.body[i] \in Byte
<1>1. packet \in [head : Byte, length : Seq(Byte), body : Seq(Byte)]
  BY ConstantsAssumption
<1>2. QED
  BY <1>1, LenProperties, EmptySeq, ElementOfSeq

\* How much of a packet there is to read.
LEMMA SizeType ==
    ASSUME NEW packet \in Packets
    PROVE  /\ HeaderSize(packet) = 1 + Len(packet.length) /\ HeaderSize(packet) \in Nat
           /\ Size(packet) = HeaderSize(packet) + Len(packet.body) /\ Size(packet) \in Nat \ {0}
<1>1. packet \in [head : Byte, length : Seq(Byte), body : Seq(Byte)]
  BY ConstantsAssumption
<1>2. Len(packet.length) \in Nat /\ Len(packet.body) \in Nat
  BY <1>1, LenProperties
<1>3. QED
  BY <1>1, <1>2 DEF Size, HeaderSize

\* TotalLen, which stops at three digits, is the Remaining Length of up to three.
LEMMA ThreeDigits ==
    ASSUME NEW digits \in Seq(Byte), Len(digits) <= 3
    PROVE  RemainingLength(digits) = TotalLen(digits)
<1>1. Len(digits) \in Nat
  BY LenProperties
<1>2. Digit(digits, 4) = 0
  BY <1>1 DEF Digit
<1>3. \A i \in 1 .. 3 : Digit(digits, i) \in Nat
  <2> SUFFICES ASSUME NEW i \in 1 .. 3 PROVE Digit(digits, i) \in Nat
    OBVIOUS
  <2>1. CASE i <= Len(digits)
    <3>1. digits[i] \in Byte
      BY <1>1, <2>1, ElementOfSeq
    <3>2. \A byte \in Byte : byte % 128 \in Nat
      BY DEF Byte
    <3>3. QED
      BY <2>1, <3>1, <3>2 DEF Digit
  <2>2. CASE ~(i <= Len(digits))
    BY <2>2 DEF Digit
  <2>3. QED
    BY <2>1, <2>2
<1>4. /\ Digit(digits, 1) \in Nat /\ Digit(digits, 2) \in Nat /\ Digit(digits, 3) \in Nat
  BY <1>3
<1>5. QED
  BY <1>2, <1>4 DEF RemainingLength, TotalLen

LEMMA ReadableLength ==
    ASSUME NEW packet \in Packets, Readable(packet)
    PROVE  TotalLen(packet.length) = Len(packet.body)
BY PacketType, ThreeDigits DEF Readable, Wellformed

-----------------------------------------------------------------------------
(* A byte of a packet is read while nothing has failed.                    *)

Reading(packet) ==
    /\ Framed /\ Inv /\ Synchronized
    /\ failed = "no" /\ alive
    /\ wire # <<>> /\ packet \in Packets /\ packet = Head(wire)

\* What it may come to: the packet is refused, memory is missing, there is more of it
\* to read, or it is received.
Outcome(packet) ==
    \/ failed' = "malformed" /\ UNCHANGED received /\ ~Wellformed(packet)
    \/ failed' = "fault" /\ UNCHANGED received
    \/ /\ UNCHANGED <<failed, received, wire>> /\ read' = read + 1
       /\ InPacket(packet)' /\ (InLength(packet)' \/ InBody(packet)')
    \/ /\ UNCHANGED failed /\ Wellformed(packet)
       /\ received' = Append(received, Content(packet))
       /\ read' = 0 /\ wire' = Tail(wire) /\ BetweenPackets'

\* Where the decoder is.
LEMMA ReadSoFar ==
    ASSUME NEW packet, Reading(packet)
    PROVE  /\ read \in Nat /\ read < Size(packet)
           /\ read = 0 => BetweenPackets
           /\ read # 0 => InPacket(packet) /\ (InLength(packet) \/ InBody(packet))
<1>1. packet \in Packets /\ packet = Head(wire) /\ wire # <<>>
  BY DEF Reading
<1>2. Size(packet) \in Nat \ {0}
  BY <1>1, SizeType
<1>3. read \in Nat /\ read < Size(packet)
  BY <1>1, <1>2 DEF Reading, Inv, World, Position
<1>4. QED
  BY <1>1, <1>3 DEF Reading, Synchronized

LEMMA FramedPacket ==
    ASSUME NEW packet, Reading(packet)
    PROVE  \/ Refused(packet) /\ ~Wellformed(packet)
           \/ Readable(packet) /\ (packet.body = <<>> => TypeOf(packet.head) = PINGRESP_TYPE)
BY DEF Reading, Framed

LEMMA TypeByte ==
    ASSUME NEW packet, Reading(packet), Consume, ReadType(NextByte)
    PROVE  Outcome(packet)
<1>1. packet \in Packets /\ packet = Head(wire) /\ failed = "no"
  BY DEF Reading
<1>2. read = 0 /\ BetweenPackets
  <2>1. read # 0 => codecState # "FIXED_HEADER" \/ currPacket # UNKNOWN_TYPE
    <3>1. ASSUME InPacket(packet) PROVE currPacket # UNKNOWN_TYPE
      <4>1. packet.head \in Byte
        BY <1>1, PacketType
      <4>2. packet.head \div 16 \in 0 .. 15
        BY <4>1 DEF Byte
      <4>3. QED
        BY <3>1, <4>2 DEF InPacket, TypeOf, UNKNOWN_TYPE
    <3>2. QED
      BY <3>1, ReadSoFar
  <2>2. QED
    BY <2>1, ReadSoFar DEF ReadType
<1>3. NextByte = packet.head
  BY <1>1, <1>2 DEF NextByte
<1>4. CASE ~ValidHead(packet.head)
  <2>1. ~Wellformed(packet)
    BY <1>1, <1>4, PacketType, HeadsOfMqtt DEF Wellformed
  <2>2. QED
    BY <1>3, <1>4, <2>1 DEF ReadType, Fail, Outcome
<1>5. CASE ValidHead(packet.head)
  <2>1. Len(packet.length) > 0
    <3>1. packet.length # <<>>
      <4>1. CASE Refused(packet)
        BY <1>5, <4>1, EmptySeq DEF Refused
      <4>2. CASE Readable(packet)
        BY <4>2 DEF Readable, Wellformed, LengthField
      <4>3. QED
        BY <4>1, <4>2, FramedPacket
    <3>2. QED
      BY <1>1, <3>1, PacketType, EmptySeq
  <2>2. read' = 1 /\ UNCHANGED wire
    <3>1. 0 + 1 < Size(packet)
      BY <1>1, <2>1, PacketType, SizeType
    <3>2. QED
      BY <1>1, <1>2, <3>1 DEF Consume, Size
  <2>3. /\ currPacket' = TypeOf(packet.head) /\ headerFlags' = FlagsOf(packet.head)
        /\ UNCHANGED <<failed, received, codecState, headerData, storeRemainLen>>
    BY <1>3, <1>5 DEF ReadType
  <2>4. Len(storeRemainLen') = 0 /\ codecState' = "FIXED_HEADER" /\ headerData' = NoBuffer
    BY <1>2, <2>3, EmptySeq DEF BetweenPackets
  <2>5. InPacket(packet)' /\ InLength(packet)'
    BY <1>1, <1>5, <2>1, <2>2, <2>3, <2>4, PacketType DEF InPacket, InLength
  <2>6. QED
    BY <1>2, <2>2, <2>3, <2>5 DEF Outcome
<1>6. QED
  BY <1>4, <1>5

LEMMA LengthByte ==
    ASSUME NEW packet, Reading(packet), ReadingLength
    PROVE  /\ packet \in Packets /\ packet = Head(wire)
           /\ read \in 1 .. Len(packet.length) /\ NextByte = packet.length[read]
           /\ NextByte \in Byte
           /\ InPacket(packet) /\ InLength(packet)
<1>1. packet \in Packets /\ packet = Head(wire)
  BY DEF Reading
<1>2. read # 0
  BY ReadSoFar DEF ReadingLength, BetweenPackets
<1>3. InPacket(packet) /\ InLength(packet)
  BY <1>2, ReadSoFar DEF ReadingLength, InBody
<1>4. read \in 1 .. Len(packet.length)
  BY <1>1, <1>2, <1>3, ReadSoFar, PacketType DEF InLength
<1>5. NextByte = packet.length[read]
  <2>1. read < HeaderSize(packet)
    BY <1>1, <1>4, SizeType, PacketType
  <2>2. QED
    BY <1>1, <1>2, <2>1 DEF NextByte
<1>6. NextByte \in Byte
  BY <1>1, <1>4, <1>5, PacketType
<1>7. QED
  BY <1>1, <1>3, <1>4, <1>5, <1>6

LEMMA RefuseLength ==
    ASSUME NEW packet, Reading(packet), LengthRefused(NextByte)
    PROVE  Outcome(packet)
<1>1. ReadingLength
  BY DEF LengthRefused
<1>2. Len(packet.length) > 3
  <2>1. read \in 1 .. Len(packet.length) /\ Len(packet.length) \in Nat
    BY <1>1, LengthByte, PacketType
  <2>2. Len(storeRemainLen) = read - 1
    BY <1>1, LengthByte DEF InLength
  <2>3. QED
    BY <2>1, <2>2 DEF LengthRefused
<1>3. ~Wellformed(packet)
  BY <1>1, <1>2, LengthByte, FramedPacket, PacketType DEF Readable
<1>4. QED
  BY <1>3 DEF LengthRefused, Fail, Outcome

LEMMA ContinueLength ==
    ASSUME NEW packet, Reading(packet), Consume, LengthContinues(NextByte)
    PROVE  Outcome(packet)
<1>1. /\ packet \in Packets /\ packet = Head(wire)
      /\ read \in 1 .. Len(packet.length) /\ NextByte = packet.length[read]
      /\ InPacket(packet) /\ InLength(packet)
  BY LengthByte DEF LengthContinues
<1>2. packet.length[read] >= 128 /\ read < 4 /\ Len(storeRemainLen) = read - 1
  BY <1>1 DEF LengthContinues, InLength
<1>3. CASE currPacket = PINGRESP_TYPE
  <2>1. packet.length[1] # 0 /\ TypeOf(packet.head) = PINGRESP_TYPE
    BY <1>1, <1>2, <1>3 DEF InPacket, InLength
  <2>2. ~Wellformed(packet)
    BY <2>1 DEF Wellformed
  <2>3. QED
    BY <1>3, <2>2 DEF LengthContinues, Fail, Outcome
<1>4. CASE currPacket # PINGRESP_TYPE
  <2>1. read < Len(packet.length)
    <3>1. CASE Refused(packet)
      BY <1>1, <1>2, <1>4, <3>1, PacketType DEF Refused, InPacket
    <3>2. CASE Readable(packet)
      BY <1>1, <1>2, <3>2, LenProperties, PacketType DEF Readable, Wellformed, LengthField
    <3>3. QED
      BY <3>1, <3>2, FramedPacket
  <2>2. read + 1 \in Nat /\ read + 1 < Size(packet)
    BY <1>1, <2>1, SizeType, PacketType
  <2>3. read' = read + 1 /\ UNCHANGED wire
    BY <1>1, <2>2 DEF Consume, Size
  <2>4. /\ storeRemainLen' = Append(storeRemainLen, NextByte)
        /\ UNCHANGED <<currPacket, failed, received, codecState, headerFlags, headerData>>
    BY <1>4 DEF LengthContinues
  <2>5. storeRemainLen \in Seq(Byte) /\ NextByte \in Byte
    BY LengthByte DEF LengthContinues, Reading, Inv, Decoder
  <2>6. /\ Len(storeRemainLen') = read
        /\ \A i \in 1 .. read :
                storeRemainLen'[i] = IF i = read THEN NextByte ELSE storeRemainLen[i]
    BY <1>1, <1>2, <2>4, <2>5, AppendProperties
  <2>7. InPacket(packet)'
    BY <1>1, <2>4 DEF InPacket
  <2>8. InLength(packet)'
    <3>1. Len(storeRemainLen') = read' - 1 /\ read' <= Len(packet.length)
      BY <1>1, <2>1, <2>3, <2>6, PacketType
    <3>2. ASSUME NEW i \in 1 .. read
          PROVE  storeRemainLen'[i] = packet.length[i] /\ packet.length[i] >= 128
      <4>1. CASE i = read
        BY <1>1, <1>2, <2>6, <4>1
      <4>2. CASE i # read
        BY <1>1, <2>6, <4>2 DEF InLength
      <4>3. QED
        BY <4>1, <4>2
    <3>3. read' - 1 = read
      BY <1>1, <2>3
    <3>4. /\ currPacket' # PINGRESP_TYPE
          /\ codecState' = "FIXED_HEADER" /\ headerData' = NoBuffer
      BY <1>1, <1>4, <2>4 DEF InLength
    <3>5. QED
      BY <3>1, <3>2, <3>3, <3>4 DEF InLength
  <2>9. QED
    BY <2>3, <2>4, <2>7, <2>8 DEF Outcome
<1>5. QED
  BY <1>3, <1>4

\* The last byte of a length: of a packet that is read, or of a PINGRESP that has a body.
LEMMA EndOfLength ==
    ASSUME NEW packet, Reading(packet), LengthEnds(NextByte)
    PROVE  \/ /\ ~Wellformed(packet) /\ currPacket = PINGRESP_TYPE
              /\ TotalLen(Append(storeRemainLen, NextByte)) > 0
           \/ /\ Readable(packet) /\ read = Len(packet.length)
              /\ TotalLen(Append(storeRemainLen, NextByte)) = Len(packet.body)
              /\ packet.body = <<>> <=> currPacket = PINGRESP_TYPE
<1> DEFINE digits == Append(storeRemainLen, NextByte)
<1>1. /\ packet \in Packets /\ packet = Head(wire)
      /\ read \in 1 .. Len(packet.length) /\ NextByte = packet.length[read]
      /\ InPacket(packet) /\ InLength(packet) /\ NextByte \in Byte
  BY LengthByte DEF LengthEnds
<1>2. NextByte \in 0 .. 127 /\ Len(storeRemainLen) < 3
  <2>1. NextByte < 128 /\ Len(storeRemainLen) < 3
    BY DEF LengthEnds
  <2>2. \A byte \in Byte : byte < 128 => byte \in 0 .. 127
    BY DEF Byte
  <2>3. QED
    BY <1>1, <2>1, <2>2
<1>3. storeRemainLen \in Seq(Byte) /\ Len(storeRemainLen) = read - 1
  BY <1>1 DEF Reading, Inv, Decoder, InLength
<1>4. /\ digits \in Seq(Byte) /\ Len(digits) = read
      /\ \A i \in 1 .. read : digits[i] = IF i = read THEN NextByte ELSE storeRemainLen[i]
  BY <1>1, <1>3, AppendProperties
<1> HIDE DEF digits
<1>5. CASE Refused(packet) /\ ~Wellformed(packet)
  <2>1. ~(Len(packet.length) > 3 /\ \A i \in 1 .. 3 : packet.length[i] >= 128)
    <3>1. read \in 1 .. 3 /\ ~(packet.length[read] >= 128)
      <4>1. read \in 1 .. 3 /\ packet.length[read] \in 0 .. 127
        BY <1>1, <1>2, <1>3
      <4>2. QED
        BY <4>1
    <3>2. QED
      BY <3>1
  <2>2. TypeOf(packet.head) = PINGRESP_TYPE /\ packet.length[1] # 0
    BY <1>1, <1>5, <2>1 DEF Refused, InPacket
  <2>3. currPacket = PINGRESP_TYPE /\ read = 1
    BY <1>1, <2>2 DEF InPacket, InLength
  <2>4. Len(digits) = 1 /\ digits[1] \in 1 .. 127
    <3>1. digits[1] = NextByte /\ NextByte # 0
      BY <1>1, <1>4, <2>2, <2>3
    <3>2. QED
      BY <1>2, <1>4, <2>3, <3>1
  <2>5. Digit(digits, 1) \in 1 .. 127 /\ Digit(digits, 2) = 0 /\ Digit(digits, 3) = 0
    BY <2>4 DEF Digit
  <2>6. TotalLen(digits) > 0
    BY <2>5 DEF TotalLen
  <2>7. QED
    BY <1>1, <1>5, <2>3, <2>6 DEF digits
<1>6. CASE /\ Readable(packet)
           /\ packet.body = <<>> => TypeOf(packet.head) = PINGRESP_TYPE
  <2>1. read = Len(packet.length)
    <3>1. Len(packet.length) \in Nat /\ DOMAIN packet.length = 1 .. Len(packet.length)
      BY <1>1, PacketType, LenProperties
    <3>2. packet.length[read] >= 128 <=> read < Len(packet.length)
      BY <1>1, <1>6, <3>1 DEF Readable, Wellformed, LengthField
    <3>3. ~(packet.length[read] >= 128)
      <4>1. NextByte = packet.length[read]
        BY <1>1
      <4>2. ~(NextByte >= 128)
        BY <1>2
      <4>3. QED
        BY <4>1, <4>2
    <3>4. ~(read < Len(packet.length))
      BY <3>2, <3>3
    <3>5. QED
      BY <1>1, <3>1, <3>4
  <2>2. digits = packet.length
    <3>1. \A i \in 1 .. Len(digits) : digits[i] = packet.length[i]
      BY <1>1, <1>4, <2>1 DEF InLength
    <3>2. QED
      BY <1>1, <1>4, <2>1, <3>1, PacketType, SeqEqual
  <2>3. TotalLen(digits) = Len(packet.body)
    BY <1>1, <1>6, <2>2, ReadableLength
  <2>4. packet.body = <<>> => currPacket = PINGRESP_TYPE
    BY <1>1, <1>6 DEF InPacket
  <2>5. currPacket = PINGRESP_TYPE => packet.body = <<>>
    <3> SUFFICES ASSUME currPacket = PINGRESP_TYPE PROVE packet.body = <<>>
      OBVIOUS
    <3>1. packet.length = <<0>>
      BY <1>1, <1>6 DEF Readable, Wellformed, InPacket
    <3>2. Digit(packet.length, 1) = 0 /\ Digit(packet.length, 2) = 0 /\ Digit(packet.length, 3) = 0
      BY <3>1 DEF Digit
    <3>3. TotalLen(packet.length) = 0
      BY <3>2 DEF TotalLen
    <3>4. QED
      BY <1>1, <1>6, <3>3, ReadableLength, PacketType
  <2>6. QED
    BY <1>6, <2>1, <2>3, <2>4, <2>5 DEF digits
<1>7. QED
  BY <1>5, <1>6, FramedPacket

\* The callback is called with what the packet means.
LEMMA Completed ==
    ASSUME NEW packet, Reading(packet), Consume,
           Readable(packet), InPacket(packet), read + 1 = Size(packet),
           storeRemainLen' = <<>>,
           NEW buffer, buffer = IF packet.body = <<>> THEN NoBuffer ELSE packet.body,
           completePacketData(buffer)
    PROVE  Outcome(packet)
<1>1. packet \in Packets /\ packet = Head(wire)
  BY DEF Reading
<1>2. read' = 0 /\ wire' = Tail(wire)
  BY <1>1, SizeType DEF Consume, Size
<1>3. received' = Append(received, Content(packet))
  BY DEF completePacketData, Content, InPacket
<1>4. BetweenPackets' /\ UNCHANGED failed
  BY DEF completePacketData, BetweenPackets
<1>5. QED
  BY <1>2, <1>3, <1>4 DEF Outcome, Readable

LEMMA ZeroLength ==
    ASSUME NEW packet, Reading(packet), Consume, LengthZero(NextByte)
    PROVE  Outcome(packet)
<1>1. /\ packet \in Packets /\ InPacket(packet) /\ InLength(packet)
      /\ LengthEnds(NextByte) /\ ReadingLength
  BY LengthByte DEF LengthZero, LengthEnds
<1>2. /\ Readable(packet) /\ read = Len(packet.length)
      /\ Len(packet.body) = 0
      /\ packet.body = <<>> <=> currPacket = PINGRESP_TYPE
  BY <1>1, EndOfLength DEF LengthZero
<1>3. packet.body = <<>> /\ currPacket = PINGRESP_TYPE
  BY <1>1, <1>2, PacketType
<1>4. completePacketData(headerData) /\ headerData = NoBuffer /\ storeRemainLen' = <<>>
  BY <1>1, <1>3 DEF LengthZero, LengthEnds, InLength
<1>5. read + 1 = Size(packet)
  BY <1>1, <1>2, SizeType, PacketType
<1>6. QED
  BY <1>1, <1>2, <1>3, <1>4, <1>5, Completed

LEMMA BeginBody ==
    ASSUME NEW packet, Reading(packet), Consume, NewBuffer(NextByte)
    PROVE  Outcome(packet)
<1>1. /\ packet \in Packets /\ packet = Head(wire) /\ InPacket(packet) /\ InLength(packet)
      /\ LengthEnds(NextByte)
  BY LengthByte DEF NewBuffer, LengthEnds
<1>2. CASE Fail("fault")
  BY <1>2 DEF Fail, Outcome
<1>3. CASE ~Fail("fault") /\ currPacket = PINGRESP_TYPE
  <2>1. ~Wellformed(packet)
    <3>1. TotalLen(Append(storeRemainLen, NextByte)) # 0
      BY ConstantsAssumption DEF NewBuffer
    <3>2. QED
      BY <1>1, <1>3, <3>1, EndOfLength, PacketType
  <2>2. QED
    BY <1>3, <2>1 DEF NewBuffer, Fail, Outcome
<1>4. CASE ~Fail("fault") /\ currPacket # PINGRESP_TYPE
  <2>1. /\ Readable(packet) /\ read = Len(packet.length) /\ packet.body # <<>>
        /\ TotalLen(Append(storeRemainLen, NextByte)) = Len(packet.body)
    BY <1>1, <1>4, EndOfLength
  <2>2. Len(packet.body) \in Nat \ {0}
    BY <1>1, <2>1, PacketType
  <2>3. /\ headerData' = [i \in 1 .. Len(packet.body) |-> Unset]
        /\ codecState' = "VAR_HEADER" /\ bufferOffset' = 0 /\ storeRemainLen' = <<>>
        /\ UNCHANGED <<currPacket, failed, received, headerFlags>>
    BY <1>4, <2>1 DEF NewBuffer, LengthEnds
  <2>4. headerData' # NoBuffer /\ Len(headerData') = Len(packet.body)
    BY <2>2, <2>3, Fresh
  <2>5. read + 1 = HeaderSize(packet) /\ read + 1 < Size(packet)
    BY <1>1, <2>1, <2>2, SizeType, PacketType
  <2>6. read' = HeaderSize(packet) + bufferOffset' /\ read' = read + 1 /\ UNCHANGED wire
    BY <1>1, <2>3, <2>5, SizeType DEF Consume, Size
  <2>7. InPacket(packet)'
    BY <1>1, <2>3 DEF InPacket
  <2>8. InBody(packet)'
    BY <2>1, <2>3, <2>4, <2>6 DEF InBody
  <2>9. QED
    BY <2>3, <2>6, <2>7, <2>8 DEF Outcome
<1>5. QED
  BY <1>2, <1>3, <1>4
LEMMA BodyByte ==
    ASSUME NEW packet, Reading(packet), Consume, ReadBody(NextByte)
    PROVE  Outcome(packet)
<1> DEFINE buffer == [headerData EXCEPT ![bufferOffset + 1] = NextByte]
<1>1. packet \in Packets /\ packet = Head(wire) /\ failed = "no"
  BY DEF Reading
<1>2. InPacket(packet) /\ InBody(packet) /\ read # 0
  BY ReadSoFar DEF ReadBody, BetweenPackets, InLength
<1>3. /\ Readable(packet) /\ packet.body # <<>>
      /\ Len(headerData) = Len(packet.body) /\ read = HeaderSize(packet) + bufferOffset
      /\ storeRemainLen' = <<>>
  BY <1>2 DEF InBody, ReadBody
<1>4. headerData \in Seq(Cell) /\ bufferOffset \in Nat /\ bufferOffset + 1 \in 1 .. Len(headerData)
  <2>1. headerData \in Seq(Cell) /\ headerData # <<>> /\ bufferOffset \in Nat
        /\ bufferOffset < Len(headerData)
    BY DEF ReadBody, Reading, Inv, Decoder, InBounds
  <2>2. QED
    BY <2>1, LenProperties
<1>5. NextByte = packet.body[bufferOffset + 1] /\ NextByte \in Byte
  <2>1. read + 1 - HeaderSize(packet) = bufferOffset + 1 /\ ~(read < HeaderSize(packet))
    BY <1>1, <1>3, <1>4, SizeType
  <2>2. NextByte = packet.body[bufferOffset + 1]
    BY <1>1, <1>2, <2>1 DEF NextByte
  <2>3. bufferOffset + 1 \in 1 .. Len(packet.body)
    BY <1>3, <1>4
  <2>4. QED
    BY <1>1, <2>2, <2>3, PacketType
<1>6. /\ buffer \in Seq(Cell) \ {NoBuffer} /\ Len(buffer) = Len(packet.body)
      /\ \A i \in 1 .. bufferOffset + 1 : buffer[i] = packet.body[i]
  <2>1. buffer \in Seq(Cell) \ {NoBuffer} /\ Len(buffer) = Len(headerData)
    BY <1>4, <1>5, Write
  <2>2. ASSUME NEW i \in 1 .. bufferOffset + 1 PROVE buffer[i] = packet.body[i]
    <3>1. i \in 1 .. Len(headerData)
      BY <1>4, LenProperties
    <3>2. buffer[i] = IF i = bufferOffset + 1 THEN NextByte ELSE headerData[i]
      BY <1>4, <3>1, LenProperties
    <3>3. i # bufferOffset + 1 => headerData[i] = packet.body[i]
      BY <1>2, <1>4 DEF InBody
    <3>4. QED
      BY <1>5, <3>2, <3>3
  <2>3. QED
    BY <1>3, <2>1, <2>2
<1>7. bufferOffset' = bufferOffset + 1
  BY DEF ReadBody
<1>8. CASE Full(buffer)
  <2>1. bufferOffset + 1 = Len(packet.body)
    BY <1>3, <1>4, <1>6, <1>8, LenProperties DEF Full
  <2>2. buffer = packet.body
    <3>1. packet.body \in Seq(Cell)
      <4>1. packet.body \in Seq(Byte)
        BY <1>1, PacketType
      <4>2. QED
        BY <4>1 DEF Cell
    <3> HIDE DEF buffer
    <3>2. QED
      BY <1>6, <2>1, <3>1, SeqEqual
  <2>3. completePacketData(buffer)
    BY <1>8 DEF ReadBody
  <2>4. read + 1 = Size(packet)
    BY <1>1, <1>3, <1>4, <2>1, SizeType
  <2> HIDE DEF buffer
  <2>5. QED
    BY <1>2, <1>3, <2>2, <2>3, <2>4, Completed
<1>9. CASE ~Full(buffer)
  <2>1. /\ headerData' = buffer
        /\ UNCHANGED <<currPacket, codecState, headerFlags, heap, failed, received>>
    BY <1>9 DEF ReadBody
  <2> HIDE DEF buffer
  <2>2. bufferOffset + 1 < Len(packet.body)
    BY <1>4, <1>6, <1>9, LenProperties DEF Full
  <2>3. read + 1 < Size(packet)
    BY <1>1, <1>3, <1>4, <2>2, SizeType, PacketType
  <2>4. read' = read + 1 /\ UNCHANGED wire
    BY <1>1, <2>3 DEF Consume, Size
  <2>5. read' = HeaderSize(packet) + bufferOffset'
    BY <1>1, <1>3, <1>4, <1>7, <2>4, SizeType
  <2>6. InPacket(packet)'
    BY <1>2, <2>1 DEF InPacket
  <2>7. InBody(packet)'
    <3>1. codecState' = "VAR_HEADER" /\ headerData' # NoBuffer /\ Len(headerData') = Len(packet.body)
      BY <1>2, <1>6, <2>1 DEF InBody
    <3>2. \A i \in 1 .. bufferOffset' : headerData'[i] = packet.body[i]
      BY <1>6, <1>7, <2>1
    <3>3. QED
      BY <1>3, <2>5, <3>1, <3>2 DEF InBody
  <2>8. QED
    BY <2>1, <2>4, <2>6, <2>7 DEF Outcome
<1>10. QED
  BY <1>8, <1>9

\* While nothing has failed, there is always a buffer for a body.
LEMMA AlwaysABody ==
    ASSUME NEW packet, Reading(packet)
    PROVE  ~NoBody /\ ~BodyRefused
<1>1. codecState # "FIXED_HEADER" => InBody(packet)
  BY ReadSoFar DEF BetweenPackets, InLength
<1>2. packet.body # <<>> /\ InBody(packet) => headerData # <<>>
  <2> SUFFICES ASSUME packet.body # <<>>, InBody(packet), headerData = <<>> PROVE FALSE
    OBVIOUS
  <2>1. Len(packet.body) = 0
    BY EmptySeq DEF InBody
  <2>2. QED
    BY <2>1, PacketType DEF Reading
<1>3. QED
  BY <1>1, <1>2 DEF NoBody, BodyRefused, InBody

LEMMA EveryByte ==
    ASSUME NEW packet, Reading(packet), ReadByte
    PROVE  Outcome(packet)
BY TypeByte, RefuseLength, ContinueLength, ZeroLength, BeginBody, BodyByte, AlwaysABody
DEF ReadByte
-----------------------------------------------------------------------------
(* From a byte to a step of PacketStream.                                  *)

Means(packets) == [i \in DOMAIN packets |-> Meaning(packets[i])]

LEMMA MeansOf ==
    ASSUME NEW packets \in Seq(Packets)
    PROVE  /\ Means(packets) \in Seq({Meaning(packet) : packet \in Packets})
           /\ Len(Means(packets)) = Len(packets)
           /\ \A i \in 1 .. Len(packets) : Means(packets)[i] = Meaning(packets[i])
<1>1. Len(packets) \in Nat /\ DOMAIN packets = 1 .. Len(packets)
  BY LenProperties
<1>2. \A i \in 1 .. Len(packets) : Meaning(packets[i]) \in {Meaning(packet) : packet \in Packets}
  BY ElementOfSeq
<1> DEFINE F(i) == Meaning(packets[i])
<1>3. Means(packets) = [i \in 1 .. Len(packets) |-> F(i)]
  BY <1>1 DEF Means
<1>4. QED
  BY <1>1, <1>2, <1>3, IsASeq

LEMMA MeansNothing == Means(<<>>) = <<>>
<1>1. Means(<<>>) \in Seq({Meaning(packet) : packet \in Packets}) /\ Len(Means(<<>>)) = 0
  BY EmptySeq, MeansOf
<1>2. QED
  BY <1>1, EmptySeq

LEMMA MeansAppend ==
    ASSUME NEW packets \in Seq(Packets), NEW packet \in Packets
    PROVE  Means(Append(packets, packet)) = Append(Means(packets), Meaning(packet))
<1> DEFINE longer == Append(packets, packet)
           M == {Meaning(p) : p \in Packets}
<1>1. /\ longer \in Seq(Packets) /\ Len(longer) = Len(packets) + 1 /\ Len(packets) \in Nat
      /\ \A i \in 1 .. Len(packets) : longer[i] = packets[i]
      /\ longer[Len(packets) + 1] = packet
  BY AppendProperties, LenProperties
<1> HIDE DEF longer
<1>2. /\ Means(longer) \in Seq(M) /\ Len(Means(longer)) = Len(packets) + 1
      /\ \A i \in 1 .. Len(packets) + 1 : Means(longer)[i] = Meaning(longer[i])
  BY <1>1, MeansOf
<1>3. /\ Means(packets) \in Seq(M) /\ Len(Means(packets)) = Len(packets)
      /\ \A i \in 1 .. Len(packets) : Means(packets)[i] = Meaning(packets[i])
  BY MeansOf
<1>4. Meaning(packet) \in M
  OBVIOUS
<1> HIDE DEF M
<1> DEFINE other == Append(Means(packets), Meaning(packet))
<1>5. /\ other \in Seq(M) /\ Len(other) = Len(packets) + 1
      /\ \A i \in 1 .. Len(packets) : other[i] = Means(packets)[i]
      /\ other[Len(packets) + 1] = Meaning(packet)
  BY <1>1, <1>3, <1>4, AppendProperties
<1> HIDE DEF other
<1>6. ASSUME NEW i \in 1 .. Len(packets) + 1 PROVE Means(longer)[i] = other[i]
  <2>1. CASE i = Len(packets) + 1
    BY <1>1, <1>2, <1>5, <2>1
  <2>2. CASE i \in 1 .. Len(packets)
    BY <1>1, <1>2, <1>3, <1>5, <2>2
  <2>3. QED
    BY <1>1, <2>1, <2>2
<1>7. Means(longer) = other
  BY <1>2, <1>5, <1>6, SeqEqual
<1>8. QED
  BY <1>7 DEF longer, other

\* The first packet on the wire is the next that the peer sent.
LEMMA NextOnWire ==
    ASSUME NEW packet, Reading(packet)
    PROVE  /\ Len(sent) = Len(received) + Len(wire)
           /\ \A i \in 1 .. Len(wire) : wire[i] = sent[Len(received) + i]
           /\ Len(received) \in Nat /\ Len(wire) \in Nat \ {0} /\ Len(sent) \in Nat
           /\ Stream!Pending /\ Stream!NextSent = Meaning(packet)
<1>1. /\ Len(sent) = Len(received) + Len(wire)
      /\ \A i \in 1 .. Len(wire) : wire[i] = sent[Len(received) + i]
  BY DEF Reading, Synchronized
<1>2. /\ Len(received) \in Nat /\ Len(wire) \in Nat \ {0} /\ Len(sent) \in Nat
      /\ packet = wire[1]
  <2>1. wire \in Seq(Packets) /\ wire # <<>> /\ sent \in Seq(Packets) /\ received \in Seq(Delivered)
        /\ packet = Head(wire)
    BY DEF Reading, Inv, World, Decoder
  <2>2. QED
    BY <2>1, LenProperties, EmptySeq, HeadTailProperties
<1>3. Len(received) + 1 \in 1 .. Len(sent) /\ packet = sent[Len(received) + 1]
  BY <1>1, <1>2
<1>4. Len(Means(sent)) = Len(sent) /\ Means(sent)[Len(received) + 1] = Meaning(packet)
  <2>1. sent \in Seq(Packets)
    BY DEF Reading, Inv, World
  <2>2. QED
    BY <1>3, <2>1, MeansOf
<1>5. Stream!Pending /\ Stream!NextSent = Meaning(packet)
  BY <1>2, <1>3, <1>4 DEF Stream!Pending, Stream!NextSent, Means
<1>6. QED
  BY <1>1, <1>2, <1>5

LEMMA NoGarbage == ASSUME NEW packet \in Packets PROVE Content(packet) # Garbage
<1>1. packet.head \in Byte
  BY PacketType
<1>2. packet.head \div 16 \in 0 .. 15
  BY <1>1 DEF Byte
<1>3. TypeOf(packet.head) # PACKET_TYPE_ERROR
  BY <1>2 DEF TypeOf, PACKET_TYPE_ERROR
<1>4. QED
  BY <1>3 DEF Content, Garbage

LEMMA ByteStep ==
    ASSUME NEW packet, Reading(packet), ReadByte
    PROVE  [Stream!Next]_(Stream!vars)
<1>1. packet \in Packets /\ failed = "no" /\ UNCHANGED sent
  BY DEF Reading, ReadByte
<1>2. Stream!Pending /\ Stream!NextSent = Meaning(packet)
  BY NextOnWire
<1>3. CASE UNCHANGED <<failed, received>>
  BY <1>1, <1>3 DEF Stream!vars
<1>4. CASE failed' = "malformed" /\ UNCHANGED received /\ ~Wellformed(packet)
  BY <1>1, <1>2, <1>4 DEF Stream!Next, Stream!Break, Meaning
<1>5. CASE failed' = "fault" /\ UNCHANGED received
  BY <1>1, <1>5 DEF Stream!Next, Stream!Break
<1>6. CASE UNCHANGED failed /\ Wellformed(packet) /\ received' = Append(received, Content(packet))
  BY <1>1, <1>2, <1>6, NoGarbage DEF Stream!Next, Stream!Receive, Meaning
<1>7. QED
  BY <1>3, <1>4, <1>5, <1>6, EveryByte DEF Outcome

LEMMA ByteSynchronized ==
    ASSUME NEW packet, Reading(packet), ReadByte
    PROVE  Synchronized'
<1>1. packet \in Packets /\ packet = Head(wire) /\ failed = "no" /\ UNCHANGED sent /\ wire # <<>>
  BY DEF Reading, ReadByte
<1>2. /\ Len(sent) = Len(received) + Len(wire)
      /\ \A i \in 1 .. Len(wire) : wire[i] = sent[Len(received) + i]
      /\ Len(received) \in Nat /\ Len(wire) \in Nat \ {0} /\ Len(sent) \in Nat
  BY NextOnWire
<1>3. CASE failed' # "no"
  BY <1>3 DEF Synchronized
<1>4. CASE /\ UNCHANGED <<failed, received, wire>> /\ read' = read + 1
           /\ InPacket(packet)' /\ (InLength(packet)' \/ InBody(packet)')
  <2>1. read \in Nat
    BY ReadSoFar
  <2>2. read' # 0
    BY <1>4, <2>1
  <2>3. Head(wire') = packet
    BY <1>1, <1>4
  <2>4. InPacket(Head(wire))' /\ (InLength(Head(wire))' \/ InBody(Head(wire))')
    BY <1>4, <2>3 DEF InPacket, InLength, InBody
  <2>5. /\ Len(sent') = Len(received') + Len(wire')
        /\ \A i \in 1 .. Len(wire') : wire'[i] = sent'[Len(received') + i]
    BY <1>1, <1>2, <1>4
  <2>6. QED
    BY <2>2, <2>4, <2>5 DEF Synchronized
<1>5. CASE /\ received' = Append(received, Content(packet))
           /\ read' = 0 /\ wire' = Tail(wire) /\ BetweenPackets'
  <2>1. Len(received') = Len(received) + 1
    <3>1. received \in Seq(Delivered) /\ received' \in Seq(Delivered)
      <4>1. Inv /\ [Next]_vars
        BY DEF Reading, Next
      <4>2. QED
        BY <4>1, InvNext DEF Inv, Decoder
    <3>2. QED
      BY <1>5, <3>1
  <2>2. /\ Len(wire') = Len(wire) - 1
        /\ \A i \in 1 .. Len(wire) - 1 : wire'[i] = wire[i + 1]
    <3>1. wire \in Seq(Packets)
      BY DEF Reading, Inv, World
    <3>2. QED
      BY <1>1, <1>5, <3>1, HeadTailProperties
  <2>3. \A i \in 1 .. Len(wire) - 1 : wire'[i] = sent[Len(received) + 1 + i]
    <3>1. ASSUME NEW i \in 1 .. Len(wire) - 1 PROVE wire'[i] = sent[Len(received) + 1 + i]
      <4>1. i + 1 \in 1 .. Len(wire) /\ Len(received) + 1 + i = Len(received) + (i + 1)
        BY <1>2
      <4>2. wire[i + 1] = sent[Len(received) + (i + 1)]
        BY <1>2, <4>1
      <4>3. QED
        BY <2>2, <4>1, <4>2
    <3>2. QED
      BY <3>1
  <2>4. /\ Len(sent') = Len(received') + Len(wire')
        /\ \A i \in 1 .. Len(wire') : wire'[i] = sent'[Len(received') + i]
    BY <1>1, <1>2, <2>1, <2>2, <2>3
  <2>5. QED
    BY <1>5, <2>4 DEF Synchronized
<1>6. QED
  BY <1>1, <1>3, <1>4, <1>5, EveryByte DEF Outcome
-----------------------------------------------------------------------------
(* The other steps, and the theorems.                                      *)

LEMMA Restarted ==
    ASSUME HangUp
    PROVE  Stream!Restart
BY MeansNothing DEF HangUp, Stream!Restart, Means

LEMMA TransmitStep ==
    ASSUME Inv, NEW packet \in Packets, Transmit(packet)
    PROVE  Stream!Transmit
<1>1. Means(sent') = Append(Means(sent), Meaning(packet))
  BY MeansAppend DEF Transmit, Inv, World
<1>2. Meaning(packet) \in {Meaning(p) : p \in Packets}
  OBVIOUS
<1>3. UNCHANGED <<received, failed>>
  BY DEF Transmit
<1>4. QED
  BY <1>1, <1>2, <1>3 DEF Stream!Transmit, Means

LEMMA TransmitSynchronized ==
    ASSUME Inv, Synchronized, NEW packet \in Packets, Transmit(packet)
    PROVE  Synchronized'
<1> SUFFICES ASSUME failed = "no" PROVE Synchronized'
  BY DEF Transmit, Synchronized
<1>1. /\ Len(sent) = Len(received) + Len(wire)
      /\ \A i \in 1 .. Len(wire) : wire[i] = sent[Len(received) + i]
  BY DEF Synchronized
<1>2. /\ wire \in Seq(Packets) /\ sent \in Seq(Packets)
      /\ Len(received) \in Nat /\ Len(wire) \in Nat /\ Len(sent) \in Nat
  BY LenProperties DEF Inv, World, Decoder
<1>3. /\ Len(wire') = Len(wire) + 1 /\ Len(sent') = Len(sent) + 1
      /\ \A i \in 1 .. Len(wire) : wire'[i] = wire[i]
      /\ \A i \in 1 .. Len(sent) : sent'[i] = sent[i]
      /\ wire'[Len(wire) + 1] = packet /\ sent'[Len(sent) + 1] = packet
  BY <1>2, AppendProperties DEF Transmit
<1>4. ASSUME NEW i \in 1 .. Len(wire) + 1 PROVE wire'[i] = sent'[Len(received) + i]
  <2>1. CASE i = Len(wire) + 1
    <3>1. Len(received) + i = Len(sent) + 1
      BY <1>1, <1>2, <2>1
    <3>2. QED
      BY <1>3, <2>1, <3>1
  <2>2. CASE i \in 1 .. Len(wire)
    <3>1. Len(received) + i \in 1 .. Len(sent)
      BY <1>1, <1>2, <2>2
    <3>2. QED
      BY <1>1, <1>3, <2>2, <3>1
  <2>3. QED
    BY <1>2, <2>1, <2>2
<1>5. UNCHANGED <<codec, received, read, alive>>
  BY DEF Transmit
<1>6. alive /\ read = 0 => BetweenPackets'
  BY <1>5 DEF Synchronized, BetweenPackets, codec
<1>7. ASSUME alive, read # 0
      PROVE  InPacket(Head(wire))' /\ (InLength(Head(wire))' \/ InBody(Head(wire))')
  <2>1. wire # <<>>
    BY <1>7 DEF Inv, World, Position
  <2>2. Head(wire') = Head(wire)
    BY <1>2, <2>1, HeadTailProperties, AppendProperties DEF Transmit
  <2>3. InPacket(Head(wire)) /\ (InLength(Head(wire)) \/ InBody(Head(wire)))
    BY <1>7 DEF Synchronized
  <2>4. QED
    BY <1>5, <2>2, <2>3 DEF InPacket, InLength, InBody, codec
<1>8. Len(sent') = Len(received') + Len(wire')
  BY <1>1, <1>2, <1>3, <1>5
<1>9. \A i \in 1 .. Len(wire') : wire'[i] = sent'[Len(received') + i]
  BY <1>3, <1>4, <1>5
<1>10. QED
  BY <1>5, <1>6, <1>7, <1>8, <1>9 DEF Synchronized

Fair == Resets /\ "drop" \notin Faults /\ Framed

LEMMA SynchronizedInit == Init => Synchronized
<1> SUFFICES ASSUME Init PROVE Synchronized
  OBVIOUS
<1>1. Len(sent) = 0 /\ Len(received) = 0 /\ Len(wire) = 0
  BY EmptySeq DEF Init
<1>2. read = 0 /\ BetweenPackets
  BY DEF Init, BetweenPackets
<1>3. QED
  BY <1>1, <1>2 DEF Synchronized

LEMMA FirstPacket ==
    ASSUME Fair, Inv, Synchronized, ReadByte
    PROVE  Reading(Head(wire))
<1>1. wire # <<>> /\ wire \in Seq(Packets)
  BY DEF ReadByte, Inv, World
<1>2. Head(wire) \in Packets
  BY <1>1, HeadTailProperties
<1>3. failed = "no" /\ alive
  BY DEF ReadByte, Listening, Fair
<1>4. QED
  BY <1>1, <1>2, <1>3 DEF Reading, Fair

LEMMA SynchronizedNext ==
    ASSUME Fair, Inv, Synchronized, [Next]_vars
    PROVE  Synchronized'
<1>1. CASE ReadByte
  BY <1>1, FirstPacket, ByteSynchronized
<1>2. CASE NoBytes
  BY <1>2 DEF NoBytes, Fail, Synchronized
<1>3. ASSUME HangUp, BetweenPackets' PROVE Synchronized'
  <2>1. Len(sent') = 0 /\ Len(received') = 0 /\ Len(wire') = 0 /\ read' = 0
    BY <1>3, EmptySeq DEF HangUp
  <2>2. QED
    BY <1>3, <2>1 DEF Synchronized
<1>4. CASE mqtt_codec_reset
  BY <1>3, <1>4 DEF mqtt_codec_reset, clear_codec_data, BetweenPackets
<1>5. CASE Lose
  <2>1. BetweenPackets
    BY <1>5 DEF Lose, Listening, Fair, Synchronized
  <2>2. QED
    BY <1>3, <1>5, <2>1 DEF Lose, BetweenPackets, codec
<1>6. CASE mqtt_codec_destroy
  BY <1>6 DEF mqtt_codec_destroy, stream, Synchronized
<1>7. CASE \E packet \in Packets : Transmit(packet)
  BY <1>7, TransmitSynchronized
<1>8. CASE UNCHANGED vars
  BY <1>8 DEF vars, codec, stream, Synchronized, BetweenPackets, InPacket, InLength, InBody
<1>9. QED
  BY <1>1, <1>2, <1>4, <1>5, <1>6, <1>7, <1>8 DEF Next

LEMMA StreamStep ==
    ASSUME Fair, Inv, Synchronized, [Next]_vars
    PROVE  [Stream!Next]_(Stream!vars)
<1>1. CASE ReadByte
  BY <1>1, FirstPacket, ByteStep
<1>2. CASE NoBytes
  BY <1>2 DEF NoBytes, Fail, stream, Stream!Next, Stream!Break
<1>3. CASE mqtt_codec_reset \/ Lose
  BY <1>3, Restarted DEF mqtt_codec_reset, Lose, Stream!Next
<1>4. CASE mqtt_codec_destroy \/ UNCHANGED vars
  BY <1>4 DEF mqtt_codec_destroy, vars, stream, Stream!vars
<1>5. CASE \E packet \in Packets : Transmit(packet)
  BY <1>5, TransmitStep DEF Stream!Next
<1>6. QED
  BY <1>1, <1>2, <1>3, <1>4, <1>5 DEF Next

(***************************************************************************)
(* mqtt_codec_bytesReceived as onBytesReceived uses it: as long as nothing *)
(* failed, the decoder's fields say which packet is being read and how far *)
(* it got, whatever was read, refused or reset before.                     *)
(***************************************************************************)
THEOREM StaysSynchronized ==
    ASSUME Resets, "drop" \notin Faults, Framed
    PROVE  Spec => []Synchronized
<1>1. Inv /\ Synchronized /\ [Next]_vars => Synchronized'
  BY SynchronizedNext DEF Fair
<1>2. QED
  BY <1>1, InvInit, InvNext, SynchronizedInit, PTL DEF Spec

(***************************************************************************)
(* SRS_MQTT_CODEC_07_034: completePacketData is called with the last byte  *)
(* of every packet, whatever the packets, for a caller that resets the     *)
(* codec after an error and connections that end between packets.          *)
(***************************************************************************)
THEOREM CallbackAtLastByte ==
    ASSUME Resets, "drop" \notin Faults, Framed
    PROVE  Spec => []ReceivedWhenComplete
<1>1. Inv /\ Synchronized => ReceivedWhenComplete
  <2> SUFFICES ASSUME Inv, Synchronized, failed = "no"
               PROVE  Len(received) = Len(sent) - Len(wire)
    BY DEF ReceivedWhenComplete
  <2>1. Len(received) \in Nat /\ Len(wire) \in Nat
    BY LenProperties DEF Inv, World, Decoder
  <2>2. QED
    BY <2>1 DEF Synchronized
<1>2. Spec => []Inv
  BY InvInit, InvNext, PTL DEF Spec
<1>3. QED
  BY <1>1, <1>2, StaysSynchronized, PTL

(***************************************************************************)
(* SRS_MQTT_CODEC_07_033, 07_035: byte by byte, mqtt_codec_bytesReceived   *)
(* does what PacketStream says.  The client is given what the peer sent,   *)
(* in order, up to the first thing that is no packet, on every connection  *)
(* anew.                                                                   *)
(***************************************************************************)
THEOREM ImplementsStream ==
    ASSUME Resets, "drop" \notin Faults, Framed
    PROVE  Spec => StreamSpec
<1>1. Init => Stream!Init
  BY MeansNothing DEF Init, Stream!Init, Means
<1>2. Inv /\ Synchronized /\ [Next]_vars => [Stream!Next]_(Stream!vars)
  BY StreamStep DEF Fair
<1>3. Spec => []Inv
  BY InvInit, InvNext, PTL DEF Spec
<1>4. QED
  BY <1>1, <1>2, <1>3, StaysSynchronized, PTL DEF Spec, StreamSpec, Stream!Spec

(***************************************************************************)
(* Framed is no more than a broker keeps to that frames its packets as     *)
(* constructFixedHeader does, up to 2 MB: any body that is not empty,      *)
(* under any first byte of MQTT but that of a PINGRESP.  A longer one gets *)
(* a length of four bytes, which is MQTT's and which the decoder refuses.  *)
(***************************************************************************)
THEOREM EncodersFrame ==
    ASSUME NEW packetType \in Nat, NEW flags \in Nat, packetType + flags \in MqttHead,
           TypeOf(packetType + flags) # PINGRESP_TYPE,
           NEW body \in Seq(Byte), Len(body) \in Below2MB
    PROVE  Readable(constructFixedHeader(packetType, flags, body))
<1> DEFINE packet == constructFixedHeader(packetType, flags, body)
           n == Len(body)
<1>1. /\ packet.head = packetType + flags /\ packet.length = LengthBytes(n) /\ packet.body = body
      /\ n \in Below2MB
  BY DEF constructFixedHeader
<1> HIDE DEF packet, n
<1>2. Field(LengthBytes(n), n) /\ TotalLen(LengthBytes(n)) = n /\ Digits(n) \in 1 .. 3
  BY <1>1, LengthRoundTrip, SizeOfLength
<1>3. LengthField(packet.length) /\ Len(packet.length) <= 3
  <2>1. /\ packet.length \in Seq(Byte) /\ Len(packet.length) \in 1 .. 3
        /\ \A i \in 1 .. Len(packet.length) :
                packet.length[i] >= 128 <=> i < Len(packet.length)
    BY <1>1, <1>2 DEF Field
  <2>2. DOMAIN packet.length = 1 .. Len(packet.length)
    BY <2>1, LenProperties
  <2>3. packet.length # <<>>
    <3>1. packet.length \in Seq(Byte) /\ Len(packet.length) # 0
      BY <2>1
    <3>2. QED
      BY <3>1, EmptySeq
  <2>4. QED
    BY <2>1, <2>2, <2>3 DEF LengthField
<1>4. RemainingLength(packet.length) = Len(packet.body)
  BY <1>1, <1>2, <1>3, ThreeDigits DEF Field, n
<1>5. Readable(packet)
  BY <1>1, <1>3, <1>4 DEF Readable, Wellformed
<1>6. QED
  BY <1>5 DEF packet
=============================================================================
