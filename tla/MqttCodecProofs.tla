--------------------------- MODULE MqttCodecProofs ---------------------------
(* Theorems about MqttCodec, for every value of its constants.               *)
EXTENDS MqttCodec, SequenceTheorems, TLAPS

-----------------------------------------------------------------------------
(* FixedHeader: a Remaining Length is read as it was written.              *)

LEMMA TypeOfByte ==
    \A byte \in Byte : TypeOf(byte) \in ControlPacketTypes /\ FlagsOf(byte) \in 0 .. 15
<1> SUFFICES ASSUME NEW byte \in Byte
    PROVE  TypeOf(byte) \in ControlPacketTypes /\ FlagsOf(byte) \in 0 .. 15
  OBVIOUS
<1>1. byte \div 16 \in 0 .. 15 /\ byte % 16 \in 0 .. 15
  BY DEF Byte
<1>2. QED
  BY <1>1 DEF TypeOf, FlagsOf, ControlPacketTypes

-----------------------------------------------------------------------------
\* A Remaining Length as MQTT has it: all bytes but the last continue it.
Field(digits, n) ==
    /\ digits \in Seq(Byte) /\ Len(digits) = Digits(n)
    /\ \A i \in 1 .. Len(digits) : digits[i] >= 128 <=> i < Len(digits)

\* What TotalLen can read: three digits.
Below2MB == {n \in Nat : n < 2097152}

LEMMA SizeOfLength == \A n \in Below2MB : Digits(n) \in 1 .. 3
BY SMT DEF Digits, Below2MB

LEMMA Places == Base128[1] = 1 /\ Base128[2] = 128 /\ Base128[3] = 16384
BY SMT DEF Base128, Below2MB

\* The digit of n at place i, of the three that a number below 2 MB has.
Place(n, i) ==
    IF i = 1 THEN n % 128 ELSE IF i = 2 THEN (n \div 128) % 128 ELSE (n \div 16384) % 128

LEMMA PlaceBound == \A n \in Nat, i \in 1 .. 3 : Place(n, i) \in 0 .. 127
BY SMT DEF Place, Below2MB

\* Places beyond the size of the number are empty.
LEMMA PlaceBeyond ==
    \A n \in Below2MB, i \in 1 .. 3 : i > Digits(n) => Place(n, i) = 0
BY SMT DEF Digits, Place, Below2MB

LEMMA PlacesSum ==
    \A n \in Below2MB : Place(n, 1) + 128 * Place(n, 2) + 16384 * Place(n, 3) = n
<1> SUFFICES ASSUME NEW n \in Below2MB
    PROVE  Place(n, 1) + 128 * Place(n, 2) + 16384 * Place(n, 3) = n
  BY SMT DEF Below2MB
<1>1. n \div 16384 = (n \div 128) \div 128
  BY SMT DEF Below2MB
<1>2. (n \div 16384) % 128 = n \div 16384
  BY SMT DEF Below2MB
<1>3. n = 128 * (n \div 128) + (n % 128)
  BY SMT DEF Below2MB
<1>4. n \div 128 = 128 * (n \div 16384) + ((n \div 128) % 128)
  BY SMT, <1>1 DEF Below2MB
<1>5. QED
  BY SMT, <1>2, <1>3, <1>4 DEF Place, Below2MB

\* A byte of the length is the digit at its place, and says whether more come.
LEMMA ByteOfLength ==
    ASSUME NEW n \in Below2MB, NEW i \in 1 .. Digits(n)
    PROVE  LengthBytes(n)[i] = Place(n, i) + (IF i < Digits(n) THEN 128 ELSE 0)
<1>1. i \in 1 .. 3
  BY SMT, SizeOfLength DEF Below2MB
<1>2. LengthBytes(n)[i] = ((n \div Base128[i]) % 128) + (IF i < Digits(n) THEN 128 ELSE 0)
  BY SMT DEF LengthBytes, Below2MB
<1>3. (n \div Base128[i]) % 128 = Place(n, i)
  <2>1. CASE i = 1
    <3>1. n \div 1 = n
      BY SMT DEF Below2MB
    <3>2. QED
      BY SMT, <2>1, <3>1, Places DEF Place, Below2MB
  <2>2. CASE i = 2
    BY SMT, <2>2, Places DEF Place, Below2MB
  <2>3. CASE i = 3
    BY SMT, <2>3, Places DEF Place, Below2MB
  <2>4. QED
    BY SMT, <1>1, <2>1, <2>2, <2>3 DEF Below2MB
<1>4. QED
  BY SMT, <1>2, <1>3 DEF Below2MB

\* The bytes of a length are what prepareheaderDataInfo stops at, and no more.
LEMMA LengthIsField == \A n \in Below2MB : Field(LengthBytes(n), n)
<1> SUFFICES ASSUME NEW n \in Below2MB PROVE Field(LengthBytes(n), n)
  BY SMT DEF Below2MB
<1>1. Digits(n) \in 1 .. 3
  BY SMT, SizeOfLength DEF Below2MB
<1>2. ASSUME NEW i \in 1 .. Digits(n)
      PROVE  LengthBytes(n)[i] \in Byte /\ (LengthBytes(n)[i] >= 128 <=> i < Digits(n))
  <2>1. Place(n, i) \in 0 .. 127
    BY SMT, <1>1, PlaceBound DEF Below2MB
  <2>2. LengthBytes(n)[i] = Place(n, i) + (IF i < Digits(n) THEN 128 ELSE 0)
    BY SMT, ByteOfLength DEF Below2MB
  <2>3. QED
    BY SMT, <1>1, <2>1, <2>2 DEF Byte, Below2MB
<1>3. LengthBytes(n) = [i \in 1 .. Digits(n) |-> LengthBytes(n)[i]]
  BY SMT DEF LengthBytes, Below2MB
<1>4. LengthBytes(n) \in Seq(Byte) /\ Len(LengthBytes(n)) = Digits(n)
  BY SMT, <1>1, <1>2, <1>3 DEF Below2MB
<1>5. QED
  BY SMT, <1>2, <1>4 DEF Field, Below2MB

\* The i-th digit read is the i-th digit of the number, 0 beyond the field.
LEMMA DigitsOfLength ==
    ASSUME NEW n \in Below2MB, NEW i \in 1 .. 3
    PROVE  Digit(LengthBytes(n), i) = Place(n, i)
<1>1. Len(LengthBytes(n)) = Digits(n) /\ Digits(n) \in 1 .. 3
  BY SMT, LengthIsField, SizeOfLength DEF Field, Below2MB
<1>2. Place(n, i) \in 0 .. 127
  BY SMT, PlaceBound DEF Below2MB
<1>3. CASE i <= Digits(n)
  <2>1. i \in 1 .. Digits(n)
    BY SMT, <1>1, <1>3 DEF Below2MB
  <2>2. LengthBytes(n)[i] = Place(n, i) + (IF i < Digits(n) THEN 128 ELSE 0)
    BY SMT, <2>1, ByteOfLength DEF Below2MB
  <2>3. LengthBytes(n)[i] % 128 = Place(n, i)
    BY SMT, <1>2, <2>2 DEF Below2MB
  <2>4. QED
    BY SMT, <1>1, <1>3, <2>3 DEF Digit, Below2MB
<1>4. CASE i > Digits(n)
  <2>1. Place(n, i) = 0
    BY SMT, <1>4, PlaceBeyond DEF Below2MB
  <2>2. QED
    BY SMT, <1>1, <1>4, <2>1 DEF Digit, Below2MB
<1>5. QED
  BY SMT, <1>1, <1>3, <1>4 DEF Below2MB

(***************************************************************************)
(* What constructFixedHeader writes, prepareheaderDataInfo reads: for      *)
(* every packet below 2 MB the bytes are a Remaining Length that ends      *)
(* where it should, and stand for the number they were made of.            *)
(***************************************************************************)
THEOREM LengthRoundTrip ==
    \A n \in Below2MB : Field(LengthBytes(n), n) /\ TotalLen(LengthBytes(n)) = n
<1> SUFFICES ASSUME NEW n \in Below2MB PROVE TotalLen(LengthBytes(n)) = n
  BY SMT, LengthIsField DEF Below2MB
<1>1. /\ Digit(LengthBytes(n), 1) = Place(n, 1)
      /\ Digit(LengthBytes(n), 2) = Place(n, 2)
      /\ Digit(LengthBytes(n), 3) = Place(n, 3)
  BY SMT, DigitsOfLength DEF Below2MB
<1>2. QED
  BY SMT, <1>1, PlacesSum DEF TotalLen, Below2MB

-----------------------------------------------------------------------------
(* The buffer that a packet is put together in.                            *)

\* Writing a cell inside a buffer leaves a buffer of the same length.
LEMMA Write ==
    ASSUME NEW buffer \in Seq(Cell), NEW i \in 1 .. Len(buffer), NEW byte \in Byte
    PROVE  /\ [buffer EXCEPT ![i] = byte] \in Seq(Cell) \ {NoBuffer}
           /\ Len([buffer EXCEPT ![i] = byte]) = Len(buffer)
<1>1. byte \in Cell
  BY DEF Cell
<1>2. /\ [buffer EXCEPT ![i] = byte] \in Seq(Cell)
      /\ Len([buffer EXCEPT ![i] = byte]) = Len(buffer)
  BY <1>1, ExceptSeq
<1>3. QED
  BY <1>2, ConstantsAssumption DEF Cell, Unset

LEMMA Fresh ==
    ASSUME NEW n \in Nat
    PROVE  /\ [i \in 1 .. n |-> Unset] \in Seq(Cell) \ {NoBuffer}
           /\ Len([i \in 1 .. n |-> Unset]) = n
<1> DEFINE buffer == [i \in 1 .. n |-> Unset]
<1>1. \A i \in 1 .. n : Unset \in Cell
  BY DEF Cell
<1>2. buffer \in Seq(Cell) /\ Len(buffer) = n
  BY <1>1, IsASeq
<1>3. QED
  BY <1>2, ConstantsAssumption DEF Cell, Unset

-----------------------------------------------------------------------------
(* The invariant: types, the bounds of the buffer being filled, and that   *)
(* this buffer counts as allocated.  One half is the decoder's, the other  *)
(* that of the world around it.                                            *)

Delivered == [type : ControlPacketTypes, flags : 0 .. 15, data : Seq(Cell) \cup {NoBuffer}]

Decoder ==
    /\ currPacket \in ControlPacketTypes
    /\ codecState \in {"FIXED_HEADER", "VAR_HEADER", "PAYLOAD"}
    /\ headerFlags \in 0 .. 15
    /\ bufferOffset \in Nat
    /\ headerData \in Seq(Cell) \cup {NoBuffer}
    /\ storeRemainLen \in Seq(Byte) /\ Len(storeRemainLen) <= 4
    /\ failed \in Reasons
    /\ heap \in Nat
    /\ received \in Seq(Delivered)
    /\ InBounds
    /\ headerData # NoBuffer => heap > 0

Size(packet) == HeaderSize(packet) + Len(packet.body)

\* What was read of the first packet is not all of it.
Position == read = 0 \/ (wire # <<>> /\ read < Size(Head(wire)))

World ==
    /\ alive \in BOOLEAN
    /\ wire \in Seq(Packets) /\ sent \in Seq(Packets) /\ read \in Nat
    /\ Position

Inv == Decoder /\ World

LEMMA InvParts == Inv => TypeOK /\ InBounds
BY DEF Inv, Decoder, World, TypeOK, Delivered

LEMMA InvInit == Init => Inv
<1> SUFFICES ASSUME Init PROVE Inv
  OBVIOUS
<1>1. /\ <<>> \in Seq(Byte) /\ Len(<<>>) = 0
      /\ <<>> \in Seq(Delivered) /\ <<>> \in Seq(Packets)
  BY EmptySeq
<1>2. UNKNOWN_TYPE \in ControlPacketTypes
  BY DEF ControlPacketTypes
<1>3. Decoder
  <2>1. failed \in Reasons
    BY DEF Init, Reasons
  <2>2. /\ currPacket \in ControlPacketTypes
        /\ storeRemainLen \in Seq(Byte) /\ Len(storeRemainLen) <= 4
        /\ received \in Seq(Delivered)
        /\ headerFlags \in 0 .. 15 /\ bufferOffset \in Nat /\ heap \in Nat
    BY <1>1, <1>2 DEF Init
  <2>3. codecState = "FIXED_HEADER" /\ headerData = NoBuffer
    BY DEF Init
  <2>4. QED
    BY <2>1, <2>2, <2>3 DEF Decoder, InBounds
<1>4. World
  BY <1>1 DEF Init, World, Position
<1>5. QED
  BY <1>3, <1>4 DEF Inv

-----------------------------------------------------------------------------
(* Each way of taking a byte keeps the decoder's half.                     *)

LEMMA FailType ==
    ASSUME Decoder, Fail("malformed") \/ Fail("fault")
    PROVE  currPacket' \in ControlPacketTypes /\ failed' \in Reasons /\ received' \in Seq(Delivered)
BY DEF Fail, Decoder, ControlPacketTypes, Reasons

LEMMA CompleteType ==
    ASSUME Decoder, NEW buffer \in Seq(Cell) \cup {NoBuffer}, completePacketData(buffer),
           buffer # NoBuffer => heap > 0
    PROVE  /\ currPacket' \in ControlPacketTypes
           /\ codecState' = "FIXED_HEADER"
           /\ headerFlags' = 0
           /\ headerData' = NoBuffer
           /\ failed' \in Reasons
           /\ heap' \in Nat
           /\ received' \in Seq(Delivered)
<1> DEFINE packet == [type |-> currPacket, flags |-> headerFlags, data |-> buffer]
<1>1. packet \in Delivered
  BY DEF Decoder, Delivered
<1>2. received' = Append(received, packet) /\ received \in Seq(Delivered)
  BY DEF completePacketData, Decoder
<1>3. received' \in Seq(Delivered)
  BY <1>1, <1>2, AppendProperties
<1>4. heap' \in Nat
  BY DEF completePacketData, Decoder, Freed
<1>5. currPacket' \in ControlPacketTypes
  BY DEF completePacketData, ControlPacketTypes
<1>6. QED
  BY <1>3, <1>4, <1>5 DEF completePacketData, Decoder

LEMMA ReadTypeStep ==
    ASSUME Decoder, NEW byte \in Byte, ReadType(byte)
    PROVE  Decoder'
<1>1. currPacket' \in ControlPacketTypes /\ failed' \in Reasons /\ received' \in Seq(Delivered)
  <2>1. CASE Fail("malformed") \/ Fail("fault")
    BY <2>1, FailType
  <2>2. CASE currPacket' = TypeOf(byte) /\ UNCHANGED <<failed, received>>
    BY <2>2, TypeOfByte DEF Decoder
  <2>3. QED
    BY <2>1, <2>2 DEF ReadType
<1>2. headerFlags' \in 0 .. 15
  BY TypeOfByte DEF ReadType
<1>3. QED
  BY <1>1, <1>2 DEF ReadType, Decoder, InBounds

LEMMA AppendLength ==
    ASSUME Decoder, NEW byte \in Byte
    PROVE  /\ Append(storeRemainLen, byte) \in Seq(Byte)
           /\ Len(Append(storeRemainLen, byte)) = Len(storeRemainLen) + 1
           /\ Len(storeRemainLen) \in Nat
BY AppendProperties, LenProperties DEF Decoder

LEMMA LengthStep ==
    ASSUME Decoder, NEW byte \in Byte, LengthRefused(byte) \/ LengthContinues(byte)
    PROVE  Decoder'
<1>1. currPacket' \in ControlPacketTypes /\ failed' \in Reasons /\ received' \in Seq(Delivered)
  <2>1. CASE Fail("malformed") \/ Fail("fault")
    BY <2>1, FailType
  <2>2. CASE UNCHANGED <<currPacket, failed, received>>
    BY <2>2 DEF Decoder
  <2>3. QED
    BY <2>1, <2>2 DEF LengthRefused, LengthContinues
<1>2. storeRemainLen' \in Seq(Byte) /\ Len(storeRemainLen') <= 4
  <2>1. CASE UNCHANGED storeRemainLen
    BY <2>1 DEF Decoder
  <2>2. CASE Len(storeRemainLen) <= 3 /\ storeRemainLen' = Append(storeRemainLen, byte)
    BY <2>2, AppendLength
  <2>3. Len(storeRemainLen) \in Nat
    BY AppendLength
  <2>4. \/ UNCHANGED storeRemainLen
        \/ Len(storeRemainLen) \in {0, 1, 2, 3} /\ storeRemainLen' = Append(storeRemainLen, byte)
    <3>1. CASE LengthRefused(byte)
      BY <3>1 DEF LengthRefused
    <3>2. CASE LengthContinues(byte)
      <4>1. Len(storeRemainLen) < 3 /\ storeRemainLen' = Append(storeRemainLen, byte)
        BY <3>2 DEF LengthContinues
      <4>2. \A n \in Nat : n < 3 => n \in {0, 1, 2, 3}
        OBVIOUS
      <4>3. QED
        BY <2>3, <4>1, <4>2
    <3>3. QED
      BY <3>1, <3>2
  <2>5. QED
    BY <2>1, <2>2, <2>4
<1>3. QED
  BY <1>1, <1>2 DEF LengthRefused, LengthContinues, Decoder, InBounds

LEMMA NoDigits == <<>> \in Seq(Byte) /\ Len(<<>>) <= 4
BY EmptySeq

LEMMA LengthZeroStep ==
    ASSUME Decoder, NEW byte \in Byte, LengthZero(byte)
    PROVE  Decoder'
<1>1. CASE completePacketData(headerData)
  <2>1. headerData \in Seq(Cell) \cup {NoBuffer} /\ (headerData # NoBuffer => heap > 0)
    BY DEF Decoder
  <2>2. QED
    BY <1>1, <2>1, CompleteType, NoDigits DEF LengthZero, LengthEnds, Decoder, InBounds
<1>2. CASE /\ codecState' = "VAR_HEADER"
           /\ UNCHANGED <<currPacket, headerFlags, headerData, heap, failed, received>>
  BY <1>2, NoDigits DEF LengthZero, LengthEnds, Decoder, InBounds
<1>3. QED
  BY <1>1, <1>2 DEF LengthZero

LEMMA NewBufferStep ==
    ASSUME Decoder, NEW byte \in Byte, NewBuffer(byte)
    PROVE  Decoder'
<1> DEFINE total == TotalLen(Append(storeRemainLen, byte))
<1>1. total \in Nat /\ total > 0
  BY ConstantsAssumption DEF NewBuffer
<1> HIDE DEF total
<1>2. currPacket' \in ControlPacketTypes /\ failed' \in Reasons /\ received' \in Seq(Delivered)
  <2>1. CASE Fail("malformed") \/ Fail("fault")
    BY <2>1, FailType
  <2>2. CASE UNCHANGED <<currPacket, failed, received>>
    BY <2>2 DEF Decoder
  <2>3. QED
    BY <2>1, <2>2 DEF NewBuffer
<1>3. /\ headerData' \in Seq(Cell) \cup {NoBuffer}
      /\ heap' \in Nat
      /\ headerData' # NoBuffer => heap' > 0
      /\ headerData' \notin {NoBuffer, <<>>} => 0 < Len(headerData')
  <2>1. CASE headerData' = NoBuffer /\ UNCHANGED heap
    BY <2>1 DEF Decoder
  <2>2. CASE headerData' = <<>> /\ heap' = heap + 1
    <3>1. <<>> \in Seq(Cell)
      BY EmptySeq
    <3>2. QED
      BY <2>2, <3>1 DEF Decoder
  <2>3. CASE headerData' = [i \in 1 .. total |-> Unset] /\ heap' = heap + 1
    BY <1>1, <2>3, Fresh DEF Decoder
  <2>4. QED
    BY <2>1, <2>2, <2>3 DEF NewBuffer, total
<1>4. QED
  BY <1>2, <1>3, NoDigits DEF NewBuffer, LengthEnds, Decoder, InBounds

LEMMA ReadBodyStep ==
    ASSUME Decoder, NEW byte \in Byte, ReadBody(byte)
    PROVE  Decoder'
<1> DEFINE buffer == [headerData EXCEPT ![bufferOffset + 1] = byte]
<1>1. headerData \in Seq(Cell) /\ headerData # NoBuffer /\ heap > 0
  BY DEF ReadBody, Decoder
<1>2. bufferOffset \in Nat /\ Len(headerData) \in Nat /\ bufferOffset < Len(headerData)
  BY <1>1, LenProperties DEF ReadBody, Decoder, InBounds
<1>3. buffer \in Seq(Cell) \ {NoBuffer} /\ Len(buffer) = Len(headerData)
  BY <1>1, <1>2, Write
<1>4. CASE Full(buffer)
  <2>1. completePacketData(buffer)
    BY <1>4 DEF ReadBody
  <2> HIDE DEF buffer
  <2>2. QED
    BY <1>1, <1>2, <1>3, <2>1, CompleteType DEF ReadBody, Decoder, InBounds
<1>5. CASE ~Full(buffer)
  <2>1. /\ headerData' = buffer
        /\ UNCHANGED <<currPacket, codecState, headerFlags, heap, failed, received>>
    BY <1>5 DEF ReadBody
  <2> HIDE DEF buffer
  <2>2. bufferOffset + 1 < Len(buffer)
    BY <1>2, <1>3, <1>5 DEF Full
  <2>3. bufferOffset' = bufferOffset + 1 /\ UNCHANGED storeRemainLen
    BY DEF ReadBody
  <2>4. QED
    BY <1>1, <1>2, <1>3, <2>1, <2>2, <2>3 DEF Decoder, InBounds
<1>6. QED
  BY <1>4, <1>5

LEMMA NoBodyStep == ASSUME Decoder, NoBody PROVE Decoder'
BY DEF NoBody, Decoder, InBounds

LEMMA BodyRefusedStep == ASSUME Decoder, BodyRefused PROVE Decoder'
BY FailType DEF BodyRefused, Decoder, InBounds

-----------------------------------------------------------------------------
(* The bytes come from the packets on the wire.                            *)

LEMMA NextByteType ==
    ASSUME World, wire # <<>>
    PROVE  NextByte \in Byte
<1> DEFINE packet == Head(wire)
<1>1. packet \in [head : Byte, length : Seq(Byte), body : Seq(Byte)]
  BY HeadTailProperties, ConstantsAssumption DEF World
<1>2. Len(packet.length) \in Nat /\ Len(packet.body) \in Nat /\ read \in Nat
  BY <1>1, LenProperties DEF World
<1> HIDE DEF packet
<1>3. CASE read = 0
  BY <1>1, <1>3 DEF NextByte, packet
<1>4. CASE read # 0 /\ read < HeaderSize(packet)
  <2>1. read \in 1 .. Len(packet.length)
    BY <1>2, <1>4 DEF HeaderSize
  <2>2. packet.length[read] \in Byte
    BY <1>1, <2>1, ElementOfSeq
  <2>3. QED
    BY <1>4, <2>2 DEF NextByte, packet
<1>5. CASE read # 0 /\ ~(read < HeaderSize(packet))
  <2>1. read < Size(packet)
    BY <1>5 DEF World, Position, packet
  <2>2. read + 1 - HeaderSize(packet) \in 1 .. Len(packet.body)
    <3>1. HeaderSize(packet) \in Nat /\ HeaderSize(packet) <= read
      BY <1>2, <1>5 DEF HeaderSize
    <3>2. read < HeaderSize(packet) + Len(packet.body)
      BY <2>1 DEF Size
    <3>3. QED
      BY <1>2, <3>1, <3>2
  <2>3. packet.body[read + 1 - HeaderSize(packet)] \in Byte
    BY <1>1, <2>2, ElementOfSeq
  <2>4. QED
    BY <1>5, <2>3 DEF NextByte, packet
<1>6. QED
  BY <1>3, <1>4, <1>5

LEMMA ConsumeType ==
    ASSUME World, wire # <<>>, Consume
    PROVE  wire' \in Seq(Packets) /\ read' \in Nat /\ Position'
<1>1. Tail(wire) \in Seq(Packets)
  BY HeadTailProperties DEF World
<1>2. read + 1 \in Nat /\ 0 \in Nat
  BY DEF World
<1>3. CASE read + 1 < Size(Head(wire)) /\ read' = read + 1 /\ UNCHANGED wire
  BY <1>2, <1>3 DEF World, Position
<1>4. CASE read' = 0 /\ wire' = Tail(wire)
  BY <1>1, <1>2, <1>4 DEF Position
<1>5. QED
  BY <1>3, <1>4 DEF Consume, Size

LEMMA InvNext == Inv /\ [Next]_vars => Inv'
<1> SUFFICES ASSUME Inv, [Next]_vars PROVE Inv'
  OBVIOUS
<1> USE DEF Inv
<1>1. CASE ReadByte
  <2>1. wire # <<>> /\ Consume
    BY <1>1 DEF ReadByte
  <2>2. World'
    BY <1>1, <2>1, ConsumeType DEF ReadByte, World
  <2>3. NextByte \in Byte
    BY <2>1, NextByteType
  <2>4. Decoder'
    BY <1>1, <2>3, ReadTypeStep, LengthStep, LengthZeroStep, NewBufferStep, ReadBodyStep,
       NoBodyStep, BodyRefusedStep DEF ReadByte
  <2>5. QED
    BY <2>2, <2>4
<1>2. CASE NoBytes
  BY <1>2, FailType DEF NoBytes, Decoder, World, Position, InBounds, stream
<1>3. HangUp => /\ failed' \in Reasons
                /\ received' \in Seq(Delivered)
                /\ wire' \in Seq(Packets) /\ sent' \in Seq(Packets) /\ read' \in Nat
                /\ Position'
  <2>1. <<>> \in Seq(Packets) /\ <<>> \in Seq(Delivered)
    BY EmptySeq
  <2>2. HangUp => failed' \in Reasons
    BY DEF HangUp, Reasons
  <2>3. HangUp => /\ received' \in Seq(Delivered)
                  /\ wire' \in Seq(Packets) /\ sent' \in Seq(Packets) /\ read' \in Nat
                  /\ Position'
    BY <2>1 DEF HangUp, Position
  <2>4. QED
    BY <2>2, <2>3
<1>4. CASE mqtt_codec_reset
  <2>1. clear_codec_data /\ HangUp /\ UNCHANGED <<alive, heap>>
    BY <1>4 DEF mqtt_codec_reset
  <2>2. currPacket' \in ControlPacketTypes
    BY <2>1 DEF clear_codec_data, ControlPacketTypes
  <2>3. QED
    BY <1>3, <2>1, <2>2, NoDigits DEF clear_codec_data, Decoder, World, InBounds
<1>5. CASE Lose
  BY <1>3, <1>5 DEF Lose, Decoder, World, InBounds, codec
<1>6. CASE mqtt_codec_destroy
  <2>1. heap' \in Nat
    BY <1>6 DEF mqtt_codec_destroy, Freed, Decoder
  <2>2. QED
    BY <1>6, <2>1 DEF mqtt_codec_destroy, Decoder, World, Position, InBounds, stream
<1>7. ASSUME NEW packet \in Packets, Transmit(packet) PROVE Inv'
  <2>1. sent' \in Seq(Packets) /\ wire' \in Seq(Packets)
    BY <1>7, AppendProperties DEF Transmit, World
  <2>2. Position'
    <3>1. CASE wire = <<>>
      BY <1>7, <3>1 DEF Transmit, World, Position
    <3>2. CASE wire # <<>>
      <4>1. wire' # <<>> /\ Head(wire') = Head(wire)
        BY <1>7, <3>2, AppendProperties, HeadTailProperties DEF Transmit, World
      <4>2. QED
        BY <1>7, <4>1 DEF Transmit, World, Position
    <3>3. QED
      BY <3>1, <3>2
  <2>3. QED
    BY <1>7, <2>1, <2>2 DEF Transmit, Decoder, World, InBounds, codec
<1>8. CASE UNCHANGED vars
  BY <1>8 DEF vars, codec, stream, Decoder, World, Position, InBounds
<1>9. QED
  BY <1>1, <1>2, <1>4, <1>5, <1>6, <1>7, <1>8 DEF Next

(***************************************************************************)
(* SRS_MQTT_CODEC_07_037: whatever a peer sends, however allocations fail, *)
(* and whether or not the caller resets the codec after an error, the      *)
(* decoder's fields keep their types, storeRemainLen its four bytes.       *)
(***************************************************************************)
THEOREM DecoderTypes == Spec => []TypeOK
<1>1. Spec => []Inv
  BY InvInit, InvNext, PTL DEF Spec
<1>2. QED
  BY <1>1, InvParts, PTL

(***************************************************************************)
(* mqtt_codec_bytesReceived: for every peer and every caller, each byte of *)
(* a body is written inside the buffer that was allocated for it.          *)
(***************************************************************************)
THEOREM WritesInBounds == Spec => []InBounds
<1>1. Spec => []Inv
  BY InvInit, InvNext, PTL DEF Spec
<1>2. QED
  BY <1>1, InvParts, PTL

-----------------------------------------------------------------------------
(* Why only mqtt_codec_reset loses a buffer: headerData holds one only in   *)
(* the middle of a packet, so the next one, which is allocated when the     *)
(* length of a packet ends, never takes its place.                          *)

OneAtATime == codecState = "FIXED_HEADER" => headerData = NoBuffer

\* Nothing is lost or freed twice.
Accounted == Lost' = Lost

LEMMA ByteAccounted == ASSUME Inv, OneAtATime, ReadByte PROVE OneAtATime' /\ Accounted
<1> DEFINE byte == NextByte
<1>1. byte \in Byte /\ heap \in Nat
  BY NextByteType DEF ReadByte, Inv, Decoder
<1> HIDE DEF byte
<1>2. CASE ReadType(byte) \/ LengthRefused(byte) \/ LengthContinues(byte) \/ BodyRefused
  <2>1. UNCHANGED <<codecState, headerData, heap>>
    BY <1>2 DEF ReadType, LengthRefused, LengthContinues, BodyRefused
  <2>2. QED
    BY <2>1 DEF OneAtATime, Accounted, Lost
<1>3. ASSUME NEW buffer, completePacketData(buffer), Freed(buffer) = Freed(headerData)
      PROVE  OneAtATime' /\ Accounted
  BY <1>1, <1>3 DEF completePacketData, OneAtATime, Accounted, Lost, Freed
<1>4. CASE LengthZero(byte)
  <2>1. CASE completePacketData(headerData)
    BY <1>3, <2>1
  <2>2. CASE codecState' = "VAR_HEADER" /\ UNCHANGED <<headerData, heap>>
    BY <2>2 DEF OneAtATime, Accounted, Lost
  <2>3. QED
    BY <1>4, <2>1, <2>2 DEF LengthZero
<1>5. CASE NewBuffer(byte)
  <2>1. headerData = NoBuffer /\ codecState' = "VAR_HEADER"
    BY <1>5 DEF NewBuffer, LengthEnds, ReadingLength, OneAtATime
  <2>2. TotalLen(Append(storeRemainLen, byte)) \in Nat
    BY <1>5, ConstantsAssumption DEF NewBuffer
  <2>3. <<>> # NoBuffer
    BY EmptySeq, ConstantsAssumption
  <2>4. \/ headerData' = NoBuffer /\ heap' = heap
        \/ headerData' # NoBuffer /\ heap' = heap + 1
    <3>1. CASE headerData' = NoBuffer /\ UNCHANGED heap
      BY <3>1
    <3>2. CASE headerData' = <<>> /\ heap' = heap + 1
      BY <2>3, <3>2
    <3>3. CASE /\ headerData' = [i \in 1 .. TotalLen(Append(storeRemainLen, byte)) |-> Unset]
               /\ heap' = heap + 1
      BY <2>2, <3>3, Fresh
    <3>4. QED
      BY <1>5, <3>1, <3>2, <3>3 DEF NewBuffer
  <2>5. QED
    BY <1>1, <2>1, <2>4 DEF OneAtATime, Accounted, Lost
<1>6. CASE ReadBody(byte)
  <2> DEFINE buffer == [headerData EXCEPT ![bufferOffset + 1] = byte]
  <2>1. headerData \in Seq(Cell) /\ headerData # NoBuffer
    BY <1>6 DEF ReadBody, Inv, Decoder
  <2>2. bufferOffset + 1 \in 1 .. Len(headerData)
    BY <1>6, <2>1, LenProperties DEF ReadBody, Inv, Decoder, InBounds
  <2>3. buffer # NoBuffer
    BY <1>1, <2>1, <2>2, Write
  <2>4. Freed(buffer) = Freed(headerData)
    BY <2>1, <2>3 DEF Freed
  <2>5. CASE completePacketData(buffer)
    BY <1>3, <2>4, <2>5
  <2>6. CASE headerData' = buffer /\ UNCHANGED <<codecState, heap>>
    <3>1. codecState' # "FIXED_HEADER"
      BY <1>6, <2>6 DEF ReadBody
    <3> HIDE DEF buffer
    <3>2. QED
      BY <2>1, <2>3, <2>6, <3>1 DEF OneAtATime, Accounted, Lost
  <2>7. QED
    BY <1>6, <2>5, <2>6 DEF ReadBody
<1>7. CASE NoBody
  BY <1>7 DEF NoBody, OneAtATime, Accounted, Lost
<1>8. QED
  BY <1>2, <1>4, <1>5, <1>6, <1>7 DEF ReadByte, byte

LEMMA StepAccounted ==
    ASSUME Inv, OneAtATime, [Next]_vars
    PROVE  OneAtATime' /\ (Lost' # Lost => mqtt_codec_reset /\ Lost' = Lost + 1)
<1> USE DEF Accounted
<1>1. CASE ReadByte
  BY <1>1, ByteAccounted
<1>2. CASE NoBytes \/ Lose \/ (\E packet \in Packets : Transmit(packet)) \/ UNCHANGED vars
  <2>1. UNCHANGED <<codecState, headerData, heap>>
    BY <1>2 DEF NoBytes, Lose, Transmit, vars, codec
  <2>2. QED
    BY <2>1 DEF OneAtATime, Lost
<1>3. CASE mqtt_codec_destroy
  <2>1. headerData' = NoBuffer /\ heap' = heap - Freed(headerData) /\ heap \in Nat
    BY <1>3 DEF mqtt_codec_destroy, Inv, Decoder
  <2>2. QED
    BY <2>1 DEF OneAtATime, Lost, Freed
<1>4. CASE mqtt_codec_reset
  <2>1. headerData' = NoBuffer /\ heap' = heap /\ heap \in Nat
    BY <1>4 DEF mqtt_codec_reset, clear_codec_data, Inv, Decoder
  <2>2. QED
    BY <1>4, <2>1 DEF OneAtATime, Lost
<1>5. QED
  BY <1>1, <1>2, <1>3, <1>4 DEF Next

(***************************************************************************)
(* SRS_MQTT_CODEC_07_004, as far as it is true: for every caller, the      *)
(* client's onBytesReceived included, whatever the peer sends and whatever *)
(* failed before, every buffer is freed once, by completePacketData or     *)
(* mqtt_codec_destroy, but those that mqtt_codec_reset forgets, one at     *)
(* most for each call.                                                     *)
(***************************************************************************)
THEOREM BuffersAccountedFor == Spec => OnlyResetLoses
<1>1. Init => OneAtATime
  BY DEF Init, OneAtATime
<1>2. Inv /\ OneAtATime /\ [Next]_vars => OneAtATime'
  BY StepAccounted
<1>3. Inv /\ OneAtATime /\ [Next]_vars
        => [Lost' # Lost => mqtt_codec_reset /\ Lost' = Lost + 1]_vars
  BY StepAccounted
<1>4. QED
  BY <1>1, <1>2, <1>3, InvInit, InvNext, PTL DEF Spec, OnlyResetLoses
=============================================================================
