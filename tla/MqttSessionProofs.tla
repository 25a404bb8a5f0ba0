-------------------------- MODULE MqttSessionProofs --------------------------
(* Theorems about MqttSession, for every value of its constants: what is     *)
(* received, whatever the application does, and what is published, if it     *)
(* publishes again on the same connection only where the clock cannot fail.  *)
EXTENDS MqttSession, SequenceTheorems, FiniteSetTheorems, TLAPS

USE DEF PUBLISH_TYPE, PUBACK_TYPE, PUBREC_TYPE, PUBREL_TYPE, PUBCOMP_TYPE, SUBSCRIBE_TYPE,
        SUBACK_TYPE, UNSUBSCRIBE_TYPE, UNSUBACK_TYPE, UNKNOWN_TYPE, FromSender, FromReceiver

Sendable ==
    [type : Nat, flags : Nat, id : Nat, content : Up \cup Down \cup Seq(Byte) \cup {NoPacket},
     whole : BOOLEAN]

-----------------------------------------------------------------------------
(* Packets of some kinds, in a sequence of packets.                        *)

\* None of them is of the flow of p.
Clear(packets, p) == \A q \in packets : ~Same(q, p)

LEMMA OfMember ==
    ASSUME NEW s, NEW kinds, NEW i \in DOMAIN s, Kind(s[i]) \in kinds
    PROVE  s[i] \in Of(s, kinds)
BY DEF Of

LEMMA OfIndex ==
    ASSUME NEW s, NEW kinds, NEW p \in Of(s, kinds)
    PROVE  \E i \in DOMAIN s : p = s[i] /\ Kind(p) \in kinds
BY DEF Of

LEMMA OfEmpty ==
    ASSUME NEW kinds
    PROVE  Of(<<>>, kinds) = {} /\ Alone(<<>>, kinds)
BY DEF Of, Alone

LEMMA OfAppend ==
    ASSUME NEW s \in Seq(Sendable), NEW p \in Sendable, NEW kinds
    PROVE  /\ Append(s, p) \in Seq(Sendable)
           /\ Of(Append(s, p), kinds) = IF Kind(p) \in kinds THEN Of(s, kinds) \cup {p}
                                        ELSE Of(s, kinds)
           /\ Alone(s, kinds) /\ (Kind(p) \in kinds => Clear(Of(s, kinds), p))
                => Alone(Append(s, p), kinds)
<1> DEFINE t == Append(s, p)
<1>1. /\ t \in Seq(Sendable) /\ Len(t) = Len(s) + 1 /\ Len(s) \in Nat
      /\ DOMAIN s = 1 .. Len(s) /\ DOMAIN t = 1 .. Len(s) + 1
      /\ \A i \in 1 .. Len(s) : t[i] = s[i]
      /\ t[Len(s) + 1] = p
  BY AppendProperties, LenProperties
<1> HIDE DEF t
<1>2. Of(s, kinds) \subseteq Of(t, kinds)
  <2> SUFFICES ASSUME NEW q \in Of(s, kinds) PROVE q \in Of(t, kinds)
    OBVIOUS
  <2>1. PICK i \in 1 .. Len(s) : q = s[i] /\ Kind(q) \in kinds
    BY <1>1, OfIndex
  <2>2. i \in DOMAIN t /\ q = t[i]
    BY <1>1, <2>1
  <2>3. QED
    BY <2>1, <2>2, OfMember
<1>3. Kind(p) \in kinds => p \in Of(t, kinds)
  <2>1. Len(s) + 1 \in DOMAIN t
    BY <1>1
  <2>2. QED
    BY <1>1, <2>1, OfMember
<1>4. ASSUME NEW q \in Of(t, kinds) PROVE q \in Of(s, kinds) \/ (q = p /\ Kind(p) \in kinds)
  <2>1. PICK i \in 1 .. Len(s) + 1 : q = t[i] /\ Kind(q) \in kinds
    BY <1>1, OfIndex
  <2>2. CASE i = Len(s) + 1
    BY <1>1, <2>1, <2>2
  <2>3. CASE i \in 1 .. Len(s)
    BY <1>1, <2>1, <2>3, OfMember
  <2>4. QED
    BY <1>1, <2>2, <2>3
<1>5. ASSUME Alone(s, kinds), Kind(p) \in kinds => Clear(Of(s, kinds), p),
             NEW i \in 1 .. Len(s) + 1, NEW j \in 1 .. Len(s) + 1,
             Kind(t[i]) \in kinds, Kind(t[j]) \in kinds, Same(t[i], t[j])
      PROVE  i = j
  <2>1. ASSUME NEW k \in 1 .. Len(s), Kind(t[k]) \in kinds, Kind(p) \in kinds
        PROVE  ~Same(t[k], p) /\ ~Same(p, t[k])
    <3>1. t[k] \in Of(s, kinds)
      BY <1>1, <2>1, OfMember
    <3>2. ~Same(t[k], p)
      BY <1>5, <2>1, <3>1 DEF Clear
    <3>3. QED
      BY <3>2 DEF Same
  <2>2. CASE i \in 1 .. Len(s) /\ j \in 1 .. Len(s)
    BY <1>1, <1>5, <2>2 DEF Alone
  <2>3. CASE i = Len(s) + 1 /\ j # Len(s) + 1
    BY <1>1, <1>5, <2>1, <2>3
  <2>4. CASE j = Len(s) + 1 /\ i # Len(s) + 1
    BY <1>1, <1>5, <2>1, <2>4
  <2>5. QED
    BY <1>1, <2>2, <2>3, <2>4
<1>6. QED
  BY <1>1, <1>2, <1>3, <1>4, <1>5 DEF Alone, t

LEMMA OfAdded ==
    ASSUME NEW s \in Seq(Sendable), NEW p \in Sendable, NEW kinds, Clear(Of(s, kinds), p)
    PROVE  /\ Of(Append(s, p), kinds) \subseteq Of(s, kinds) \cup {p}
           /\ Alone(s, kinds) => Alone(Append(s, p), kinds)
<1>1. Of(Append(s, p), kinds) \subseteq Of(s, kinds) \cup {p}
  BY OfAppend
<1>2. Alone(s, kinds) => Alone(Append(s, p), kinds)
  BY OfAppend
<1>3. QED
  BY <1>1, <1>2

LEMMA OfTail ==
    ASSUME NEW s \in Seq(Sendable), s # <<>>, NEW kinds
    PROVE  /\ Tail(s) \in Seq(Sendable) /\ Head(s) \in Sendable
           /\ Of(Tail(s), kinds) \subseteq Of(s, kinds)
           /\ Kind(Head(s)) \in kinds => Head(s) \in Of(s, kinds)
           /\ Alone(s, kinds) => Alone(Tail(s), kinds)
           /\ Alone(s, kinds) /\ Kind(Head(s)) \in kinds => Clear(Of(Tail(s), kinds), Head(s))
<1> DEFINE t == Tail(s)
<1>1. /\ t \in Seq(Sendable) /\ Head(s) \in Sendable /\ Head(s) = s[1]
      /\ Len(s) \in Nat \ {0} /\ DOMAIN s = 1 .. Len(s) /\ DOMAIN t = 1 .. Len(s) - 1
      /\ \A i \in 1 .. Len(s) - 1 : t[i] = s[i + 1]
  BY HeadTailProperties, LenProperties, EmptySeq
<1> HIDE DEF t
<1>2. ASSUME NEW i \in DOMAIN t PROVE i + 1 \in DOMAIN s /\ i + 1 # 1 /\ t[i] = s[i + 1]
  BY <1>1
<1>3. ASSUME NEW q \in Of(t, kinds) PROVE q \in Of(s, kinds)
  BY <1>2, OfIndex, OfMember
<1>4. 1 \in DOMAIN s
  BY <1>1
<1>5. Kind(Head(s)) \in kinds => Head(s) \in Of(s, kinds)
  BY <1>1, <1>4, OfMember
<1>6. ASSUME Alone(s, kinds) PROVE Alone(t, kinds)
  <2> SUFFICES ASSUME NEW i \in DOMAIN t, NEW j \in DOMAIN t,
                      Kind(t[i]) \in kinds, Kind(t[j]) \in kinds, Same(t[i], t[j])
               PROVE  i = j
    BY DEF Alone
  <2>1. i + 1 = j + 1
    BY <1>2, <1>6 DEF Alone
  <2>2. QED
    BY <1>1, <2>1
<1>7. ASSUME Alone(s, kinds), Kind(Head(s)) \in kinds PROVE Clear(Of(t, kinds), Head(s))
  <2> SUFFICES ASSUME NEW q \in Of(t, kinds), Same(q, Head(s)) PROVE FALSE
    BY DEF Clear
  <2>1. PICK i \in DOMAIN t : q = t[i] /\ Kind(q) \in kinds
    BY OfIndex
  <2>2. QED
    BY <1>1, <1>2, <1>4, <1>7, <2>1 DEF Alone
<1>8. QED
  BY <1>1, <1>3, <1>5, <1>6, <1>7 DEF t

\* What is left of some packets, apart from those of other kinds.
Within(t, s, kinds) ==
    Of(t, kinds) \subseteq Of(s, kinds) /\ (Alone(s, kinds) => Alone(t, kinds))

LEMMA WithinSame == ASSUME NEW s, NEW kinds PROVE Within(s, s, kinds)
BY DEF Within

LEMMA WithinAppend ==
    ASSUME NEW s \in Seq(Sendable), NEW p \in Sendable, NEW kinds, Kind(p) \notin kinds
    PROVE  Within(Append(s, p), s, kinds)
BY OfAppend DEF Within

LEMMA WithinTail ==
    ASSUME NEW s \in Seq(Sendable), s # <<>>, NEW kinds
    PROVE  Within(Tail(s), s, kinds)
BY OfTail DEF Within

-----------------------------------------------------------------------------
(* The packets to the client, of which it may have been given some.        *)

Channels ==
    /\ chunk \in Seq(Sendable) /\ toBroker \in Seq(Sendable) /\ toClient \in Seq(Sendable)
    /\ handling # NoPacket => handling \in Sendable /\ handling.whole
    /\ Of(toBroker, {UNKNOWN_TYPE}) = {}
    /\ \A p \in Of(toBroker, {PUBLISH_TYPE}) : p.content \in Up /\ p.id \in UpId

LEMMA IncomingType == Channels => incoming \in Seq(Sendable)
BY ConcatProperties DEF Channels, incoming

LEMMA IncomingAppend ==
    ASSUME Channels, NEW p \in Sendable, toClient' = Append(toClient, p), UNCHANGED chunk
    PROVE  incoming' = Append(incoming, p) /\ toClient' \in Seq(Sendable)
<1>1. <<p>> \in Seq(Sendable)
  OBVIOUS
<1>2. Append(toClient, p) = toClient \o <<p>> /\ Append(incoming, p) = incoming \o <<p>>
  BY IncomingType, AppendIsConcat DEF Channels
<1>3. chunk \o (toClient \o <<p>>) = (chunk \o toClient) \o <<p>>
  BY <1>1, ConcatAssociative DEF Channels
<1>4. toClient' \in Seq(Sendable)
  BY AppendProperties DEF Channels
<1>5. QED
  BY <1>2, <1>3, <1>4 DEF incoming

LEMMA IncomingTail ==
    ASSUME Channels, chunk # <<>>, chunk' = Tail(chunk), UNCHANGED toClient
    PROVE  /\ incoming # <<>> /\ Head(incoming) = Head(chunk) /\ incoming' = Tail(incoming)
           /\ chunk' \in Seq(Sendable) /\ Head(chunk) \in Sendable
<1>1. /\ Len(chunk) \in Nat \ {0} /\ Len(toClient) \in Nat
      /\ chunk' \in Seq(Sendable) /\ Head(chunk) \in Sendable /\ Len(chunk') = Len(chunk) - 1
      /\ \A i \in 1 .. Len(chunk) - 1 : chunk'[i] = chunk[i + 1]
      /\ Head(chunk) = chunk[1]
  BY HeadTailProperties, LenProperties, EmptySeq DEF Channels
<1>2. /\ incoming \in Seq(Sendable) /\ Len(incoming) = Len(chunk) + Len(toClient)
      /\ \A i \in 1 .. Len(chunk) + Len(toClient) :
            incoming[i] = IF i <= Len(chunk) THEN chunk[i] ELSE toClient[i - Len(chunk)]
  BY ConcatProperties DEF Channels, incoming
<1>3. /\ chunk' \o toClient \in Seq(Sendable)
      /\ Len(chunk' \o toClient) = Len(chunk) - 1 + Len(toClient)
      /\ \A i \in 1 .. Len(chunk) - 1 + Len(toClient) :
            (chunk' \o toClient)[i] =
                IF i <= Len(chunk) - 1 THEN chunk'[i] ELSE toClient[i - (Len(chunk) - 1)]
  BY <1>1, ConcatProperties DEF Channels
<1>4. incoming # <<>> /\ Head(incoming) = incoming[1]
  <2>1. Len(incoming) # 0
    BY <1>1, <1>2
  <2>2. QED
    BY <1>2, <2>1, EmptySeq
<1>5. Head(incoming) = Head(chunk)
  BY <1>1, <1>2, <1>4
<1>6. /\ Tail(incoming) \in Seq(Sendable) /\ Len(Tail(incoming)) = Len(chunk) - 1 + Len(toClient)
      /\ \A i \in 1 .. Len(chunk) - 1 + Len(toClient) : Tail(incoming)[i] = incoming[i + 1]
  BY <1>1, <1>2, <1>4, HeadTailProperties
<1>7. ASSUME NEW i \in 1 .. Len(chunk) - 1 + Len(toClient)
      PROVE  (chunk' \o toClient)[i] = Tail(incoming)[i]
  <2>1. i + 1 \in 1 .. Len(chunk) + Len(toClient) /\ i \in Nat
    BY <1>1
  <2>2. CASE i <= Len(chunk) - 1
    <3>1. i \in 1 .. Len(chunk) - 1 /\ i + 1 <= Len(chunk)
      BY <1>1, <2>1, <2>2
    <3>2. QED
      BY <1>1, <1>2, <1>3, <1>6, <2>1, <3>1
  <2>3. CASE ~(i <= Len(chunk) - 1)
    <3>1. ~(i + 1 <= Len(chunk)) /\ i - (Len(chunk) - 1) = i + 1 - Len(chunk)
      BY <1>1, <2>1, <2>3
    <3>2. QED
      BY <1>2, <1>3, <1>6, <2>1, <2>3, <3>1
  <2>4. QED
    BY <2>2, <2>3
<1>8. chunk' \o toClient = Tail(incoming)
  BY <1>3, <1>6, <1>7, SeqEqual
<1>9. QED
  BY <1>1, <1>4, <1>5, <1>8 DEF incoming

LEMMA IncomingCut ==
    ASSUME Channels, BytesReceived
    PROVE  /\ incoming' = incoming
           /\ chunk' \in Seq(Sendable) /\ toClient' \in Seq(Sendable)
<1>1. PICK n \in 1 .. Len(toClient) :
            /\ chunk' = SubSeq(toClient, 1, n)
            /\ toClient' = SubSeq(toClient, n + 1, Len(toClient))
  BY DEF BytesReceived
<1>2. toClient \in Seq(Sendable) /\ Len(toClient) \in Nat
  BY LenProperties DEF Channels
<1>3. chunk' \o toClient' = SubSeq(toClient, 1, Len(toClient))
  <2>1. /\ 1 \in 1 .. Len(toClient) + 1 /\ n \in 1 - 1 .. Len(toClient)
        /\ Len(toClient) \in n .. Len(toClient)
    BY <1>2
  <2>2. QED
    BY <1>1, <1>2, <2>1, ConcatAdjacentSubSeq
<1>4. incoming = toClient
  BY <1>2, ConcatEmptySeq DEF BytesReceived, incoming
<1>5. \A i \in 1 .. Len(toClient) : toClient[i] \in Sendable
  BY <1>2, ElementOfSeq
<1>6. chunk' \in Seq(Sendable)
  <2>1. \A i \in 1 .. n : toClient[i] \in Sendable
    BY <1>2, <1>5
  <2>2. QED
    BY <1>1, <2>1, SubSeqProperties
<1>7. toClient' \in Seq(Sendable)
  <2>1. \A i \in n + 1 .. Len(toClient) : toClient[i] \in Sendable
    BY <1>2, <1>5
  <2>2. QED
    BY <1>1, <1>2, <2>1, SubSeqProperties
<1>8. QED
  BY <1>2, <1>3, <1>4, <1>6, <1>7, SubSeqFull DEF incoming

-----------------------------------------------------------------------------
(* What the invariant says of types, and what a step sends.                *)

Identified == \A m \in Up : state[m] \in InFlight => upId[m] \in UpId

Typed == TypeOK /\ Channels /\ Identified

LEMMA Constants ==
    /\ Up \cap Down = {} /\ IsFiniteSet(Down)
    /\ \A m \in Up \cup Down : Qos[m] \in {0, 1, 2}
    /\ \A m \in Up : Qos[m] \in {1, 2}
    /\ UpId \subseteq Nat \ {0} /\ DownId \subseteq Nat \ {0}
BY SessionAssumption

LEMMA PacketMade ==
    ASSUME NEW type \in Nat, NEW flags \in Nat, NEW id \in Nat,
           NEW content \in Up \cup Down \cup Seq(Byte) \cup {NoPacket},
           NEW p, p = Packet(type, flags, id, content)
    PROVE  /\ p \in Sendable /\ Kind(p) = type
           /\ p.type = type /\ p.flags = flags /\ p.id = id /\ p.content = content
BY DEF Packet, Sendable, Kind

LEMMA AnswerMade ==
    ASSUME NEW type \in Nat, NEW id \in Nat, NEW p, p = Answer(type, id)
    PROVE  p \in Sendable /\ Kind(p) = type /\ p.type = type /\ p.id = id /\ p.content = NoPacket
BY PacketMade DEF Answer

LEMMA KindOfWhole ==
    ASSUME NEW p, Kind(p) # UNKNOWN_TYPE
    PROVE  Kind(p) = p.type /\ p.whole
BY DEF Kind

\* What became of a packet that the client or the application wanted to send.
SentOrNot(p) == toBroker' = toBroker \/ (toBroker' = Append(toBroker, p) /\ connected)
Reported == UNCHANGED <<connected, reported>> \/ (connected' = FALSE /\ reported' = TRUE)

LEMMA SendEffect ==
    ASSUME NEW p, NEW result, sendPacketItem(p, result) \/ NotBuilt
    PROVE  SentOrNot(p)
BY DEF sendPacketItem, NotBuilt, Accepted, SentOrNot

LEMMA AnswerEffect ==
    ASSUME NEW type, NEW id, SendAnswer(type, id)
    PROVE  SentOrNot(Answer(type, id)) /\ Reported
BY SendEffect DEF SendAnswer, set_error_callback, Reported

LEMMA SentType ==
    ASSUME Channels, NEW p \in Sendable, SentOrNot(p)
    PROVE  toBroker' \in Seq(Sendable)
BY AppendProperties DEF Channels, SentOrNot

LEMMA SentWithin ==
    ASSUME Channels, NEW p \in Sendable, SentOrNot(p), NEW kinds, Kind(p) \notin kinds
    PROVE  Within(toBroker', toBroker, kinds)
BY WithinSame, WithinAppend DEF Channels, SentOrNot

-----------------------------------------------------------------------------
(* Publishing: one packet at a time.                                       *)

LEMMA UpRest ==
    ASSUME UpOneAtATime,
           Within(toBroker', toBroker, FromSender), Within(incoming', incoming, FromReceiver),
           InHand({PUBREC_TYPE})' \subseteq InHand({PUBREC_TYPE})
    PROVE  UpOneAtATime'
BY DEF UpOneAtATime, Within, Apart

UnderWay ==
    Of(toBroker, FromSender) \cup Of(incoming, FromReceiver) \cup InHand({PUBREC_TYPE})

\* A call of mqtt_client_publish that failed left nothing of its message under way.
NotSent == \A m \in Up : state[m] = "unsure" => \A p \in UnderWay : p.id # upId[m]

\* Which is so unless a clock failed after the packet went out.
UpKept == UpFlow' /\ ("clock" \notin Faults /\ NotSent => NotSent')

LEMMA StillNotSent ==
    ASSUME NotSent, UNCHANGED upId,
           \A m \in Up : state'[m] = "unsure" => state[m] = "unsure",
           \A p \in UnderWay' : \E q \in UnderWay : q.id = p.id
    PROVE  NotSent'
BY DEF NotSent

LEMMA UpUndisturbed ==
    ASSUME UpFlow, UNCHANGED <<state, upId, passed, held>>,
           Within(toBroker', toBroker, FromSender), Within(incoming', incoming, FromReceiver),
           InHand({PUBREC_TYPE})' \subseteq InHand({PUBREC_TYPE})
    PROVE  UpKept
<1>1. UpMessages'
  BY DEF UpFlow, UpMessages, UpMessage
<1>2. UpPackets'
  <2>1. \A p \in Of(toBroker', FromSender) : UpOut(p)'
    BY DEF UpFlow, UpPackets, UpOut, Within
  <2>2. \A p \in Of(incoming', FromReceiver) : UpIn(p)'
    BY DEF UpFlow, UpPackets, UpIn, Within
  <2>3. \A p \in InHand({PUBREC_TYPE})' : UpInHand(p)'
    BY DEF UpFlow, UpPackets, UpInHand
  <2>4. QED
    BY <2>1, <2>2, <2>3 DEF UpPackets
<1>3. UpOneAtATime'
  BY UpRest DEF UpFlow
<1>4. ASSUME NotSent PROVE NotSent'
  <2>1. UnderWay' \subseteq UnderWay
    BY DEF UnderWay, Within
  <2>2. QED
    BY <1>4, <2>1, StillNotSent
<1>5. QED
  BY <1>1, <1>2, <1>3, <1>4 DEF UpFlow, UpKept

\* A packet that goes out after what was there for its message has gone.
LEMMA UpOutAdded ==
    ASSUME Channels, UpOneAtATime, NEW p \in Sendable, SentOrNot(p),
           Within(incoming', incoming, FromReceiver),
           InHand({PUBREC_TYPE})' \subseteq InHand({PUBREC_TYPE}),
           Clear(Of(toBroker, FromSender), p), Clear(Of(incoming', FromReceiver), p),
           Clear(InHand({PUBREC_TYPE})', p)
    PROVE  UpOneAtATime' /\ Of(toBroker', FromSender) \subseteq Of(toBroker, FromSender) \cup {p}
<1>1. CASE toBroker' = toBroker
  BY <1>1, UpRest, WithinSame
<1>2. CASE toBroker' = Append(toBroker, p)
  <2>1. /\ Of(toBroker', FromSender) \subseteq Of(toBroker, FromSender) \cup {p}
        /\ Alone(toBroker, FromSender) => Alone(toBroker', FromSender)
    BY <1>2, OfAdded DEF Channels
  <2>2. UpOneAtATime'
    BY <2>1 DEF UpOneAtATime, Within, Apart, Clear, Same
  <2>3. QED
    BY <2>1, <2>2
<1>3. QED
  BY <1>1, <1>2 DEF SentOrNot

LEMMA UpInAdded ==
    ASSUME Channels, UpOneAtATime, NEW p \in Sendable, incoming' = Append(incoming, p),
           Within(toBroker', toBroker, FromSender),
           InHand({PUBREC_TYPE})' \subseteq InHand({PUBREC_TYPE}),
           Clear(Of(toBroker', FromSender), p), Clear(Of(incoming, FromReceiver), p),
           Clear(InHand({PUBREC_TYPE})', p)
    PROVE  UpOneAtATime' /\ Of(incoming', FromReceiver) \subseteq Of(incoming, FromReceiver) \cup {p}
<1>1. /\ Of(incoming', FromReceiver) \subseteq Of(incoming, FromReceiver) \cup {p}
      /\ Alone(incoming, FromReceiver) => Alone(incoming', FromReceiver)
  BY IncomingType, OfAdded
<1>2. UpOneAtATime'
  BY <1>1 DEF UpOneAtATime, Within, Apart, Clear, Same
<1>3. QED
  BY <1>1, <1>2

-----------------------------------------------------------------------------
(* Taking a packet from the connection.                                    *)

LEMMA BrokerReads ==
    ASSUME Channels, NEW types, Received(types), NEW h, h = Head(toBroker), NEW kinds
    PROVE  /\ h \in Sendable /\ h.type \in types /\ Kind(h) = h.type
           /\ toBroker' \in Seq(Sendable)
           /\ Within(toBroker', toBroker, kinds)
           /\ Kind(h) \in kinds => h \in Of(toBroker, kinds)
           /\ Kind(h) \in kinds /\ Alone(toBroker, kinds) => Clear(Of(toBroker', kinds), h)
<1>1. toBroker \in Seq(Sendable) /\ toBroker # <<>> /\ toBroker' = Tail(toBroker)
      /\ h.type \in types
  BY DEF Received, Channels
<1>2. Kind(h) # UNKNOWN_TYPE
  <2>1. Kind(h) \in {UNKNOWN_TYPE} => h \in Of(toBroker, {UNKNOWN_TYPE})
    BY <1>1, OfTail
  <2>2. QED
    BY <2>1 DEF Channels
<1>3. Kind(h) = h.type
  BY <1>2, KindOfWhole
<1>4. QED
  BY <1>1, <1>3, OfTail, WithinTail

LEMMA ClientReads ==
    ASSUME Channels, NEW type, Incoming(type), type # UNKNOWN_TYPE,
           NEW h, h = Head(chunk), NEW kinds
    PROVE  /\ h \in Sendable /\ h.type = type /\ Kind(h) = type
           /\ chunk' \in Seq(Sendable)
           /\ Within(incoming', incoming, kinds)
           /\ type \in kinds => h \in Of(incoming, kinds)
           /\ type \in kinds /\ Alone(incoming, kinds) => Clear(Of(incoming', kinds), h)
<1>1. chunk # <<>> /\ chunk' = Tail(chunk) /\ UNCHANGED toClient /\ h.type = type /\ h.whole
  BY DEF Incoming
<1>2. /\ incoming # <<>> /\ Head(incoming) = h /\ incoming' = Tail(incoming)
      /\ chunk' \in Seq(Sendable) /\ h \in Sendable
  BY <1>1, IncomingTail
<1>3. incoming \in Seq(Sendable) /\ Kind(h) = type
  BY <1>1, IncomingType DEF Kind
<1>4. QED
  BY <1>1, <1>2, <1>3, OfTail, WithinTail

LEMMA BrokerAnswers ==
    ASSUME Channels, NEW type \in Nat, NEW id \in Nat, Reply(type, id), UNCHANGED chunk
    PROVE  /\ Answer(type, id) \in Sendable /\ incoming' = Append(incoming, Answer(type, id))
           /\ toClient' \in Seq(Sendable)
BY AnswerMade, IncomingAppend DEF Reply

-----------------------------------------------------------------------------
(* Publishing, action by action.                                           *)

LEMMA UpOwner ==
    ASSUME UpPackets,
           NEW p \in Of(toBroker, FromSender) \cup Of(incoming, FromReceiver) \cup InHand({PUBREC_TYPE})
    PROVE  \E m \in Up : upId[m] = p.id /\ state[m] \in {"sent", "unsure", "received"}
<1>1. CASE p \in Of(toBroker, FromSender)
  BY <1>1 DEF UpPackets, UpOut
<1>2. CASE p \in Of(incoming, FromReceiver)
  BY <1>2 DEF UpPackets, UpIn
<1>3. CASE p \in InHand({PUBREC_TYPE})
  BY <1>3 DEF UpPackets, UpInHand
<1>4. QED
  BY <1>1, <1>2, <1>3

LEMMA FlagsType ==
    ASSUME NEW qos \in {0, 1, 2}, NEW duplicate \in BOOLEAN
    PROVE  PublishFlags(qos, duplicate, FALSE) \in Nat
BY DEF PublishFlags, DELIVER_AT_MOST_ONCE, DELIVER_AT_LEAST_ONCE, DELIVER_EXACTLY_ONCE

LEMMA UpPublish ==
    ASSUME Typed, UpFlow, NEW m \in Up, NEW id \in UpId, NEW duplicate \in BOOLEAN,
           mqtt_client_publish(m, id, duplicate),
           \/ state[m] = "new" /\ \A n \in Up : state[n] \in InFlight => upId[n] # id
           \/ state[m] = "again" /\ id = upId[m]
           \/ state[m] = "unsure" /\ id = upId[m] /\ NotSent
    PROVE  UpKept
<1> DEFINE p == Packet(PUBLISH_TYPE, PublishFlags(Qos[m], duplicate, FALSE), id, m)
<1>1. p \in Sendable /\ Kind(p) = PUBLISH_TYPE /\ p.type = PUBLISH_TYPE /\ p.id = id /\ p.content = m
  <2>1. Qos[m] \in {0, 1, 2} /\ id \in Nat
    BY Constants
  <2>2. PublishFlags(Qos[m], duplicate, FALSE) \in Nat
    BY <2>1, FlagsType
  <2> DEFINE flags == PublishFlags(Qos[m], duplicate, FALSE)
  <2> HIDE DEF flags
  <2>3. QED
    BY <2>1, <2>2 DEF Packet, Sendable, Kind, flags
<1>2. /\ SentOrNot(p) /\ UNCHANGED <<incoming, handling, passed, held>>
      /\ state' \in {[state EXCEPT ![m] = "sent"], [state EXCEPT ![m] = "unsure"]}
      /\ upId' = [upId EXCEPT ![m] = id]
  BY SendEffect DEF mqtt_client_publish, client, broker, incoming
<1> HIDE DEF p
<1>3. /\ state \in [Up -> InFlight \cup {"absent", "new", "done"}] /\ upId \in [Up -> UpId \cup {0}]
      /\ state[m] \in {"new", "again", "unsure"}
  BY DEF Typed, TypeOK
<1>4. /\ state'[m] \in {"sent", "unsure"} /\ upId'[m] = id
      /\ \A n \in Up : n # m => state'[n] = state[n] /\ upId'[n] = upId[n]
  BY <1>2, <1>3
<1>5. ASSUME NEW n \in Up, state[n] \in InFlight, upId[n] = id PROVE n = m
  BY <1>5 DEF UpFlow, UpMessages, InFlight
<1>6. ASSUME NEW q \in Of(toBroker, FromSender) \cup Of(incoming, FromReceiver) \cup InHand({PUBREC_TYPE})
      PROVE  \E n \in Up \ {m} : upId[n] = q.id /\ q.id # id
  <2>1. PICK n \in Up : upId[n] = q.id /\ state[n] \in {"sent", "unsure", "received"}
    BY UpOwner DEF UpFlow
  <2>2. n # m /\ state[n] \in InFlight
    <3>1. state[m] = "unsure" /\ NotSent => q.id # upId[m]
      BY DEF NotSent, UnderWay
    <3>2. QED
      BY <2>1, <3>1 DEF InFlight
  <2>3. QED
    BY <1>5, <2>1, <2>2
<1>7. /\ UpOneAtATime' /\ Of(toBroker', FromSender) \subseteq Of(toBroker, FromSender) \cup {p}
      /\ Of(incoming', FromReceiver) = Of(incoming, FromReceiver)
      /\ InHand({PUBREC_TYPE})' = InHand({PUBREC_TYPE})
  <2>1. /\ Of(incoming', FromReceiver) = Of(incoming, FromReceiver)
        /\ InHand({PUBREC_TYPE})' = InHand({PUBREC_TYPE})
        /\ Within(incoming', incoming, FromReceiver)
    BY <1>2 DEF InHand, Within
  <2>2. /\ Clear(Of(toBroker, FromSender), p) /\ Clear(Of(incoming', FromReceiver), p)
        /\ Clear(InHand({PUBREC_TYPE})', p)
    BY <1>1, <1>6, <2>1 DEF Clear, Same
  <2>3. QED
    BY <1>1, <1>2, <2>1, <2>2, UpOutAdded DEF Typed, UpFlow
<1>8. UpMessages'
  <2>1. ASSUME NEW n \in Up PROVE UpMessage(n)'
    <3>1. CASE n # m
      BY <1>2, <1>4, <3>1 DEF UpFlow, UpMessages, UpMessage
    <3>2. CASE n = m
      <4>1. UpMessage(m) /\ passed'[m] = passed[m] /\ held' = held
        BY <1>2 DEF UpFlow, UpMessages
      <4>2. Qos[m] = 2 => (passed[m] > 0 <=> id \in held)
        <5>1. CASE state[m] = "new"
          <6>1. passed[m] = 0
            BY <4>1, <5>1 DEF UpMessage
          <6>2. id \notin held
            BY <5>1 DEF UpFlow, UpMessages
          <6>3. QED
            BY <6>1, <6>2
        <5>2. CASE state[m] \in {"again", "unsure"} /\ id = upId[m]
          BY <4>1, <5>2 DEF UpMessage
        <5>3. QED
          BY <5>1, <5>2
      <4>3. QED
        BY <1>4, <3>2, <4>1, <4>2 DEF UpMessage
    <3>3. QED
      BY <3>1, <3>2
  <2>2. ASSUME NEW n \in Up, NEW o \in Up, {state'[n], state'[o]} \subseteq InFlight, upId'[n] = upId'[o]
        PROVE  n = o
    BY <1>4, <1>5, <2>2 DEF UpFlow, UpMessages
  <2>3. ASSUME NEW i \in held'
        PROVE  \E n \in Up : state'[n] \in InFlight /\ upId'[n] = i /\ Qos[n] = 2
    <3>1. PICK n \in Up : state[n] \in InFlight /\ upId[n] = i /\ Qos[n] = 2
      BY <1>2, <2>3 DEF UpFlow, UpMessages
    <3>2. state'[n] \in InFlight /\ upId'[n] = i
      <4>1. CASE n # m
        BY <1>4, <3>1, <4>1
      <4>2. CASE n = m
        BY <1>3, <1>4, <3>1, <4>2 DEF InFlight
      <4>3. QED
        BY <4>1, <4>2
    <3>3. QED
      BY <3>1, <3>2
  <2>4. QED
    BY <2>1, <2>2, <2>3 DEF UpMessages
<1>9. UpPackets'
  <2>1. ASSUME NEW q \in Of(toBroker', FromSender) PROVE UpOut(q)'
    <3>1. CASE q = p
      BY <1>1, <1>4, <3>1 DEF UpOut
    <3>2. CASE q \in Of(toBroker, FromSender)
      BY <1>4, <1>6, <3>2 DEF UpFlow, UpPackets, UpOut, InFlight
    <3>3. QED
      BY <1>7, <3>1, <3>2
  <2>2. ASSUME NEW q \in Of(incoming', FromReceiver) PROVE UpIn(q)'
    BY <1>2, <1>3, <1>4, <1>7 DEF UpFlow, UpPackets, UpIn
  <2>3. ASSUME NEW q \in InHand({PUBREC_TYPE})' PROVE UpInHand(q)'
    BY <1>3, <1>4, <1>7 DEF UpFlow, UpPackets, UpInHand
  <2>4. QED
    BY <2>1, <2>2, <2>3 DEF UpPackets
<1>10. ASSUME "clock" \notin Faults, NotSent PROVE NotSent'
  <2> SUFFICES ASSUME NEW n \in Up, state'[n] = "unsure", NEW q \in UnderWay' PROVE q.id # upId'[n]
    BY DEF NotSent
  <2>1. CASE n = m
    <3>1. toBroker' = toBroker
      <4>1. state' # [state EXCEPT ![m] = "sent"]
        BY <1>3, <2>1
      <4>2. QED
        BY <1>10, <4>1 DEF mqtt_client_publish, sendPacketItem, NotBuilt
    <3>2. q \in UnderWay
      BY <1>7, <3>1 DEF UnderWay
    <3>3. QED
      BY <1>4, <1>6, <2>1, <3>2 DEF UnderWay
  <2>2. CASE n # m
    <3>1. state[n] = "unsure" /\ upId'[n] = upId[n] /\ upId[n] # id
      BY <1>4, <1>5, <2>2 DEF InFlight
    <3>2. q \in UnderWay \/ q = p
      BY <1>7 DEF UnderWay
    <3>3. QED
      BY <1>1, <1>10, <3>1, <3>2 DEF NotSent
  <2>3. QED
    BY <2>1, <2>2
<1>11. QED
  BY <1>7, <1>8, <1>9, <1>10 DEF UpFlow, UpKept

LEMMA UpBrokerPublish ==
    ASSUME Typed, UpFlow, BrokerPublish
    PROVE  UpKept
<1> DEFINE h == Head(toBroker)
           m == h.content
           type == IF Qos[m] = 2 THEN PUBREC_TYPE ELSE PUBACK_TYPE
           p == Answer(type, h.id)
<1>1. /\ h \in Sendable /\ Kind(h) = PUBLISH_TYPE /\ h.type = PUBLISH_TYPE
      /\ Within(toBroker', toBroker, FromSender)
      /\ h \in Of(toBroker, FromSender) /\ Clear(Of(toBroker', FromSender), h)
  BY BrokerReads DEF BrokerPublish, Typed, UpFlow, UpOneAtATime
<1>2. /\ Reply(type, h.id)
      /\ passed' = IF Qos[m] = 2 /\ h.id \in held THEN passed ELSE [passed EXCEPT ![m] = @ + 1]
      /\ held' = IF Qos[m] = 2 THEN held \cup {h.id} ELSE held
      /\ UNCHANGED <<chunk, handling, state, upId>>
  BY DEF BrokerPublish, Received, client, application, publishing
<1>3. m \in Up /\ upId[m] = h.id /\ state[m] \in {"sent", "unsure"}
  BY <1>1 DEF UpFlow, UpPackets, UpOut
<1>4. /\ h.id \in UpId /\ h.id \in Nat /\ h.id # 0 /\ Qos[m] \in {1, 2}
      /\ UpMessage(m) /\ passed \in [Up -> Nat]
  BY <1>3, Constants DEF UpFlow, UpMessages, UpMessage, InFlight, Typed, TypeOK
<1>5. p \in Sendable /\ p.id = h.id /\ p.type = type /\ incoming' = Append(incoming, p)
  <2>1. type \in Nat
    OBVIOUS
  <2> HIDE DEF type
  <2>2. QED
    BY <1>2, <1>4, <2>1, AnswerMade, BrokerAnswers DEF Typed
<1> HIDE DEF h, p
<1>6. InHand({PUBREC_TYPE})' = InHand({PUBREC_TYPE})
  BY <1>2 DEF InHand
<1>7. ASSUME NEW q, Same(q, p) PROVE Same(q, h) /\ Same(h, q)
  BY <1>4, <1>5, <1>7 DEF Same
<1>8. UpOneAtATime' /\ Of(incoming', FromReceiver) \subseteq Of(incoming, FromReceiver) \cup {p}
  <2>1. Clear(Of(toBroker', FromSender), p)
    BY <1>1, <1>7 DEF Clear
  <2>2. Clear(Of(incoming, FromReceiver), p) /\ Clear(InHand({PUBREC_TYPE})', p)
    BY <1>1, <1>6, <1>7 DEF Clear, UpFlow, UpOneAtATime, Apart
  <2>3. QED
    BY <1>1, <1>5, <1>6, <2>1, <2>2, UpInAdded DEF Typed, UpFlow
<1>9. /\ passed'[m] > 0 /\ (Qos[m] = 2 => passed'[m] <= 1 /\ h.id \in held')
      /\ \A n \in Up : passed'[n] \in Nat /\ (n # m => passed'[n] = passed[n])
  <2>1. CASE Qos[m] = 2 /\ h.id \in held
    <3>1. passed' = passed /\ held' = held \cup {h.id}
      BY <1>2, <2>1
    <3>2. passed[m] > 0 /\ passed[m] <= 1
      BY <1>3, <1>4, <2>1 DEF UpMessage
    <3>3. QED
      BY <1>4, <3>1, <3>2
  <2>2. CASE ~(Qos[m] = 2 /\ h.id \in held)
    <3>1. passed' = [passed EXCEPT ![m] = @ + 1]
      BY <1>2, <2>2
    <3>2. Qos[m] = 2 => ~(passed[m] > 0) /\ h.id \in held'
      BY <1>2, <1>3, <1>4, <2>2 DEF UpMessage
    <3>3. passed[m] \in Nat /\ passed'[m] = passed[m] + 1
          /\ \A n \in Up : passed'[n] \in Nat /\ (n # m => passed'[n] = passed[n])
      BY <1>3, <1>4, <3>1
    <3>4. QED
      BY <3>2, <3>3
  <2>3. QED
    BY <2>1, <2>2
<1>10. ASSUME NEW n \in Up, state[n] \in InFlight, n # m PROVE upId[n] # h.id
  BY <1>3, <1>10 DEF UpFlow, UpMessages, InFlight
<1>11. UpMessages'
  <2>1. ASSUME NEW n \in Up PROVE UpMessage(n)'
    <3>1. CASE n = m
      BY <1>2, <1>3, <1>4, <1>9, <3>1 DEF UpMessage
    <3>2. CASE n # m
      <4>1. UpMessage(n) /\ passed'[n] = passed[n]
        BY <1>9, <3>2 DEF UpFlow, UpMessages
      <4>2. state[n] \in InFlight => (upId[n] \in held' <=> upId[n] \in held)
        BY <1>2, <1>10, <3>2
      <4>3. QED
        BY <1>2, <4>1, <4>2 DEF UpMessage, InFlight
    <3>3. QED
      BY <3>1, <3>2
  <2>2. \A i \in held' : \E n \in Up : state'[n] \in InFlight /\ upId'[n] = i /\ Qos[n] = 2
    BY <1>2, <1>3 DEF UpFlow, UpMessages, InFlight
  <2>3. \A n, o \in Up : {state'[n], state'[o]} \subseteq InFlight /\ upId'[n] = upId'[o] => n = o
    BY <1>2 DEF UpFlow, UpMessages
  <2>4. QED
    BY <2>1, <2>2, <2>3 DEF UpMessages
<1>12. UpPackets'
  <2>1. \A q \in Of(toBroker', FromSender) : UpOut(q)'
    BY <1>1, <1>2 DEF UpFlow, UpPackets, UpOut, Within
  <2>2. ASSUME NEW q \in Of(incoming', FromReceiver) PROVE UpIn(q)'
    <3>1. CASE q = p
      BY <1>2, <1>3, <1>4, <1>5, <1>9, <3>1 DEF UpIn
    <3>2. CASE q \in Of(incoming, FromReceiver)
      <4>1. UpIn(q)
        BY <3>2 DEF UpFlow, UpPackets
      <4>2. q.id # h.id
        BY <1>1, <1>4, <3>2 DEF UpFlow, UpOneAtATime, Apart, Same
      <4>3. ASSUME NEW n \in Up PROVE passed[n] > 0 => passed'[n] > 0
        BY <1>4, <1>9, <4>3
      <4>4. q.id \notin held => q.id \notin held'
        BY <1>2, <4>2
      <4>5. QED
        BY <1>2, <4>1, <4>3, <4>4 DEF UpIn
    <3>3. QED
      BY <1>8, <3>1, <3>2
  <2>3. \A q \in InHand({PUBREC_TYPE})' : UpInHand(q)'
    BY <1>2, <1>6 DEF UpFlow, UpPackets, UpInHand
  <2>4. QED
    BY <2>1, <2>2, <2>3 DEF UpPackets
<1>13. ASSUME NotSent PROVE NotSent'
  <2>1. ASSUME NEW q \in UnderWay' PROVE \E o \in UnderWay : o.id = q.id
    BY <1>1, <1>5, <1>6, <1>8 DEF UnderWay, Within
  <2>2. QED
    BY <1>2, <1>13, <2>1, StillNotSent
<1>14. QED
  BY <1>8, <1>11, <1>12, <1>13 DEF UpFlow, UpKept

LEMMA UpBrokerRelease ==
    ASSUME Typed, UpFlow, BrokerRelease
    PROVE  UpKept
<1> DEFINE h == Head(toBroker)
           p == Answer(PUBCOMP_TYPE, h.id)
<1>1. /\ h \in Sendable /\ Kind(h) = PUBREL_TYPE /\ h.type = PUBREL_TYPE
      /\ Within(toBroker', toBroker, FromSender)
      /\ h \in Of(toBroker, FromSender) /\ Clear(Of(toBroker', FromSender), h)
  BY BrokerReads DEF BrokerRelease, Typed, UpFlow, UpOneAtATime
<1>2. Reply(PUBCOMP_TYPE, h.id) /\ held' = held \ {h.id}
      /\ UNCHANGED <<chunk, handling, state, upId, passed>>
  BY DEF BrokerRelease, Received, client, application, publishing
<1>3. PICK m \in Up : upId[m] = h.id /\ state[m] = "received"
  BY <1>1 DEF UpFlow, UpPackets, UpOut
<1>4. h.id \in UpId /\ h.id \in Nat /\ h.id # 0
  BY <1>3, Constants DEF UpFlow, UpMessages, UpMessage, InFlight
<1>5. /\ p \in Sendable /\ p.id = h.id /\ p.type = PUBCOMP_TYPE
      /\ incoming' = Append(incoming, p)
  <2>1. p \in Sendable /\ p.id = h.id /\ p.type = PUBCOMP_TYPE
    BY <1>4, AnswerMade
  <2>2. incoming' = Append(incoming, p)
    BY <1>2, <1>4, BrokerAnswers DEF Typed
  <2>3. QED
    BY <2>1, <2>2
<1> HIDE DEF h, p
<1>6. InHand({PUBREC_TYPE})' = InHand({PUBREC_TYPE})
  BY <1>2 DEF InHand
<1>7. ASSUME NEW q, Same(q, p) PROVE Same(q, h) /\ Same(h, q)
  BY <1>4, <1>5, <1>7 DEF Same
<1>8. UpOneAtATime' /\ Of(incoming', FromReceiver) \subseteq Of(incoming, FromReceiver) \cup {p}
  <2>1. Clear(Of(toBroker', FromSender), p)
    BY <1>1, <1>7 DEF Clear
  <2>2. Clear(Of(incoming, FromReceiver), p) /\ Clear(InHand({PUBREC_TYPE})', p)
    BY <1>1, <1>6, <1>7 DEF Clear, UpFlow, UpOneAtATime, Apart
  <2>3. QED
    BY <1>1, <1>5, <1>6, <2>1, <2>2, UpInAdded DEF Typed, UpFlow
<1>9. ASSUME NEW n \in Up, state[n] \in {"sent", "unsure", "again"} PROVE upId[n] # h.id
  BY <1>3, <1>9 DEF UpFlow, UpMessages, InFlight
<1>10. UpMessages'
  <2>1. ASSUME NEW n \in Up PROVE UpMessage(n)'
    <3>1. UpMessage(n)
      BY DEF UpFlow, UpMessages
    <3>2. state[n] \in {"sent", "unsure", "again"} => (upId[n] \in held' <=> upId[n] \in held)
      BY <1>2, <1>9
    <3>3. QED
      BY <1>2, <3>1, <3>2 DEF UpMessage
  <2>2. \A i \in held' : \E n \in Up : state'[n] \in InFlight /\ upId'[n] = i /\ Qos[n] = 2
    BY <1>2 DEF UpFlow, UpMessages
  <2>3. \A n, o \in Up : {state'[n], state'[o]} \subseteq InFlight /\ upId'[n] = upId'[o] => n = o
    BY <1>2 DEF UpFlow, UpMessages
  <2>4. QED
    BY <2>1, <2>2, <2>3 DEF UpMessages
<1>11. UpPackets'
  <2>1. \A q \in Of(toBroker', FromSender) : UpOut(q)'
    BY <1>1, <1>2 DEF UpFlow, UpPackets, UpOut, Within
  <2>2. ASSUME NEW q \in Of(incoming', FromReceiver) PROVE UpIn(q)'
    <3>1. CASE q = p
      <4>1. q.id \notin held'
        BY <1>2, <1>5, <3>1
      <4>2. QED
        BY <1>2, <1>3, <1>5, <3>1, <4>1 DEF UpIn
    <3>2. CASE q \in Of(incoming, FromReceiver)
      BY <1>2, <3>2 DEF UpFlow, UpPackets, UpIn
    <3>3. QED
      BY <1>8, <3>1, <3>2
  <2>3. \A q \in InHand({PUBREC_TYPE})' : UpInHand(q)'
    BY <1>2, <1>6 DEF UpFlow, UpPackets, UpInHand
  <2>4. QED
    BY <2>1, <2>2, <2>3 DEF UpPackets
<1>12. ASSUME NotSent PROVE NotSent'
  <2>1. ASSUME NEW q \in UnderWay' PROVE \E o \in UnderWay : o.id = q.id
    BY <1>1, <1>5, <1>6, <1>8 DEF UnderWay, Within
  <2>2. QED
    BY <1>2, <1>12, <2>1, StillNotSent
<1>13. QED
  BY <1>8, <1>10, <1>11, <1>12 DEF UpFlow, UpKept

LEMMA UpReply ==
    ASSUME Typed, UpFlow, NEW type \in FromReceiver, Incoming(type), handling' = Head(chunk),
           Told(Action(type), Head(chunk).id)
    PROVE  UpKept
<1> DEFINE h == Head(chunk)
           after == IF type = PUBREC_TYPE THEN "received" ELSE "done"
<1>1. /\ h \in Sendable /\ Kind(h) = type /\ h.type = type
      /\ Within(incoming', incoming, FromReceiver)
      /\ h \in Of(incoming, FromReceiver) /\ Clear(Of(incoming', FromReceiver), h)
  BY ClientReads DEF Typed, UpFlow, UpOneAtATime
<1>2. /\ state' = [n \in Up |-> IF upId[n] = h.id /\ state[n] \in InFlight THEN after ELSE state[n]]
      /\ UNCHANGED <<toBroker, upId, passed, held>>
  BY DEF Told, Action, Incoming, broker
<1> HIDE DEF h
<1>3. PICK m \in Up :
        /\ upId[m] = h.id
        /\ \/ /\ type = IF Qos[m] = 1 THEN PUBACK_TYPE ELSE PUBREC_TYPE
              /\ state[m] \in {"sent", "unsure"} /\ passed[m] > 0
           \/ type = PUBCOMP_TYPE /\ state[m] = "received" /\ h.id \notin held
  BY <1>1 DEF UpFlow, UpPackets, UpIn
<1>4. /\ state[m] \in InFlight /\ UpMessage(m) /\ Qos[m] \in {1, 2}
      /\ h.id \in UpId /\ h.id \in Nat /\ h.id # 0
  BY <1>3, Constants DEF UpFlow, UpMessages, UpMessage, InFlight
<1>5. ASSUME NEW n \in Up, state[n] \in InFlight, upId[n] = h.id PROVE n = m
  BY <1>3, <1>4, <1>5 DEF UpFlow, UpMessages
<1>6. state'[m] = after /\ \A n \in Up : n # m => state'[n] = state[n]
  BY <1>2, <1>3, <1>4, <1>5
<1>7. InHand({PUBREC_TYPE})' \subseteq {h} /\ (type # PUBREC_TYPE => InHand({PUBREC_TYPE})' = {})
  <2>1. handling' = h
    BY DEF h
  <2>2. QED
    BY <1>1, <2>1 DEF InHand
<1>8. UpOneAtATime'
  <2>1. ASSUME NEW q \in Of(toBroker, FromSender) PROVE ~Same(q, h)
    BY <1>1 DEF UpFlow, UpOneAtATime, Apart
  <2>2. QED
    BY <1>1, <1>2, <1>7, <2>1 DEF UpFlow, UpOneAtATime, Apart, Within, Clear
<1>9. UpMessages'
  <2>1. UpMessage(m)'
    BY <1>2, <1>3, <1>4, <1>6 DEF UpMessage, InFlight
  <2>2. ASSUME NEW n \in Up, n # m PROVE UpMessage(n)'
    BY <1>2, <1>6, <2>2 DEF UpFlow, UpMessages, UpMessage
  <2>3. ASSUME NEW n \in Up, state'[n] \in InFlight PROVE state[n] \in InFlight
    BY <1>4, <1>6, <2>3
  <2>4. \A n, o \in Up : {state'[n], state'[o]} \subseteq InFlight /\ upId'[n] = upId'[o] => n = o
    BY <1>2, <2>3 DEF UpFlow, UpMessages
  <2>5. ASSUME NEW i \in held'
        PROVE  \E n \in Up : state'[n] \in InFlight /\ upId'[n] = i /\ Qos[n] = 2
    <3>1. PICK n \in Up : state[n] \in InFlight /\ upId[n] = i /\ Qos[n] = 2
      BY <1>2, <2>5 DEF UpFlow, UpMessages
    <3>2. state'[n] \in InFlight
      <4>1. CASE n # m
        BY <1>6, <3>1, <4>1
      <4>2. CASE n = m
        BY <1>2, <1>3, <1>6, <2>5, <3>1, <4>2 DEF InFlight
      <4>3. QED
        BY <4>1, <4>2
    <3>3. QED
      BY <1>2, <3>1, <3>2
  <2>6. QED
    BY <2>1, <2>2, <2>4, <2>5 DEF UpMessages
<1>10. UpPackets'
  <2>1. ASSUME NEW q \in Of(toBroker, FromSender) PROVE UpOut(q)'
    <3>1. q.id # h.id
      BY <1>1, <1>4 DEF UpFlow, UpOneAtATime, Apart, Same
    <3>2. UpOut(q)
      BY DEF UpFlow, UpPackets
    <3>3. QED
      BY <1>2, <1>3, <1>6, <3>1, <3>2 DEF UpOut
  <2>2. ASSUME NEW q \in Of(incoming', FromReceiver) PROVE UpIn(q)'
    <3>1. q.id # h.id
      BY <1>1, <1>4 DEF Clear, Same
    <3>2. UpIn(q)
      BY <1>1 DEF UpFlow, UpPackets, Within
    <3>3. QED
      BY <1>2, <1>3, <1>6, <3>1, <3>2 DEF UpIn
  <2>3. ASSUME NEW q \in InHand({PUBREC_TYPE})' PROVE UpInHand(q)'
    <3>1. q = h /\ type = PUBREC_TYPE
      BY <1>7
    <3>2. QED
      BY <1>2, <1>3, <1>6, <3>1 DEF UpInHand
  <2>4. QED
    BY <1>2, <2>1, <2>2, <2>3 DEF UpPackets
<1>11. ASSUME NotSent PROVE NotSent'
  <2>1. UnderWay' \subseteq UnderWay
    BY <1>1, <1>2, <1>7 DEF UnderWay, Within
  <2>2. \A n \in Up : state'[n] = "unsure" => state[n] = "unsure"
    BY <1>2
  <2>3. QED
    BY <1>2, <1>11, <2>1, <2>2, StillNotSent
<1>12. QED
  BY <1>8, <1>9, <1>10, <1>11 DEF UpFlow, UpKept

\* The PUBREL goes out when the callback of the PUBREC has returned.
LEMMA UpEventReturn ==
    ASSUME Typed, UpFlow, EventReturn
    PROVE  UpKept
<1>1. handling' = NoPacket /\ UNCHANGED <<incoming, state, upId, passed, held>>
  BY DEF EventReturn, application, broker, publishing, incoming
<1>2. InHand({PUBREC_TYPE})' = {} /\ Within(incoming', incoming, FromReceiver)
  BY <1>1 DEF InHand, Within
<1>3. CASE toBroker' = toBroker
  BY <1>1, <1>2, <1>3, WithinSame, UpUndisturbed
<1>4. CASE handling.type = PUBREL_TYPE /\ SendAnswer(PUBCOMP_TYPE, handling.id)
  <2>1. handling \in Sendable
    BY DEF EventReturn, Typed, Channels
  <2>2. handling.id \in Nat
    BY <2>1 DEF Sendable
  <2>3. /\ Answer(PUBCOMP_TYPE, handling.id) \in Sendable
        /\ Kind(Answer(PUBCOMP_TYPE, handling.id)) \notin FromSender
    BY <2>2, AnswerMade
  <2>4. Within(toBroker', toBroker, FromSender)
    BY <1>4, <2>3, AnswerEffect, SentWithin DEF Typed
  <2>5. QED
    BY <1>1, <1>2, <2>4, UpUndisturbed
<1>5. CASE handling.type = PUBREC_TYPE /\ SendAnswer(PUBREL_TYPE, handling.id)
  <2> DEFINE p == Answer(PUBREL_TYPE, handling.id)
  <2>1. handling \in Sendable /\ handling # NoPacket /\ Kind(handling) = PUBREC_TYPE
    BY <1>5 DEF EventReturn, Typed, Channels, Kind
  <2>2. handling.id \in Nat
    BY <2>1 DEF Sendable
  <2>3. p \in Sendable /\ p.id = handling.id /\ p.type = PUBREL_TYPE
    BY <2>2, AnswerMade
  <2>4. SentOrNot(p)
    BY <1>5, AnswerEffect
  <2> HIDE DEF p
  <2>5. handling \in InHand({PUBREC_TYPE})
    BY <2>1 DEF InHand
  <2>6. PICK m \in Up : upId[m] = p.id /\ state[m] = "received"
    BY <2>3, <2>5 DEF UpFlow, UpPackets, UpInHand
  <2>7. p.id # 0
    BY <2>6, Constants DEF UpFlow, UpMessages, UpMessage, InFlight
  <2>8. ASSUME NEW q, Same(q, p) PROVE Same(q, handling) /\ Same(handling, q)
    BY <2>3, <2>7, <2>8 DEF Same
  <2>9. /\ Clear(Of(toBroker, FromSender), p) /\ Clear(Of(incoming', FromReceiver), p)
        /\ Clear(InHand({PUBREC_TYPE})', p)
    BY <1>1, <1>2, <2>5, <2>8 DEF UpFlow, UpOneAtATime, Apart, Clear
  <2>10. UpOneAtATime' /\ Of(toBroker', FromSender) \subseteq Of(toBroker, FromSender) \cup {p}
    BY <1>2, <2>3, <2>4, <2>9, UpOutAdded DEF Typed, UpFlow
  <2>11. UpMessages'
    BY <1>1 DEF UpFlow, UpMessages, UpMessage
  <2>12. UpPackets'
    <3>1. ASSUME NEW q, q = p PROVE UpOut(q)'
      BY <1>1, <2>3, <2>6, <3>1 DEF UpOut
    <3>2. \A q \in Of(toBroker, FromSender) : UpOut(q)'
      BY <1>1 DEF UpFlow, UpPackets, UpOut
    <3>3. \A q \in Of(incoming', FromReceiver) : UpIn(q)'
      BY <1>1 DEF UpFlow, UpPackets, UpIn
    <3>4. QED
      BY <1>2, <2>10, <3>1, <3>2, <3>3 DEF UpPackets
  <2>13. ASSUME NotSent PROVE NotSent'
    <3>1. ASSUME NEW q \in UnderWay' PROVE \E o \in UnderWay : o.id = q.id
      BY <1>1, <1>2, <2>3, <2>5, <2>10 DEF UnderWay
    <3>2. QED
      BY <1>1, <2>13, <3>1, StillNotSent
  <2>14. QED
    BY <2>10, <2>11, <2>12, <2>13 DEF UpFlow, UpKept
<1>6. QED
  BY <1>3, <1>4, <1>5 DEF EventReturn, ReplyTo

-----------------------------------------------------------------------------
(* What the broker sends again on another connection.                      *)

LEMMA SetListed ==
    ASSUME NEW S, IsFiniteSet(S)
    PROVE  /\ Cardinality(S) \in Nat
           /\ SetToSeq(S) \in [1 .. Cardinality(S) -> S]
           /\ \A i, j \in 1 .. Cardinality(S) : SetToSeq(S)[i] = SetToSeq(S)[j] => i = j
<1>1. Cardinality(S) \in Nat /\ ExistsBijection(1 .. Cardinality(S), S)
  BY FS_CardinalityType
<1>2. \E f \in [1 .. Cardinality(S) -> S] : IsInjective(f)
  BY <1>1 DEF ExistsBijection, Bijection, Injection
<1>3. SetToSeq(S) \in [1 .. Cardinality(S) -> S] /\ IsInjective(SetToSeq(S))
  BY <1>2 DEF SetToSeq
<1>4. QED
  BY <1>1, <1>3 DEF IsInjective

\* The packet for a message that it has not settled.
Again(d) ==
    IF progress[d] = "sent" THEN Delivery(d, downId[d], TRUE) ELSE Answer(PUBREL_TYPE, downId[d])

LEMMA DeliveryMade ==
    ASSUME NEW d \in Up \cup Down, NEW id \in Nat, NEW duplicate \in BOOLEAN
    PROVE  LET p == Delivery(d, id, duplicate) IN
           /\ p \in Sendable /\ Kind(p) = PUBLISH_TYPE /\ p.type = PUBLISH_TYPE
           /\ p.id = id /\ p.content = d /\ p.flags = PublishFlags(Qos[d], duplicate, FALSE)
<1> DEFINE flags == PublishFlags(Qos[d], duplicate, FALSE)
           p == Packet(PUBLISH_TYPE, flags, id, d)
<1>1. flags \in Nat
  <2>1. Qos[d] \in {0, 1, 2}
    BY Constants
  <2>2. QED
    BY <2>1, FlagsType
<1> HIDE DEF flags
<1>2. /\ p \in Sendable /\ Kind(p) = PUBLISH_TYPE /\ p.type = PUBLISH_TYPE
      /\ p.id = id /\ p.content = d /\ p.flags = flags
  BY <1>1 DEF Packet, Sendable, Kind
<1> HIDE DEF p
<1>3. Delivery(d, id, duplicate) = p
  BY DEF Delivery, p, flags
<1>4. QED
  BY <1>2, <1>3 DEF flags

LEMMA AgainMade ==
    ASSUME Typed, NEW d \in Down
    PROVE  /\ Again(d) \in Sendable /\ Again(d).id = downId[d] /\ Kind(Again(d)) = Again(d).type
           /\ Again(d).type = IF progress[d] = "sent" THEN PUBLISH_TYPE ELSE PUBREL_TYPE
           /\ progress[d] = "sent" =>
                Again(d).content = d /\ Again(d).flags = PublishFlags(Qos[d], TRUE, FALSE)
<1>1. downId[d] \in Nat
  <2>1. downId[d] \in DownId \cup {0}
    BY DEF Typed, TypeOK
  <2>2. DownId \cup {0} \subseteq Nat
    BY Constants
  <2>3. QED
    BY <2>1, <2>2
<1>2. CASE progress[d] = "sent"
  <2> DEFINE p == Delivery(d, downId[d], TRUE)
  <2>1. /\ p \in Sendable /\ Kind(p) = PUBLISH_TYPE /\ p.type = PUBLISH_TYPE
        /\ p.id = downId[d] /\ p.content = d /\ p.flags = PublishFlags(Qos[d], TRUE, FALSE)
    BY <1>1, DeliveryMade
  <2>2. Again(d) = p
    BY <1>2 DEF Again
  <2> HIDE DEF p
  <2>3. QED
    BY <1>2, <2>1, <2>2
<1>3. CASE progress[d] # "sent"
  <2> DEFINE p == Answer(PUBREL_TYPE, downId[d])
  <2>1. p \in Sendable /\ Kind(p) = PUBREL_TYPE /\ p.type = PUBREL_TYPE /\ p.id = downId[d]
    BY <1>1, AnswerMade
  <2>2. Again(d) = p
    BY <1>3 DEF Again
  <2> HIDE DEF p
  <2>3. QED
    BY <1>3, <2>1, <2>2
<1>4. QED
  BY <1>2, <1>3

LEMMA ResentPackets ==
    ASSUME Typed
    PROVE  \E n, again :
                /\ n \in Nat /\ Resent \in Seq(Sendable) /\ DOMAIN Resent = 1 .. n
                /\ \A i \in 1 .. n : /\ again[i] \in Down /\ progress[again[i]] \in Delivering
                                     /\ Resent[i] = Again(again[i])
                /\ \A i, j \in 1 .. n : again[i] = again[j] => i = j
<1> DEFINE S == {d \in Down : progress[d] \in Delivering}
           again == SetToSeq(S)
           n == Cardinality(S)
<1>1. IsFiniteSet(S)
  BY Constants, FS_Subset
<1>2. /\ n \in Nat /\ again \in [1 .. n -> S]
      /\ \A i, j \in 1 .. n : again[i] = again[j] => i = j
  BY <1>1, SetListed
<1>3. Resent = [i \in DOMAIN again |->
                    IF progress[again[i]] = "sent" THEN Delivery(again[i], downId[again[i]], TRUE)
                    ELSE Answer(PUBREL_TYPE, downId[again[i]])]
  BY DEF Resent
<1> HIDE DEF again, n
<1>4. DOMAIN Resent = 1 .. n /\ \A i \in 1 .. n : Resent[i] = Again(again[i])
  BY <1>2, <1>3 DEF Again
<1>5. \A i \in 1 .. n : again[i] \in Down /\ progress[again[i]] \in Delivering
  BY <1>2
<1>6. Resent \in [1 .. n -> Sendable]
  <2>1. \A i \in 1 .. n : Resent[i] \in Sendable
    BY <1>4, <1>5, AgainMade
  <2>2. QED
    BY <1>3, <1>4, <2>1
<1>7. Resent \in Seq(Sendable)
  BY <1>2, <1>6
<1>8. /\ n \in Nat /\ Resent \in Seq(Sendable) /\ DOMAIN Resent = 1 .. n
      /\ \A i \in 1 .. n : /\ again[i] \in Down /\ progress[again[i]] \in Delivering
                           /\ Resent[i] = Again(again[i])
      /\ \A i, j \in 1 .. n : again[i] = again[j] => i = j
  BY <1>2, <1>4, <1>5, <1>7
<1>9. QED
  BY <1>8

LEMMA ResentOnly ==
    ASSUME Typed, Reconnect
    PROVE  /\ incoming' = Resent /\ toClient' \in Seq(Sendable)
           /\ \A i \in DOMAIN Resent : Kind(Resent[i]) \in FromSender
           /\ \A kinds : Of(toBroker', kinds) = {} /\ Alone(toBroker', kinds)
           /\ \A kinds : InHand(kinds)' = {}
<1>1. Resent \in Seq(Sendable) /\ \A i \in DOMAIN Resent : Kind(Resent[i]) \in FromSender
  <2>1. PICK n, again :
            /\ n \in Nat /\ Resent \in Seq(Sendable) /\ DOMAIN Resent = 1 .. n
            /\ \A i \in 1 .. n : again[i] \in Down /\ Resent[i] = Again(again[i])
    BY ResentPackets
  <2>2. ASSUME NEW d \in Down PROVE Kind(Again(d)) \in FromSender
    BY AgainMade
  <2>3. QED
    BY <2>1, <2>2
<1>2. toClient' = Resent /\ chunk' = <<>> /\ toBroker' = <<>> /\ handling' = NoPacket
  BY DEF Reconnect
<1>3. incoming' = Resent
  BY <1>1, <1>2, ConcatEmptySeq DEF incoming
<1>4. QED
  BY <1>1, <1>2, <1>3, OfEmpty DEF InHand

LEMMA NoneOf ==
    ASSUME NEW s, NEW kinds, \A i \in DOMAIN s : Kind(s[i]) \notin kinds
    PROVE  Of(s, kinds) = {} /\ Alone(s, kinds)
BY DEF Of, Alone

LEMMA UpReconnect ==
    ASSUME Typed, UpFlow, Reconnect
    PROVE  UpKept
<1>1. Of(incoming', FromReceiver) = {} /\ Alone(incoming', FromReceiver)
  <2>1. \A i \in DOMAIN Resent : Kind(Resent[i]) \notin FromReceiver
    BY ResentOnly
  <2>2. QED
    BY <2>1, ResentOnly, NoneOf
<1>2. /\ state' = [m \in Up |-> IF state[m] \in {"sent", "unsure"} THEN "again" ELSE state[m]]
      /\ UNCHANGED <<upId, passed, held>>
  BY DEF Reconnect, broker
<1>3. UpOneAtATime' /\ UpPackets'
  BY <1>1, ResentOnly DEF UpOneAtATime, UpPackets, Apart
<1>4. UpMessages'
  <2>1. ASSUME NEW m \in Up PROVE UpMessage(m)' /\ (state'[m] \in InFlight <=> state[m] \in InFlight)
    <3>1. UpMessage(m)
      BY DEF UpFlow, UpMessages
    <3>2. CASE state[m] \in {"sent", "unsure"}
      BY <1>2, <3>1, <3>2 DEF UpMessage, InFlight
    <3>3. CASE state[m] \notin {"sent", "unsure"}
      BY <1>2, <3>1, <3>3 DEF UpMessage, InFlight
    <3>4. QED
      BY <3>2, <3>3
  <2>2. \A m, n \in Up : {state'[m], state'[n]} \subseteq InFlight /\ upId'[m] = upId'[n] => m = n
    BY <1>2, <2>1 DEF UpFlow, UpMessages
  <2>3. \A i \in held' : \E m \in Up : state'[m] \in InFlight /\ upId'[m] = i /\ Qos[m] = 2
    BY <1>2, <2>1 DEF UpFlow, UpMessages
  <2>4. QED
    BY <2>1, <2>2, <2>3 DEF UpMessages
<1>5. NotSent'
  BY <1>2 DEF NotSent
<1>6. QED
  BY <1>3, <1>4, <1>5 DEF UpFlow, UpKept

-----------------------------------------------------------------------------
(* Publishing: the actions that are not about it.                          *)

\* The PUBACK or PUBREC for a message.
Ack(id, qos) == Answer(IF qos = DELIVER_EXACTLY_ONCE THEN PUBREC_TYPE ELSE PUBACK_TYPE, id)

LEMMA AckMade ==
    ASSUME NEW id \in Nat, NEW qos
    PROVE  /\ Ack(id, qos) \in Sendable /\ Ack(id, qos).id = id
           /\ Kind(Ack(id, qos)) = Ack(id, qos).type
           /\ Ack(id, qos).type = IF qos = 2 THEN PUBREC_TYPE ELSE PUBACK_TYPE
<1>1. CASE qos = 2
  <2>1. Ack(id, qos) = Answer(PUBREC_TYPE, id)
    BY <1>1 DEF Ack, DELIVER_EXACTLY_ONCE
  <2>2. QED
    BY <1>1, <2>1, AnswerMade
<1>2. CASE qos # 2
  <2>1. Ack(id, qos) = Answer(PUBACK_TYPE, id)
    BY <1>2 DEF Ack, DELIVER_EXACTLY_ONCE
  <2>2. QED
    BY <1>2, <2>1, AnswerMade
<1>3. QED
  BY <1>1, <1>2

LEMMA AckEffect ==
    ASSUME NEW id, NEW qos \in {0, 1, 2}, SendMessageAck(id, qos)
    PROVE  SentOrNot(Ack(id, qos)) /\ Reported /\ (qos = 0 => UNCHANGED toBroker)
<1>1. CASE qos = 0
  BY <1>1 DEF SendMessageAck, SentOrNot, Reported, DELIVER_EXACTLY_ONCE, DELIVER_AT_LEAST_ONCE
<1>2. CASE qos = 1
  <2>1. SendAnswer(PUBACK_TYPE, id)
    BY <1>2 DEF SendMessageAck, DELIVER_EXACTLY_ONCE, DELIVER_AT_LEAST_ONCE
  <2>2. SentOrNot(Answer(PUBACK_TYPE, id)) /\ Reported
    BY <2>1, AnswerEffect
  <2>3. QED
    BY <1>2, <2>2 DEF Ack, DELIVER_EXACTLY_ONCE
<1>3. CASE qos = 2
  <2>1. SendAnswer(PUBREC_TYPE, id)
    BY <1>3 DEF SendMessageAck, DELIVER_EXACTLY_ONCE, DELIVER_AT_LEAST_ONCE
  <2>2. SentOrNot(Answer(PUBREC_TYPE, id)) /\ Reported
    BY <2>1, AnswerEffect
  <2>3. QED
    BY <1>3, <2>2 DEF Ack, DELIVER_EXACTLY_ONCE
<1>4. QED
  BY <1>1, <1>2, <1>3

LEMMA QosOfFlagsType == \A flags : QosOfFlags(flags) \in {0, 1, 2}
BY DEF QosOfFlags, DELIVER_AT_MOST_ONCE, DELIVER_AT_LEAST_ONCE, DELIVER_EXACTLY_ONCE

LEMMA UpOtherSent ==
    ASSUME Typed, UpFlow, NEW p \in Sendable, SentOrNot(p), Kind(p) \notin FromSender,
           UNCHANGED <<incoming, state, upId, passed, held>>,
           handling' = handling \/ handling' = NoPacket
    PROVE  UpKept
<1>1. Within(toBroker', toBroker, FromSender)
  BY SentWithin DEF Typed
<1>2. Within(incoming', incoming, FromReceiver)
  BY WithinSame
<1>3. InHand({PUBREC_TYPE})' \subseteq InHand({PUBREC_TYPE})
  BY DEF InHand
<1>4. QED
  BY <1>1, <1>2, <1>3, UpUndisturbed

LEMMA UpOtherIncoming ==
    ASSUME Typed, UpFlow, NEW type, Incoming(type), type \notin {PUBREC_TYPE, UNKNOWN_TYPE},
           handling' = Head(chunk) \/ handling' = NoPacket,
           UNCHANGED <<state, upId>>
    PROVE  UpKept
<1>1. Kind(Head(chunk)) = type /\ Within(incoming', incoming, FromReceiver)
  BY ClientReads DEF Typed
<1>2. InHand({PUBREC_TYPE})' = {}
  BY <1>1 DEF InHand
<1>3. Within(toBroker', toBroker, FromSender) /\ UNCHANGED <<passed, held>>
  BY WithinSame DEF Incoming, broker
<1>4. QED
  BY <1>1, <1>2, <1>3, UpUndisturbed

LEMMA UpOtherReceived ==
    ASSUME Typed, UpFlow, NEW types, Received(types), UNCHANGED <<passed, held>>,
           Within(incoming', incoming, FromReceiver)
    PROVE  UpKept
<1>1. Within(toBroker', toBroker, FromSender)
  BY BrokerReads DEF Typed
<1>2. UNCHANGED <<state, upId, handling>>
  BY DEF Received, client, application, publishing
<1>3. InHand({PUBREC_TYPE})' = InHand({PUBREC_TYPE})
  BY <1>2 DEF InHand
<1>4. QED
  BY <1>1, <1>2, <1>3, UpUndisturbed

LEMMA UpOtherDelivered ==
    ASSUME Typed, UpFlow, NEW p \in Sendable, Kind(p) \notin FromReceiver,
           toClient' = Append(toClient, p),
           UNCHANGED <<chunk, handling, toBroker, state, upId, passed, held>>
    PROVE  UpKept
<1>1. Within(incoming', incoming, FromReceiver)
  <2>1. incoming' = Append(incoming, p)
    BY IncomingAppend DEF Typed
  <2>2. QED
    BY <2>1, IncomingType, WithinAppend DEF Typed
<1>2. Within(toBroker', toBroker, FromSender) /\ InHand({PUBREC_TYPE})' = InHand({PUBREC_TYPE})
  BY WithinSame DEF InHand
<1>3. QED
  BY <1>1, <1>2, UpUndisturbed

LEMMA AskForPacket ==
    ASSUME NEW r \in Request, AskFor(r)
    PROVE  LET p == Packet(r, 2, RequestId[r], NoPacket) IN
           /\ r \in {SUBSCRIBE_TYPE, UNSUBSCRIBE_TYPE} /\ RequestId[r] \in Nat \ (UpId \cup {0})
           /\ p \in Sendable /\ Kind(p) = r /\ p.type = r /\ p.id = RequestId[r] /\ SentOrNot(p)
<1> DEFINE p == Packet(r, 2, RequestId[r], NoPacket)
<1>1. r \in {SUBSCRIBE_TYPE, UNSUBSCRIBE_TYPE} /\ RequestId[r] \in Nat \ (UpId \cup {0})
  BY SessionAssumption
<1>2. p \in Sendable /\ Kind(p) = r /\ p.type = r /\ p.id = RequestId[r]
  BY <1>1 DEF Packet, Sendable, Kind
<1>3. SentOrNot(p)
  BY SendEffect DEF AskFor
<1>4. QED
  BY <1>1, <1>2, <1>3

LEMMA BrokerServePacket ==
    ASSUME Typed, BrokerServe
    PROVE  LET h == Head(toBroker) IN
           \E p \in Sendable :
                /\ toClient' = Append(toClient, p) /\ p.id = h.id /\ Kind(p) = p.type
                /\ h.type \in {SUBSCRIBE_TYPE, UNSUBSCRIBE_TYPE} /\ Kind(h) = h.type
                /\ served' = served \cup {h.type}
                /\ h.type = SUBSCRIBE_TYPE =>
                        p.type = SUBACK_TYPE /\ p.content = answered' /\ answered' \in Seq(Byte)
                /\ h.type = UNSUBSCRIBE_TYPE => p.type = UNSUBACK_TYPE /\ answered' = answered
<1> DEFINE h == Head(toBroker)
<1>1. /\ h \in Sendable /\ Kind(h) = h.type /\ h.type \in {SUBSCRIBE_TYPE, UNSUBSCRIBE_TYPE}
      /\ served' = served \cup {h.type}
  BY BrokerReads DEF BrokerServe, Typed
<1>2. h.id \in Nat
  BY <1>1 DEF Sendable
<1>3. CASE h.type = SUBSCRIBE_TYPE
  <2>1. PICK codes \in ReturnCodes :
            answered' = codes /\ toClient' = Append(toClient, Packet(SUBACK_TYPE, 0, h.id, codes))
    BY <1>3 DEF BrokerServe
  <2>2. codes \in Seq(Byte)
    BY SessionAssumption
  <2> DEFINE p == Packet(SUBACK_TYPE, 0, h.id, codes)
  <2>3. p \in Sendable /\ Kind(p) = SUBACK_TYPE /\ p.type = SUBACK_TYPE /\ p.id = h.id /\ p.content = codes
    BY <1>2, <2>2 DEF Packet, Sendable, Kind
  <2> HIDE DEF p, h
  <2>4. QED
    BY <1>1, <1>3, <2>1, <2>2, <2>3 DEF p, h
<1>4. CASE h.type = UNSUBSCRIBE_TYPE
  <2> DEFINE p == Answer(UNSUBACK_TYPE, h.id)
  <2>1. toClient' = Append(toClient, p) /\ UNCHANGED answered
    BY <1>4 DEF BrokerServe, Reply
  <2>2. p \in Sendable /\ Kind(p) = UNSUBACK_TYPE /\ p.type = UNSUBACK_TYPE /\ p.id = h.id
    BY <1>2, AnswerMade
  <2> HIDE DEF p, h
  <2>3. QED
    BY <1>1, <1>4, <2>1, <2>2 DEF h
<1>5. QED
  BY <1>1, <1>3, <1>4

LEMMA BrokerDeliverPacket ==
    ASSUME Typed, NEW d \in Down, BrokerDeliver(d)
    PROVE  \E id \in Nat, p \in Sendable :
                /\ id \in IF Qos[d] = 0 THEN {0}
                          ELSE DownId \ {downId[e] : e \in {o \in Down : progress[o] \in Delivering}}
                /\ downId' = [downId EXCEPT ![d] = id]
                /\ toClient' = Append(toClient, p)
                /\ Kind(p) = PUBLISH_TYPE /\ p.type = PUBLISH_TYPE /\ p.id = id /\ p.content = d
                /\ p.flags = PublishFlags(Qos[d], FALSE, FALSE)
<1>1. PICK id \in IF Qos[d] = 0 THEN {0}
                  ELSE DownId \ {downId[e] : e \in {o \in Down : progress[o] \in Delivering}} :
            /\ downId' = [downId EXCEPT ![d] = id]
            /\ toClient' = Append(toClient, Delivery(d, id, FALSE))
  BY DEF BrokerDeliver
<1>2. id \in Nat
  <2>1. DownId \subseteq Nat
    BY Constants
  <2>2. CASE Qos[d] = 0
    BY <1>1, <2>2
  <2>3. CASE Qos[d] # 0
    <3>1. id \in DownId
      BY <1>1, <2>3
    <3>2. QED
      BY <2>1, <3>1
  <2>4. QED
    BY <2>2, <2>3
<1> DEFINE p == Delivery(d, id, FALSE)
<1>3. /\ p \in Sendable /\ Kind(p) = PUBLISH_TYPE /\ p.type = PUBLISH_TYPE /\ p.id = id /\ p.content = d
      /\ p.flags = PublishFlags(Qos[d], FALSE, FALSE)
  BY <1>2, DeliveryMade
<1> HIDE DEF p
<1>4. QED
  BY <1>1, <1>2, <1>3 DEF p

LEMMA ShortenedPacket ==
    ASSUME Typed, Shortened
    PROVE  \E p \in Sendable : Kind(p) = UNKNOWN_TYPE /\ toClient' = Append(toClient, p)
<1> DEFINE p == [Packet(SUBACK_TYPE, 0, 0, NoPacket) EXCEPT !.whole = FALSE]
<1>1. p \in Sendable /\ Kind(p) = UNKNOWN_TYPE
  BY DEF Packet, Sendable, Kind
<1>2. toClient' = Append(toClient, p)
  BY DEF Shortened
<1> HIDE DEF p
<1>3. QED
  BY <1>1, <1>2

LEMMA OwedType ==
    ASSUME Typed, NEW o \in owed
    PROVE  o.msg \in Down /\ o.id \in DownId /\ o.id \in Nat \ {0} /\ o.qos \in {0, 1, 2}
<1>1. TypeOK
  BY DEF Typed
<1>2. \A other \in owed : other.msg \in Down /\ other.id \in DownId /\ other.qos \in 1 .. 2
  BY <1>1 DEF TypeOK
<1>3. DownId \subseteq Nat \ {0}
  BY Constants
<1>4. o.msg \in Down /\ o.id \in DownId /\ o.qos \in {0, 1, 2}
  BY <1>2
<1>5. QED
  BY <1>3, <1>4

\* What a failed mqtt_client_publish means is known where the application relies on it.
Careful == "retry" \in AppMay => "clock" \notin Faults

LEMMA UpStep ==
    ASSUME Typed, UpFlow, Careful, "clock" \notin Faults => NotSent, [Next]_vars
    PROVE  UpKept
<1>1. ASSUME NEW m \in Up, Publish(m) PROVE UpKept
  <2>1. PICK id \in UpId \ {upId[n] : n \in {o \in Up : state[o] \in InFlight}} :
            mqtt_client_publish(m, id, FALSE)
    BY <1>1 DEF Publish
  <2>2. state[m] = "new" /\ \A n \in Up : state[n] \in InFlight => upId[n] # id
    BY <1>1 DEF Publish
  <2>3. QED
    BY <2>1, <2>2, UpPublish
<1>2. ASSUME NEW m \in Up, PublishAgain(m) PROVE UpKept
  <2>1. /\ state[m] = "again" \/ (state[m] = "unsure" /\ NotSent)
        /\ mqtt_client_publish(m, upId[m], TRUE)
    BY <1>2 DEF PublishAgain, Careful
  <2>2. upId[m] \in UpId
    BY <2>1 DEF Typed, Identified, InFlight
  <2>3. QED
    BY <2>1, <2>2, UpPublish
<1>3. ASSUME NEW r \in Request, AskFor(r) PROVE UpKept
  <2> DEFINE p == Packet(r, 2, RequestId[r], NoPacket)
  <2>1. p \in Sendable /\ SentOrNot(p) /\ Kind(p) \notin FromSender
    BY <1>3, AskForPacket
  <2>2. UNCHANGED <<incoming, handling, state, upId, passed, held>>
    BY <1>3 DEF AskFor, client, publishing, broker, incoming
  <2> HIDE DEF p
  <2>3. QED
    BY <2>1, <2>2, UpOtherSent
<1>4. ASSUME NEW o \in owed, mqtt_client_send_message_response(o) PROVE UpKept
  <2>1. o.id \in Nat /\ o.qos \in {0, 1, 2}
    BY OwedType
  <2>2. SentOrNot(Ack(o.id, o.qos))
    BY <1>4, <2>1, AckEffect DEF mqtt_client_send_message_response
  <2>3. Ack(o.id, o.qos) \in Sendable /\ Kind(Ack(o.id, o.qos)) \notin FromSender
    BY <2>1, AckMade
  <2>4. UNCHANGED <<incoming, handling, state, upId, passed, held>>
    BY <1>4 DEF mqtt_client_send_message_response, publishing, broker, incoming
  <2>5. QED
    BY <2>2, <2>3, <2>4, UpOtherSent
<1>5. CASE BytesReceived
  <2>1. incoming' = incoming
    BY <1>5, IncomingCut DEF Typed
  <2>2. UNCHANGED <<handling, toBroker, state, upId, passed, held>>
    BY <1>5 DEF BytesReceived, application, publishing, broker
  <2>3. QED
    BY <2>1, <2>2, WithinSame, UpUndisturbed DEF InHand
<1>6. CASE RecvShort
  <2>1. chunk # <<>> /\ chunk' = Tail(chunk) /\ UNCHANGED <<handling, toClient, toBroker, state, upId, passed, held>>
    BY <1>6 DEF RecvShort, application, publishing, broker
  <2>2. incoming # <<>> /\ incoming' = Tail(incoming) /\ incoming \in Seq(Sendable)
    BY <2>1, IncomingTail, IncomingType DEF Typed
  <2>3. Within(incoming', incoming, FromReceiver)
    BY <2>2, WithinTail
  <2>4. QED
    BY <2>1, <2>3, WithinSame, UpUndisturbed DEF InHand
<1>7. CASE RecvPublish
  BY <1>7, UpOtherIncoming DEF RecvPublish, Incoming, application, publishing
<1>8. CASE PublishReturn
  <2> DEFINE qos == QosOfFlags(handling.flags)
             p == Ack(handling.id, qos)
  <2>1. handling.id \in Nat /\ qos \in {0, 1, 2}
    BY <1>8, QosOfFlagsType DEF PublishReturn, Typed, Channels, Sendable
  <2>2. UNCHANGED toBroker \/ SendMessageAck(handling.id, qos)
    BY <1>8 DEF PublishReturn
  <2> HIDE DEF qos
  <2>3. p \in Sendable /\ Kind(p) \notin FromSender
    BY <2>1, AckMade
  <2>4. SentOrNot(p)
    BY <2>1, <2>2, AckEffect DEF SentOrNot
  <2>5. handling' = NoPacket /\ UNCHANGED <<incoming, state, upId, passed, held>>
    BY <1>8 DEF PublishReturn, publishing, broker, incoming
  <2> HIDE DEF p
  <2>6. QED
    BY <2>3, <2>4, <2>5, UpOtherSent
<1>9. CASE RecvPublishReply
  <2>1. PICK type \in {PUBACK_TYPE, PUBREC_TYPE, PUBREL_TYPE, PUBCOMP_TYPE} :
            Incoming(type) /\ handling' = Head(chunk) /\ Told(Action(type), Head(chunk).id)
    BY <1>9 DEF RecvPublishReply
  <2>2. CASE type \in FromReceiver
    BY <2>1, <2>2, UpReply
  <2>3. CASE type = PUBREL_TYPE
    <3>1. UNCHANGED <<state, upId>>
      BY <2>1, <2>3 DEF Told, Action
    <3>2. QED
      BY <2>1, <2>3, <3>1, UpOtherIncoming
  <2>4. QED
    BY <2>2, <2>3
<1>10. CASE EventReturn
  BY <1>10, UpEventReturn
<1>11. CASE RecvSubscribeAck
  BY <1>11, UpOtherIncoming DEF RecvSubscribeAck, Incoming, publishing
<1>12. CASE RecvUnsubscribeAck
  BY <1>12, UpOtherIncoming DEF RecvUnsubscribeAck, publishing
<1>13. CASE BrokerPublish
  BY <1>13, UpBrokerPublish
<1>14. CASE BrokerRelease
  BY <1>14, UpBrokerRelease
<1>15. CASE BrokerAcknowledged
  <2> DEFINE h == Head(toBroker)
             p == Answer(PUBREL_TYPE, h.id)
  <2>1. /\ Received({PUBACK_TYPE, PUBREC_TYPE, PUBCOMP_TYPE}) /\ UNCHANGED <<passed, held, chunk>>
        /\ Reply(PUBREL_TYPE, h.id) \/ UNCHANGED toClient
    BY <1>15 DEF BrokerAcknowledged, Received, client
  <2>2. h.id \in Nat
    BY <2>1, BrokerReads DEF Typed, Sendable
  <2>3. p \in Sendable /\ Kind(p) \notin FromReceiver
    BY <2>2, AnswerMade
  <2>4. Within(incoming', incoming, FromReceiver)
    <3>1. CASE UNCHANGED toClient
      BY <2>1, <3>1, WithinSame DEF incoming
    <3>2. CASE Reply(PUBREL_TYPE, h.id)
      <4>1. incoming' = Append(incoming, p)
        BY <2>1, <2>2, <3>2, BrokerAnswers DEF Typed
      <4> HIDE DEF p
      <4>2. QED
        BY <2>3, <4>1, IncomingType, WithinAppend DEF Typed
    <3>3. QED
      BY <2>1, <3>1, <3>2
  <2>5. QED
    BY <2>1, <2>4, UpOtherReceived
<1>16. CASE BrokerServe
  <2>1. PICK p \in Sendable : toClient' = Append(toClient, p) /\ Kind(p) \notin FromReceiver
    BY <1>16, BrokerServePacket
  <2>2. Received({SUBSCRIBE_TYPE, UNSUBSCRIBE_TYPE}) /\ UNCHANGED <<passed, held, chunk>>
    BY <1>16 DEF BrokerServe, Received, client
  <2>3. incoming' = Append(incoming, p)
    BY <2>1, <2>2, IncomingAppend DEF Typed
  <2>4. Within(incoming', incoming, FromReceiver)
    BY <2>1, <2>3, IncomingType, WithinAppend DEF Typed
  <2>5. QED
    BY <2>2, <2>4, UpOtherReceived
<1>17. ASSUME NEW d \in Down, BrokerDeliver(d) PROVE UpKept
  <2>1. PICK id \in Nat, p \in Sendable : toClient' = Append(toClient, p) /\ Kind(p) = PUBLISH_TYPE
    BY <1>17, BrokerDeliverPacket
  <2>2. UNCHANGED <<chunk, handling, toBroker, state, upId, passed, held>>
    BY <1>17 DEF BrokerDeliver, client, application, publishing
  <2>3. Kind(p) \notin FromReceiver
    BY <2>1
  <2>4. QED
    BY <2>1, <2>2, <2>3, UpOtherDelivered
<1>18. CASE Lost
  BY <1>18, WithinSame, UpUndisturbed DEF Lost, application, publishing, broker, InHand, incoming
<1>19. CASE Shortened
  <2>1. PICK p \in Sendable : toClient' = Append(toClient, p) /\ Kind(p) \notin FromReceiver
    BY <1>19, ShortenedPacket
  <2>2. UNCHANGED <<chunk, handling, toBroker, state, upId, passed, held>>
    BY <1>19 DEF Shortened, client, application, publishing, broker
  <2>3. QED
    BY <2>1, <2>2, UpOtherDelivered
<1>20. CASE Reconnect
  BY <1>20, UpReconnect
<1>21. CASE UNCHANGED vars
  BY <1>21, WithinSame, UpUndisturbed
     DEF vars, client, network, application, publishing, broker, InHand, incoming
<1>22. QED
  BY <1>1, <1>2, <1>3, <1>4, <1>5, <1>6, <1>7, <1>8, <1>9, <1>10, <1>11, <1>12, <1>13,
     <1>14, <1>15, <1>16, <1>17, <1>18, <1>19, <1>20, <1>21 DEF Next, Calls, Handlers, Broker

-----------------------------------------------------------------------------
(* Delivering: one packet at a time.                                       *)

LEMMA DownRest ==
    ASSUME DownOneAtATime,
           Within(incoming', incoming, FromSender), Within(toBroker', toBroker, FromReceiver),
           InHand(FromSender)' \subseteq InHand(FromSender), owed' \subseteq owed
    PROVE  DownOneAtATime'
BY DEF DownOneAtATime, Within, Apart

LEMMA DownUndisturbed ==
    ASSUME DownFlow, UNCHANGED <<progress, downId, taken, known>>,
           Within(incoming', incoming, FromSender), Within(toBroker', toBroker, FromReceiver),
           InHand(FromSender)' \subseteq InHand(FromSender), owed' \subseteq owed
    PROVE  DownFlow'
<1>1. DownMessages'
  BY DEF DownFlow, DownMessages, DownMessage
<1>2. DownPackets'
  <2>1. \A p \in Of(incoming', FromSender) : DownIn(p)'
    BY DEF DownFlow, DownPackets, DownIn, Within
  <2>2. \A p \in InHand(FromSender)' : DownIn(p)' /\ (p.type = PUBREL_TYPE => p.id \notin known')
    BY DEF DownFlow, DownPackets, DownIn
  <2>3. \A p \in Of(toBroker', FromReceiver) : DownOut(p)'
    BY DEF DownFlow, DownPackets, DownOut, Within
  <2>4. \A o \in owed' : Owing(o)'
    BY DEF DownFlow, DownPackets, Owing
  <2>5. QED
    BY <2>1, <2>2, <2>3, <2>4 DEF DownPackets
<1>3. DownOneAtATime'
  BY DownRest DEF DownFlow
<1>4. QED
  BY <1>1, <1>2, <1>3 DEF DownFlow

\* An answer, after what it answers has gone.
LEMMA DownOutAdded ==
    ASSUME Channels, DownOneAtATime, NEW p \in Sendable, SentOrNot(p),
           Within(incoming', incoming, FromSender),
           InHand(FromSender)' \subseteq InHand(FromSender), owed' \subseteq owed,
           Clear(Of(incoming', FromSender), p), Clear(Of(toBroker, FromReceiver), p),
           Clear(InHand(FromSender)', p), Clear(owed', p)
    PROVE  DownOneAtATime' /\ Of(toBroker', FromReceiver) \subseteq Of(toBroker, FromReceiver) \cup {p}
<1>1. CASE toBroker' = toBroker
  BY <1>1, DownRest, WithinSame
<1>2. CASE toBroker' = Append(toBroker, p)
  <2>1. /\ Of(toBroker', FromReceiver) \subseteq Of(toBroker, FromReceiver) \cup {p}
        /\ Alone(toBroker, FromReceiver) => Alone(toBroker', FromReceiver)
    BY <1>2, OfAdded DEF Channels
  <2>2. Alone(incoming', FromSender) /\ Alone(toBroker', FromReceiver)
    BY <2>1 DEF DownOneAtATime, Within
  <2>3. Apart(Of(incoming', FromSender), Of(toBroker', FromReceiver))
    BY <2>1 DEF DownOneAtATime, Within, Apart, Clear
  <2>4. Apart(Of(incoming', FromSender), InHand(FromSender)')
    BY DEF DownOneAtATime, Within, Apart
  <2>5. Apart(Of(toBroker', FromReceiver), InHand(FromSender)')
    BY <2>1 DEF DownOneAtATime, Apart, Clear, Same
  <2>6. Apart(owed', Of(incoming', FromSender) \cup Of(toBroker', FromReceiver) \cup InHand(FromSender)')
    BY <2>1 DEF DownOneAtATime, Within, Apart, Clear
  <2>7. \A o, other \in owed' : o.id = other.id => o = other
    BY DEF DownOneAtATime
  <2>8. QED
    BY <2>1, <2>2, <2>3, <2>4, <2>5, <2>6, <2>7 DEF DownOneAtATime
<1>3. QED
  BY <1>1, <1>2 DEF SentOrNot

\* A packet from the broker, after what was there for its message has gone.
LEMMA DownInAdded ==
    ASSUME Channels, DownOneAtATime, NEW p \in Sendable, incoming' = Append(incoming, p),
           Within(toBroker', toBroker, FromReceiver),
           InHand(FromSender)' \subseteq InHand(FromSender), owed' \subseteq owed,
           Clear(Of(incoming, FromSender), p), Clear(Of(toBroker', FromReceiver), p),
           Clear(InHand(FromSender)', p), Clear(owed', p)
    PROVE  DownOneAtATime' /\ Of(incoming', FromSender) \subseteq Of(incoming, FromSender) \cup {p}
<1>1. /\ Of(incoming', FromSender) \subseteq Of(incoming, FromSender) \cup {p}
      /\ Alone(incoming, FromSender) => Alone(incoming', FromSender)
  BY IncomingType, OfAdded
<1>2. Alone(incoming', FromSender) /\ Alone(toBroker', FromReceiver)
  BY <1>1 DEF DownOneAtATime, Within
<1>3. Apart(Of(incoming', FromSender), Of(toBroker', FromReceiver))
  BY <1>1 DEF DownOneAtATime, Within, Apart, Clear, Same
<1>4. Apart(Of(incoming', FromSender), InHand(FromSender)')
  BY <1>1 DEF DownOneAtATime, Apart, Clear, Same
<1>5. Apart(Of(toBroker', FromReceiver), InHand(FromSender)')
  BY DEF DownOneAtATime, Within, Apart
<1>6. Apart(owed', Of(incoming', FromSender) \cup Of(toBroker', FromReceiver) \cup InHand(FromSender)')
  BY <1>1 DEF DownOneAtATime, Within, Apart, Clear
<1>7. \A o, other \in owed' : o.id = other.id => o = other
  BY DEF DownOneAtATime
<1>8. QED
  BY <1>1, <1>2, <1>3, <1>4, <1>5, <1>6, <1>7 DEF DownOneAtATime

\* A packet that comes into the hands of the client.
LEMMA DownHanded ==
    ASSUME DownOneAtATime, NEW h \in Of(incoming, FromSender),
           Within(incoming', incoming, FromSender), Clear(Of(incoming', FromSender), h),
           InHand(FromSender)' \subseteq {h}, UNCHANGED <<toBroker, owed>>
    PROVE  DownOneAtATime'
<1>1. Alone(incoming', FromSender) /\ Alone(toBroker', FromReceiver)
  BY DEF DownOneAtATime, Within
<1>2. Apart(Of(incoming', FromSender), Of(toBroker', FromReceiver))
  BY DEF DownOneAtATime, Within, Apart
<1>3. Apart(Of(incoming', FromSender), InHand(FromSender)')
  BY DEF Apart, Clear
<1>4. Apart(Of(toBroker', FromReceiver), InHand(FromSender)')
  BY DEF DownOneAtATime, Apart, Same
<1>5. Apart(owed', Of(incoming', FromSender) \cup Of(toBroker', FromReceiver) \cup InHand(FromSender)')
  BY DEF DownOneAtATime, Within, Apart
<1>6. \A o, other \in owed' : o.id = other.id => o = other
  BY DEF DownOneAtATime
<1>7. QED
  BY <1>1, <1>2, <1>3, <1>4, <1>5, <1>6 DEF DownOneAtATime

\* A message that the application keeps to answer later.
LEMMA DownKept ==
    ASSUME DownOneAtATime, NEW h \in InHand(FromSender), h.id # 0, NEW o, o.id = h.id,
           owed' = owed \cup {o}, InHand(FromSender)' = {}, UNCHANGED <<incoming, toBroker>>
    PROVE  DownOneAtATime'
<1>1. ASSUME NEW q, Same(o, q) \/ Same(q, o) PROVE Same(q, h)
  BY <1>1 DEF Same
<1>2. Apart(owed', Of(incoming', FromSender) \cup Of(toBroker', FromReceiver))
  <2>1. ASSUME NEW q \in Of(incoming, FromSender) \cup Of(toBroker, FromReceiver) PROVE ~Same(o, q)
    BY <1>1 DEF DownOneAtATime, Apart
  <2>2. QED
    BY <2>1 DEF DownOneAtATime, Apart
<1>3. \A other, another \in owed' : other.id = another.id => other = another
  <2>1. ASSUME NEW other \in owed PROVE other.id # o.id
    BY DEF DownOneAtATime, Apart, Same
  <2>2. QED
    BY <2>1 DEF DownOneAtATime
<1>4. Apart(Of(incoming', FromSender), Of(toBroker', FromReceiver))
  BY DEF DownOneAtATime
<1>5. QED
  BY <1>2, <1>3, <1>4 DEF DownOneAtATime, Apart

-----------------------------------------------------------------------------
(* Delivering, action by action.                                           *)

\* A message that the broker has not settled has an identifier of its own.
LEMMA IdOfDelivering ==
    ASSUME Typed, DownMessages, NEW d \in Down, progress[d] \in Delivering
    PROVE  /\ downId[d] \in DownId /\ downId[d] \in Nat \ {0} /\ Qos[d] \in {1, 2}
           /\ \A e \in Down : progress[e] \in Delivering /\ downId[e] = downId[d] => e = d
<1>1. DownMessage(d) /\ Qos[d] \in {0, 1, 2} /\ DownId \subseteq Nat \ {0}
  BY Constants DEF DownMessages
<1>2. downId[d] \in DownId
  BY <1>1 DEF DownMessage
<1>3. Qos[d] \in {1, 2}
  BY <1>1 DEF DownMessage, Delivering
<1>4. \A e \in Down : progress[e] \in Delivering /\ downId[e] = downId[d] => e = d
  BY DEF DownMessages
<1>5. QED
  BY <1>1, <1>2, <1>3, <1>4

\* The message of a packet.
Owned(p) == \E d \in Down : progress[d] \in Delivering /\ downId[d] = p.id /\ p.id # 0
Bare(p) == p.id = 0 /\ p.content \in Down /\ Qos[p.content] = 0 /\ progress[p.content] = "done"

LEMMA DownInOwner ==
    ASSUME Typed, DownMessages, NEW p, DownIn(p)
    PROVE  Owned(p) \/ Bare(p)
<1>1. PICK d \in Down :
        /\ downId[d] = p.id
        /\ \/ /\ p.type = PUBLISH_TYPE /\ p.content = d /\ QosOfFlags(p.flags) = Qos[d]
              /\ IF Qos[d] = 0 THEN progress[d] = "done" /\ taken[d] = 0 /\ p.id = 0
                 ELSE progress[d] = "sent"
           \/ p.type = PUBREL_TYPE /\ progress[d] = "received"
  BY DEF DownIn
<1>2. CASE progress[d] \in Delivering
  BY <1>1, <1>2, IdOfDelivering DEF Owned
<1>3. CASE progress[d] \notin Delivering
  BY <1>1, <1>3 DEF Bare, Delivering
<1>4. QED
  BY <1>2, <1>3

LEMMA DownOutOwner ==
    ASSUME Typed, DownMessages, NEW p, DownOut(p)
    PROVE  Owned(p)
<1>1. PICK d \in Down : downId[d] = p.id /\ progress[d] \in Delivering
  BY DEF DownOut, Delivering
<1>2. QED
  BY <1>1, IdOfDelivering DEF Owned

LEMMA DownOwner ==
    ASSUME Typed, DownFlow,
           NEW q \in Of(incoming, FromSender) \cup Of(toBroker, FromReceiver)
                     \cup InHand(FromSender) \cup owed
    PROVE  Owned(q) \/ Bare(q)
<1>1. CASE q \in Of(incoming, FromSender) \cup InHand(FromSender)
  BY <1>1, DownInOwner DEF DownFlow, DownPackets
<1>2. CASE q \in Of(toBroker, FromReceiver)
  BY <1>2, DownOutOwner DEF DownFlow, DownPackets
<1>3. CASE q \in owed
  <2>1. q.msg \in Down /\ downId[q.msg] = q.id /\ progress[q.msg] \in Delivering
    BY <1>3 DEF DownFlow, DownPackets, Owing, Delivering
  <2>2. QED
    BY <2>1, IdOfDelivering DEF Owned, DownFlow
<1>4. QED
  BY <1>1, <1>2, <1>3

LEMMA QosKept ==
    ASSUME NEW qos \in {0, 1, 2}
    PROVE  /\ QosOfFlags(PublishFlags(qos, FALSE, FALSE)) = qos
           /\ qos # 0 => QosOfFlags(PublishFlags(qos, TRUE, FALSE)) = qos
<1>1. ASSUME NEW flags \in {0, 2, 4, 10, 12}
      PROVE  QosOfFlags(flags) = IF flags = 0 THEN 0 ELSE IF flags \in {2, 10} THEN 1 ELSE 2
  BY DEF QosOfFlags, Bit, DELIVER_AT_MOST_ONCE, DELIVER_AT_LEAST_ONCE, DELIVER_EXACTLY_ONCE
<1>2. /\ PublishFlags(qos, FALSE, FALSE) = IF qos = 0 THEN 0 ELSE IF qos = 1 THEN 2 ELSE 4
      /\ qos # 0 => PublishFlags(qos, TRUE, FALSE) = IF qos = 1 THEN 10 ELSE 12
  BY DEF PublishFlags, DELIVER_AT_MOST_ONCE, DELIVER_AT_LEAST_ONCE, DELIVER_EXACTLY_ONCE
<1>3. QosOfFlags(0) = 0 /\ QosOfFlags(2) = 1 /\ QosOfFlags(4) = 2
  BY <1>1
<1>4. QosOfFlags(10) = 1 /\ QosOfFlags(12) = 2
  BY <1>1
<1>5. QED
  BY <1>2, <1>3, <1>4

LEMMA DownDeliver ==
    ASSUME Typed, DownFlow, NEW d \in Down, BrokerDeliver(d)
    PROVE  DownFlow'
<1>1. PICK id \in Nat, p \in Sendable :
        /\ id \in IF Qos[d] = 0 THEN {0}
                  ELSE DownId \ {downId[e] : e \in {o \in Down : progress[o] \in Delivering}}
        /\ downId' = [downId EXCEPT ![d] = id]
        /\ toClient' = Append(toClient, p)
        /\ Kind(p) = PUBLISH_TYPE /\ p.type = PUBLISH_TYPE /\ p.id = id /\ p.content = d
        /\ p.flags = PublishFlags(Qos[d], FALSE, FALSE)
  BY BrokerDeliverPacket
<1>2. /\ progress[d] = "new" /\ UNCHANGED <<chunk, handling, toBroker, owed, taken, known>>
      /\ progress' = [progress EXCEPT ![d] = IF Qos[d] = 0 THEN "done" ELSE "sent"]
  BY DEF BrokerDeliver, client, application, receiving
<1>3. Qos[d] \in {0, 1, 2} /\ (Qos[d] = 0 => id = 0) /\ (Qos[d] # 0 => id \in DownId /\ id # 0)
  BY <1>1, Constants
<1>4. ASSUME NEW e \in Down, progress[e] \in Delivering PROVE downId[e] # id /\ e # d
  <2>1. CASE Qos[d] = 0
    BY <1>2, <1>3, <1>4, <2>1, IdOfDelivering DEF DownFlow, Delivering
  <2>2. CASE Qos[d] # 0
    BY <1>1, <1>2, <1>4, <2>2 DEF Delivering
  <2>3. QED
    BY <2>1, <2>2
<1>5. /\ progress'[d] = (IF Qos[d] = 0 THEN "done" ELSE "sent") /\ downId'[d] = id
      /\ \A e \in Down : e # d => progress'[e] = progress[e] /\ downId'[e] = downId[e]
  BY <1>1, <1>2 DEF Typed, TypeOK
<1>6. incoming' = Append(incoming, p)
  BY <1>1, <1>2, IncomingAppend DEF Typed
<1>7. InHand(FromSender)' = InHand(FromSender)
  BY <1>2 DEF InHand
<1>8. ASSUME NEW q \in Of(incoming, FromSender) \cup Of(toBroker, FromReceiver)
                       \cup InHand(FromSender) \cup owed
      PROVE  ~Same(q, p)
  <2>1. Owned(q) \/ Bare(q)
    BY DownOwner
  <2>2. CASE Owned(q)
    BY <1>1, <1>4, <2>2 DEF Owned, Same
  <2>3. CASE Bare(q)
    BY <1>1, <1>2, <2>3 DEF Bare, Same
  <2>4. QED
    BY <2>1, <2>2, <2>3
<1>9. DownOneAtATime' /\ Of(incoming', FromSender) \subseteq Of(incoming, FromSender) \cup {p}
  <2>1. /\ Clear(Of(incoming, FromSender), p) /\ Clear(Of(toBroker', FromReceiver), p)
        /\ Clear(InHand(FromSender)', p) /\ Clear(owed', p)
    BY <1>2, <1>7, <1>8 DEF Clear
  <2>2. Within(toBroker', toBroker, FromReceiver)
    BY <1>2, WithinSame
  <2>3. QED
    BY <1>2, <1>6, <1>7, <2>1, <2>2, DownInAdded DEF Typed, DownFlow
<1>10. DownMessage(d) /\ taken[d] = 0
  BY <1>2 DEF DownFlow, DownMessages, DownMessage
<1>11. DownMessages'
  <2>1. DownMessage(d)'
    <3>1. id \notin known
      <4>1. \A i \in known : \E e \in Down : progress[e] \in Delivering /\ downId[e] = i
        BY DEF DownFlow, DownMessages
      <4>2. QED
        BY <1>4, <4>1
    <3>2. QED
      BY <1>2, <1>3, <1>5, <1>10, <3>1 DEF DownMessage, Delivering
  <2>2. ASSUME NEW e \in Down, e # d PROVE DownMessage(e)'
    BY <1>2, <1>5, <2>2 DEF DownFlow, DownMessages, DownMessage
  <2>3. ASSUME NEW e \in Down, NEW f \in Down,
               {progress'[e], progress'[f]} \subseteq Delivering, downId'[e] = downId'[f]
        PROVE  e = f
    <3>1. CASE e # d /\ f # d
      BY <1>5, <2>3, <3>1 DEF DownFlow, DownMessages
    <3>2. CASE e = d /\ f # d
      BY <1>4, <1>5, <2>3, <3>2
    <3>3. CASE f = d /\ e # d
      BY <1>4, <1>5, <2>3, <3>3
    <3>4. QED
      BY <3>1, <3>2, <3>3
  <2>4. \A i \in known' : \E e \in Down : progress'[e] \in Delivering /\ downId'[e] = i /\ Qos[e] = 2
    BY <1>2, <1>4, <1>5 DEF DownFlow, DownMessages
  <2>5. QED
    BY <2>1, <2>2, <2>3, <2>4 DEF DownMessages
<1>12. ASSUME NEW q, DownIn(q) PROVE DownIn(q)'
  <2>1. PICK e \in Down :
        /\ downId[e] = q.id
        /\ \/ /\ q.type = PUBLISH_TYPE /\ q.content = e /\ QosOfFlags(q.flags) = Qos[e]
              /\ IF Qos[e] = 0 THEN progress[e] = "done" /\ taken[e] = 0 /\ q.id = 0
                 ELSE progress[e] = "sent"
           \/ q.type = PUBREL_TYPE /\ progress[e] = "received"
    BY <1>12 DEF DownIn
  <2>2. e # d
    BY <1>2, <2>1
  <2>3. QED
    BY <1>2, <1>5, <2>1, <2>2 DEF DownIn
<1>13. ASSUME NEW q, DownOut(q) PROVE DownOut(q)'
  <2>1. PICK e \in Down :
        /\ downId[e] = q.id
        /\ \/ /\ q.type = IF Qos[e] = 1 THEN PUBACK_TYPE ELSE PUBREC_TYPE
              /\ progress[e] = "sent" /\ taken[e] > 0
           \/ q.type = PUBCOMP_TYPE /\ progress[e] = "received" /\ q.id \notin known
    BY <1>13 DEF DownOut
  <2>2. e # d
    BY <1>2, <2>1
  <2>3. QED
    BY <1>2, <1>5, <2>1, <2>2 DEF DownOut
<1>14. ASSUME NEW q, q = p PROVE DownIn(q)'
  <2>1. QosOfFlags(q.flags) = Qos[d]
    BY <1>1, <1>3, <1>14, QosKept
  <2>2. QED
    BY <1>1, <1>2, <1>3, <1>5, <1>10, <1>14, <2>1 DEF DownIn
<1>15. DownPackets'
  <2>1. \A q \in Of(incoming', FromSender) : DownIn(q)'
    BY <1>9, <1>12, <1>14 DEF DownFlow, DownPackets
  <2>2. \A q \in InHand(FromSender)' : DownIn(q)' /\ (q.type = PUBREL_TYPE => q.id \notin known')
    BY <1>2, <1>7, <1>12 DEF DownFlow, DownPackets
  <2>3. \A q \in Of(toBroker', FromReceiver) : DownOut(q)'
    BY <1>2, <1>13 DEF DownFlow, DownPackets
  <2>4. \A o \in owed' : Owing(o)'
    BY <1>2, <1>5 DEF DownFlow, DownPackets, Owing
  <2>5. QED
    BY <2>1, <2>2, <2>3, <2>4 DEF DownPackets
<1>16. QED
  BY <1>9, <1>11, <1>15 DEF DownFlow

\* The application takes a message that it was given.
LEMMA DownTake ==
    ASSUME Typed, DownFlow, NEW d \in Down, NEW id, downId[d] = id,
           IF Qos[d] = 0 THEN progress[d] = "done" /\ taken[d] = 0 /\ id = 0
                         ELSE progress[d] = "sent",
           Take(d, id), UNCHANGED <<progress, downId>>
    PROVE  /\ DownMessages' /\ taken'[d] > 0
           /\ \A q : DownIn(q) /\ (q.id # id \/ q.content # d) => DownIn(q)'
           /\ \A q : DownOut(q) /\ q.id # id => DownOut(q)'
           /\ \A i : i # id /\ i \notin known => i \notin known'
<1>1. /\ taken' = IF Qos[d] = 2 /\ id \in known THEN taken ELSE [taken EXCEPT ![d] = @ + 1]
      /\ known' = IF Qos[d] = 2 THEN known \cup {id} ELSE known
  BY DEF Take
<1>2. taken \in [Down -> Nat] /\ Qos[d] \in {0, 1, 2}
  BY Constants DEF Typed, TypeOK
<1>3. DownMessage(d)
  BY DEF DownFlow, DownMessages
<1>4. /\ taken'[d] > 0 /\ (Qos[d] = 2 => taken'[d] <= 1 /\ id \in known')
      /\ \A e \in Down : taken'[e] \in Nat /\ (e # d => taken'[e] = taken[e])
      /\ \A e \in Down : taken[e] > 0 => taken'[e] > 0
  <2>1. CASE Qos[d] = 2 /\ id \in known
    <3>1. taken' = taken /\ known' = known \cup {id}
      BY <1>1, <2>1
    <3>2. taken[d] > 0 /\ taken[d] <= 1
      BY <1>3, <2>1 DEF DownMessage
    <3>3. QED
      BY <1>2, <3>1, <3>2
  <2>2. CASE ~(Qos[d] = 2 /\ id \in known)
    <3>1. taken' = [taken EXCEPT ![d] = @ + 1]
      BY <1>1, <2>2
    <3>2. Qos[d] = 2 => ~(taken[d] > 0) /\ id \in known'
      BY <1>1, <1>3, <2>2 DEF DownMessage
    <3>3. /\ taken[d] \in Nat /\ taken'[d] = taken[d] + 1
          /\ \A e \in Down : taken'[e] \in Nat /\ (e # d => taken'[e] = taken[e])
      BY <1>2, <3>1
    <3>4. QED
      BY <3>2, <3>3
  <2>3. QED
    BY <2>1, <2>2
<1>5. \A i : i # id => (i \in known' <=> i \in known)
  BY <1>1
<1>6. ASSUME NEW e \in Down, progress[e] \in Delivering, e # d
      PROVE  downId[e] \in known' <=> downId[e] \in known
  <2>1. CASE Qos[d] = 0
    BY <1>1, <2>1
  <2>2. CASE Qos[d] # 0
    <3>1. downId[e] # id
      BY <1>6, <2>2, IdOfDelivering DEF DownFlow, Delivering
    <3>2. QED
      BY <1>5, <3>1
  <2>3. QED
    BY <2>1, <2>2
<1>7. DownMessages'
  <2>1. DownMessage(d)'
    BY <1>1, <1>2, <1>3, <1>4 DEF DownMessage, Delivering
  <2>2. ASSUME NEW e \in Down, e # d PROVE DownMessage(e)'
    <3>1. DownMessage(e) /\ taken'[e] = taken[e]
      BY <1>4, <2>2 DEF DownFlow, DownMessages
    <3>2. progress[e] = "sent" => (downId[e] \in known' <=> downId[e] \in known)
      BY <1>6, <2>2 DEF Delivering
    <3>3. QED
      BY <3>1, <3>2 DEF DownMessage
  <2>3. \A e, f \in Down :
            {progress'[e], progress'[f]} \subseteq Delivering /\ downId'[e] = downId'[f] => e = f
    BY DEF DownFlow, DownMessages
  <2>4. \A i \in known' : \E e \in Down : progress'[e] \in Delivering /\ downId'[e] = i /\ Qos[e] = 2
    BY <1>1 DEF DownFlow, DownMessages, Delivering
  <2>5. QED
    BY <2>1, <2>2, <2>3, <2>4 DEF DownMessages
<1>8. ASSUME NEW q, DownIn(q), q.id # id \/ q.content # d PROVE DownIn(q)'
  <2>1. PICK e \in Down :
        /\ downId[e] = q.id
        /\ \/ /\ q.type = PUBLISH_TYPE /\ q.content = e /\ QosOfFlags(q.flags) = Qos[e]
              /\ IF Qos[e] = 0 THEN progress[e] = "done" /\ taken[e] = 0 /\ q.id = 0
                 ELSE progress[e] = "sent"
           \/ q.type = PUBREL_TYPE /\ progress[e] = "received"
    BY <1>8 DEF DownIn
  <2>2. Qos[e] = 0 /\ q.content = e => taken'[e] = taken[e]
    BY <1>4, <1>8, <2>1
  <2>3. QED
    BY <2>1, <2>2 DEF DownIn
<1>9. ASSUME NEW q, DownOut(q), q.id # id PROVE DownOut(q)'
  BY <1>4, <1>5, <1>9 DEF DownOut
<1>10. QED
  BY <1>4, <1>5, <1>7, <1>8, <1>9

\* It answers a message that it kept.
LEMMA DownRespond ==
    ASSUME Typed, DownFlow, NEW o \in owed, mqtt_client_send_message_response(o)
    PROVE  DownFlow'
<1> DEFINE p == Ack(o.id, o.qos)
<1>1. /\ o.msg \in Down /\ o.id \in Nat /\ o.id # 0 /\ o.qos \in {0, 1, 2}
      /\ downId[o.msg] = o.id /\ o.qos = Qos[o.msg] /\ progress[o.msg] = "sent" /\ Qos[o.msg] \in {1, 2}
  <2>1. Owing(o)
    BY DEF DownFlow, DownPackets
  <2>2. Qos[o.msg] \in {1, 2}
    BY <2>1, IdOfDelivering DEF Owing, DownFlow, Delivering
  <2>3. QED
    BY <2>1, <2>2, OwedType DEF Owing
<1>2. /\ owed' = owed \ {o} /\ Take(o.msg, o.id) /\ SendMessageAck(o.id, o.qos)
      /\ UNCHANGED <<incoming, handling, progress, downId>>
  BY DEF mqtt_client_send_message_response, broker, incoming
<1>3. /\ p \in Sendable /\ p.id = o.id /\ p.type = (IF Qos[o.msg] = 2 THEN PUBREC_TYPE ELSE PUBACK_TYPE)
      /\ SentOrNot(p)
  BY <1>1, <1>2, AckMade, AckEffect
<1> HIDE DEF p
<1>4. /\ DownMessages' /\ taken'[o.msg] > 0
      /\ \A q : DownIn(q) /\ (q.id # o.id \/ q.content # o.msg) => DownIn(q)'
      /\ \A q : DownOut(q) /\ q.id # o.id => DownOut(q)'
      /\ \A i : i # o.id /\ i \notin known => i \notin known'
  BY <1>1, <1>2, DownTake
<1>5. InHand(FromSender)' = InHand(FromSender)
  BY <1>2 DEF InHand
<1>6. ASSUME NEW q \in Of(incoming, FromSender) \cup Of(toBroker, FromReceiver) \cup InHand(FromSender)
      PROVE  q.id # o.id
  BY <1>1 DEF DownFlow, DownOneAtATime, Apart, Same
<1>7. DownOneAtATime' /\ Of(toBroker', FromReceiver) \subseteq Of(toBroker, FromReceiver) \cup {p}
  <2>1. /\ Clear(Of(incoming', FromSender), p) /\ Clear(Of(toBroker, FromReceiver), p)
        /\ Clear(InHand(FromSender)', p)
    BY <1>2, <1>3, <1>5, <1>6 DEF Clear, Same
  <2>2. Clear(owed', p)
    BY <1>2, <1>3 DEF Clear, Same, DownFlow, DownOneAtATime
  <2>3. Within(incoming', incoming, FromSender)
    BY <1>2, WithinSame
  <2>4. QED
    BY <1>2, <1>3, <1>5, <2>1, <2>2, <2>3, DownOutAdded DEF Typed, DownFlow
<1>8. ASSUME NEW q, q = p PROVE DownOut(q)'
  BY <1>1, <1>2, <1>3, <1>4, <1>8 DEF DownOut
<1>9. DownPackets'
  <2>1. \A q \in Of(incoming', FromSender) : DownIn(q)'
    BY <1>2, <1>4, <1>6 DEF DownFlow, DownPackets
  <2>2. \A q \in InHand(FromSender)' : DownIn(q)' /\ (q.type = PUBREL_TYPE => q.id \notin known')
    BY <1>4, <1>5, <1>6 DEF DownFlow, DownPackets
  <2>3. \A q \in Of(toBroker', FromReceiver) : DownOut(q)'
    BY <1>4, <1>6, <1>7, <1>8 DEF DownFlow, DownPackets
  <2>4. \A other \in owed' : Owing(other)'
    BY <1>2 DEF DownFlow, DownPackets, Owing
  <2>5. QED
    BY <2>1, <2>2, <2>3, <2>4 DEF DownPackets
<1>10. QED
  BY <1>4, <1>7, <1>9 DEF DownFlow

LEMMA HandlingInHand ==
    ASSUME Channels, handling # NoPacket, NEW kinds, handling.type \in kinds
    PROVE  /\ handling \in Sendable /\ handling.id \in Nat /\ Kind(handling) = handling.type
           /\ handling \in InHand(kinds)
BY DEF Channels, Sendable, Kind, InHand

\* fnMessageRecv has returned: the message is taken and answered, or kept.
LEMMA DownPublishReturn ==
    ASSUME Typed, DownFlow, PublishReturn
    PROVE  DownFlow'
<1> DEFINE d == handling.content
           id == handling.id
           qos == QosOfFlags(handling.flags)
           p == Ack(id, qos)
           o == [msg |-> d, id |-> id, qos |-> qos]
<1>1. /\ handling \in InHand(FromSender) /\ id \in Nat /\ handling.type = PUBLISH_TYPE
  BY HandlingInHand DEF PublishReturn, Typed
<1>2. /\ d \in Down /\ downId[d] = id /\ qos = Qos[d]
      /\ IF Qos[d] = 0 THEN progress[d] = "done" /\ taken[d] = 0 /\ id = 0
                       ELSE progress[d] = "sent"
  <2>1. DownIn(handling)
    BY <1>1 DEF DownFlow, DownPackets
  <2>2. QED
    BY <1>1, <2>1 DEF DownIn
<1>3. /\ Qos[d] \in {0, 1, 2} /\ (Qos[d] # 0 => id # 0)
  BY <1>2, Constants, IdOfDelivering DEF DownFlow, Delivering
<1>4. /\ \/ /\ Take(d, id) /\ UNCHANGED owed
            /\ SendMessageAck(id, qos)
         \/ /\ Qos[d] # 0 /\ owed' = owed \cup {o} /\ UNCHANGED <<taken, known, toBroker>>
      /\ handling' = NoPacket /\ UNCHANGED <<incoming, progress, downId>>
  BY SessionAssumption DEF PublishReturn, AckNow, broker, incoming
<1>5. InHand(FromSender)' = {}
  BY <1>4 DEF InHand
<1>6. Within(incoming', incoming, FromSender)
  BY <1>4, WithinSame
<1>7. ASSUME NEW q, Same(q, handling) \/ Same(handling, q)
      PROVE  \A r \in Of(incoming, FromSender) \cup Of(toBroker, FromReceiver) \cup owed : r # q
  BY <1>1, <1>7 DEF DownFlow, DownOneAtATime, Apart, Same
<1>8. CASE Take(d, id) /\ UNCHANGED owed /\ SendMessageAck(id, qos)
  <2>1. /\ DownMessages' /\ taken'[d] > 0
        /\ \A q : DownIn(q) /\ (q.id # id \/ q.content # d) => DownIn(q)'
        /\ \A q : DownOut(q) /\ q.id # id => DownOut(q)'
    BY <1>2, <1>4, <1>8, DownTake
  <2>2. ASSUME NEW q \in Of(incoming, FromSender) PROVE DownIn(q)'
    <3>1. q.id # id \/ q.content # d
      BY <1>7 DEF Same
    <3>2. QED
      BY <2>1, <3>1 DEF DownFlow, DownPackets
  <2>3. ASSUME NEW q \in Of(toBroker, FromReceiver) PROVE q.id # 0 /\ q.id # id /\ DownOut(q)'
    <3>1. q.id # 0 /\ DownOut(q)
      BY DownOutOwner DEF DownFlow, DownPackets, Owned
    <3>2. q.id # id
      BY <1>7, <3>1 DEF Same
    <3>3. QED
      BY <2>1, <3>1, <3>2
  <2>4. \A other \in owed' : Owing(other)'
    BY <1>4, <1>8 DEF DownFlow, DownPackets, Owing
  <2>5. CASE Qos[d] = 0
    <3>1. UNCHANGED toBroker
      BY <1>2, <1>8, <2>5, AckEffect
    <3>2. DownOneAtATime'
      BY <1>5, <1>6, <1>8, <3>1, WithinSame, DownRest DEF DownFlow
    <3>3. DownPackets'
      BY <1>4, <1>5, <2>2, <2>3, <2>4, <3>1 DEF DownPackets
    <3>4. QED
      BY <2>1, <3>2, <3>3 DEF DownFlow
  <2>6. CASE Qos[d] # 0
    <3>1. /\ p \in Sendable /\ p.id = id /\ SentOrNot(p)
          /\ p.type = IF Qos[d] = 2 THEN PUBREC_TYPE ELSE PUBACK_TYPE
      BY <1>1, <1>2, <1>3, <1>8, AckMade, AckEffect
    <3> HIDE DEF p
    <3>2. ASSUME NEW q, Same(q, p) PROVE Same(q, handling)
      BY <1>3, <2>6, <3>1, <3>2 DEF Same
    <3>3. /\ Clear(Of(incoming', FromSender), p) /\ Clear(Of(toBroker, FromReceiver), p)
          /\ Clear(InHand(FromSender)', p) /\ Clear(owed', p)
      BY <1>4, <1>5, <1>7, <1>8, <3>2 DEF Clear
    <3>4. DownOneAtATime' /\ Of(toBroker', FromReceiver) \subseteq Of(toBroker, FromReceiver) \cup {p}
      BY <1>5, <1>6, <1>8, <3>1, <3>3, DownOutAdded DEF Typed, DownFlow
    <3>5. ASSUME NEW q, q = p PROVE DownOut(q)'
      BY <1>2, <1>3, <1>4, <2>1, <2>6, <3>1, <3>5 DEF DownOut
    <3>6. DownPackets'
      BY <1>4, <1>5, <2>2, <2>3, <2>4, <3>4, <3>5 DEF DownPackets
    <3>7. QED
      BY <2>1, <3>4, <3>6 DEF DownFlow
  <2>7. QED
    BY <2>5, <2>6
<1>9. CASE Qos[d] # 0 /\ owed' = owed \cup {o} /\ UNCHANGED <<taken, known, toBroker>>
  <2>1. o.id = handling.id /\ handling.id # 0 /\ o.msg = d /\ o.qos = qos
    BY <1>3, <1>9
  <2> HIDE DEF o
  <2>2. DownOneAtATime'
    BY <1>1, <1>4, <1>5, <1>9, <2>1, DownKept DEF DownFlow
  <2>3. DownMessages'
    BY <1>4, <1>9 DEF DownFlow, DownMessages, DownMessage
  <2>4. DownPackets'
    <3>1. \A q \in Of(incoming', FromSender) : DownIn(q)'
      BY <1>4, <1>9 DEF DownFlow, DownPackets, DownIn
    <3>2. \A q \in Of(toBroker', FromReceiver) : DownOut(q)'
      BY <1>4, <1>9 DEF DownFlow, DownPackets, DownOut
    <3>3. \A other \in owed' : Owing(other)'
      <4>1. ASSUME NEW other \in owed PROVE Owing(other)'
        BY <1>4 DEF DownFlow, DownPackets, Owing
      <4>2. ASSUME NEW other, other = o PROVE Owing(other)'
        BY <1>2, <1>4, <1>9, <2>1, <4>2 DEF Owing
      <4>3. QED
        BY <1>9, <4>1, <4>2
    <3>4. QED
      BY <1>5, <3>1, <3>2, <3>3 DEF DownPackets
  <2>5. QED
    BY <2>2, <2>3, <2>4 DEF DownFlow
<1>10. QED
  BY <1>4, <1>8, <1>9

LEMMA DownAcknowledged ==
    ASSUME Typed, DownFlow, BrokerAcknowledged
    PROVE  DownFlow'
<1> DEFINE h == Head(toBroker)
           of == {e \in Down : /\ downId[e] = h.id /\ progress[e] \in Delivering
                               /\ Qos[e] = IF h.type = PUBACK_TYPE THEN 1 ELSE 2}
           after == IF h.type = PUBREC_TYPE THEN "received" ELSE "done"
           p == Answer(PUBREL_TYPE, h.id)
<1>1. /\ h \in Sendable /\ h.type \in FromReceiver
      /\ Within(toBroker', toBroker, FromReceiver)
      /\ h \in Of(toBroker, FromReceiver) /\ Clear(Of(toBroker', FromReceiver), h)
  BY BrokerReads DEF BrokerAcknowledged, Typed, DownFlow, DownOneAtATime
<1>2. /\ progress' = [e \in Down |-> IF e \in of THEN after ELSE progress[e]]
      /\ IF h.type = PUBREC_TYPE THEN Reply(PUBREL_TYPE, h.id) ELSE UNCHANGED toClient
      /\ UNCHANGED <<chunk, handling, downId, taken, known, owed>>
  BY DEF BrokerAcknowledged, Received, client, application, receiving
<1>3. PICK d \in Down :
        /\ downId[d] = h.id
        /\ \/ /\ h.type = IF Qos[d] = 1 THEN PUBACK_TYPE ELSE PUBREC_TYPE
              /\ progress[d] = "sent" /\ taken[d] > 0
           \/ h.type = PUBCOMP_TYPE /\ progress[d] = "received" /\ h.id \notin known
  BY <1>1 DEF DownFlow, DownPackets, DownOut
<1>4. /\ progress[d] \in Delivering /\ Qos[d] \in {1, 2} /\ h.id \in Nat /\ h.id # 0
      /\ \A e \in Down : progress[e] \in Delivering /\ downId[e] = h.id => e = d
  BY <1>3, IdOfDelivering DEF DownFlow, Delivering
<1>5. DownMessage(d)
  BY DEF DownFlow, DownMessages
<1>6. of = {d}
  BY <1>3, <1>4, <1>5 DEF DownMessage
<1>7. progress'[d] = after /\ \A e \in Down : e # d => progress'[e] = progress[e]
  BY <1>2, <1>6
<1> HIDE DEF h, of
<1>8. InHand(FromSender)' = InHand(FromSender)
  BY <1>2 DEF InHand
<1>9. ASSUME NEW q \in Of(incoming, FromSender) \cup Of(toBroker', FromReceiver)
                       \cup InHand(FromSender) \cup owed
      PROVE  q.id # h.id
  BY <1>1, <1>4 DEF DownFlow, DownOneAtATime, Apart, Same, Clear
<1>10. DownMessages'
  <2>1. DownMessage(d)'
    BY <1>2, <1>3, <1>4, <1>5, <1>7 DEF DownMessage, Delivering
  <2>2. ASSUME NEW e \in Down, e # d PROVE DownMessage(e)'
    BY <1>2, <1>7, <2>2 DEF DownFlow, DownMessages, DownMessage
  <2>3. ASSUME NEW e \in Down, progress'[e] \in Delivering PROVE progress[e] \in Delivering
    BY <1>4, <1>7, <2>3
  <2>4. \A e, f \in Down :
            {progress'[e], progress'[f]} \subseteq Delivering /\ downId'[e] = downId'[f] => e = f
    BY <1>2, <2>3 DEF DownFlow, DownMessages
  <2>5. ASSUME NEW i \in known'
        PROVE  \E e \in Down : progress'[e] \in Delivering /\ downId'[e] = i /\ Qos[e] = 2
    <3>1. PICK e \in Down : progress[e] \in Delivering /\ downId[e] = i /\ Qos[e] = 2
      BY <1>2, <2>5 DEF DownFlow, DownMessages
    <3>2. progress'[e] \in Delivering
      <4>1. CASE e # d
        BY <1>7, <3>1, <4>1
      <4>2. CASE e = d
        BY <1>2, <1>3, <1>7, <2>5, <3>1, <4>2 DEF Delivering
      <4>3. QED
        BY <4>1, <4>2
    <3>3. QED
      BY <1>2, <3>1, <3>2
  <2>6. QED
    BY <2>1, <2>2, <2>4, <2>5 DEF DownMessages
<1>11. ASSUME NEW q, DownIn(q), q.id # h.id PROVE DownIn(q)'
  BY <1>2, <1>3, <1>7, <1>11 DEF DownIn
<1>12. ASSUME NEW q, DownOut(q), q.id # h.id PROVE DownOut(q)'
  BY <1>2, <1>3, <1>7, <1>12 DEF DownOut
<1>13. /\ \A q \in Of(incoming, FromSender) : DownIn(q)'
       /\ \A q \in InHand(FromSender)' : DownIn(q)' /\ (q.type = PUBREL_TYPE => q.id \notin known')
       /\ \A q \in Of(toBroker', FromReceiver) : DownOut(q)'
  <2>1. \A q \in Of(incoming, FromSender) : DownIn(q)'
    BY <1>9, <1>11 DEF DownFlow, DownPackets
  <2>2. \A q \in InHand(FromSender)' : DownIn(q)' /\ (q.type = PUBREL_TYPE => q.id \notin known')
    BY <1>2, <1>8, <1>9, <1>11 DEF DownFlow, DownPackets
  <2>3. \A q \in Of(toBroker', FromReceiver) : DownOut(q)'
    BY <1>1, <1>9, <1>12 DEF DownFlow, DownPackets, Within
  <2>4. QED
    BY <2>1, <2>2, <2>3
<1>14. \A o \in owed' : Owing(o)'
  BY <1>2, <1>3, <1>7, <1>9 DEF DownFlow, DownPackets, Owing
<1>15. CASE h.type = PUBREC_TYPE
  <2>1. p \in Sendable /\ p.id = h.id /\ p.type = PUBREL_TYPE /\ incoming' = Append(incoming, p)
    BY <1>2, <1>4, <1>15, AnswerMade, BrokerAnswers DEF Typed
  <2> HIDE DEF p
  <2>2. /\ Clear(Of(incoming, FromSender), p) /\ Clear(Of(toBroker', FromReceiver), p)
        /\ Clear(InHand(FromSender)', p) /\ Clear(owed', p)
    BY <1>2, <1>8, <1>9, <2>1 DEF Clear, Same
  <2>3. DownOneAtATime' /\ Of(incoming', FromSender) \subseteq Of(incoming, FromSender) \cup {p}
    BY <1>1, <1>2, <1>8, <2>1, <2>2, DownInAdded DEF Typed, DownFlow
  <2>4. ASSUME NEW q, q = p PROVE DownIn(q)'
    BY <1>2, <1>3, <1>7, <1>15, <2>1, <2>4 DEF DownIn
  <2>5. DownPackets'
    BY <1>13, <1>14, <2>3, <2>4 DEF DownPackets
  <2>6. QED
    BY <1>10, <2>3, <2>5 DEF DownFlow
<1>16. CASE h.type # PUBREC_TYPE
  <2>1. incoming' = incoming
    BY <1>2, <1>16 DEF incoming
  <2>2. DownOneAtATime'
    BY <1>1, <1>2, <1>8, <2>1, WithinSame, DownRest DEF DownFlow
  <2>3. DownPackets'
    BY <1>13, <1>14, <2>1 DEF DownPackets
  <2>4. QED
    BY <1>10, <2>2, <2>3 DEF DownFlow
<1>17. QED
  BY <1>15, <1>16

\* A packet comes into the hands of the client.  A PUBREL makes the application forget
\* the identifier.
LEMMA DownReceived ==
    ASSUME Typed, DownFlow, NEW type \in FromSender, Incoming(type), handling' = Head(chunk),
           UNCHANGED <<owed, taken>>,
           known' = IF type = PUBREL_TYPE THEN known \ {Head(chunk).id} ELSE known
    PROVE  DownFlow'
<1> DEFINE h == Head(chunk)
<1>1. /\ h \in Sendable /\ Kind(h) = type /\ h.type = type
      /\ Within(incoming', incoming, FromSender)
      /\ h \in Of(incoming, FromSender) /\ Clear(Of(incoming', FromSender), h)
  BY ClientReads DEF Typed, DownFlow, DownOneAtATime
<1>2. UNCHANGED <<toBroker, progress, downId>>
  BY DEF Incoming, broker
<1>3. InHand(FromSender)' \subseteq {h}
  BY DEF InHand
<1>4. DownIn(h)
  BY <1>1 DEF DownFlow, DownPackets
<1>5. known' \subseteq known /\ (type = PUBREL_TYPE => h.id \notin known')
  OBVIOUS
<1>6. ASSUME NEW e \in Down, progress[e] = "sent" PROVE downId[e] \in known' <=> downId[e] \in known
  <2>1. CASE type = PUBREL_TYPE
    <3>1. PICK d \in Down : downId[d] = h.id /\ progress[d] = "received"
      BY <1>1, <1>4, <2>1 DEF DownIn
    <3>2. downId[e] # h.id
      BY <1>6, <3>1 DEF DownFlow, DownMessages, Delivering
    <3>3. QED
      BY <2>1, <3>2
  <2>2. CASE type # PUBREL_TYPE
    BY <2>2
  <2>3. QED
    BY <2>1, <2>2
<1> HIDE DEF h
<1>7. DownMessages'
  <2>1. ASSUME NEW e \in Down PROVE DownMessage(e)'
    BY <1>2, <1>6 DEF DownFlow, DownMessages, DownMessage
  <2>2. QED
    BY <1>2, <1>5, <2>1 DEF DownFlow, DownMessages
<1>8. DownPackets'
  <2>1. ASSUME NEW q, DownIn(q) PROVE DownIn(q)'
    BY <1>2, <2>1 DEF DownIn
  <2>2. \A q \in Of(incoming', FromSender) : DownIn(q)'
    BY <1>1, <2>1 DEF DownFlow, DownPackets, Within
  <2>3. \A q \in InHand(FromSender)' : DownIn(q)' /\ (q.type = PUBREL_TYPE => q.id \notin known')
    BY <1>1, <1>3, <1>4, <1>5, <2>1
  <2>4. \A q \in Of(toBroker', FromReceiver) : DownOut(q)'
    BY <1>2, <1>5 DEF DownFlow, DownPackets, DownOut
  <2>5. \A o \in owed' : Owing(o)'
    BY <1>2 DEF DownFlow, DownPackets, Owing
  <2>6. QED
    BY <2>2, <2>3, <2>4, <2>5 DEF DownPackets
<1>9. DownOneAtATime'
  BY <1>1, <1>2, <1>3, DownHanded DEF DownFlow
<1>10. QED
  BY <1>7, <1>8, <1>9 DEF DownFlow

\* The PUBCOMP goes out when the callback of the PUBREL has returned.
LEMMA DownEventReturn ==
    ASSUME Typed, DownFlow, EventReturn
    PROVE  DownFlow'
<1>1. /\ handling # NoPacket /\ handling' = NoPacket
      /\ UNCHANGED <<incoming, owed, progress, downId, taken, known>>
  BY DEF EventReturn, application, broker, receiving, incoming
<1>2. InHand(FromSender)' = {} /\ Within(incoming', incoming, FromSender)
  BY <1>1 DEF InHand, Within
<1>3. CASE toBroker' = toBroker
  BY <1>1, <1>2, <1>3, WithinSame, DownUndisturbed
<1>4. CASE handling.type = PUBREC_TYPE /\ SendAnswer(PUBREL_TYPE, handling.id)
  <2>1. handling.id \in Nat
    BY <1>1 DEF Typed, Channels, Sendable
  <2>2. /\ Answer(PUBREL_TYPE, handling.id) \in Sendable
        /\ Kind(Answer(PUBREL_TYPE, handling.id)) \notin FromReceiver
    BY <2>1, AnswerMade
  <2>3. Within(toBroker', toBroker, FromReceiver)
    BY <1>4, <2>2, AnswerEffect, SentWithin DEF Typed
  <2>4. QED
    BY <1>1, <1>2, <2>3, DownUndisturbed
<1>5. CASE handling.type = PUBREL_TYPE /\ SendAnswer(PUBCOMP_TYPE, handling.id)
  <2> DEFINE p == Answer(PUBCOMP_TYPE, handling.id)
  <2>1. handling \in InHand(FromSender) /\ handling.id \in Nat
    BY <1>1, <1>5, HandlingInHand DEF Typed
  <2>2. p \in Sendable /\ p.id = handling.id /\ p.type = PUBCOMP_TYPE
    BY <2>1, AnswerMade
  <2>3. SentOrNot(p)
    BY <1>5, AnswerEffect
  <2> HIDE DEF p
  <2>4. DownIn(handling) /\ handling.id \notin known
    BY <1>5, <2>1 DEF DownFlow, DownPackets
  <2>5. PICK d \in Down : downId[d] = handling.id /\ progress[d] = "received"
    BY <1>5, <2>4 DEF DownIn
  <2>6. handling.id # 0
    BY <2>5, IdOfDelivering DEF DownFlow, Delivering
  <2>7. ASSUME NEW q, Same(q, p) PROVE Same(q, handling) /\ Same(handling, q)
    BY <2>2, <2>6, <2>7 DEF Same
  <2>8. /\ Clear(Of(incoming', FromSender), p) /\ Clear(Of(toBroker, FromReceiver), p)
        /\ Clear(InHand(FromSender)', p) /\ Clear(owed', p)
    BY <1>1, <1>2, <2>1, <2>7 DEF DownFlow, DownOneAtATime, Apart, Clear
  <2>9. DownOneAtATime' /\ Of(toBroker', FromReceiver) \subseteq Of(toBroker, FromReceiver) \cup {p}
    BY <1>1, <1>2, <2>2, <2>3, <2>8, DownOutAdded DEF Typed, DownFlow
  <2>10. DownMessages'
    BY <1>1 DEF DownFlow, DownMessages, DownMessage
  <2>11. DownPackets'
    <3>1. ASSUME NEW q, q = p PROVE DownOut(q)'
      BY <1>1, <2>2, <2>4, <2>5, <3>1 DEF DownOut
    <3>2. \A q \in Of(toBroker, FromReceiver) : DownOut(q)'
      BY <1>1 DEF DownFlow, DownPackets, DownOut
    <3>3. \A q \in Of(incoming', FromSender) : DownIn(q)'
      BY <1>1 DEF DownFlow, DownPackets, DownIn
    <3>4. \A o \in owed' : Owing(o)'
      BY <1>1 DEF DownFlow, DownPackets, Owing
    <3>5. QED
      BY <1>2, <2>9, <3>1, <3>2, <3>3, <3>4 DEF DownPackets
  <2>12. QED
    BY <2>9, <2>10, <2>11 DEF DownFlow
<1>6. QED
  BY <1>3, <1>4, <1>5 DEF EventReturn, ReplyTo

LEMMA DownReconnect ==
    ASSUME Typed, DownFlow, Reconnect
    PROVE  DownFlow'
<1>1. /\ incoming' = Resent /\ Of(toBroker', FromReceiver) = {} /\ Alone(toBroker', FromReceiver)
      /\ InHand(FromSender)' = {} /\ owed' = {} /\ UNCHANGED <<progress, downId, taken, known>>
  BY ResentOnly DEF Reconnect, broker
<1>2. PICK n, again :
        /\ n \in Nat /\ DOMAIN Resent = 1 .. n
        /\ \A i \in 1 .. n : /\ again[i] \in Down /\ progress[again[i]] \in Delivering
                             /\ Resent[i] = Again(again[i])
        /\ \A i, j \in 1 .. n : again[i] = again[j] => i = j
  BY ResentPackets
<1>3. ASSUME NEW d \in Down, progress[d] \in Delivering
      PROVE  DownIn(Again(d)) /\ Again(d).id = downId[d] /\ downId[d] # 0
  <2>1. /\ downId[d] # 0 /\ Qos[d] \in {1, 2}
    BY <1>3, IdOfDelivering DEF DownFlow
  <2> DEFINE flags == PublishFlags(Qos[d], TRUE, FALSE)
  <2>2. QosOfFlags(flags) = Qos[d]
    <3>1. Qos[d] \in {0, 1, 2} /\ Qos[d] # 0
      BY <2>1
    <3>2. QED
      BY <3>1, QosKept
  <2>3. /\ Again(d).id = downId[d]
        /\ Again(d).type = IF progress[d] = "sent" THEN PUBLISH_TYPE ELSE PUBREL_TYPE
        /\ progress[d] = "sent" =>
                Again(d).content = d /\ Again(d).flags = flags
    BY AgainMade
  <2> HIDE DEF flags
  <2>4. CASE progress[d] = "sent"
    BY <2>1, <2>2, <2>3, <2>4 DEF DownIn
  <2>5. CASE progress[d] = "received"
    BY <2>1, <2>3, <2>5 DEF DownIn
  <2>6. QED
    BY <1>3, <2>1, <2>3, <2>4, <2>5 DEF Delivering
<1>4. Alone(incoming', FromSender)
  <2> SUFFICES ASSUME NEW i \in 1 .. n, NEW j \in 1 .. n, Same(Resent[i], Resent[j])
               PROVE  i = j
    BY <1>1, <1>2 DEF Alone
  <2>1. downId[again[i]] = downId[again[j]]
    BY <1>2, <1>3 DEF Same
  <2>2. again[i] = again[j]
    BY <1>2, <2>1 DEF DownFlow, DownMessages
  <2>3. QED
    BY <1>2, <2>2
<1>5. ASSUME NEW q \in Of(incoming', FromSender) PROVE DownIn(q)'
  <2>1. PICK i \in 1 .. n : q = Resent[i]
    BY <1>1, <1>2, OfIndex
  <2>2. DownIn(q)
    BY <1>2, <1>3, <2>1
  <2>3. QED
    BY <1>1, <2>2 DEF DownIn
<1>6. DownMessages'
  BY <1>1 DEF DownFlow, DownMessages, DownMessage
<1>7. DownPackets'
  BY <1>1, <1>5 DEF DownPackets
<1>8. DownOneAtATime'
  BY <1>1, <1>4 DEF DownOneAtATime, Apart
<1>9. QED
  BY <1>6, <1>7, <1>8 DEF DownFlow

-----------------------------------------------------------------------------
(* Delivering: the actions that are not about it.                          *)

LEMMA DownOtherSent ==
    ASSUME Typed, DownFlow, NEW p \in Sendable, SentOrNot(p), Kind(p) \notin FromReceiver,
           UNCHANGED <<incoming, handling, owed, progress, downId, taken, known>>
    PROVE  DownFlow'
<1>1. Within(toBroker', toBroker, FromReceiver)
  BY SentWithin DEF Typed
<1>2. Within(incoming', incoming, FromSender) /\ InHand(FromSender)' = InHand(FromSender)
  BY WithinSame DEF InHand
<1>3. QED
  BY <1>1, <1>2, DownUndisturbed

LEMMA DownOtherIncoming ==
    ASSUME Typed, DownFlow, NEW type, Incoming(type), type # UNKNOWN_TYPE,
           \/ handling' = NoPacket
           \/ handling' = Head(chunk) /\ type \notin FromSender,
           UNCHANGED <<owed, taken, known>>
    PROVE  DownFlow'
<1>1. Kind(Head(chunk)) = type /\ Within(incoming', incoming, FromSender)
  BY ClientReads DEF Typed
<1>2. InHand(FromSender)' = {}
  BY <1>1 DEF InHand
<1>3. Within(toBroker', toBroker, FromReceiver) /\ UNCHANGED <<progress, downId>>
  BY WithinSame DEF Incoming, broker
<1>4. QED
  BY <1>1, <1>2, <1>3, DownUndisturbed

LEMMA DownOtherReceived ==
    ASSUME Typed, DownFlow, NEW types, Received(types), UNCHANGED <<progress, downId>>,
           NEW p \in Sendable, toClient' = Append(toClient, p), Kind(p) \notin FromSender
    PROVE  DownFlow'
<1>1. Within(toBroker', toBroker, FromReceiver)
  BY BrokerReads DEF Typed
<1>2. UNCHANGED <<chunk, handling, owed, taken, known>>
  BY DEF Received, client, application, receiving
<1>3. incoming' = Append(incoming, p)
  BY <1>2, IncomingAppend DEF Typed
<1>4. Within(incoming', incoming, FromSender)
  BY <1>3, IncomingType, WithinAppend DEF Typed
<1>5. InHand(FromSender)' = InHand(FromSender)
  BY <1>2 DEF InHand
<1>6. QED
  BY <1>1, <1>2, <1>4, <1>5, DownUndisturbed

LEMMA PublishPacket ==
    ASSUME NEW m \in Up, NEW id \in UpId, NEW duplicate \in BOOLEAN,
           mqtt_client_publish(m, id, duplicate)
    PROVE  LET p == Delivery(m, id, duplicate) IN
           p \in Sendable /\ Kind(p) = PUBLISH_TYPE /\ SentOrNot(p)
<1> DEFINE p == Delivery(m, id, duplicate)
<1>1. p \in Sendable /\ Kind(p) = PUBLISH_TYPE
  <2>1. id \in Nat /\ m \in Up \cup Down
    BY Constants
  <2>2. QED
    BY <2>1, DeliveryMade
<1>2. SentOrNot(p)
  BY SendEffect DEF mqtt_client_publish, Delivery
<1>3. QED
  BY <1>1, <1>2

LEMMA PublishCalled ==
    ASSUME Typed, NEW m \in Up, Publish(m) \/ PublishAgain(m)
    PROVE  \E id \in UpId, duplicate \in BOOLEAN : mqtt_client_publish(m, id, duplicate)
<1>1. CASE Publish(m)
  <2>1. PICK id \in UpId : mqtt_client_publish(m, id, FALSE)
    BY <1>1 DEF Publish
  <2>2. QED
    BY <2>1
<1>2. CASE PublishAgain(m)
  <2>1. state[m] \in InFlight /\ mqtt_client_publish(m, upId[m], TRUE)
    BY <1>2 DEF PublishAgain, InFlight
  <2>2. upId[m] \in UpId
    BY <2>1 DEF Typed, Identified
  <2>3. QED
    BY <2>1, <2>2
<1>3. QED
  BY <1>1, <1>2

LEMMA BrokerReplyPacket ==
    ASSUME Typed, NEW types, Received(types), NEW type \in Nat, Reply(type, Head(toBroker).id)
    PROVE  \E p \in Sendable : /\ toClient' = Append(toClient, p) /\ Kind(p) = type
                               /\ p = Answer(type, Head(toBroker).id)
<1>1. Head(toBroker).id \in Nat
  BY BrokerReads DEF Typed, Sendable
<1> DEFINE p == Answer(type, Head(toBroker).id)
<1>2. p \in Sendable /\ Kind(p) = type
  BY <1>1, AnswerMade
<1>3. toClient' = Append(toClient, p)
  BY DEF Reply
<1> HIDE DEF p
<1>4. QED
  BY <1>2, <1>3 DEF p

LEMMA DownStep ==
    ASSUME Typed, DownFlow, [Next]_vars
    PROVE  DownFlow'
<1>1. ASSUME NEW m \in Up, Publish(m) \/ PublishAgain(m) PROVE DownFlow'
  <2>1. PICK id \in UpId, duplicate \in BOOLEAN : mqtt_client_publish(m, id, duplicate)
    BY <1>1, PublishCalled
  <2> DEFINE p == Delivery(m, id, duplicate)
  <2>2. p \in Sendable /\ Kind(p) \notin FromReceiver /\ SentOrNot(p)
    BY <2>1, PublishPacket
  <2>3. UNCHANGED <<incoming, handling, owed, progress, downId, taken, known>>
    BY <2>1 DEF mqtt_client_publish, client, receiving, broker, incoming
  <2> HIDE DEF p
  <2>4. QED
    BY <2>2, <2>3, DownOtherSent
<1>2. ASSUME NEW r \in Request, AskFor(r) PROVE DownFlow'
  <2> DEFINE p == Packet(r, 2, RequestId[r], NoPacket)
  <2>1. p \in Sendable /\ SentOrNot(p) /\ Kind(p) \notin FromReceiver
    BY <1>2, AskForPacket
  <2>2. UNCHANGED <<incoming, handling, owed, progress, downId, taken, known>>
    BY <1>2 DEF AskFor, client, receiving, broker, incoming
  <2> HIDE DEF p
  <2>3. QED
    BY <2>1, <2>2, DownOtherSent
<1>3. ASSUME NEW o \in owed, mqtt_client_send_message_response(o) PROVE DownFlow'
  BY <1>3, DownRespond
<1>4. CASE BytesReceived
  <2>1. incoming' = incoming
    BY <1>4, IncomingCut DEF Typed
  <2>2. UNCHANGED <<handling, toBroker, owed, progress, downId, taken, known>>
    BY <1>4 DEF BytesReceived, application, receiving, broker
  <2>3. QED
    BY <2>1, <2>2, WithinSame, DownUndisturbed DEF InHand
<1>5. CASE RecvShort
  <2>1. /\ chunk # <<>> /\ chunk' = Tail(chunk)
        /\ UNCHANGED <<handling, toClient, toBroker, owed, progress, downId, taken, known>>
    BY <1>5 DEF RecvShort, application, receiving, broker
  <2>2. incoming # <<>> /\ incoming' = Tail(incoming) /\ incoming \in Seq(Sendable)
    BY <2>1, IncomingTail, IncomingType DEF Typed
  <2>3. Within(incoming', incoming, FromSender)
    BY <2>2, WithinTail
  <2>4. QED
    BY <2>1, <2>3, WithinSame, DownUndisturbed DEF InHand
<1>6. CASE RecvPublish
  <2>1. Incoming(PUBLISH_TYPE) /\ UNCHANGED <<owed, taken, known>>
    BY <1>6 DEF RecvPublish, application, receiving
  <2>2. CASE handling' = Head(chunk)
    BY <2>1, <2>2, DownReceived
  <2>3. CASE handling' = NoPacket
    BY <2>1, <2>3, DownOtherIncoming
  <2>4. QED
    BY <1>6, <2>1, <2>2, <2>3 DEF RecvPublish, Incoming
<1>7. CASE PublishReturn
  BY <1>7, DownPublishReturn
<1>8. CASE RecvPublishReply
  <2>1. PICK type \in {PUBACK_TYPE, PUBREC_TYPE, PUBREL_TYPE, PUBCOMP_TYPE} :
            Incoming(type) /\ handling' = Head(chunk) /\ Told(Action(type), Head(chunk).id)
    BY <1>8 DEF RecvPublishReply
  <2>2. UNCHANGED <<owed, taken>>
    BY <1>8 DEF RecvPublishReply
  <2>3. CASE type # PUBREL_TYPE
    <3>1. UNCHANGED known
      BY <2>1, <2>3 DEF Told, Action
    <3>2. QED
      BY <2>1, <2>2, <2>3, <3>1, DownOtherIncoming
  <2>4. CASE type = PUBREL_TYPE
    <3>1. known' = known \ {Head(chunk).id}
      BY <2>1, <2>4 DEF Told, Action
    <3>2. QED
      BY <2>1, <2>2, <2>4, <3>1, DownReceived
  <2>5. QED
    BY <2>3, <2>4
<1>9. CASE EventReturn
  BY <1>9, DownEventReturn
<1>10. CASE RecvSubscribeAck
  BY <1>10, DownOtherIncoming DEF RecvSubscribeAck, Incoming, receiving
<1>11. CASE RecvUnsubscribeAck
  BY <1>11, DownOtherIncoming DEF RecvUnsubscribeAck, receiving
<1>12. CASE BrokerPublish
  <2> DEFINE type == IF Qos[Head(toBroker).content] = 2 THEN PUBREC_TYPE ELSE PUBACK_TYPE
  <2>1. type \in Nat \ FromSender
    OBVIOUS
  <2>2. /\ Received({PUBLISH_TYPE}) /\ Reply(type, Head(toBroker).id) /\ UNCHANGED <<progress, downId>>
    BY <1>12 DEF BrokerPublish
  <2> HIDE DEF type
  <2>3. PICK p \in Sendable : toClient' = Append(toClient, p) /\ Kind(p) \notin FromSender
    BY <2>1, <2>2, BrokerReplyPacket
  <2>4. QED
    BY <2>2, <2>3, DownOtherReceived
<1>13. CASE BrokerRelease
  <2>1. /\ Received({PUBREL_TYPE}) /\ Reply(PUBCOMP_TYPE, Head(toBroker).id)
        /\ UNCHANGED <<progress, downId>>
    BY <1>13 DEF BrokerRelease
  <2>2. PICK p \in Sendable : toClient' = Append(toClient, p) /\ Kind(p) \notin FromSender
    BY <2>1, BrokerReplyPacket
  <2>3. QED
    BY <2>1, <2>2, DownOtherReceived
<1>14. CASE BrokerAcknowledged
  BY <1>14, DownAcknowledged
<1>15. CASE BrokerServe
  <2>1. PICK p \in Sendable : toClient' = Append(toClient, p) /\ Kind(p) \notin FromSender
    BY <1>15, BrokerServePacket
  <2>2. Received({SUBSCRIBE_TYPE, UNSUBSCRIBE_TYPE}) /\ UNCHANGED <<progress, downId>>
    BY <1>15 DEF BrokerServe
  <2>3. QED
    BY <2>1, <2>2, DownOtherReceived
<1>16. ASSUME NEW d \in Down, BrokerDeliver(d) PROVE DownFlow'
  BY <1>16, DownDeliver
<1>17. CASE Lost
  BY <1>17, WithinSame, DownUndisturbed DEF Lost, application, receiving, broker, InHand, incoming
<1>18. CASE Shortened
  <2>1. PICK p \in Sendable : Kind(p) \notin FromSender /\ toClient' = Append(toClient, p)
    BY <1>18, ShortenedPacket
  <2>2. UNCHANGED <<chunk, handling, toBroker, owed, progress, downId, taken, known>>
    BY <1>18 DEF Shortened, client, application, receiving, broker
  <2>3. incoming' = Append(incoming, p)
    BY <2>1, <2>2, IncomingAppend DEF Typed
  <2>4. Within(incoming', incoming, FromSender)
    BY <2>1, <2>3, IncomingType, WithinAppend DEF Typed
  <2>5. QED
    BY <2>2, <2>4, WithinSame, DownUndisturbed DEF InHand
<1>19. CASE Reconnect
  BY <1>19, DownReconnect
<1>20. CASE UNCHANGED vars
  BY <1>20, WithinSame, DownUndisturbed
     DEF vars, client, network, application, receiving, broker, InHand, incoming
<1>21. QED
  BY <1>1, <1>2, <1>3, <1>4, <1>5, <1>6, <1>7, <1>8, <1>9, <1>10, <1>11, <1>12, <1>13,
     <1>14, <1>15, <1>16, <1>17, <1>18, <1>19, <1>20 DEF Next, Calls, Handlers, Broker

-----------------------------------------------------------------------------
(* Requests.                                                               *)

\* No new packet of a request or of the answer to one.
Requests == {SUBSCRIBE_TYPE, UNSUBSCRIBE_TYPE}
NoMoreRequests ==
    /\ Within(toBroker', toBroker, Requests) /\ Within(toBroker', toBroker, {SUBSCRIBE_TYPE})
NoMoreAnswers ==
    /\ Within(incoming', incoming, {SUBACK_TYPE}) /\ Within(incoming', incoming, {UNSUBACK_TYPE})

LEMMA RequestUndisturbed ==
    ASSUME RequestFlow, NoMoreRequests, NoMoreAnswers, reported => reported',
           UNCHANGED <<request, granted, served, answered>>
    PROVE  RequestFlow'
<1>1. \A r \in Request : request'[r] = "told" => r \in served'
  BY DEF RequestFlow
<1>2. \A p \in Of(toBroker', {SUBSCRIBE_TYPE, UNSUBSCRIBE_TYPE}) :
            p.type \in Request /\ p.id = RequestId[p.type]
  BY DEF RequestFlow, NoMoreRequests, Within, Requests
<1>3. Of(incoming', {UNSUBACK_TYPE}) # {} => UNSUBSCRIBE_TYPE \in served'
  BY DEF RequestFlow, NoMoreAnswers, Within
<1>4. \A p \in Of(incoming', {SUBACK_TYPE}) :
            /\ SUBSCRIBE_TYPE \in served' /\ p.id = RequestId[SUBSCRIBE_TYPE]
            /\ p.content = answered'
  BY DEF RequestFlow, NoMoreAnswers, Within
<1>5. /\ Alone(toBroker', {SUBSCRIBE_TYPE}) /\ Alone(incoming', {SUBACK_TYPE})
      /\ Apart(Of(toBroker', {SUBSCRIBE_TYPE}), Of(incoming', {SUBACK_TYPE}))
  BY DEF RequestFlow, NoMoreRequests, NoMoreAnswers, Within, Apart
<1>6. SUBSCRIBE_TYPE \in Request =>
        /\ request'[SUBSCRIBE_TYPE] # "asked" =>
                Of(toBroker', {SUBSCRIBE_TYPE}) = {} /\ Of(incoming', {SUBACK_TYPE}) = {}
        /\ request'[SUBSCRIBE_TYPE] = "told" =>
                /\ granted' = SubackCodes(answered')
                /\ reported' \/ \A i \in DOMAIN answered' : ValidReturnCode(answered'[i])
  BY DEF RequestFlow, NoMoreRequests, NoMoreAnswers, Within
<1>7. QED
  BY <1>1, <1>2, <1>3, <1>4, <1>5, <1>6 DEF RequestFlow

LEMMA RequestOtherSent ==
    ASSUME Typed, RequestFlow, NEW p \in Sendable, SentOrNot(p), Kind(p) \notin Requests,
           UNCHANGED <<incoming, request, granted, served, answered>>, reported => reported'
    PROVE  RequestFlow'
<1>1. NoMoreRequests
  <2>1. Kind(p) \notin {SUBSCRIBE_TYPE}
    BY DEF Requests
  <2>2. QED
    BY <2>1, SentWithin DEF NoMoreRequests, Typed
<1>2. NoMoreAnswers
  BY WithinSame DEF NoMoreAnswers
<1>3. QED
  BY <1>1, <1>2, RequestUndisturbed

LEMMA RequestOtherIncoming ==
    ASSUME Typed, RequestFlow, NEW type, Incoming(type), type # UNKNOWN_TYPE,
           UNCHANGED <<request, granted>>, reported => reported'
    PROVE  RequestFlow'
<1>1. NoMoreRequests /\ UNCHANGED <<served, answered>>
  BY WithinSame DEF NoMoreRequests, Incoming, broker
<1>2. NoMoreAnswers
  BY ClientReads DEF NoMoreAnswers, Typed
<1>3. QED
  BY <1>1, <1>2, RequestUndisturbed

LEMMA RequestOtherReceived ==
    ASSUME Typed, RequestFlow, NEW types, Received(types), UNCHANGED <<served, answered>>,
           NoMoreAnswers
    PROVE  RequestFlow'
<1>1. NoMoreRequests
  BY BrokerReads DEF NoMoreRequests, Typed
<1>2. UNCHANGED <<reported, request, granted>>
  BY DEF Received, application, requesting
<1>3. QED
  BY <1>1, <1>2, RequestUndisturbed

LEMMA RequestOtherAppended ==
    ASSUME Typed, NEW p \in Sendable, toClient' = Append(toClient, p), UNCHANGED chunk,
           Kind(p) \notin {SUBACK_TYPE, UNSUBACK_TYPE}
    PROVE  NoMoreAnswers
<1>1. incoming' = Append(incoming, p) /\ incoming \in Seq(Sendable)
  BY IncomingAppend, IncomingType DEF Typed
<1>2. Kind(p) \notin {SUBACK_TYPE} /\ Kind(p) \notin {UNSUBACK_TYPE}
  OBVIOUS
<1>3. QED
  BY <1>1, <1>2, WithinAppend DEF NoMoreAnswers

LEMMA RequestAskFor ==
    ASSUME Typed, RequestFlow, NEW r \in Request, AskFor(r)
    PROVE  RequestFlow'
<1> DEFINE p == Packet(r, 2, RequestId[r], NoPacket)
<1>1. /\ r \in {SUBSCRIBE_TYPE, UNSUBSCRIBE_TYPE}
      /\ p \in Sendable /\ Kind(p) = r /\ p.type = r /\ p.id = RequestId[r] /\ SentOrNot(p)
  BY AskForPacket
<1> HIDE DEF p
<1>2. /\ request[r] = "none" /\ request' = [request EXCEPT ![r] = "asked"]
      /\ UNCHANGED <<incoming, reported, granted, served, answered>>
  BY DEF AskFor, client, broker, incoming
<1>3. request'[r] = "asked" /\ \A s \in Request : s # r => request'[s] = request[s]
  BY <1>2 DEF Typed, TypeOK
<1>4. Of(toBroker', Requests) \subseteq Of(toBroker, Requests) \cup {p}
  <2>1. toBroker \in Seq(Sendable)
    BY DEF Typed, Channels
  <2>2. Of(Append(toBroker, p), Requests) \subseteq Of(toBroker, Requests) \cup {p}
    BY <1>1, <2>1, OfAppend
  <2>3. QED
    BY <1>1, <2>2 DEF SentOrNot
<1>5. \A q \in Of(toBroker', {SUBSCRIBE_TYPE, UNSUBSCRIBE_TYPE}) :
            q.type \in Request /\ q.id = RequestId[q.type]
  BY <1>1, <1>4 DEF RequestFlow, Requests
<1>6. CASE r = SUBSCRIBE_TYPE
  <2>1. Of(toBroker, {SUBSCRIBE_TYPE}) = {} /\ Of(incoming, {SUBACK_TYPE}) = {}
    BY <1>2, <1>6 DEF RequestFlow
  <2>2. Clear(Of(toBroker, {SUBSCRIBE_TYPE}), p)
    BY <2>1 DEF Clear
  <2>3. Alone(toBroker', {SUBSCRIBE_TYPE})
    <3>1. toBroker \in Seq(Sendable) /\ Alone(toBroker, {SUBSCRIBE_TYPE})
      BY DEF Typed, Channels, RequestFlow
    <3>2. Alone(Append(toBroker, p), {SUBSCRIBE_TYPE})
      BY <1>1, <2>2, <3>1, OfAdded
    <3>3. QED
      BY <1>1, <3>1, <3>2 DEF SentOrNot
  <2>4. QED
    BY <1>2, <1>3, <1>5, <1>6, <2>1, <2>3 DEF RequestFlow, Apart
<1>7. CASE r = UNSUBSCRIBE_TYPE
  <2>1. Within(toBroker', toBroker, {SUBSCRIBE_TYPE})
    BY <1>1, <1>7, SentWithin DEF Typed
  <2>2. QED
    BY <1>2, <1>3, <1>5, <1>7, <2>1 DEF RequestFlow, Apart, Within
<1>8. QED
  BY <1>1, <1>6, <1>7

LEMMA RequestBrokerServe ==
    ASSUME Typed, RequestFlow, BrokerServe
    PROVE  RequestFlow'
<1> DEFINE h == Head(toBroker)
<1>1. PICK p \in Sendable :
        /\ toClient' = Append(toClient, p) /\ p.id = h.id /\ Kind(p) = p.type
        /\ h.type \in {SUBSCRIBE_TYPE, UNSUBSCRIBE_TYPE} /\ Kind(h) = h.type
        /\ served' = served \cup {h.type}
        /\ h.type = SUBSCRIBE_TYPE => p.type = SUBACK_TYPE /\ p.content = answered'
        /\ h.type = UNSUBSCRIBE_TYPE => p.type = UNSUBACK_TYPE /\ answered' = answered
  BY BrokerServePacket
<1>2. Received(Requests) /\ UNCHANGED <<chunk, reported, request, granted>>
  BY DEF BrokerServe, Requests, Received, client, application, requesting
<1>3. \A kinds : /\ Within(toBroker', toBroker, kinds)
                 /\ Kind(h) \in kinds => h \in Of(toBroker, kinds)
                 /\ Kind(h) \in kinds /\ Alone(toBroker, kinds) => Clear(Of(toBroker', kinds), h)
  BY <1>2, BrokerReads DEF Typed
<1> HIDE DEF h
<1>4. h.type \in Request /\ h.id = RequestId[h.type]
  BY <1>1, <1>3 DEF RequestFlow
<1>5. RequestId[h.type] # 0
  BY <1>4, SessionAssumption
<1>6. incoming' = Append(incoming, p) /\ incoming \in Seq(Sendable)
  BY <1>1, <1>2, IncomingAppend, IncomingType DEF Typed
<1>7. \A r \in Request : request'[r] = "told" => r \in served'
  BY <1>1, <1>2 DEF RequestFlow
<1>8. \A q \in Of(toBroker', {SUBSCRIBE_TYPE, UNSUBSCRIBE_TYPE}) :
            q.type \in Request /\ q.id = RequestId[q.type]
  BY <1>3 DEF RequestFlow, Within
<1>9. Within(toBroker', toBroker, {SUBSCRIBE_TYPE})
  BY <1>3
<1>10. CASE h.type = UNSUBSCRIBE_TYPE
  <2>1. Within(incoming', incoming, {SUBACK_TYPE})
    BY <1>1, <1>6, <1>10, WithinAppend
  <2>2. UNSUBSCRIBE_TYPE \in served' /\ served \subseteq served' /\ UNCHANGED answered
    BY <1>1, <1>10
  <2>3. QED
    BY <1>2, <1>7, <1>8, <1>9, <2>1, <2>2 DEF RequestFlow, Apart, Within
<1>11. CASE h.type = SUBSCRIBE_TYPE
  <2>1. p.type = SUBACK_TYPE /\ p.content = answered' /\ p.id = RequestId[SUBSCRIBE_TYPE] /\ p.id # 0
    BY <1>1, <1>4, <1>5, <1>11
  <2>2. h \in Of(toBroker, {SUBSCRIBE_TYPE}) /\ Clear(Of(toBroker', {SUBSCRIBE_TYPE}), h)
    BY <1>1, <1>3, <1>11 DEF RequestFlow
  <2>3. Of(incoming, {SUBACK_TYPE}) = {}
    <3>1. ASSUME NEW q \in Of(incoming, {SUBACK_TYPE}) PROVE FALSE
      <4>1. q.id = h.id /\ h.id # 0
        BY <1>1, <2>1 DEF RequestFlow
      <4>2. QED
        BY <2>2, <4>1 DEF RequestFlow, Apart, Same
    <3>2. QED
      BY <3>1
  <2>4. Of(incoming', {SUBACK_TYPE}) \subseteq {p} /\ Alone(incoming', {SUBACK_TYPE})
    <3>1. Clear(Of(incoming, {SUBACK_TYPE}), p)
      BY <2>3 DEF Clear
    <3>2. QED
      BY <1>6, <2>3, <3>1, OfAdded DEF RequestFlow
  <2>5. Within(incoming', incoming, {UNSUBACK_TYPE})
    BY <1>1, <1>6, <2>1, WithinAppend
  <2>6. Apart(Of(toBroker', {SUBSCRIBE_TYPE}), Of(incoming', {SUBACK_TYPE}))
    <3>1. ASSUME NEW q \in Of(toBroker', {SUBSCRIBE_TYPE}) PROVE ~Same(q, p)
      BY <1>1, <2>1, <2>2 DEF Clear, Same
    <3>2. QED
      BY <2>4, <3>1 DEF Apart
  <2>7. SUBSCRIBE_TYPE \in served' /\ (UNSUBSCRIBE_TYPE \in served => UNSUBSCRIBE_TYPE \in served')
    BY <1>1, <1>11
  <2>8. request'[SUBSCRIBE_TYPE] = "asked"
    BY <1>2, <1>4, <1>11, <2>2 DEF RequestFlow
  <2>9. Of(incoming', {UNSUBACK_TYPE}) # {} => UNSUBSCRIBE_TYPE \in served'
    BY <2>5, <2>7 DEF RequestFlow, Within
  <2>10. Alone(toBroker', {SUBSCRIBE_TYPE})
    BY <1>9 DEF RequestFlow, Within
  <2>11. \A q \in Of(incoming', {SUBACK_TYPE}) :
            /\ SUBSCRIBE_TYPE \in served' /\ q.id = RequestId[SUBSCRIBE_TYPE]
            /\ q.content = answered'
    BY <2>1, <2>4, <2>7
  <2>12. QED
    BY <1>7, <1>8, <2>4, <2>6, <2>8, <2>9, <2>10, <2>11 DEF RequestFlow
<1>12. QED
  BY <1>1, <1>10, <1>11

LEMMA RequestSubscribeAck ==
    ASSUME Typed, RequestFlow, RecvSubscribeAck
    PROVE  RequestFlow'
<1> DEFINE h == Head(chunk)
           codes == h.content
<1>1. /\ Incoming(SUBACK_TYPE) /\ UNCHANGED <<toBroker, served, answered>>
      /\ \/ /\ granted' = SubackCodes(codes)
            /\ request' = [request EXCEPT ![SUBSCRIBE_TYPE] = "told"]
            /\ (\A i \in DOMAIN codes : ValidReturnCode(codes[i])) \/ reported'
            /\ reported => reported'
         \/ UNCHANGED <<request, granted>> /\ reported'
  BY DEF RecvSubscribeAck, Incoming, broker, set_error_callback, requesting
<1>2. \A kinds : /\ Within(incoming', incoming, kinds)
                 /\ SUBACK_TYPE \in kinds => h \in Of(incoming, kinds)
                 /\ SUBACK_TYPE \in kinds /\ Alone(incoming, kinds) => Clear(Of(incoming', kinds), h)
  BY <1>1, ClientReads DEF Typed
<1> HIDE DEF h
<1>3. h \in Of(incoming, {SUBACK_TYPE}) /\ Clear(Of(incoming', {SUBACK_TYPE}), h)
  BY <1>2 DEF RequestFlow
<1>4. SUBSCRIBE_TYPE \in served /\ h.id = RequestId[SUBSCRIBE_TYPE] /\ codes = answered
  BY <1>3 DEF RequestFlow
<1>5. CASE UNCHANGED <<request, granted>> /\ reported'
  BY <1>1, <1>5, RequestOtherIncoming
<1>6. CASE /\ granted' = SubackCodes(codes)
           /\ request' = [request EXCEPT ![SUBSCRIBE_TYPE] = "told"]
           /\ (\A i \in DOMAIN codes : ValidReturnCode(codes[i])) \/ reported'
  <2>1. \A r \in Request : request'[r] = "told" => r \in served'
    BY <1>1, <1>4, <1>6 DEF RequestFlow, Typed, TypeOK
  <2>2. ASSUME SUBSCRIBE_TYPE \in Request
        PROVE  Of(toBroker, {SUBSCRIBE_TYPE}) = {} /\ Of(incoming', {SUBACK_TYPE}) = {}
    <3>1. h.id # 0
      BY <1>4, <2>2, SessionAssumption
    <3>2. ASSUME NEW q \in Of(toBroker, {SUBSCRIBE_TYPE}) PROVE FALSE
      <4>1. q.id = h.id
        <5>1. q \in Of(toBroker, {SUBSCRIBE_TYPE, UNSUBSCRIBE_TYPE}) /\ Kind(q) = SUBSCRIBE_TYPE
          BY DEF Of
        <5>2. q.type = SUBSCRIBE_TYPE
          BY <5>1, KindOfWhole
        <5>3. QED
          BY <1>4, <5>1, <5>2 DEF RequestFlow
      <4>2. QED
        BY <1>3, <3>1, <4>1 DEF RequestFlow, Apart, Same
    <3>3. ASSUME NEW q \in Of(incoming', {SUBACK_TYPE}) PROVE FALSE
      <4>1. q.id = h.id
        BY <1>2, <1>4 DEF RequestFlow, Within
      <4>2. QED
        BY <1>3, <3>1, <4>1 DEF Clear, Same
    <3>4. QED
      BY <3>2, <3>3
  <2>3. Within(incoming', incoming, {SUBACK_TYPE}) /\ Within(incoming', incoming, {UNSUBACK_TYPE})
    BY <1>2
  <2>4. /\ Of(incoming', {UNSUBACK_TYPE}) # {} => UNSUBSCRIBE_TYPE \in served'
        /\ \A q \in Of(incoming', {SUBACK_TYPE}) :
                /\ SUBSCRIBE_TYPE \in served' /\ q.id = RequestId[SUBSCRIBE_TYPE]
                /\ q.content = answered'
        /\ Alone(toBroker', {SUBSCRIBE_TYPE}) /\ Alone(incoming', {SUBACK_TYPE})
        /\ Apart(Of(toBroker', {SUBSCRIBE_TYPE}), Of(incoming', {SUBACK_TYPE}))
    BY <1>1, <2>3 DEF RequestFlow, Within, Apart
  <2>5. \A q \in Of(toBroker', {SUBSCRIBE_TYPE, UNSUBSCRIBE_TYPE}) :
            q.type \in Request /\ q.id = RequestId[q.type]
    BY <1>1 DEF RequestFlow
  <2>6. QED
    BY <1>1, <1>4, <1>6, <2>1, <2>2, <2>4, <2>5 DEF RequestFlow
<1>7. QED
  BY <1>1, <1>5, <1>6

LEMMA RequestUnsubscribeAck ==
    ASSUME Typed, RequestFlow, RecvUnsubscribeAck
    PROVE  RequestFlow'
<1>1. /\ Incoming(UNSUBACK_TYPE) /\ UNCHANGED <<toBroker, reported, granted, served, answered>>
      /\ request' = [request EXCEPT ![UNSUBSCRIBE_TYPE] = "told"]
  BY DEF RecvUnsubscribeAck, Incoming, broker
<1>2. /\ Within(incoming', incoming, {SUBACK_TYPE}) /\ Within(incoming', incoming, {UNSUBACK_TYPE})
      /\ Head(chunk) \in Of(incoming, {UNSUBACK_TYPE})
  BY <1>1, ClientReads DEF Typed
<1>3. UNSUBSCRIBE_TYPE \in served
  BY <1>2 DEF RequestFlow
<1>4. \A r \in Request : r # UNSUBSCRIBE_TYPE => request'[r] = request[r]
  BY <1>1 DEF Typed, TypeOK
<1>5. \A r \in Request : request'[r] = "told" => r \in served'
  BY <1>1, <1>3, <1>4 DEF RequestFlow
<1>6. SUBSCRIBE_TYPE # UNSUBSCRIBE_TYPE
  OBVIOUS
<1>7. QED
  BY <1>1, <1>2, <1>3, <1>4, <1>5, <1>6 DEF RequestFlow, Within, Apart

LEMMA RequestReconnect ==
    ASSUME Typed, RequestFlow, Reconnect
    PROVE  RequestFlow'
<1>1. /\ \A kinds : Of(toBroker', kinds) = {} /\ Alone(toBroker', kinds)
      /\ incoming' = Resent /\ \A i \in DOMAIN Resent : Kind(Resent[i]) \in FromSender
  BY ResentOnly
<1>2. /\ Of(incoming', {SUBACK_TYPE}) = {} /\ Alone(incoming', {SUBACK_TYPE})
      /\ Of(incoming', {UNSUBACK_TYPE}) = {}
  <2>1. /\ \A i \in DOMAIN incoming' : Kind(incoming'[i]) \notin {SUBACK_TYPE}
        /\ \A i \in DOMAIN incoming' : Kind(incoming'[i]) \notin {UNSUBACK_TYPE}
    BY <1>1
  <2>2. QED
    BY <2>1, NoneOf
<1>3. request' = [r \in Request |-> IF request[r] = "absent" THEN "absent" ELSE "none"]
  BY DEF Reconnect
<1>4. \A r \in Request : request'[r] \in {"absent", "none"}
  BY <1>3
<1>5. QED
  BY <1>1, <1>2, <1>4 DEF RequestFlow, Apart

LEMMA RequestStep ==
    ASSUME Typed, RequestFlow, [Next]_vars
    PROVE  RequestFlow'
<1>1. ASSUME NEW m \in Up, Publish(m) \/ PublishAgain(m) PROVE RequestFlow'
  <2>1. PICK id \in UpId, duplicate \in BOOLEAN : mqtt_client_publish(m, id, duplicate)
    BY <1>1, PublishCalled
  <2> DEFINE p == Delivery(m, id, duplicate)
  <2>2. p \in Sendable /\ Kind(p) \notin Requests /\ SentOrNot(p)
    BY <2>1, PublishPacket DEF Requests
  <2>3. UNCHANGED <<incoming, reported, request, granted, served, answered>>
    BY <2>1 DEF mqtt_client_publish, client, requesting, broker, incoming
  <2> HIDE DEF p
  <2>4. QED
    BY <2>2, <2>3, RequestOtherSent
<1>2. ASSUME NEW r \in Request, AskFor(r) PROVE RequestFlow'
  BY <1>2, RequestAskFor
<1>3. ASSUME NEW o \in owed, mqtt_client_send_message_response(o) PROVE RequestFlow'
  <2>1. o.id \in Nat /\ o.qos \in {0, 1, 2}
    BY OwedType
  <2>2. SentOrNot(Ack(o.id, o.qos)) /\ Reported
    BY <1>3, <2>1, AckEffect DEF mqtt_client_send_message_response
  <2>3. Ack(o.id, o.qos) \in Sendable /\ Kind(Ack(o.id, o.qos)) \notin Requests
    BY <2>1, AckMade DEF Requests
  <2>4. UNCHANGED <<incoming, request, granted, served, answered>>
    BY <1>3 DEF mqtt_client_send_message_response, requesting, broker, incoming
  <2>5. QED
    BY <2>2, <2>3, <2>4, RequestOtherSent DEF Reported
<1>4. CASE BytesReceived
  <2>1. incoming' = incoming
    BY <1>4, IncomingCut DEF Typed
  <2>2. UNCHANGED <<toBroker, reported, request, granted, served, answered>>
    BY <1>4 DEF BytesReceived, application, requesting, broker
  <2>3. QED
    BY <2>1, <2>2, WithinSame, RequestUndisturbed DEF NoMoreRequests, NoMoreAnswers
<1>5. CASE RecvShort
  <2>1. /\ chunk # <<>> /\ chunk' = Tail(chunk) /\ reported'
        /\ UNCHANGED <<toClient, toBroker, request, granted, served, answered>>
    BY <1>5 DEF RecvShort, application, requesting, broker, set_error_callback
  <2>2. incoming # <<>> /\ incoming' = Tail(incoming) /\ incoming \in Seq(Sendable)
    BY <2>1, IncomingTail, IncomingType DEF Typed
  <2>3. NoMoreAnswers
    BY <2>2, WithinTail DEF NoMoreAnswers
  <2>4. QED
    BY <2>1, <2>3, WithinSame, RequestUndisturbed DEF NoMoreRequests
<1>6. CASE RecvPublish
  BY <1>6, RequestOtherIncoming DEF RecvPublish, application, requesting, set_error_callback
<1>7. CASE PublishReturn
  <2> DEFINE qos == QosOfFlags(handling.flags)
             p == Ack(handling.id, qos)
  <2>1. handling.id \in Nat /\ qos \in {0, 1, 2}
    BY <1>7, HandlingInHand, QosOfFlagsType DEF PublishReturn, Typed
  <2>2. UNCHANGED <<toBroker, reported>> \/ SendMessageAck(handling.id, qos)
    BY <1>7 DEF PublishReturn
  <2> HIDE DEF qos
  <2>3. p \in Sendable /\ Kind(p) \notin Requests
    BY <2>1, AckMade DEF Requests
  <2>4. SentOrNot(p) /\ (reported => reported')
    BY <2>1, <2>2, AckEffect DEF SentOrNot, Reported
  <2>5. UNCHANGED <<incoming, request, granted, served, answered>>
    BY <1>7 DEF PublishReturn, requesting, broker, incoming
  <2> HIDE DEF p
  <2>6. QED
    BY <2>3, <2>4, <2>5, RequestOtherSent
<1>8. CASE RecvPublishReply
  BY <1>8, RequestOtherIncoming DEF RecvPublishReply, requesting
<1>9. CASE EventReturn
  <2>1. handling.id \in Nat
    BY <1>9, HandlingInHand DEF EventReturn, Typed
  <2>2. UNCHANGED <<incoming, request, granted, served, answered>>
    BY <1>9 DEF EventReturn, application, requesting, broker, incoming
  <2>3. ASSUME NEW type \in {PUBREL_TYPE, PUBCOMP_TYPE}, SendAnswer(type, handling.id)
        PROVE  RequestFlow'
    <3> DEFINE p == Answer(type, handling.id)
    <3>1. p \in Sendable /\ Kind(p) \notin Requests
      BY <2>1, AnswerMade DEF Requests
    <3>2. SentOrNot(p) /\ Reported
      BY <2>3, AnswerEffect
    <3> HIDE DEF p
    <3>3. QED
      BY <2>2, <3>1, <3>2, RequestOtherSent DEF Reported
  <2>4. CASE UNCHANGED <<toBroker, reported>>
    BY <2>2, <2>4, WithinSame, RequestUndisturbed DEF NoMoreRequests, NoMoreAnswers
  <2>5. QED
    BY <1>9, <2>3, <2>4 DEF EventReturn, ReplyTo
<1>10. CASE RecvSubscribeAck
  BY <1>10, RequestSubscribeAck
<1>11. CASE RecvUnsubscribeAck
  BY <1>11, RequestUnsubscribeAck
<1>12. CASE BrokerPublish
  <2> DEFINE type == IF Qos[Head(toBroker).content] = 2 THEN PUBREC_TYPE ELSE PUBACK_TYPE
  <2>1. type \in Nat \ {SUBACK_TYPE, UNSUBACK_TYPE}
    OBVIOUS
  <2>2. /\ Received({PUBLISH_TYPE}) /\ Reply(type, Head(toBroker).id)
        /\ UNCHANGED <<chunk, served, answered>>
    BY <1>12 DEF BrokerPublish, Received, client
  <2> HIDE DEF type
  <2>3. NoMoreAnswers
    BY <2>1, <2>2, BrokerReplyPacket, RequestOtherAppended
  <2>4. QED
    BY <2>2, <2>3, RequestOtherReceived
<1>13. CASE BrokerRelease
  <2>1. /\ Received({PUBREL_TYPE}) /\ Reply(PUBCOMP_TYPE, Head(toBroker).id)
        /\ UNCHANGED <<chunk, served, answered>>
    BY <1>13 DEF BrokerRelease, Received, client
  <2>2. NoMoreAnswers
    BY <2>1, BrokerReplyPacket, RequestOtherAppended
  <2>3. QED
    BY <2>1, <2>2, RequestOtherReceived
<1>14. CASE BrokerAcknowledged
  <2>1. /\ Received({PUBACK_TYPE, PUBREC_TYPE, PUBCOMP_TYPE})
        /\ Reply(PUBREL_TYPE, Head(toBroker).id) \/ UNCHANGED toClient
        /\ UNCHANGED <<chunk, served, answered>>
    BY <1>14 DEF BrokerAcknowledged, Received, client
  <2>2. CASE Reply(PUBREL_TYPE, Head(toBroker).id)
    <3>1. NoMoreAnswers
      BY <2>1, <2>2, BrokerReplyPacket, RequestOtherAppended
    <3>2. QED
      BY <2>1, <3>1, RequestOtherReceived
  <2>3. CASE UNCHANGED toClient
    <3>1. NoMoreAnswers
      BY <2>1, <2>3, WithinSame DEF NoMoreAnswers, incoming
    <3>2. QED
      BY <2>1, <3>1, RequestOtherReceived
  <2>4. QED
    BY <2>1, <2>2, <2>3
<1>15. CASE BrokerServe
  BY <1>15, RequestBrokerServe
<1>16. ASSUME NEW d \in Down, BrokerDeliver(d) PROVE RequestFlow'
  <2>1. PICK id \in Nat, p \in Sendable : toClient' = Append(toClient, p) /\ Kind(p) = PUBLISH_TYPE
    BY <1>16, BrokerDeliverPacket
  <2>2. UNCHANGED <<chunk, toBroker, reported, request, granted, served, answered>>
    BY <1>16 DEF BrokerDeliver, client, application, requesting
  <2>3. NoMoreAnswers
    BY <2>1, <2>2, RequestOtherAppended
  <2>4. QED
    BY <2>2, <2>3, WithinSame, RequestUndisturbed DEF NoMoreRequests
<1>17. CASE Lost
  BY <1>17, WithinSame, RequestUndisturbed
     DEF Lost, application, requesting, broker, incoming, set_error_callback, NoMoreRequests, NoMoreAnswers
<1>18. CASE Shortened
  <2>1. PICK p \in Sendable : Kind(p) = UNKNOWN_TYPE /\ toClient' = Append(toClient, p)
    BY <1>18, ShortenedPacket
  <2>2. UNCHANGED <<chunk, toBroker, reported, request, granted, served, answered>>
    BY <1>18 DEF Shortened, client, application, requesting, broker
  <2>3. NoMoreAnswers
    BY <2>1, <2>2, RequestOtherAppended
  <2>4. QED
    BY <2>2, <2>3, WithinSame, RequestUndisturbed DEF NoMoreRequests
<1>19. CASE Reconnect
  BY <1>19, RequestReconnect
<1>20. CASE UNCHANGED vars
  BY <1>20, WithinSame, RequestUndisturbed
     DEF vars, client, network, application, requesting, broker, incoming, NoMoreRequests, NoMoreAnswers
<1>21. QED
  BY <1>1, <1>2, <1>3, <1>4, <1>5, <1>6, <1>7, <1>8, <1>9, <1>10, <1>11, <1>12, <1>13,
     <1>14, <1>15, <1>16, <1>17, <1>18, <1>19, <1>20 DEF Next, Calls, Handlers, Broker

-----------------------------------------------------------------------------
(* Types.                                                                  *)

LEMMA ChannelsSent ==
    ASSUME Channels, NEW p \in Sendable, SentOrNot(p), Kind(p) # UNKNOWN_TYPE,
           Kind(p) = PUBLISH_TYPE => p.content \in Up /\ p.id \in UpId,
           UNCHANGED <<chunk, toClient>>, handling' = handling \/ handling' = NoPacket
    PROVE  Channels'
<1>1. Within(toBroker', toBroker, {UNKNOWN_TYPE})
  BY SentWithin
<1>2. toBroker' \in Seq(Sendable)
  BY SentType
<1>3. Of(toBroker', {UNKNOWN_TYPE}) = {}
  BY <1>1 DEF Within, Channels
<1>4. handling' # NoPacket => handling' \in Sendable /\ handling'.whole
  BY DEF Channels
<1>5. ASSUME NEW q \in Of(toBroker', {PUBLISH_TYPE}) PROVE q.content \in Up /\ q.id \in UpId
  <2>1. q \in Of(toBroker, {PUBLISH_TYPE}) \/ (q = p /\ Kind(p) = PUBLISH_TYPE)
    <3>1. CASE toBroker' = toBroker
      BY <1>5, <3>1
    <3>2. CASE toBroker' = Append(toBroker, p)
      <4> DEFINE kinds == {PUBLISH_TYPE}
      <4>1. q \in Of(Append(toBroker, p), kinds) /\ toBroker \in Seq(Sendable)
        BY <1>5, <3>2 DEF Channels
      <4> HIDE DEF kinds
      <4>2. q \in Of(toBroker, kinds) \/ (q = p /\ Kind(p) \in kinds)
        BY <4>1, OfAppend
      <4>3. QED
        BY <4>2 DEF kinds
    <3>3. QED
      BY <3>1, <3>2 DEF SentOrNot
  <2>2. QED
    BY <2>1 DEF Channels
<1>6. QED
  BY <1>2, <1>3, <1>4, <1>5 DEF Channels

LEMMA ChannelsIncoming ==
    ASSUME Channels, NEW type, Incoming(type), type # UNKNOWN_TYPE,
           handling' = Head(chunk) \/ handling' = NoPacket
    PROVE  Channels'
<1>1. Head(chunk) \in Sendable /\ chunk' \in Seq(Sendable) /\ Head(chunk).whole
  <2>1. chunk # <<>> /\ chunk' = Tail(chunk) /\ UNCHANGED toClient /\ Head(chunk).whole
    BY DEF Incoming
  <2>2. QED
    BY <2>1, IncomingTail
<1>2. UNCHANGED <<toBroker, toClient>>
  BY DEF Incoming
<1>3. handling' # NoPacket => handling' \in Sendable /\ handling'.whole
  BY <1>1
<1>4. QED
  BY <1>1, <1>2, <1>3 DEF Channels

LEMMA ChannelsReceived ==
    ASSUME Channels, NEW types, Received(types), toClient' \in Seq(Sendable)
    PROVE  Channels'
<1>1. toBroker' \in Seq(Sendable) /\ Within(toBroker', toBroker, {UNKNOWN_TYPE})
      /\ Within(toBroker', toBroker, {PUBLISH_TYPE})
  BY BrokerReads
<1>2. UNCHANGED <<chunk, handling>>
  BY DEF Received, client
<1>3. Of(toBroker', {UNKNOWN_TYPE}) = {}
  BY <1>1 DEF Within, Channels
<1>4. handling' # NoPacket => handling' \in Sendable /\ handling'.whole
  BY <1>2 DEF Channels
<1>5. \A p \in Of(toBroker', {PUBLISH_TYPE}) : p.content \in Up /\ p.id \in UpId
  BY <1>1 DEF Within, Channels
<1>6. QED
  BY <1>1, <1>2, <1>3, <1>4, <1>5 DEF Channels

LEMMA ChannelsDelivered ==
    ASSUME Channels, NEW p \in Sendable, toClient' = Append(toClient, p),
           UNCHANGED <<chunk, handling, toBroker>>
    PROVE  Channels'
<1>1. toClient' \in Seq(Sendable)
  BY IncomingAppend
<1>2. handling' # NoPacket => handling' \in Sendable /\ handling'.whole
  BY DEF Channels
<1>3. QED
  BY <1>1, <1>2 DEF Channels

LEMMA ChannelsKept ==
    ASSUME Channels, UNCHANGED <<chunk, handling, toBroker, toClient>>
    PROVE  Channels'
<1>1. handling' # NoPacket => handling' \in Sendable /\ handling'.whole
  BY DEF Channels
<1>2. QED
  BY <1>1 DEF Channels

LEMMA ChannelsStep ==
    ASSUME Typed, [Next]_vars
    PROVE  Channels'
<1> USE DEF Typed
<1>1. ASSUME NEW m \in Up, Publish(m) \/ PublishAgain(m) PROVE Channels'
  <2>1. PICK id \in UpId, duplicate \in BOOLEAN : mqtt_client_publish(m, id, duplicate)
    BY <1>1, PublishCalled
  <2> DEFINE p == Delivery(m, id, duplicate)
  <2>2. p \in Sendable /\ Kind(p) # UNKNOWN_TYPE /\ SentOrNot(p)
    BY <2>1, PublishPacket
  <2>3. p.content \in Up /\ p.id \in UpId
    BY DEF Delivery, Packet
  <2>4. UNCHANGED <<chunk, handling, toClient>>
    BY <2>1 DEF mqtt_client_publish, client
  <2> HIDE DEF p
  <2>5. QED
    BY <2>2, <2>3, <2>4, ChannelsSent
<1>2. ASSUME NEW r \in Request, AskFor(r) PROVE Channels'
  <2> DEFINE p == Packet(r, 2, RequestId[r], NoPacket)
  <2>1. p \in Sendable /\ SentOrNot(p) /\ Kind(p) \notin {UNKNOWN_TYPE, PUBLISH_TYPE}
    BY <1>2, AskForPacket
  <2>2. UNCHANGED <<chunk, handling, toClient>>
    BY <1>2 DEF AskFor, client
  <2> HIDE DEF p
  <2>3. QED
    BY <2>1, <2>2, ChannelsSent
<1>3. ASSUME NEW o \in owed, mqtt_client_send_message_response(o) PROVE Channels'
  <2>1. o.id \in Nat /\ o.qos \in {0, 1, 2}
    BY OwedType
  <2>2. SentOrNot(Ack(o.id, o.qos))
    BY <1>3, <2>1, AckEffect DEF mqtt_client_send_message_response
  <2>3. Ack(o.id, o.qos) \in Sendable /\ Kind(Ack(o.id, o.qos)) \notin {UNKNOWN_TYPE, PUBLISH_TYPE}
    BY <2>1, AckMade
  <2>4. UNCHANGED <<chunk, handling, toClient>>
    BY <1>3 DEF mqtt_client_send_message_response
  <2>5. QED
    BY <2>2, <2>3, <2>4, ChannelsSent
<1>4. CASE BytesReceived
  <2>1. chunk' \in Seq(Sendable) /\ toClient' \in Seq(Sendable)
    BY <1>4, IncomingCut
  <2>2. UNCHANGED <<handling, toBroker>> /\ handling = NoPacket
    BY <1>4 DEF BytesReceived
  <2>3. QED
    BY <2>1, <2>2 DEF Channels
<1>5. CASE RecvShort
  <2>1. chunk # <<>> /\ chunk' = Tail(chunk) /\ UNCHANGED <<handling, toBroker, toClient>> /\ handling = NoPacket
    BY <1>5 DEF RecvShort
  <2>2. chunk' \in Seq(Sendable)
    BY <2>1, IncomingTail
  <2>3. QED
    BY <2>1, <2>2 DEF Channels
<1>6. CASE RecvPublish
  BY <1>6, ChannelsIncoming DEF RecvPublish, Incoming
<1>7. CASE PublishReturn
  <2> DEFINE qos == QosOfFlags(handling.flags)
             p == Ack(handling.id, qos)
  <2>1. handling.id \in Nat /\ qos \in {0, 1, 2}
    BY <1>7, HandlingInHand, QosOfFlagsType DEF PublishReturn
  <2>2. UNCHANGED toBroker \/ SendMessageAck(handling.id, qos)
    BY <1>7 DEF PublishReturn
  <2> HIDE DEF qos
  <2>3. p \in Sendable /\ Kind(p) \notin {UNKNOWN_TYPE, PUBLISH_TYPE}
    BY <2>1, AckMade
  <2>4. SentOrNot(p)
    BY <2>1, <2>2, AckEffect DEF SentOrNot
  <2>5. handling' = NoPacket /\ UNCHANGED <<chunk, toClient>>
    BY <1>7 DEF PublishReturn
  <2> HIDE DEF p
  <2>6. QED
    BY <2>3, <2>4, <2>5, ChannelsSent
<1>8. CASE RecvPublishReply
  BY <1>8, ChannelsIncoming DEF RecvPublishReply
<1>9. CASE EventReturn
  <2>1. handling.id \in Nat
    BY <1>9, HandlingInHand DEF EventReturn
  <2>2. handling' = NoPacket /\ UNCHANGED <<chunk, toClient>>
    BY <1>9 DEF EventReturn
  <2>3. ASSUME NEW type \in {PUBREL_TYPE, PUBCOMP_TYPE}, SendAnswer(type, handling.id)
        PROVE  Channels'
    <3> DEFINE p == Answer(type, handling.id)
    <3>1. p \in Sendable /\ Kind(p) \notin {UNKNOWN_TYPE, PUBLISH_TYPE}
      BY <2>1, AnswerMade
    <3>2. SentOrNot(p)
      BY <2>3, AnswerEffect
    <3> HIDE DEF p
    <3>3. QED
      BY <2>2, <3>1, <3>2, ChannelsSent
  <2>4. CASE UNCHANGED toBroker
    BY <2>2, <2>4 DEF Channels
  <2>5. QED
    BY <1>9, <2>3, <2>4 DEF EventReturn, ReplyTo
<1>10. CASE RecvSubscribeAck
  BY <1>10, ChannelsIncoming DEF RecvSubscribeAck, Incoming
<1>11. CASE RecvUnsubscribeAck
  BY <1>11, ChannelsIncoming DEF RecvUnsubscribeAck
<1>12. ASSUME NEW types, Received(types), NEW type \in Nat, Reply(type, Head(toBroker).id)
       PROVE  Channels'
  <2>1. PICK p \in Sendable : toClient' = Append(toClient, p)
    BY <1>12, BrokerReplyPacket
  <2>2. toClient' \in Seq(Sendable)
    BY <2>1, AppendProperties DEF Channels
  <2>3. QED
    BY <1>12, <2>2, ChannelsReceived
<1>13. CASE BrokerPublish
  <2> DEFINE type == IF Qos[Head(toBroker).content] = 2 THEN PUBREC_TYPE ELSE PUBACK_TYPE
  <2>1. type \in Nat
    OBVIOUS
  <2>2. Received({PUBLISH_TYPE}) /\ Reply(type, Head(toBroker).id)
    BY <1>13 DEF BrokerPublish
  <2> HIDE DEF type
  <2>3. QED
    BY <1>12, <2>1, <2>2
<1>14. CASE BrokerRelease
  BY <1>12, <1>14 DEF BrokerRelease
<1>15. CASE BrokerAcknowledged
  <2>1. /\ Received({PUBACK_TYPE, PUBREC_TYPE, PUBCOMP_TYPE})
        /\ Reply(PUBREL_TYPE, Head(toBroker).id) \/ UNCHANGED toClient
    BY <1>15 DEF BrokerAcknowledged
  <2>2. CASE UNCHANGED toClient
    BY <2>1, <2>2, ChannelsReceived DEF Channels
  <2>3. QED
    BY <1>12, <2>1, <2>2
<1>16. CASE BrokerServe
  <2>1. PICK p \in Sendable : toClient' = Append(toClient, p)
    BY <1>16, BrokerServePacket
  <2>2. toClient' \in Seq(Sendable)
    BY <2>1, AppendProperties DEF Channels
  <2>3. QED
    BY <1>16, <2>2, ChannelsReceived DEF BrokerServe
<1>17. ASSUME NEW d \in Down, BrokerDeliver(d) PROVE Channels'
  <2>1. PICK id \in Nat, p \in Sendable : toClient' = Append(toClient, p)
    BY <1>17, BrokerDeliverPacket
  <2>2. UNCHANGED <<chunk, handling, toBroker>>
    BY <1>17 DEF BrokerDeliver, client
  <2>3. QED
    BY <2>1, <2>2, ChannelsDelivered
<1>18. CASE Lost
  BY <1>18, ChannelsKept DEF Lost
<1>19. CASE Shortened
  <2>1. PICK p \in Sendable : toClient' = Append(toClient, p)
    BY <1>19, ShortenedPacket
  <2>2. UNCHANGED <<chunk, handling, toBroker>>
    BY <1>19 DEF Shortened, client
  <2>3. QED
    BY <2>1, <2>2, ChannelsDelivered
<1>20. CASE Reconnect
  <2>1. toClient' \in Seq(Sendable) /\ Of(toBroker', {UNKNOWN_TYPE}) = {}
        /\ Of(toBroker', {PUBLISH_TYPE}) = {}
    BY <1>20, ResentOnly
  <2>2. chunk' = <<>> /\ handling' = NoPacket /\ toBroker' = <<>>
    BY <1>20 DEF Reconnect
  <2>3. QED
    BY <2>1, <2>2 DEF Channels
<1>21. CASE UNCHANGED vars
  BY <1>21, ChannelsKept DEF vars, client, network
<1>22. QED
  BY <1>1, <1>2, <1>3, <1>4, <1>5, <1>6, <1>7, <1>8, <1>9, <1>10, <1>11, <1>13,
     <1>14, <1>15, <1>16, <1>17, <1>18, <1>19, <1>20, <1>21 DEF Next, Calls, Handlers, Broker

-----------------------------------------------------------------------------
(* What the client makes of the return codes of a SUBACK.                  *)

LEMMA QosReturned ==
    ASSUME NEW code \in Byte
    PROVE  /\ QosReturn(code) \in Codes
           /\ QosReturn(code) = code \/ (QosReturn(code) = DELIVER_FAILURE /\ code > 2)
<1>1. code \in Int /\ 0 <= code
  BY DEF Byte
<1>2. CASE code <= 2
  <2>1. QosReturn(code) = code /\ code \in {0, 1, 2}
    BY <1>1, <1>2 DEF QosReturn, DELIVER_EXACTLY_ONCE
  <2>2. QED
    BY <2>1 DEF Codes, DELIVER_AT_MOST_ONCE, DELIVER_AT_LEAST_ONCE, DELIVER_EXACTLY_ONCE
<1>3. CASE ~(code <= 2)
  BY <1>1, <1>3 DEF QosReturn, Codes, DELIVER_EXACTLY_ONCE
<1>4. QED
  BY <1>2, <1>3

LEMMA SubackCodesResult ==
    ASSUME NEW codes \in Seq(Byte)
    PROVE  /\ SubackCodes(codes) \in Seq(Codes) /\ Len(SubackCodes(codes)) \in 0 .. Len(codes)
           /\ \A i \in DOMAIN SubackCodes(codes) : SubackCodes(codes)[i] = QosReturn(codes[i])
           /\ (\A i \in DOMAIN codes : ValidReturnCode(codes[i])) =>
                    Len(SubackCodes(codes)) = Len(codes)
<1> DEFINE valid == {n \in 0 .. Len(codes) : \A i \in 1 .. n : ValidReturnCode(codes[i])}
           last == Cardinality(valid) - 1
<1>1. /\ Len(codes) \in Nat /\ DOMAIN codes = 1 .. Len(codes)
      /\ \A i \in 1 .. Len(codes) : codes[i] \in Byte
  BY LenProperties, ElementOfSeq
<1>2. IsFiniteSet(0 .. Len(codes)) /\ Cardinality(0 .. Len(codes)) = Len(codes) + 1
  BY <1>1, FS_Interval
<1>3. IsFiniteSet(valid) /\ Cardinality(valid) <= Len(codes) + 1
  BY <1>2, FS_Subset
<1>4. Cardinality(valid) \in Nat /\ Cardinality(valid) # 0
  <2>1. 0 \in valid
    BY <1>1
  <2>2. valid # {}
    BY <2>1
  <2>3. QED
    BY <1>3, <2>2, FS_CardinalityType, FS_EmptySet
<1>5. last \in Nat /\ last <= Len(codes)
  BY <1>1, <1>3, <1>4
<1>6. SubackCodes(codes) = [i \in 1 .. last |-> QosReturn(codes[i])]
  BY DEF SubackCodes
<1>7. ASSUME NEW i \in 1 .. last PROVE QosReturn(codes[i]) \in Codes
  <2>1. codes[i] \in Byte
    BY <1>1, <1>5
  <2>2. QED
    BY <2>1, QosReturned
<1>8. (\A i \in DOMAIN codes : ValidReturnCode(codes[i])) => last = Len(codes)
  <2> SUFFICES ASSUME \A i \in DOMAIN codes : ValidReturnCode(codes[i])
               PROVE  last = Len(codes)
    OBVIOUS
  <2>1. valid = 0 .. Len(codes)
    <3>1. ASSUME NEW n \in 0 .. Len(codes), NEW i \in 1 .. n PROVE ValidReturnCode(codes[i])
      BY <1>1
    <3>2. QED
      BY <3>1
  <2>2. Cardinality(valid) = Len(codes) + 1
    BY <1>2, <2>1
  <2>3. QED
    BY <1>1, <2>2
<1> HIDE DEF last, valid
<1>9. SubackCodes(codes) \in [1 .. last -> Codes]
  BY <1>6, <1>7
<1>10. SubackCodes(codes) \in Seq(Codes) /\ Len(SubackCodes(codes)) = last
  BY <1>5, <1>9
<1>11. \A i \in DOMAIN SubackCodes(codes) : SubackCodes(codes)[i] = QosReturn(codes[i])
  BY <1>6
<1>12. Len(SubackCodes(codes)) \in 0 .. Len(codes)
  BY <1>1, <1>5, <1>10
<1>13. QED
  BY <1>8, <1>10, <1>11, <1>12

LEMMA SubackIsWhole == RequestFlow /\ Typed => SubackWhole
<1> SUFFICES ASSUME RequestFlow, Typed, SUBSCRIBE_TYPE \in Request, request[SUBSCRIBE_TYPE] = "told"
             PROVE  /\ reported \/ Len(granted) = Len(answered)
                    /\ \A i \in DOMAIN granted :
                         \/ granted[i] = answered[i]
                         \/ granted[i] = DELIVER_FAILURE /\ answered[i] > 2
  BY DEF SubackWhole
<1>1. /\ granted = SubackCodes(answered)
      /\ reported \/ \A i \in DOMAIN answered : ValidReturnCode(answered[i])
  BY DEF RequestFlow
<1>2. answered \in Seq(Byte)
  BY DEF Typed, TypeOK
<1>3. /\ Len(granted) \in 0 .. Len(answered) /\ granted \in Seq(Codes)
      /\ \A i \in DOMAIN granted : granted[i] = QosReturn(answered[i])
      /\ reported \/ Len(granted) = Len(answered)
  BY <1>1, <1>2, SubackCodesResult
<1>4. ASSUME NEW i \in DOMAIN granted
      PROVE  granted[i] = answered[i] \/ (granted[i] = DELIVER_FAILURE /\ answered[i] > 2)
  <2>1. i \in 1 .. Len(answered)
    BY <1>2, <1>3, LenProperties
  <2>2. answered[i] \in Byte
    BY <1>2, <2>1, ElementOfSeq
  <2>3. QED
    BY <1>3, <2>2, QosReturned
<1>5. QED
  BY <1>3, <1>4

-----------------------------------------------------------------------------
(* Each variable keeps its type.                                           *)

ConnectionType == connected \in BOOLEAN /\ reported \in BOOLEAN /\ connection \in 1 .. MaxConnections
PublishType ==
    /\ state \in [Up -> InFlight \cup {"absent", "new", "done"}]
    /\ upId \in [Up -> UpId \cup {0}]
PassType == passed \in [Up -> Nat] /\ held \subseteq UpId
ReceiveType ==
    /\ taken \in [Down -> Nat] /\ known \subseteq DownId
    /\ \A o \in owed : o.msg \in Down /\ o.id \in DownId /\ o.qos \in 1 .. 2
RequestType ==
    request \in [Request -> {"absent", "none", "asked", "told"}] /\ granted \in Seq(Codes)
DeliverType ==
    /\ progress \in [Down -> {"absent", "new", "sent", "received", "done"}]
    /\ downId \in [Down -> DownId \cup {0}]
ServeType == served \subseteq Request /\ answered \in Seq(Byte)

LEMMA TypeParts ==
    TypeOK <=> /\ ConnectionType /\ PublishType /\ PassType /\ ReceiveType
               /\ RequestType /\ DeliverType /\ ServeType
BY DEF TypeOK, ConnectionType, PublishType, PassType, ReceiveType, RequestType, DeliverType, ServeType

LEMMA ConnectionTyped ==
    ASSUME ConnectionType, [Next]_vars
    PROVE  ConnectionType'
<1>1. CASE Reconnect
  <2>1. /\ connection \in 1 .. MaxConnections /\ connection < MaxConnections /\ MaxConnections \in Nat
        /\ connection' = connection + 1 /\ connected' = TRUE /\ reported' = FALSE
    BY <1>1, SessionAssumption DEF Reconnect, ConnectionType
  <2>2. connection' \in 1 .. MaxConnections
    BY <2>1
  <2>3. QED
    BY <2>1, <2>2 DEF ConnectionType
<1>2. CASE UNCHANGED <<connected, reported, connection>>
  BY <1>2 DEF ConnectionType
<1>3. ASSUME Reported, UNCHANGED connection PROVE ConnectionType'
  BY <1>3 DEF Reported, ConnectionType
<1>4. ASSUME NEW id, NEW type, SendAnswer(type, id) PROVE Reported
  BY <1>4, AnswerEffect
<1>5. ASSUME NEW id, NEW qos, SendMessageAck(id, qos) PROVE Reported
  BY <1>4, <1>5 DEF SendMessageAck, Reported
<1>6. ASSUME NEW o \in owed, mqtt_client_send_message_response(o) PROVE ConnectionType'
  BY <1>3, <1>5, <1>6 DEF mqtt_client_send_message_response
<1>7. CASE RecvShort \/ RecvPublish \/ RecvSubscribeAck \/ Lost
  BY <1>3, <1>7 DEF RecvShort, RecvPublish, RecvSubscribeAck, Lost, Incoming, set_error_callback, Reported
<1>8. CASE PublishReturn
  BY <1>3, <1>5, <1>8 DEF PublishReturn, Reported
<1>9. CASE EventReturn
  BY <1>3, <1>4, <1>9 DEF EventReturn, Reported
<1>10. ASSUME NEW m \in Up, Publish(m) \/ PublishAgain(m) PROVE ConnectionType'
  <2>1. UNCHANGED <<connected, reported, connection>>
    BY <1>10 DEF Publish, PublishAgain, mqtt_client_publish, client
  <2>2. QED
    BY <1>2, <2>1
<1>11. ASSUME NEW r \in Request, AskFor(r) PROVE ConnectionType'
  BY <1>2, <1>11 DEF AskFor, client
<1>12. CASE BytesReceived \/ RecvPublishReply \/ RecvUnsubscribeAck
  BY <1>2, <1>12 DEF BytesReceived, RecvPublishReply, RecvUnsubscribeAck, Incoming
<1>13. CASE Broker
  BY <1>2, <1>13 DEF Broker, BrokerPublish, BrokerRelease, BrokerAcknowledged, BrokerServe, Received, client
<1>14. ASSUME NEW d \in Down, BrokerDeliver(d) PROVE ConnectionType'
  BY <1>2, <1>14 DEF BrokerDeliver, client
<1>15. CASE Shortened
  BY <1>2, <1>15 DEF Shortened, client
<1>16. CASE UNCHANGED vars
  BY <1>2, <1>16 DEF vars, client, network
<1>17. QED
  BY <1>1, <1>6, <1>7, <1>8, <1>9, <1>10, <1>11, <1>12, <1>13, <1>14, <1>15, <1>16
     DEF Next, Calls, Handlers

LEMMA PublishTyped ==
    ASSUME PublishType, Typed, [Next]_vars
    PROVE  PublishType' /\ Identified'
<1> DEFINE Goal == PublishType' /\ Identified'
<1> USE DEF Typed
<1>1. ASSUME NEW m \in Up, Publish(m) \/ PublishAgain(m) PROVE Goal
  <2>1. PICK id \in UpId, duplicate \in BOOLEAN : mqtt_client_publish(m, id, duplicate)
    BY <1>1, PublishCalled
  <2>2. /\ state' = [state EXCEPT ![m] = "sent"] \/ state' = [state EXCEPT ![m] = "unsure"]
        /\ upId' = [upId EXCEPT ![m] = id]
    BY <2>1 DEF mqtt_client_publish
  <2>3. QED
    BY <2>2 DEF PublishType, Identified, InFlight
<1>2. CASE UNCHANGED <<state, upId>>
  BY <1>2 DEF PublishType, Identified
<1>3. CASE RecvPublishReply
  <2>1. PICK type \in {PUBACK_TYPE, PUBREC_TYPE, PUBREL_TYPE, PUBCOMP_TYPE} :
            Told(Action(type), Head(chunk).id)
    BY <1>3 DEF RecvPublishReply
  <2>2. UNCHANGED <<state, upId>> \/
        \E after \in {"received", "done"} :
            /\ state' = [m \in Up |-> IF upId[m] = Head(chunk).id /\ state[m] \in InFlight
                                      THEN after ELSE state[m]]
            /\ UNCHANGED upId
    BY <2>1 DEF Told
  <2>3. QED
    BY <1>2, <2>2 DEF PublishType, Identified, InFlight
<1>4. CASE Reconnect
  BY <1>4 DEF Reconnect, PublishType, Identified, InFlight
<1>5. ASSUME NEW r \in Request, AskFor(r) PROVE Goal
  BY <1>2, <1>5 DEF AskFor, publishing
<1>6. ASSUME NEW o \in owed, mqtt_client_send_message_response(o) PROVE Goal
  BY <1>2, <1>6 DEF mqtt_client_send_message_response, publishing
<1>7. CASE \/ BytesReceived \/ RecvShort \/ RecvPublish \/ PublishReturn \/ EventReturn
           \/ RecvSubscribeAck \/ RecvUnsubscribeAck
  BY <1>2, <1>7 DEF BytesReceived, RecvShort, RecvPublish, PublishReturn, EventReturn,
                    RecvSubscribeAck, RecvUnsubscribeAck, application, publishing
<1>8. CASE Broker
  BY <1>2, <1>8 DEF Broker, BrokerPublish, BrokerRelease, BrokerAcknowledged, BrokerServe, Received,
                    application, publishing
<1>9. ASSUME NEW d \in Down, BrokerDeliver(d) PROVE Goal
  BY <1>2, <1>9 DEF BrokerDeliver, application, publishing
<1>10. CASE Lost \/ Shortened \/ UNCHANGED vars
  BY <1>2, <1>10 DEF Lost, Shortened, vars, application, publishing
<1>11. QED
  BY <1>1, <1>3, <1>4, <1>5, <1>6, <1>7, <1>8, <1>9, <1>10 DEF Next, Calls, Handlers

LEMMA PassTyped ==
    ASSUME PassType, Typed, [Next]_vars
    PROVE  PassType'
<1>1. CASE BrokerPublish
  <2> DEFINE h == Head(toBroker)
  <2>1. h \in Of(toBroker, {PUBLISH_TYPE})
    BY <1>1, BrokerReads DEF BrokerPublish, Typed
  <2>2. h.content \in Up /\ h.id \in UpId
    BY <2>1 DEF Typed, Channels
  <2>3. /\ passed' = passed \/ passed' = [passed EXCEPT ![h.content] = @ + 1]
        /\ held' = held \/ held' = held \cup {h.id}
    BY <1>1 DEF BrokerPublish
  <2> HIDE DEF h
  <2>4. QED
    BY <2>2, <2>3 DEF PassType
<1>2. CASE BrokerRelease
  BY <1>2 DEF BrokerRelease, PassType
<1>3. CASE UNCHANGED <<passed, held>>
  BY <1>3 DEF PassType
<1>4. CASE BrokerAcknowledged \/ BrokerServe
  BY <1>3, <1>4 DEF BrokerAcknowledged, BrokerServe
<1>5. ASSUME NEW d \in Down, BrokerDeliver(d) PROVE PassType'
  BY <1>3, <1>5 DEF BrokerDeliver
<1>6. ASSUME NEW m \in Up, Publish(m) \/ PublishAgain(m) PROVE PassType'
  BY <1>3, <1>6 DEF Publish, PublishAgain, mqtt_client_publish, broker
<1>7. ASSUME NEW r \in Request, AskFor(r) PROVE PassType'
  BY <1>3, <1>7 DEF AskFor, broker
<1>8. ASSUME NEW o \in owed, mqtt_client_send_message_response(o) PROVE PassType'
  BY <1>3, <1>8 DEF mqtt_client_send_message_response, broker
<1>9. CASE Handlers
  BY <1>3, <1>9 DEF Handlers, BytesReceived, RecvShort, RecvPublish, PublishReturn, RecvPublishReply,
                    EventReturn, RecvSubscribeAck, RecvUnsubscribeAck, Incoming, broker
<1>10. CASE Lost \/ Shortened \/ Reconnect \/ UNCHANGED vars
  BY <1>3, <1>10 DEF Lost, Shortened, Reconnect, vars, broker
<1>11. QED
  BY <1>1, <1>2, <1>4, <1>5, <1>6, <1>7, <1>8, <1>9, <1>10 DEF Next, Calls, Broker

LEMMA TakeTyped ==
    ASSUME ReceiveType, NEW d \in Down, NEW id, Qos[d] = 2 => id \in DownId, Take(d, id)
    PROVE  taken' \in [Down -> Nat] /\ known' \subseteq DownId
<1>1. taken' = taken \/ taken' = [taken EXCEPT ![d] = @ + 1]
  BY DEF Take
<1>2. known' = known \/ (known' = known \cup {id} /\ Qos[d] = 2)
  BY DEF Take
<1>3. taken' \in [Down -> Nat]
  BY <1>1 DEF ReceiveType
<1>4. known' \subseteq DownId
  BY <1>2 DEF ReceiveType
<1>5. QED
  BY <1>3, <1>4

LEMMA ReceiveTyped ==
    ASSUME ReceiveType, DownFlow, Typed, [Next]_vars
    PROVE  ReceiveType'
<1>1. CASE UNCHANGED <<taken, known, owed>>
  BY <1>1 DEF ReceiveType
<1>2. CASE PublishReturn
  <2> DEFINE d == handling.content
             id == handling.id
             qos == QosOfFlags(handling.flags)
  <2>1. /\ handling \in InHand(FromSender) /\ handling.type = PUBLISH_TYPE
    BY <1>2, HandlingInHand DEF PublishReturn, Typed
  <2>2. DownIn(handling)
    BY <2>1 DEF DownFlow, DownPackets
  <2>3. /\ d \in Down /\ downId[d] = id /\ qos = Qos[d]
        /\ Qos[d] # 0 => progress[d] = "sent"
    BY <2>1, <2>2 DEF DownIn
  <2>4. /\ Qos[d] \in {0, 1, 2} /\ (Qos[d] # 0 => id \in DownId)
    BY <2>3, Constants, IdOfDelivering DEF DownFlow, Delivering
  <2>5. \/ Take(d, id) /\ UNCHANGED owed
        \/ Qos[d] # 0 /\ owed' = owed \cup {[msg |-> d, id |-> id, qos |-> qos]} /\ UNCHANGED <<taken, known>>
    BY <1>2, SessionAssumption DEF PublishReturn
  <2> HIDE DEF d, id, qos
  <2>6. CASE Take(d, id) /\ UNCHANGED owed
    <3>1. taken' \in [Down -> Nat] /\ known' \subseteq DownId
      BY <2>3, <2>4, <2>6, TakeTyped
    <3>2. QED
      BY <2>6, <3>1 DEF ReceiveType
  <2>7. CASE Qos[d] # 0 /\ owed' = owed \cup {[msg |-> d, id |-> id, qos |-> qos]} /\ UNCHANGED <<taken, known>>
    BY <2>3, <2>4, <2>7 DEF ReceiveType
  <2>8. QED
    BY <2>5, <2>6, <2>7
<1>3. ASSUME NEW o \in owed, mqtt_client_send_message_response(o) PROVE ReceiveType'
  <2>1. o.msg \in Down /\ o.id \in DownId
    BY DEF ReceiveType
  <2>2. owed' = owed \ {o} /\ Take(o.msg, o.id)
    BY <1>3 DEF mqtt_client_send_message_response
  <2>3. taken' \in [Down -> Nat] /\ known' \subseteq DownId
    BY <2>1, <2>2, TakeTyped
  <2>4. QED
    BY <2>2, <2>3 DEF ReceiveType
<1>4. CASE RecvPublishReply
  <2>1. UNCHANGED <<taken, owed>>
    BY <1>4 DEF RecvPublishReply
  <2>2. known' \subseteq known
    BY <1>4 DEF RecvPublishReply, Told
  <2>3. QED
    BY <2>1, <2>2 DEF ReceiveType
<1>5. CASE Reconnect
  BY <1>5 DEF Reconnect, ReceiveType
<1>6. ASSUME NEW m \in Up, Publish(m) \/ PublishAgain(m) PROVE ReceiveType'
  BY <1>1, <1>6 DEF Publish, PublishAgain, mqtt_client_publish, receiving
<1>7. ASSUME NEW r \in Request, AskFor(r) PROVE ReceiveType'
  BY <1>1, <1>7 DEF AskFor, receiving
<1>8. CASE BytesReceived \/ RecvShort \/ RecvPublish \/ EventReturn \/ RecvSubscribeAck \/ RecvUnsubscribeAck
  BY <1>1, <1>8 DEF BytesReceived, RecvShort, RecvPublish, EventReturn, RecvSubscribeAck,
                    RecvUnsubscribeAck, application, receiving
<1>9. CASE Broker
  BY <1>1, <1>9 DEF Broker, BrokerPublish, BrokerRelease, BrokerAcknowledged, BrokerServe, Received,
                    application, receiving
<1>10. ASSUME NEW d \in Down, BrokerDeliver(d) PROVE ReceiveType'
  BY <1>1, <1>10 DEF BrokerDeliver, application, receiving
<1>11. CASE Lost \/ Shortened \/ UNCHANGED vars
  BY <1>1, <1>11 DEF Lost, Shortened, vars, application, receiving
<1>12. QED
  BY <1>2, <1>3, <1>4, <1>5, <1>6, <1>7, <1>8, <1>9, <1>10, <1>11 DEF Next, Calls, Handlers

LEMMA RequestTyped ==
    ASSUME RequestType, RequestFlow, Typed, [Next]_vars
    PROVE  RequestType'
<1>1. CASE UNCHANGED <<request, granted>>
  BY <1>1 DEF RequestType
<1>2. ASSUME NEW r \in Request, AskFor(r) PROVE RequestType'
  BY <1>2 DEF AskFor, RequestType
<1>3. CASE RecvSubscribeAck
  <2> DEFINE h == Head(chunk)
  <2>1. h \in Of(incoming, {SUBACK_TYPE}) /\ h.type = SUBACK_TYPE
    BY <1>3, ClientReads DEF RecvSubscribeAck, Typed
  <2>2. SUBSCRIBE_TYPE \in served /\ h.content = answered
    BY <2>1 DEF RequestFlow
  <2>3. answered \in Seq(Byte)
    BY DEF Typed, TypeOK
  <2>4. \/ granted' = SubackCodes(h.content) /\ request' = [request EXCEPT ![SUBSCRIBE_TYPE] = "told"]
        \/ UNCHANGED <<request, granted>>
    BY <1>3 DEF RecvSubscribeAck, requesting
  <2> HIDE DEF h
  <2>5. SubackCodes(answered) \in Seq(Codes)
    BY <2>3, SubackCodesResult
  <2>6. QED
    BY <1>1, <2>2, <2>4, <2>5 DEF RequestType
<1>4. CASE RecvUnsubscribeAck
  BY <1>4 DEF RecvUnsubscribeAck, RequestType
<1>5. CASE Reconnect
  <2>1. granted' = <<>> /\ request' = [r \in Request |-> IF request[r] = "absent" THEN "absent" ELSE "none"]
    BY <1>5 DEF Reconnect
  <2>2. granted' \in Seq(Codes)
    BY <2>1, EmptySeq
  <2>3. QED
    BY <2>1, <2>2 DEF RequestType
<1>6. ASSUME NEW m \in Up, Publish(m) \/ PublishAgain(m) PROVE RequestType'
  BY <1>1, <1>6 DEF Publish, PublishAgain, mqtt_client_publish, requesting
<1>7. ASSUME NEW o \in owed, mqtt_client_send_message_response(o) PROVE RequestType'
  BY <1>1, <1>7 DEF mqtt_client_send_message_response, requesting
<1>8. CASE BytesReceived \/ RecvShort \/ RecvPublish \/ PublishReturn \/ RecvPublishReply \/ EventReturn
  BY <1>1, <1>8 DEF BytesReceived, RecvShort, RecvPublish, PublishReturn, RecvPublishReply, EventReturn,
                    application, requesting
<1>9. CASE Broker
  BY <1>1, <1>9 DEF Broker, BrokerPublish, BrokerRelease, BrokerAcknowledged, BrokerServe, Received,
                    application, requesting
<1>10. ASSUME NEW d \in Down, BrokerDeliver(d) PROVE RequestType'
  BY <1>1, <1>10 DEF BrokerDeliver, application, requesting
<1>11. CASE Lost \/ Shortened \/ UNCHANGED vars
  BY <1>1, <1>11 DEF Lost, Shortened, vars, application, requesting
<1>12. QED
  BY <1>2, <1>3, <1>4, <1>5, <1>6, <1>7, <1>8, <1>9, <1>10, <1>11 DEF Next, Calls, Handlers

LEMMA DeliverTyped ==
    ASSUME DeliverType, Typed, [Next]_vars
    PROVE  DeliverType'
<1>1. CASE UNCHANGED <<progress, downId>>
  BY <1>1 DEF DeliverType
<1>2. ASSUME NEW d \in Down, BrokerDeliver(d) PROVE DeliverType'
  <2>1. PICK id \in DownId \cup {0} : downId' = [downId EXCEPT ![d] = id]
    BY <1>2 DEF BrokerDeliver
  <2>2. progress' = [progress EXCEPT ![d] = IF Qos[d] = 0 THEN "done" ELSE "sent"]
    BY <1>2 DEF BrokerDeliver
  <2>3. QED
    BY <2>1, <2>2 DEF DeliverType
<1>3. CASE BrokerAcknowledged
  <2> DEFINE packet == Head(toBroker)
             of == {d \in Down : /\ downId[d] = packet.id /\ progress[d] \in Delivering
                                 /\ Qos[d] = IF packet.type = PUBACK_TYPE THEN 1 ELSE 2}
             after == IF packet.type = PUBREC_TYPE THEN "received" ELSE "done"
  <2>1. /\ progress' = [d \in Down |-> IF d \in of THEN after ELSE progress[d]]
        /\ UNCHANGED downId
    BY <1>3 DEF BrokerAcknowledged
  <2>2. after \in {"received", "done"}
    OBVIOUS
  <2> HIDE DEF of, after
  <2>3. QED
    BY <2>1, <2>2 DEF DeliverType
<1>4. ASSUME NEW m \in Up, Publish(m) \/ PublishAgain(m) PROVE DeliverType'
  BY <1>1, <1>4 DEF Publish, PublishAgain, mqtt_client_publish, broker
<1>5. ASSUME NEW r \in Request, AskFor(r) PROVE DeliverType'
  BY <1>1, <1>5 DEF AskFor, broker
<1>6. ASSUME NEW o \in owed, mqtt_client_send_message_response(o) PROVE DeliverType'
  BY <1>1, <1>6 DEF mqtt_client_send_message_response, broker
<1>7. CASE Handlers
  BY <1>1, <1>7 DEF Handlers, BytesReceived, RecvShort, RecvPublish, PublishReturn, RecvPublishReply,
                    EventReturn, RecvSubscribeAck, RecvUnsubscribeAck, Incoming, broker
<1>8. CASE BrokerPublish \/ BrokerRelease \/ BrokerServe
  BY <1>1, <1>8 DEF BrokerPublish, BrokerRelease, BrokerServe
<1>9. CASE Lost \/ Shortened \/ Reconnect \/ UNCHANGED vars
  BY <1>1, <1>9 DEF Lost, Shortened, Reconnect, vars, broker
<1>10. QED
  BY <1>2, <1>3, <1>4, <1>5, <1>6, <1>7, <1>8, <1>9 DEF Next, Calls, Broker

LEMMA ServeTyped ==
    ASSUME ServeType, RequestFlow, Typed, [Next]_vars
    PROVE  ServeType'
<1>1. CASE UNCHANGED <<served, answered>>
  BY <1>1 DEF ServeType
<1>2. CASE BrokerServe
  <2> DEFINE h == Head(toBroker)
  <2>1. /\ h.type \in {SUBSCRIBE_TYPE, UNSUBSCRIBE_TYPE}
        /\ served' = served \cup {h.type}
        /\ h.type = SUBSCRIBE_TYPE => answered' \in Seq(Byte)
        /\ h.type = UNSUBSCRIBE_TYPE => answered' = answered
    BY <1>2, BrokerServePacket
  <2>2. h \in Of(toBroker, {SUBSCRIBE_TYPE, UNSUBSCRIBE_TYPE})
    BY <1>2, BrokerReads DEF BrokerServe, Typed
  <2>3. h.type \in Request
    BY <2>2 DEF RequestFlow
  <2> HIDE DEF h
  <2>4. QED
    BY <2>1, <2>3 DEF ServeType
<1>3. ASSUME NEW d \in Down, BrokerDeliver(d) PROVE ServeType'
  BY <1>1, <1>3 DEF BrokerDeliver
<1>4. ASSUME NEW m \in Up, Publish(m) \/ PublishAgain(m) PROVE ServeType'
  BY <1>1, <1>4 DEF Publish, PublishAgain, mqtt_client_publish, broker
<1>5. ASSUME NEW r \in Request, AskFor(r) PROVE ServeType'
  BY <1>1, <1>5 DEF AskFor, broker
<1>6. ASSUME NEW o \in owed, mqtt_client_send_message_response(o) PROVE ServeType'
  BY <1>1, <1>6 DEF mqtt_client_send_message_response, broker
<1>7. CASE Handlers
  BY <1>1, <1>7 DEF Handlers, BytesReceived, RecvShort, RecvPublish, PublishReturn, RecvPublishReply,
                    EventReturn, RecvSubscribeAck, RecvUnsubscribeAck, Incoming, broker
<1>8. CASE BrokerPublish \/ BrokerRelease \/ BrokerAcknowledged
  BY <1>1, <1>8 DEF BrokerPublish, BrokerRelease, BrokerAcknowledged
<1>9. CASE Lost \/ Shortened \/ Reconnect \/ UNCHANGED vars
  BY <1>1, <1>9 DEF Lost, Shortened, Reconnect, vars, broker
<1>10. QED
  BY <1>2, <1>3, <1>4, <1>5, <1>6, <1>7, <1>8, <1>9 DEF Next, Calls, Broker

LEMMA TypeStep ==
    ASSUME Typed, DownFlow, RequestFlow, [Next]_vars
    PROVE  Typed'
<1>1. /\ ConnectionType /\ PublishType /\ PassType /\ ReceiveType
      /\ RequestType /\ DeliverType /\ ServeType
  BY TypeParts DEF Typed
<1>2. ConnectionType' /\ PublishType' /\ Identified' /\ PassType' /\ ReceiveType'
  BY <1>1, ConnectionTyped, PublishTyped, PassTyped, ReceiveTyped
<1>3. RequestType' /\ DeliverType' /\ ServeType'
  BY <1>1, RequestTyped, DeliverTyped, ServeTyped
<1>4. TypeOK'
  BY <1>2, <1>3 DEF TypeOK, ConnectionType, PublishType, PassType, ReceiveType, RequestType,
                    DeliverType, ServeType
<1>5. Channels'
  BY ChannelsStep
<1>6. QED
  BY <1>2, <1>4, <1>5 DEF Typed

-----------------------------------------------------------------------------
(* The invariant of the two flows and of the requests.                     *)

LEMMA InitTyped == Init => Typed
<1> SUFFICES ASSUME Init PROVE Typed
  OBVIOUS
<1>1. PICK work \in Workloads :
        /\ state = [m \in Up |-> IF m \in work THEN "new" ELSE "absent"]
        /\ progress = [d \in Down |-> IF d \in work THEN "new" ELSE "absent"]
        /\ request = [r \in Request |-> IF r \in work THEN "none" ELSE "absent"]
  BY DEF Init
<1>2. ConnectionType
  <2>1. MaxConnections \in Nat \ {0}
    BY SessionAssumption
  <2>2. connected = TRUE /\ reported = FALSE /\ connection = 1
    BY DEF Init
  <2>3. connection \in 1 .. MaxConnections
    BY <2>1, <2>2
  <2>4. QED
    BY <2>2, <2>3 DEF ConnectionType
<1>3. PublishType /\ PassType
  BY <1>1 DEF Init, PublishType, PassType
<1>4. ReceiveType
  BY DEF Init, ReceiveType
<1>5. RequestType
  <2>1. granted \in Seq(Codes)
    BY EmptySeq DEF Init
  <2>2. QED
    BY <1>1, <2>1 DEF RequestType
<1>6. DeliverType
  BY <1>1 DEF Init, DeliverType
<1>7. ServeType
  BY EmptySeq DEF Init, ServeType
<1>8. Channels
  BY EmptySeq, OfEmpty DEF Init, Channels
<1>9. Identified
  BY <1>1 DEF Identified, InFlight
<1>10. QED
  BY <1>2, <1>3, <1>4, <1>5, <1>6, <1>7, <1>8, <1>9, TypeParts DEF Typed

LEMMA InitEmpty ==
    Init => /\ incoming = <<>> /\ owed = {}
            /\ \A kinds : /\ Of(toBroker, kinds) = {} /\ Of(incoming, kinds) = {}
                          /\ InHand(kinds) = {}
                          /\ Alone(toBroker, kinds) /\ Alone(incoming, kinds)
<1> SUFFICES ASSUME Init
             PROVE  /\ incoming = <<>> /\ owed = {}
                    /\ \A kinds : /\ Of(toBroker, kinds) = {} /\ Of(incoming, kinds) = {}
                                  /\ InHand(kinds) = {}
                                  /\ Alone(toBroker, kinds) /\ Alone(incoming, kinds)
  OBVIOUS
<1>1. toBroker = <<>> /\ chunk = <<>> /\ toClient = <<>> /\ handling = NoPacket /\ owed = {}
  BY DEF Init
<1>2. incoming = <<>>
  <2>1. <<>> \in Seq(Sendable)
    BY EmptySeq
  <2>2. <<>> \o <<>> = <<>>
    BY <2>1, ConcatEmptySeq
  <2>3. QED
    BY <1>1, <2>2 DEF incoming
<1>3. QED
  BY <1>1, <1>2, OfEmpty DEF InHand

LEMMA InitFlows == Init => Flows
<1> SUFFICES ASSUME Init PROVE Flows
  OBVIOUS
<1>1. PICK work \in Workloads :
        /\ state = [m \in Up |-> IF m \in work THEN "new" ELSE "absent"]
        /\ progress = [d \in Down |-> IF d \in work THEN "new" ELSE "absent"]
        /\ request = [r \in Request |-> IF r \in work THEN "none" ELSE "absent"]
  BY DEF Init
<1>2. /\ passed = [m \in Up |-> 0] /\ taken = [d \in Down |-> 0] /\ held = {} /\ known = {}
  BY DEF Init
<1>3. UpFlow
  <2>1. UpMessages
    BY <1>1, <1>2 DEF UpMessages, UpMessage, InFlight
  <2>2. UpPackets
    BY InitEmpty DEF UpPackets
  <2>3. UpOneAtATime
    BY InitEmpty DEF UpOneAtATime, Apart
  <2>4. QED
    BY <2>1, <2>2, <2>3 DEF UpFlow
<1>4. DownFlow
  <2>1. DownMessages
    BY <1>1, <1>2 DEF DownMessages, DownMessage, Delivering
  <2>2. DownPackets
    BY InitEmpty DEF DownPackets
  <2>3. DownOneAtATime
    BY InitEmpty DEF DownOneAtATime, Apart
  <2>4. QED
    BY <2>1, <2>2, <2>3 DEF DownFlow
<1>5. RequestFlow
  <2>1. \A r \in Request : request[r] # "told"
    BY <1>1
  <2>2. QED
    BY <2>1, InitEmpty DEF RequestFlow, Apart
<1>6. QED
  BY <1>3, <1>4, <1>5 DEF Flows

LEMMA FlowsStep ==
    ASSUME Typed, Flows, Careful, "clock" \notin Faults => NotSent, [Next]_vars
    PROVE  Typed' /\ Flows' /\ ("clock" \notin Faults => NotSent')
<1>1. Typed'
  BY TypeStep DEF Flows
<1>2. DownFlow' /\ RequestFlow' /\ UpKept
  BY UpStep, DownStep, RequestStep DEF Flows
<1>3. QED
  BY <1>1, <1>2 DEF Flows, UpKept

(* A packet identifier has one packet under way at a time, wherever it is,   *)
(* and where it is says how far its message got: on the connection, in the   *)
(* callback of recvCompleteCallback or owed to mqtt_client_send_message_     *)
(* response.  Unless a clock fails, nothing is under way for a message whose *)
(* mqtt_client_publish failed: that is what lets the application publish it  *)
(* again on the same connection.                                             *)
THEOREM OnePacketAtATime ==
    ASSUME Careful
    PROVE  Spec => [](Typed /\ Flows /\ ("clock" \notin Faults => NotSent))
<1> DEFINE IInv == Typed /\ Flows /\ ("clock" \notin Faults => NotSent)
<1>1. Init => IInv
  <2>1. Init => NotSent
    BY DEF Init, NotSent
  <2>2. QED
    BY <2>1, InitTyped, InitFlows
<1>2. IInv /\ [Next]_vars => IInv'
  BY FlowsStep
<1> HIDE DEF IInv
<1>3. Spec => []IInv
  BY <1>1, <1>2, PTL DEF Spec
<1>4. QED
  BY <1>3 DEF IInv

(* mqtt_client_publish returns an error only if nothing of the message went  *)
(* out, and nothing of an earlier attempt is left, as long as no clock fails *)
(* after xio_send (sendPacketItem takes that for a failure, too).            *)
THEOREM FailedMeansNotSent ==
    ASSUME "clock" \notin Faults
    PROVE  Spec => []NotSent
<1>1. Careful
  BY DEF Careful
<1>2. Spec => []("clock" \notin Faults => NotSent)
  BY <1>1, OnePacketAtATime, PTL
<1>3. ("clock" \notin Faults => NotSent) => NotSent
  OBVIOUS
<1>4. QED
  BY <1>2, <1>3, PTL

(* The same of what the broker delivers and of the requests, whatever the    *)
(* application publishes again: a message that went out twice disturbs none  *)
(* of the handlers of what comes in.                                         *)
THEOREM ReceivingOneAtATime == Spec => [](Typed /\ DownFlow /\ RequestFlow)
<1>1. Init => Typed /\ DownFlow /\ RequestFlow
  BY InitTyped, InitFlows DEF Flows
<1>2. Typed /\ DownFlow /\ RequestFlow /\ [Next]_vars => Typed' /\ DownFlow' /\ RequestFlow'
  BY TypeStep, DownStep, RequestStep
<1>3. QED
  BY <1>1, <1>2, PTL DEF Spec

(* The variables of the session keep their types: packets that the client    *)
(* and the broker still handle after a connection is gone never put an       *)
(* identifier or a message where it does not belong.                         *)
THEOREM TypeCorrect == Spec => []TypeOK
<1>1. Typed => TypeOK
  BY DEF Typed
<1>2. QED
  BY <1>1, ReceivingOneAtATime, PTL

(* ON_PUBLISH_ACK, ON_PUBLISH_RECV and ON_PUBLISH_COMP are told for a        *)
(* message only after the broker passed it on, and a SUBSCRIBE_ACK or        *)
(* UNSUBSCRIBE_ACK only after the broker served the request.                 *)
THEOREM Acknowledgements ==
    ASSUME Careful
    PROVE  Spec => []AckMeansDelivered
<1>1. Flows => AckMeansDelivered
  BY DEF Flows, UpFlow, UpMessages, UpMessage, RequestFlow, AckMeansDelivered
<1>2. QED
  BY <1>1, OnePacketAtATime, PTL

(* SendMessageAck answers for a message that the application took: the       *)
(* broker gives up no other.                                                 *)
THEOREM Releases == Spec => []ReleasedWhenTaken
<1>1. DownFlow => ReleasedWhenTaken
  BY DEF DownFlow, DownMessages, DownMessage, ReleasedWhenTaken
<1>2. QED
  BY <1>1, ReceivingOneAtATime, PTL

(* DELIVER_EXACTLY_ONCE holds on both sides, over any number of lost         *)
(* connections and of messages sent again.                                   *)
THEOREM OnceExactly ==
    ASSUME Careful
    PROVE  Spec => []ExactlyOnce
<1>1. Flows => ExactlyOnce
  BY DEF Flows, UpFlow, UpMessages, UpMessage, DownFlow, DownMessages, DownMessage, ExactlyOnce
<1>2. QED
  BY <1>1, OnePacketAtATime, PTL

(* The qosReturn that the SUBACK case of recvCompleteCallback delivers has   *)
(* a code for each filter, unless it reported an error, and each is what the *)
(* broker answered or DELIVER_FAILURE.                                       *)
THEOREM QosReturnWhole == Spec => []SubackWhole
<1>1. Typed /\ RequestFlow => SubackWhole
  BY SubackIsWhole
<1>2. QED
  BY <1>1, ReceivingOneAtATime, PTL

-----------------------------------------------------------------------------
(* The two flows implement Delivery.                                       *)

Taken(m) == IF m \in Up THEN passed[m] ELSE taken[m]
Others(m) == (Up \cup Down) \ {m}

LEMMA Offered ==
    ASSUME NEW m \in Up \cup Down, Stage(m) = "new", Stage(m)' = "open",
           \A n \in Others(m) : Stage(n)' = Stage(n),
           UNCHANGED <<passed, taken>>
    PROVE  QosDelivery!Next
BY DEF Others, QosDelivery!Next, QosDelivery!Offer

LEMMA Settled ==
    ASSUME NEW m \in Up \cup Down, Stage(m) = "open", Stage(m)' = "settled", Qos[m] > 0, Taken(m) > 0,
           \A n \in Others(m) : Stage(n)' = Stage(n),
           UNCHANGED <<passed, taken>>
    PROVE  QosDelivery!Next
BY DEF Others, Taken, QosDelivery!Next, QosDelivery!Settle

LEMMA Handed ==
    ASSUME NEW m \in Up \cup Down, Stage(m) = "open", Qos[m] = 1 \/ Taken(m) = 0,
           Taken(m)' = Taken(m) + 1,
           \A n \in Others(m) : Taken(n)' = Taken(n),
           UNCHANGED <<state, progress>>
    PROVE  QosDelivery!Next
<1>1. \A n \in Up \cup Down : Stage(n)' = Stage(n)
  BY DEF Stage
<1>2. QED
  BY <1>1 DEF Others, Taken, QosDelivery!Next, QosDelivery!Hand

LEMMA Unmoved ==
    ASSUME \A n \in Up \cup Down : Stage(n)' = Stage(n), UNCHANGED <<passed, taken>>
    PROVE  UNCHANGED QosDelivery!vars
BY DEF QosDelivery!vars

LEMMA InitDelivery == Init => QosDelivery!Init
<1> SUFFICES ASSUME Init PROVE QosDelivery!Init
  OBVIOUS
<1>1. PICK work \in Workloads :
        /\ state = [m \in Up |-> IF m \in work THEN "new" ELSE "absent"]
        /\ progress = [d \in Down |-> IF d \in work THEN "new" ELSE "absent"]
  BY DEF Init
<1>2. \A m \in Up \cup Down : Stage(m) = "new"
  BY <1>1 DEF Stage
<1>3. passed = [m \in Up |-> 0] /\ taken = [d \in Down |-> 0]
  BY DEF Init
<1>4. QED
  BY <1>2, <1>3 DEF QosDelivery!Init

\* What an acknowledgement makes of the message that has its identifier.
LEMMA UpSettled ==
    ASSUME Typed, UpFlow, RecvPublishReply
    PROVE  [QosDelivery!Next]_QosDelivery!vars
<1> DEFINE h == Head(chunk)
<1>1. PICK type \in {PUBACK_TYPE, PUBREC_TYPE, PUBREL_TYPE, PUBCOMP_TYPE} :
        /\ Incoming(type) /\ Told(Action(type), h.id)
        /\ UNCHANGED <<taken, broker>>
  BY DEF RecvPublishReply, Incoming
<1>2. UNCHANGED <<passed, taken, progress>>
  BY <1>1 DEF broker
<1>3. CASE type = PUBREL_TYPE
  <2>1. UNCHANGED state
    BY <1>1, <1>3 DEF Told, Action
  <2>2. QED
    BY <1>2, <2>1, Unmoved DEF Stage
<1>4. CASE type # PUBREL_TYPE
  <2> DEFINE after == IF type = PUBREC_TYPE THEN "received" ELSE "done"
  <2>1. state' = [m \in Up |-> IF upId[m] = h.id /\ state[m] \in InFlight THEN after ELSE state[m]]
    BY <1>1, <1>4 DEF Told, Action
  <2>2. h.type = type /\ h \in Of(incoming, FromReceiver)
    BY <1>1, <1>4, ClientReads DEF Typed
  <2>3. UpIn(h)
    BY <2>2 DEF UpFlow, UpPackets
  <2>4. PICK m \in Up : /\ upId[m] = h.id
                        /\ \/ state[m] \in {"sent", "unsure"} /\ passed[m] > 0
                           \/ state[m] = "received"
    BY <2>3 DEF UpIn
  <2> HIDE DEF h
  <2>5. after \in {"received", "done"}
    OBVIOUS
  <2> HIDE DEF after
  <2>6. ASSUME NEW n \in Up, n # m PROVE state'[n] = state[n]
    BY <2>1, <2>4, <2>6 DEF UpFlow, UpMessages, InFlight
  <2>7. state'[m] = after
    BY <2>1, <2>4 DEF InFlight
  <2>8. Qos[m] > 0 /\ Qos[m] \in {1, 2}
    BY Constants, SessionAssumption
  <2>9. \A n \in Others(m) : Stage(n)' = Stage(n)
    BY <1>2, <2>6 DEF Stage, Others
  <2>10. Stage(m)' = "settled"
    BY <2>5, <2>7, <2>8 DEF Stage
  <2>11. CASE state[m] \in {"sent", "unsure"} /\ passed[m] > 0
    <3>1. Stage(m) = "open" /\ Taken(m) > 0
      BY <2>11 DEF Stage, Taken
    <3>2. QED
      BY <1>2, <2>8, <2>9, <2>10, <3>1, Settled
  <2>12. CASE state[m] = "received"
    <3>1. Stage(m) = "settled"
      BY <2>8, <2>12 DEF Stage
    <3>2. QED
      BY <1>2, <2>9, <2>10, <3>1, Unmoved DEF Others
  <2>13. QED
    BY <2>4, <2>11, <2>12
<1>5. QED
  BY <1>3, <1>4

LEMMA DownSettled ==
    ASSUME Typed, DownFlow, BrokerAcknowledged
    PROVE  [QosDelivery!Next]_QosDelivery!vars
<1> DEFINE h == Head(toBroker)
           of == {d \in Down : /\ downId[d] = h.id /\ progress[d] \in Delivering
                               /\ Qos[d] = IF h.type = PUBACK_TYPE THEN 1 ELSE 2}
           after == IF h.type = PUBREC_TYPE THEN "received" ELSE "done"
<1>1. /\ progress' = [d \in Down |-> IF d \in of THEN after ELSE progress[d]]
      /\ UNCHANGED <<passed, taken, state>>
  BY DEF BrokerAcknowledged, Received, application, publishing, receiving
<1>2. h \in Of(toBroker, FromReceiver)
  BY BrokerReads DEF BrokerAcknowledged, Typed
<1>3. DownOut(h)
  BY <1>2 DEF DownFlow, DownPackets
<1>4. PICK d \in Down : /\ downId[d] = h.id
                        /\ \/ progress[d] = "sent" /\ taken[d] > 0
                           \/ progress[d] = "received"
  BY <1>3 DEF DownOut
<1>5. after \in {"received", "done"} /\ \A e \in of : downId[e] = h.id /\ progress[e] \in Delivering
  OBVIOUS
<1> HIDE DEF h, of, after
<1>6. d \notin Up /\ Down \cap Up = {}
  BY Constants
<1>7. Qos[d] \in {1, 2} /\ \A e \in Down : progress[e] \in Delivering /\ downId[e] = downId[d] => e = d
  BY <1>4, IdOfDelivering DEF DownFlow, Delivering
<1>8. \A e \in Others(d) : Stage(e)' = Stage(e)
  <2>1. ASSUME NEW e \in Down, e # d PROVE progress'[e] = progress[e]
    BY <1>1, <1>4, <1>5, <1>7, <2>1
  <2>2. QED
    BY <1>1, <2>1 DEF Others, Stage
<1>9. CASE d \notin of
  <2>1. progress'[d] = progress[d]
    BY <1>1, <1>9
  <2>2. Stage(d)' = Stage(d)
    BY <1>6, <2>1 DEF Stage
  <2>3. QED
    BY <1>1, <1>8, <2>2, Unmoved DEF Others
<1>10. CASE d \in of
  <2>1. progress'[d] = after
    BY <1>1, <1>10
  <2>2. Stage(d)' = "settled"
    BY <1>5, <1>6, <1>7, <2>1 DEF Stage
  <2>3. CASE progress[d] = "sent" /\ taken[d] > 0
    <3>1. Stage(d) = "open" /\ Taken(d) > 0 /\ Qos[d] > 0
      BY <1>6, <1>7, <2>3 DEF Stage, Taken
    <3>2. QED
      BY <1>1, <1>8, <2>2, <3>1, Settled
  <2>4. CASE progress[d] = "received"
    <3>1. Stage(d) = "settled"
      BY <1>6, <1>7, <2>4 DEF Stage
    <3>2. QED
      BY <1>1, <1>8, <2>2, <3>1, Unmoved DEF Others
  <2>5. QED
    BY <1>4, <2>3, <2>4
<1>11. QED
  BY <1>9, <1>10

\* The broker passes a message on, unless it holds the identifier.
LEMMA UpPassed ==
    ASSUME Typed, UpFlow, BrokerPublish
    PROVE  [QosDelivery!Next]_QosDelivery!vars
<1> DEFINE h == Head(toBroker)
<1>1. h \in Of(toBroker, FromSender) /\ h.type = PUBLISH_TYPE
  BY BrokerReads DEF BrokerPublish, Typed
<1>2. UpOut(h)
  BY <1>1 DEF UpFlow, UpPackets
<1>3. PICK m \in Up : h.content = m /\ upId[m] = h.id /\ state[m] \in {"sent", "unsure"}
  BY <1>1, <1>2 DEF UpOut
<1>4. /\ UNCHANGED <<state, progress, taken>>
      /\ passed' = IF Qos[h.content] = 2 /\ h.id \in held THEN passed
                   ELSE [passed EXCEPT ![h.content] = @ + 1]
  BY DEF BrokerPublish, Received, application, publishing, receiving
<1> HIDE DEF h
<1>5. Stage(m) = "open"
  BY <1>3 DEF Stage
<1>6. CASE Qos[m] = 2 /\ h.id \in held
  <2>1. UNCHANGED <<passed, taken>> /\ \A n \in Up \cup Down : Stage(n)' = Stage(n)
    BY <1>3, <1>4, <1>6 DEF Stage
  <2>2. QED
    BY <2>1, Unmoved
<1>7. CASE ~(Qos[m] = 2 /\ h.id \in held)
  <2>1. passed \in [Up -> Nat]
    BY DEF Typed, TypeOK
  <2>2. passed' = [passed EXCEPT ![m] = @ + 1]
    BY <1>3, <1>4, <1>7
  <2>3. Qos[m] = 1 \/ Taken(m) = 0
    <3>1. CASE Qos[m] = 2
      <4>1. ~(passed[m] > 0)
        BY <1>3, <1>7, <3>1 DEF UpFlow, UpMessages, UpMessage
      <4>2. QED
        BY <2>1, <4>1 DEF Taken
    <3>2. QED
      BY <3>1, Constants
  <2>4. Taken(m)' = Taken(m) + 1
    BY <2>1, <2>2 DEF Taken
  <2>5. \A n \in Others(m) : Taken(n)' = Taken(n)
    BY <1>4, <2>1, <2>2 DEF Taken, Others
  <2>6. QED
    BY <1>4, <1>5, <2>3, <2>4, <2>5, Handed
<1>8. QED
  BY <1>6, <1>7

\* The application takes a message, unless it knows the identifier.
LEMMA DownTaken ==
    ASSUME Typed, DownFlow, NEW d \in Down, NEW id, downId[d] = id,
           IF Qos[d] = 0 THEN progress[d] = "done" /\ taken[d] = 0 ELSE progress[d] = "sent",
           Take(d, id), UNCHANGED <<state, progress, passed>>
    PROVE  [QosDelivery!Next]_QosDelivery!vars
<1>1. taken' = IF Qos[d] = 2 /\ id \in known THEN taken ELSE [taken EXCEPT ![d] = @ + 1]
  BY DEF Take
<1>2. d \notin Up /\ Qos[d] \in {0, 1, 2} /\ taken \in [Down -> Nat]
  BY Constants DEF Typed, TypeOK
<1>3. Stage(d) = "open"
  BY <1>2 DEF Stage
<1>4. CASE Qos[d] = 2 /\ id \in known
  <2>1. UNCHANGED <<passed, taken>> /\ \A n \in Up \cup Down : Stage(n)' = Stage(n)
    BY <1>1, <1>4 DEF Stage
  <2>2. QED
    BY <2>1, Unmoved
<1>5. CASE ~(Qos[d] = 2 /\ id \in known)
  <2>1. taken' = [taken EXCEPT ![d] = @ + 1]
    BY <1>1, <1>5
  <2>2. Qos[d] = 1 \/ Taken(d) = 0
    <3>1. CASE Qos[d] = 2
      <4>1. ~(taken[d] > 0)
        BY <1>5, <3>1 DEF DownFlow, DownMessages, DownMessage
      <4>2. QED
        BY <1>2, <4>1 DEF Taken
    <3>2. QED
      BY <1>2, <3>1 DEF Taken
  <2>3. Taken(d)' = Taken(d) + 1
    BY <1>2, <2>1 DEF Taken
  <2>4. \A n \in Others(d) : Taken(n)' = Taken(n)
    BY <1>2, <2>1 DEF Taken, Others
  <2>5. QED
    BY <1>3, <2>2, <2>3, <2>4, Handed
<1>6. QED
  BY <1>4, <1>5

LEMMA DeliveryStep ==
    ASSUME Typed, Flows, [Next]_vars
    PROVE  [QosDelivery!Next]_QosDelivery!vars
<1>1. CASE UNCHANGED <<state, progress, passed, taken>>
  <2>1. \A n \in Up \cup Down : Stage(n)' = Stage(n)
    BY <1>1 DEF Stage
  <2>2. QED
    BY <1>1, <2>1, Unmoved
<1>2. ASSUME NEW m \in Up, Publish(m) \/ PublishAgain(m) PROVE [QosDelivery!Next]_QosDelivery!vars
  <2>1. PICK id \in UpId, duplicate \in BOOLEAN : mqtt_client_publish(m, id, duplicate)
    BY <1>2, PublishCalled DEF Flows
  <2>2. /\ state' = [state EXCEPT ![m] = "sent"] \/ state' = [state EXCEPT ![m] = "unsure"]
        /\ UNCHANGED <<progress, passed, taken>>
    BY <2>1 DEF mqtt_client_publish, receiving, broker
  <2>3. state[m] = "new" \/ state[m] \in {"again", "unsure"}
    BY <1>2 DEF Publish, PublishAgain
  <2>4. /\ state'[m] \in {"sent", "unsure"} /\ \A n \in Up : n # m => state'[n] = state[n]
    BY <2>2 DEF Typed, TypeOK
  <2>5. Stage(m)' = "open" /\ \A n \in Others(m) : Stage(n)' = Stage(n)
    BY <2>2, <2>4 DEF Stage, Others
  <2>6. CASE state[m] = "new"
    <3>1. Stage(m) = "new"
      BY <2>6 DEF Stage
    <3>2. QED
      BY <2>2, <2>5, <3>1, Offered
  <2>7. CASE state[m] \in {"again", "unsure"}
    <3>1. Stage(m) = "open"
      BY <2>7 DEF Stage
    <3>2. QED
      BY <2>2, <2>5, <3>1, Unmoved DEF Others
  <2>8. QED
    BY <2>3, <2>6, <2>7
<1>3. ASSUME NEW d \in Down, BrokerDeliver(d) PROVE [QosDelivery!Next]_QosDelivery!vars
  <2>1. /\ progress[d] = "new" /\ progress' = [progress EXCEPT ![d] = IF Qos[d] = 0 THEN "done" ELSE "sent"]
        /\ UNCHANGED <<state, passed, taken>>
    BY <1>3 DEF BrokerDeliver, application, publishing, receiving
  <2>2. d \notin Up /\ Qos[d] \in {0, 1, 2} /\ progress \in [Down -> {"absent", "new", "sent", "received", "done"}]
    BY Constants DEF Typed, TypeOK
  <2>3. /\ progress'[d] = (IF Qos[d] = 0 THEN "done" ELSE "sent")
        /\ \A n \in Down : n # d => progress'[n] = progress[n]
    BY <2>1, <2>2
  <2>4. Stage(d) = "new" /\ Stage(d)' = "open"
    BY <2>1, <2>2, <2>3 DEF Stage
  <2>5. \A n \in Others(d) : Stage(n)' = Stage(n)
    BY <2>1, <2>3 DEF Stage, Others
  <2>6. QED
    BY <2>1, <2>4, <2>5, Offered
<1>4. CASE Reconnect
  <2>1. /\ state' = [m \in Up |-> IF state[m] \in {"sent", "unsure"} THEN "again" ELSE state[m]]
        /\ UNCHANGED <<progress, passed, taken>>
    BY <1>4 DEF Reconnect, broker
  <2>2. \A n \in Up \cup Down : Stage(n)' = Stage(n)
    BY <2>1 DEF Stage
  <2>3. QED
    BY <2>1, <2>2, Unmoved
<1>5. CASE PublishReturn
  <2> DEFINE d == handling.content
             id == handling.id
  <2>1. /\ handling \in InHand(FromSender) /\ handling.type = PUBLISH_TYPE
    BY <1>5, HandlingInHand DEF PublishReturn, Typed
  <2>2. DownIn(handling)
    BY <2>1 DEF Flows, DownFlow, DownPackets
  <2>3. /\ d \in Down /\ downId[d] = id
        /\ IF Qos[d] = 0 THEN progress[d] = "done" /\ taken[d] = 0 ELSE progress[d] = "sent"
    BY <2>1, <2>2 DEF DownIn
  <2>4. /\ Take(d, id) \/ UNCHANGED taken
        /\ UNCHANGED <<state, progress, passed>>
    BY <1>5 DEF PublishReturn, publishing, broker
  <2> HIDE DEF d, id
  <2>5. QED
    BY <1>1, <2>3, <2>4, DownTaken DEF Flows
<1>6. ASSUME NEW o \in owed, mqtt_client_send_message_response(o)
      PROVE  [QosDelivery!Next]_QosDelivery!vars
  <2>1. Owing(o)
    BY DEF Flows, DownFlow, DownPackets
  <2>2. /\ o.msg \in Down /\ downId[o.msg] = o.id /\ progress[o.msg] = "sent"
        /\ Qos[o.msg] # 0
    BY <2>1, IdOfDelivering DEF Owing, Flows, DownFlow, Delivering
  <2>3. Take(o.msg, o.id) /\ UNCHANGED <<state, progress, passed>>
    BY <1>6 DEF mqtt_client_send_message_response, publishing, broker
  <2>4. QED
    BY <2>2, <2>3, DownTaken DEF Flows
<1>7. CASE RecvPublishReply
  BY <1>7, UpSettled DEF Flows
<1>8. CASE BrokerPublish
  BY <1>8, UpPassed DEF Flows
<1>9. CASE BrokerAcknowledged
  BY <1>9, DownSettled DEF Flows
<1>10. CASE BrokerRelease \/ BrokerServe
  BY <1>1, <1>10 DEF BrokerRelease, BrokerServe, Received, application, publishing, receiving
<1>11. CASE BytesReceived \/ RecvShort \/ RecvPublish \/ EventReturn \/ RecvSubscribeAck \/ RecvUnsubscribeAck
  BY <1>1, <1>11 DEF BytesReceived, RecvShort, RecvPublish, EventReturn, RecvSubscribeAck,
                     RecvUnsubscribeAck, Incoming, application, publishing, receiving, broker
<1>12. ASSUME NEW r \in Request, AskFor(r) PROVE [QosDelivery!Next]_QosDelivery!vars
  BY <1>1, <1>12 DEF AskFor, publishing, receiving, broker
<1>13. CASE Lost \/ Shortened \/ UNCHANGED vars
  BY <1>1, <1>13 DEF Lost, Shortened, vars, application, publishing, receiving, broker
<1>14. QED
  BY <1>2, <1>3, <1>4, <1>5, <1>6, <1>7, <1>8, <1>9, <1>10, <1>11, <1>12, <1>13
     DEF Next, Calls, Handlers, Broker

(* mqtt_client_publish and fnMessageRecv deliver what the QoS of a message   *)
(* promises: each step of the client, its application and the broker is a    *)
(* step of Delivery, or changes nothing in it.                               *)
THEOREM ImplementsDelivery ==
    ASSUME Careful
    PROVE  Spec => DeliverySpec
<1>1. Init => QosDelivery!Init
  BY InitDelivery
<1>2. Typed /\ Flows /\ [Next]_vars => [QosDelivery!Next]_QosDelivery!vars
  BY DeliveryStep
<1>3. QED
  BY <1>1, <1>2, OnePacketAtATime, PTL DEF Spec, DeliverySpec, QosDelivery!Spec
=============================================================================
