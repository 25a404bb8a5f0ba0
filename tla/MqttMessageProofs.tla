-------------------------- MODULE MqttMessageProofs --------------------------
(* Theorems about MqttMessage, for any memory, any contents, any number of   *)
(* messages and any allocation that fails.                                   *)
EXTENDS MqttMessage, TLAPS

Cell == Topic \cup Payload \cup Object \cup {Free}
Heap == [Address -> Cell]

\* What makes a message of the application: its object, its copy of the topic and, unless
\* that is empty, of the payload, in three blocks.
Reads(object, content) ==
    /\ object.packetId = content.packetId /\ object.qosInfo = content.qosInfo
    /\ object.isDuplicateMsg = content.isDuplicateMsg
    /\ object.isMessageRetained = content.isMessageRetained

IsMessage(memory, h, content) ==
    LET object == memory[h] IN
    /\ h \in Address /\ object \in Object /\ Reads(object, content)
    /\ object.const_topic_name = NULL /\ object.const_payload = NULL
    /\ object.topicName \in Address \ {h} /\ memory[object.topicName] = content.topic
    /\ IF content.payload = Empty THEN object.appPayload = NULL
       ELSE /\ object.appPayload \in Address \ {h, object.topicName}
            /\ memory[object.appPayload] = content.payload

Blocks(memory, h) == {h, memory[h].topicName, memory[h].appPayload} \ {NULL}

\* The message that ProcessPublishMessage makes in place, of blocks that are not its own.
IsLent(memory, it, content) ==
    LET object == memory[it.handle] IN
    /\ it.handle \in Address /\ it.topicName \in Address /\ it.buffer \in Address
    /\ it.handle # it.topicName /\ it.handle # it.buffer /\ it.topicName # it.buffer
    /\ object \in Object /\ Reads(object, content)
    /\ object.topicName = NULL /\ object.appPayload = NULL
    /\ object.const_topic_name = it.topicName
    /\ object.const_payload = IF content.payload = Empty THEN NULL ELSE it.buffer
    /\ memory[it.topicName] = content.topic /\ memory[it.buffer] = content.payload

LentBlocks(it) == {it.handle, it.topicName, it.buffer} \ {NULL}
Used(memory) == {a \in Address : memory[a] # Free}

(***************************************************************************)
(* The invariant: each message is whole, in blocks of its own, and there   *)
(* are no others.                                                          *)
(***************************************************************************)
Whole ==
    /\ heap \in Heap /\ given \in [Address -> Content \cup {Free}]
    /\ \A h \in messages : given[h] \in Content /\ IsMessage(heap, h, given[h])
    /\ lent # NotLent =>
        /\ lent \in [handle : Pointer, topicName : Pointer, buffer : Pointer]
        /\ given[lent.handle] \in Content /\ IsLent(heap, lent, given[lent.handle])
Apart ==
    /\ \A g, h \in messages : g # h => Blocks(heap, g) \cap Blocks(heap, h) = {}
    /\ \A h \in messages : Blocks(heap, h) \cap LentBlocks(lent) = {}
NoneLost ==
    \A a \in Used(heap) : a \in LentBlocks(lent) \/ \E h \in messages : a \in Blocks(heap, h)

Sound == Whole /\ Apart /\ NoneLost

LEMMA Constants ==
    /\ Address \subseteq Nat /\ NULL \notin Address /\ Empty \in Payload /\ Empty \notin Topic
    /\ Free \notin Topic \cup Payload \cup Object
    /\ Made \subseteq Content
BY MessageAssumption DEF NULL

-----------------------------------------------------------------------------
(* The operations on memory.                                               *)

LEMMA Allocated ==
    ASSUME NEW memory \in Heap, NEW what \in Cell, NEW outcome \in malloc(memory, what)
    PROVE  /\ outcome.result = NULL => outcome.memory = memory
           /\ outcome.result # NULL =>
                /\ outcome.result \in Address /\ memory[outcome.result] = Free
                /\ outcome.memory \in Heap /\ outcome.memory[outcome.result] = what
                /\ \A a \in Address \ {outcome.result} : outcome.memory[a] = memory[a]
<1>1. CASE outcome.result = NULL
  BY <1>1, Constants DEF malloc, Outcome, Unused
<1>2. CASE outcome.result # NULL
  <2>1. PICK b \in Address : memory[b] = Free /\ outcome = Outcome(b, [memory EXCEPT ![b] = what])
    BY <1>2 DEF malloc, Unused, Outcome
  <2>2. outcome.result = b /\ outcome.memory = [memory EXCEPT ![b] = what]
    BY <2>1 DEF Outcome
  <2>3. QED
    BY <2>1, <2>2, <1>2 DEF Heap
<1>3. QED
  BY <1>1, <1>2

\* A message made of free blocks, everything else as it was.
NewMessage(before, after, h, content) ==
    /\ after \in Heap /\ IsMessage(after, h, content)
    /\ Blocks(after, h) \cap Used(before) = {}
    /\ \A a \in Address \ Blocks(after, h) : after[a] = before[a]

NotFlagged(packetId, qosValue, topicName, appMsg) ==
    [packetId |-> packetId, qosInfo |-> qosValue, topic |-> topicName, payload |-> appMsg,
     isDuplicateMsg |-> FALSE, isMessageRetained |-> FALSE]

NewObject(packetId, qosValue) ==
    [packetId |-> packetId, qosInfo |-> qosValue, topicName |-> NULL,
     appPayload |-> NULL, const_topic_name |-> NULL, const_payload |-> NULL,
     isDuplicateMsg |-> FALSE, isMessageRetained |-> FALSE]

TopicObject(packetId, qosValue, t) == [NewObject(packetId, qosValue) EXCEPT !.topicName = t]

LEMMA ObjectMade ==
    ASSUME NEW packetId \in Nat, NEW qosValue \in 0 .. 2
    PROVE  /\ NewObject(packetId, qosValue) \in Object
           /\ \A t \in Address : /\ TopicObject(packetId, qosValue, t) \in Object
                                 /\ TopicObject(packetId, qosValue, t).topicName = t
BY DEF NewObject, TopicObject, Object, Pointer

\* With the payload, the message is whole.
LEMMA PayloadCopied ==
    ASSUME NEW memory \in Heap, NEW before \in Heap, NEW h \in Address, NEW t \in Address, h # t,
           NEW packetId \in Nat, NEW qosValue \in 0 .. 2, NEW topicName \in Topic,
           NEW appMsg \in Payload \ {Empty},
           before[h] = Free, before[t] = Free,
           memory[h] = TopicObject(packetId, qosValue, t), memory[t] = topicName,
           \A a \in Address \ {h, t} : memory[a] = before[a],
           NEW outcome \in CopyPayload(h, memory, appMsg)
    PROVE  \/ outcome.result = NULL /\ outcome.memory = before
           \/ /\ outcome.result = h
              /\ NewMessage(before, outcome.memory, h, NotFlagged(packetId, qosValue, topicName, appMsg))
<1> DEFINE object == TopicObject(packetId, qosValue, t)
<1>1. /\ memory[h] = object /\ memory[t] = topicName
      /\ \A a \in Address \ {h, t} : memory[a] = before[a]
      /\ object.topicName = t /\ object \in Object
  BY ObjectMade DEF Heap
<1>2. PICK copied \in malloc(memory, appMsg) :
        outcome = IF copied.result = NULL THEN Outcome(NULL, free(memory, {memory[h].topicName, h}))
                  ELSE Outcome(h, [copied.memory EXCEPT ![h].appPayload = copied.result])
  BY DEF CopyPayload
<1>3. copied \in malloc(memory, appMsg)
  BY <1>2
<1>4. CASE copied.result = NULL
  <2>1. free(memory, {t, h}) = before
    <3>1. \A a \in Address : IF a \in {t, h} THEN before[a] = Free ELSE memory[a] = before[a]
      BY <1>1
    <3>2. QED
      BY <3>1 DEF free, Heap
  <2>2. QED
    BY <1>1, <1>2, <1>4, <2>1 DEF Outcome
<1>5. CASE copied.result # NULL
  <2> DEFINE p == copied.result
             after == [copied.memory EXCEPT ![h].appPayload = p]
  <2>1. /\ p \in Address /\ memory[p] = Free /\ copied.memory \in Heap /\ copied.memory[p] = appMsg
        /\ \A a \in Address \ {p} : copied.memory[a] = memory[a]
    <3>1. copied.result # NULL /\ appMsg \in Cell
      BY <1>5 DEF Cell
    <3>2. QED
      BY <1>3, <3>1, Allocated
  <2>2. p # h /\ p # t /\ before[p] = Free
    <3>1. object # Free /\ topicName # Free
      BY <1>1, Constants
    <3>2. p # h /\ p # t
      BY <1>1, <2>1, <3>1
    <3>3. QED
      BY <1>1, <2>1, <3>2
  <2> HIDE DEF p, object
  <2>3. copied.memory \in Heap /\ copied.memory[h] = object
    BY <1>1, <2>1, <2>2 DEF Heap, Cell
  <2>4. after = [copied.memory EXCEPT ![h] = [object EXCEPT !.appPayload = p]]
    BY <2>3 DEF Heap
  <2> DEFINE whole == [object EXCEPT !.appPayload = p]
  <2>5. /\ whole \in Object /\ whole.topicName = t /\ whole.appPayload = p
        /\ whole.const_topic_name = NULL /\ whole.const_payload = NULL
        /\ Reads(whole, NotFlagged(packetId, qosValue, topicName, appMsg))
    BY <1>1, <2>1 DEF object, TopicObject, NewObject, Object, Pointer, Reads, NotFlagged
  <2> HIDE DEF whole
  <2>6. /\ after \in Heap /\ after[h] = whole /\ after[t] = topicName /\ after[p] = appMsg
        /\ \A a \in Address \ {h, t, p} : after[a] = before[a]
    BY <1>1, <2>1, <2>2, <2>3, <2>4, <2>5 DEF whole, Heap, Cell
  <2> HIDE DEF after
  <2>7. IsMessage(after, h, NotFlagged(packetId, qosValue, topicName, appMsg))
    BY <2>1, <2>2, <2>5, <2>6 DEF IsMessage, NotFlagged
  <2>8. Blocks(after, h) = {h, t, p}
    BY <2>1, <2>5, <2>6, Constants DEF Blocks
  <2>9. NewMessage(before, after, h, NotFlagged(packetId, qosValue, topicName, appMsg))
    BY <2>2, <2>6, <2>7, <2>8 DEF NewMessage, Used
  <2>10. outcome.result = h /\ outcome.memory = after
    BY <1>2, <1>5 DEF Outcome, after, p
  <2>11. QED
    BY <2>9, <2>10
<1>6. QED
  BY <1>4, <1>5

LEMMA TopicCopied ==
    ASSUME NEW memory \in Heap, NEW before \in Heap, NEW h \in Address,
           NEW packetId \in Nat, NEW qosValue \in 0 .. 2, NEW topicName \in Topic, NEW appMsg \in Payload,
           before[h] = Free, memory[h] = NewObject(packetId, qosValue),
           \A a \in Address \ {h} : memory[a] = before[a],
           NEW outcome \in CopyTopic(h, memory, topicName, appMsg)
    PROVE  \/ outcome.result = NULL /\ outcome.memory = before
           \/ /\ outcome.result = h
              /\ NewMessage(before, outcome.memory, h, NotFlagged(packetId, qosValue, topicName, appMsg))
<1> DEFINE Extended(copied) == [copied.memory EXCEPT ![h].topicName = copied.result]
<1>1. PICK copied \in malloc(memory, topicName) :
        outcome \in IF copied.result = NULL THEN {Outcome(NULL, free(memory, {h}))}
                    ELSE IF appMsg = Empty THEN {Outcome(h, Extended(copied))}
                    ELSE CopyPayload(h, Extended(copied), appMsg)
  BY DEF CopyTopic
<1>2. copied \in malloc(memory, topicName)
  BY <1>1
<1> DEFINE t == copied.result
           after == Extended(copied)
<1>3. CASE t = NULL
  <2>1. outcome = Outcome(NULL, free(memory, {h}))
    BY <1>1, <1>3
  <2>2. free(memory, {h}) = before
    BY DEF free, Heap
  <2>3. QED
    BY <2>1, <2>2 DEF Outcome
<1>4. CASE t # NULL
  <2>1. /\ t \in Address /\ memory[t] = Free /\ copied.memory \in Heap /\ copied.memory[t] = topicName
        /\ \A a \in Address \ {t} : copied.memory[a] = memory[a]
    <3>1. copied.result # NULL /\ topicName \in Cell
      BY <1>4 DEF Cell
    <3>2. QED
      BY <1>2, <3>1, Allocated
  <2>2. t # h /\ before[t] = Free
    <3>1. memory[h] # Free
      BY ObjectMade, Constants
    <3>2. QED
      BY <2>1, <3>1
  <2>3. /\ copied.memory[h] = NewObject(packetId, qosValue)
        /\ after = [copied.memory EXCEPT ![h] = [copied.memory[h] EXCEPT !.topicName = t]]
    BY <2>1, <2>2
  <2>4. after = [copied.memory EXCEPT ![h] = TopicObject(packetId, qosValue, t)]
    BY <2>3 DEF TopicObject
  <2>5. outcome \in IF appMsg = Empty THEN {Outcome(h, after)} ELSE CopyPayload(h, after, appMsg)
    BY <1>1, <1>4
  <2> HIDE DEF t, after
  <2>6. TopicObject(packetId, qosValue, t) \in Object
    BY <2>1, ObjectMade
  <2>7. /\ after \in Heap /\ after[h] = TopicObject(packetId, qosValue, t) /\ after[t] = topicName
        /\ \A a \in Address \ {h, t} : after[a] = before[a]
    BY <2>1, <2>2, <2>4, <2>6 DEF Heap, Cell
  <2>8. CASE appMsg = Empty
    <3>1. /\ after[h].topicName = t /\ after[h].appPayload = NULL
          /\ after[h].const_topic_name = NULL /\ after[h].const_payload = NULL
          /\ Reads(after[h], NotFlagged(packetId, qosValue, topicName, appMsg))
      BY <2>7 DEF TopicObject, NewObject, Reads, NotFlagged
    <3>2. IsMessage(after, h, NotFlagged(packetId, qosValue, topicName, appMsg))
      BY <2>1, <2>2, <2>6, <2>7, <2>8, <3>1 DEF IsMessage, NotFlagged
    <3>3. Blocks(after, h) = {h, t}
      BY <2>1, <3>1, Constants DEF Blocks
    <3>4. NewMessage(before, after, h, NotFlagged(packetId, qosValue, topicName, appMsg))
      BY <2>2, <2>7, <3>2, <3>3 DEF NewMessage, Used
    <3>5. outcome.result = h /\ outcome.memory = after
      BY <2>5, <2>8 DEF Outcome
    <3>6. QED
      BY <3>4, <3>5
  <2>9. CASE appMsg # Empty
    BY <2>1, <2>2, <2>5, <2>7, <2>9, PayloadCopied
  <2>10. QED
    BY <2>8, <2>9
<1>5. QED
  BY <1>3, <1>4

\* What a call leaves that makes a message, or fails.
Result(before, outcome, content) ==
    \/ outcome.result = NULL /\ outcome.memory = before
    \/ NewMessage(before, outcome.memory, outcome.result, content)

LEMMA MessageCreated ==
    ASSUME NEW memory \in Heap, NEW packetId \in Nat, NEW qosValue \in 0 .. 2,
           NEW topicName \in Topic \cup {Empty}, NEW appMsg \in Payload,
           NEW outcome \in mqttmessage_create(memory, packetId, topicName, qosValue, appMsg)
    PROVE  Result(memory, outcome, NotFlagged(packetId, qosValue, topicName, appMsg))
<1>1. CASE topicName = Empty
  BY <1>1 DEF mqttmessage_create, Outcome, Result
<1>2. CASE topicName # Empty
  <2>1. PICK made \in create_msg_object(memory, packetId, qosValue) :
            outcome \in IF made.result = NULL THEN {made}
                        ELSE CopyTopic(made.result, made.memory, topicName, appMsg)
    BY <1>2 DEF mqttmessage_create
  <2>2. made \in malloc(memory, NewObject(packetId, qosValue))
    BY <2>1 DEF create_msg_object, NewObject
  <2>3. NewObject(packetId, qosValue) \in Cell
    BY ObjectMade DEF Cell
  <2>4. CASE made.result = NULL
    <3>1. made.memory = memory
      BY <2>2, <2>3, <2>4, Allocated
    <3>2. QED
      BY <2>1, <2>4, <3>1 DEF Result
  <2>5. CASE made.result # NULL
    <3>1. /\ made.result \in Address /\ memory[made.result] = Free
          /\ made.memory \in Heap /\ made.memory[made.result] = NewObject(packetId, qosValue)
          /\ \A a \in Address \ {made.result} : made.memory[a] = memory[a]
      BY <2>2, <2>3, <2>5, Allocated
    <3>2. outcome \in CopyTopic(made.result, made.memory, topicName, appMsg)
      BY <2>1, <2>5
    <3>3. QED
      BY <1>2, <3>1, <3>2, TopicCopied DEF Result
  <2>6. QED
    BY <2>4, <2>5
<1>3. QED
  BY <1>1, <1>2

Flagged(content, message) ==
    [content EXCEPT !.isDuplicateMsg = message.isDuplicateMsg,
                    !.isMessageRetained = message.isMessageRetained]

Alike(content, other) ==
    /\ content.packetId = other.packetId /\ content.qosInfo = other.qosInfo
    /\ content.topic = other.topic /\ content.payload = other.payload
    /\ content.isDuplicateMsg = other.isDuplicateMsg
    /\ content.isMessageRetained = other.isMessageRetained

LEMMA AlikeResult ==
    ASSUME NEW before, NEW outcome, NEW content, NEW other, Alike(content, other),
           Result(before, outcome, content)
    PROVE  Result(before, outcome, other)
BY DEF Alike, Result, NewMessage, IsMessage, Reads

LEMMA FlagsSet ==
    ASSUME NEW before \in Heap, NEW made, NEW content \in Content, Result(before, made, content),
           NEW message, message.isDuplicateMsg \in BOOLEAN, message.isMessageRetained \in BOOLEAN
    PROVE  Result(before, WithFlags(made, message), Flagged(content, message))
<1>1. CASE made.result = NULL
  <2>1. ~IsMessage(made.memory, made.result, content)
    BY <1>1, Constants DEF IsMessage
  <2>2. made.memory = before
    BY <2>1 DEF Result, NewMessage
  <2>3. QED
    BY <1>1, <2>2 DEF Result, WithFlags
<1>2. CASE made.result # NULL
  <2> DEFINE h == made.result
             object == [made.memory[h] EXCEPT !.isDuplicateMsg = message.isDuplicateMsg,
                                              !.isMessageRetained = message.isMessageRetained]
             after == WithFlags(made, message).memory
  <2>1. NewMessage(before, made.memory, h, content)
    BY <1>2 DEF Result
  <2>2. made.memory \in Heap /\ h \in Address /\ made.memory[h] \in Object /\ Reads(made.memory[h], content)
    BY <2>1 DEF NewMessage, IsMessage
  <2>3. /\ object \in Object /\ Reads(object, Flagged(content, message))
        /\ object.topicName = made.memory[h].topicName /\ object.appPayload = made.memory[h].appPayload
        /\ object.const_topic_name = made.memory[h].const_topic_name
        /\ object.const_payload = made.memory[h].const_payload
    BY <2>2 DEF Object, Reads, Flagged, Content
  <2>4. /\ WithFlags(made, message).result = h
        /\ after = [made.memory EXCEPT ![h] = object]
    BY <1>2, <2>2 DEF WithFlags, Outcome, Heap
  <2> HIDE DEF after, object, h
  <2>5. /\ after \in Heap /\ after[h] = object
        /\ \A a \in Address \ {h} : after[a] = made.memory[a]
    BY <2>2, <2>3, <2>4 DEF Heap, Cell
  <2>6. /\ Flagged(content, message).topic = content.topic
        /\ Flagged(content, message).payload = content.payload
    BY DEF Flagged, Content
  <2>7. IsMessage(after, h, Flagged(content, message))
    BY <2>1, <2>3, <2>5, <2>6 DEF NewMessage, IsMessage
  <2>8. Blocks(after, h) = Blocks(made.memory, h) /\ h \in Blocks(after, h)
    BY <2>2, <2>3, <2>5, Constants DEF Blocks
  <2>9. NewMessage(before, after, h, Flagged(content, message))
    BY <2>1, <2>5, <2>7, <2>8 DEF NewMessage
  <2>10. QED
    BY <2>4, <2>9 DEF Result, after
<1>3. QED
  BY <1>1, <1>2

-----------------------------------------------------------------------------
(* Memory elsewhere does not matter to a message.                          *)

LEMMA BlocksOf ==
    ASSUME NEW memory, NEW h, NEW content, IsMessage(memory, h, content)
    PROVE  /\ h \in Blocks(memory, h) /\ Blocks(memory, h) \subseteq Address
           /\ Blocks(memory, h) = IF content.payload = Empty THEN {h, memory[h].topicName}
                                  ELSE {h, memory[h].topicName, memory[h].appPayload}
BY Constants DEF IsMessage, Blocks

LEMMA BlocksUsed ==
    ASSUME NEW memory, NEW h, NEW content \in Content, IsMessage(memory, h, content)
    PROVE  Blocks(memory, h) \subseteq Used(memory)
<1>1. memory[h] # Free /\ content.topic # Free /\ content.payload # Free
  BY Constants DEF IsMessage, Content
<1>2. QED
  BY <1>1, BlocksOf DEF IsMessage, Used

LEMMA Untouched ==
    ASSUME NEW memory, NEW after, NEW h, NEW content, IsMessage(memory, h, content),
           \A a \in Blocks(memory, h) : after[a] = memory[a]
    PROVE  IsMessage(after, h, content) /\ Blocks(after, h) = Blocks(memory, h)
<1>1. after[h] = memory[h] /\ after[memory[h].topicName] = memory[memory[h].topicName]
  BY BlocksOf
<1>2. content.payload # Empty => after[memory[h].appPayload] = memory[memory[h].appPayload]
  BY BlocksOf
<1>3. QED
  BY <1>1, <1>2 DEF IsMessage, Blocks

LEMMA LentUntouched ==
    ASSUME NEW memory, NEW after, NEW it, NEW content, IsLent(memory, it, content),
           \A a \in LentBlocks(it) : after[a] = memory[a]
    PROVE  IsLent(after, it, content)
<1>1. {it.handle, it.topicName, it.buffer} \subseteq LentBlocks(it)
  BY Constants DEF IsLent, LentBlocks
<1>2. QED
  BY <1>1 DEF IsLent

LEMMA LentUsed ==
    ASSUME NEW memory, NEW it, NEW content \in Content, IsLent(memory, it, content)
    PROVE  LentBlocks(it) \subseteq Used(memory) /\ LentBlocks(it) = {it.handle, it.topicName, it.buffer}
<1>1. memory[it.handle] # Free /\ content.topic # Free /\ content.payload # Free
  BY Constants DEF IsLent, Content
<1>2. QED
  BY <1>1, Constants DEF IsLent, LentBlocks, Used

LEMMA NotLentBlocks == LentBlocks(NotLent) = {}
BY DEF LentBlocks, NotLent

-----------------------------------------------------------------------------
(* The steps.                                                              *)

LEMMA Owners ==
    ASSUME Sound
    PROVE  /\ \A h \in messages : /\ h \in Address /\ given[h] \in Content
                                  /\ IsMessage(heap, h, given[h])
                                  /\ h \in Blocks(heap, h) /\ Blocks(heap, h) \subseteq Used(heap)
           /\ LentBlocks(lent) \subseteq Used(heap)
           /\ lent # NotLent => /\ lent.handle \in Address /\ given[lent.handle] \in Content
                                /\ IsLent(heap, lent, given[lent.handle])
                                /\ lent.handle \in LentBlocks(lent)
<1>1. ASSUME NEW h \in messages
      PROVE  /\ h \in Address /\ given[h] \in Content /\ IsMessage(heap, h, given[h])
             /\ h \in Blocks(heap, h) /\ Blocks(heap, h) \subseteq Used(heap)
  <2>1. given[h] \in Content /\ IsMessage(heap, h, given[h])
    BY DEF Sound, Whole
  <2>2. h \in Address
    BY <2>1 DEF IsMessage
  <2>3. QED
    BY <2>1, <2>2, BlocksOf, BlocksUsed
<1>2. CASE lent = NotLent
  BY <1>1, <1>2, NotLentBlocks
<1>3. CASE lent # NotLent
  <2>1. given[lent.handle] \in Content /\ IsLent(heap, lent, given[lent.handle])
    BY <1>3 DEF Sound, Whole
  <2>2. lent.handle \in Address
    BY <2>1 DEF IsLent
  <2>3. QED
    BY <1>1, <2>1, <2>2, LentUsed
<1>4. QED
  BY <1>2, <1>3

LEMMA SoundInit == Init => Sound
<1> SUFFICES ASSUME Init PROVE Sound
  OBVIOUS
<1>1. /\ heap = [a \in Address |-> Free] /\ given = [a \in Address |-> Free]
      /\ messages = {} /\ lent = NotLent
  BY DEF Init
<1>2. Whole
  BY <1>1 DEF Whole, Heap, Cell
<1>3. Apart
  BY <1>1 DEF Apart
<1>4. NoneLost
  BY <1>1, NotLentBlocks DEF NoneLost, Used
<1>5. QED
  BY <1>2, <1>3, <1>4 DEF Sound

\* A new message, in blocks that were free.
LEMMA SoundObtained ==
    ASSUME Sound, NEW outcome, NEW content \in Content, Result(heap, outcome, content),
           Obtained(outcome, content)
    PROVE  Sound'
<1>1. CASE outcome.result = NULL
  <2>1. ~IsMessage(outcome.memory, outcome.result, content)
    BY <1>1, Constants DEF IsMessage
  <2>2. UNCHANGED vars
    BY <1>1, <2>1 DEF Result, NewMessage, Obtained, vars
  <2>3. QED
    BY <2>2 DEF vars, Sound, Whole, Apart, NoneLost
<1>2. CASE outcome.result # NULL
  <2> DEFINE r == outcome.result
  <2>1. /\ heap' \in Heap /\ IsMessage(heap', r, content)
        /\ Blocks(heap', r) \cap Used(heap) = {}
        /\ \A a \in Address \ Blocks(heap', r) : heap'[a] = heap[a]
    BY <1>2 DEF Result, NewMessage, Obtained
  <2>2. /\ messages' = messages \cup {r} /\ given' = [given EXCEPT ![r] = content]
        /\ UNCHANGED lent
    BY <1>2 DEF Obtained
  <2>3. r \in Address /\ r \in Blocks(heap', r) /\ Blocks(heap', r) \subseteq Used(heap')
    BY <2>1, BlocksOf, BlocksUsed DEF IsMessage
  <2> HIDE DEF r
  <2>4. ASSUME NEW h \in messages
        PROVE  /\ IsMessage(heap', h, given[h]) /\ Blocks(heap', h) = Blocks(heap, h)
               /\ Blocks(heap, h) \cap Blocks(heap', r) = {} /\ h # r /\ h \in Address
    <3>1. Blocks(heap, h) \subseteq Used(heap) /\ IsMessage(heap, h, given[h]) /\ h \in Blocks(heap, h)
      BY Owners
    <3>2. \A a \in Blocks(heap, h) : heap'[a] = heap[a]
      BY <2>1, <3>1 DEF Used
    <3>3. IsMessage(heap', h, given[h]) /\ Blocks(heap', h) = Blocks(heap, h)
      BY <3>1, <3>2, Untouched
    <3>4. QED
      BY <2>1, <2>3, <3>1, <3>3 DEF Used
  <2>5. LentBlocks(lent) \cap Blocks(heap', r) = {} /\ \A a \in LentBlocks(lent) : heap'[a] = heap[a]
    BY <2>1, Owners DEF Used
  <2>6. given \in [Address -> Content \cup {Free}]
    BY DEF Sound, Whole
  <2>7. Whole'
    <3>1. heap' \in Heap /\ given' \in [Address -> Content \cup {Free}]
      BY <2>1, <2>2, <2>3, <2>6
    <3>2. ASSUME NEW h \in messages'
          PROVE  given'[h] \in Content /\ IsMessage(heap', h, given'[h])
      <4>1. CASE h = r
        <5>1. given'[r] = content
          BY <2>2, <2>3, <2>6
        <5>2. QED
          BY <2>1, <4>1, <5>1
      <4>2. CASE h # r
        <5>1. h \in messages /\ given'[h] = given[h]
          BY <2>2, <2>3, <2>4, <2>6, <4>2
        <5>2. QED
          BY <2>4, <5>1, Owners
      <4>3. QED
        BY <4>1, <4>2
    <3>3. ASSUME lent' # NotLent
          PROVE  /\ lent' \in [handle : Pointer, topicName : Pointer, buffer : Pointer]
                 /\ given'[lent'.handle] \in Content /\ IsLent(heap', lent', given'[lent'.handle])
      <4>1. lent # NotLent /\ lent' = lent
        BY <2>2, <3>3
      <4>2. IsLent(heap', lent, given[lent.handle]) /\ given[lent.handle] \in Content
        BY <2>5, <4>1, Owners, LentUntouched
      <4>3. given'[lent.handle] = given[lent.handle]
        <5>1. lent.handle \in LentBlocks(lent) /\ lent.handle \in Address
          BY <4>1, Owners
        <5>2. lent.handle # r
          BY <2>3, <2>5, <5>1
        <5>3. QED
          BY <2>2, <2>6, <5>1, <5>2
      <4>4. QED
        BY <4>1, <4>2, <4>3 DEF Sound, Whole
    <3>4. QED
      BY <3>1, <3>2, <3>3 DEF Whole
  <2>8. Apart'
    <3>1. \A g, h \in messages : g # h => Blocks(heap', g) \cap Blocks(heap', h) = {}
      BY <2>4 DEF Sound, Apart
    <3>2. \A h \in messages : Blocks(heap', h) \cap Blocks(heap', r) = {}
      BY <2>4
    <3>3. \A h \in messages : Blocks(heap', h) \cap LentBlocks(lent) = {}
      BY <2>4 DEF Sound, Apart
    <3>4. QED
      BY <2>2, <2>5, <3>1, <3>2, <3>3 DEF Apart
  <2>9. NoneLost'
    <3>1. Used(heap') = Used(heap) \cup Blocks(heap', r)
      BY <2>1, <2>3 DEF Used
    <3>2. \A a \in Used(heap) : a \in LentBlocks(lent) \/ \E h \in messages : a \in Blocks(heap, h)
      BY DEF Sound, NoneLost
    <3>3. QED
      BY <2>2, <2>4, <3>1, <3>2 DEF NoneLost
  <2>10. QED
    BY <2>7, <2>8, <2>9 DEF Sound
<1>3. QED
  BY <1>1, <1>2

LEMMA SoundCreate ==
    ASSUME Sound, Create
    PROVE  Sound'
<1>1. PICK content \in Made :
        \E outcome \in mqttmessage_create(heap, content.packetId, content.topic,
                                          content.qosInfo, content.payload) :
            Obtained(outcome, [content EXCEPT !.isDuplicateMsg = FALSE, !.isMessageRetained = FALSE])
  BY DEF Create
<1> DEFINE plain == [content EXCEPT !.isDuplicateMsg = FALSE, !.isMessageRetained = FALSE]
<1>2. PICK outcome \in mqttmessage_create(heap, content.packetId, content.topic,
                                          content.qosInfo, content.payload) :
        Obtained(outcome, plain)
  BY <1>1
<1>3. content \in Content
  BY <1>1, Constants
<1> DEFINE made == NotFlagged(content.packetId, content.qosInfo, content.topic, content.payload)
<1>4. /\ Alike(made, plain) /\ plain \in Content
      /\ content.packetId \in Nat /\ content.qosInfo \in 0 .. 2
      /\ content.topic \in Topic /\ content.payload \in Payload
  BY <1>3 DEF Content, NotFlagged, Alike
<1> HIDE DEF plain
<1>5. Result(heap, outcome, made)
  BY <1>2, <1>4, MessageCreated DEF Sound, Whole
<1> HIDE DEF made
<1>6. Result(heap, outcome, plain)
  BY <1>4, <1>5, AlikeResult
<1>7. QED
  BY <1>2, <1>4, <1>6, SoundObtained

LEMMA SoundClone ==
    ASSUME Sound, Clone
    PROVE  Sound'
<1>0. PICK h \in Readable : \E outcome \in mqttmessage_clone(heap, h) : Obtained(outcome, given[h])
  BY DEF Clone
<1>1. PICK outcome \in mqttmessage_clone(heap, h) : h \in Readable /\ Obtained(outcome, given[h])
  BY <1>0
<1>2. heap \in Heap
  BY DEF Sound, Whole
<1> DEFINE message == heap[h]
<1>3. CASE h \in messages
  <2> DEFINE content == NotFlagged(message.packetId, message.qosInfo, given[h].topic, given[h].payload)
  <2>1. h \in Address /\ given[h] \in Content /\ IsMessage(heap, h, given[h])
    BY <1>3, Owners
  <2>2. /\ message \in Object /\ Reads(message, given[h])
        /\ At(message.topicName) = given[h].topic /\ At(message.appPayload) = given[h].payload
    BY <2>1, Constants DEF IsMessage, At
  <2>3. PICK made \in mqttmessage_create(heap, message.packetId, given[h].topic,
                                         message.qosInfo, given[h].payload) :
            outcome = WithFlags(made, message)
    BY <1>1, <2>2 DEF mqttmessage_clone
  <2>4. /\ message.packetId \in Nat /\ message.qosInfo \in 0 .. 2
        /\ message.isDuplicateMsg \in BOOLEAN /\ message.isMessageRetained \in BOOLEAN
    BY <2>2 DEF Object
  <2>5. given[h].topic \in Topic /\ given[h].payload \in Payload
    BY <2>1 DEF Content
  <2>6. content \in Content /\ Alike(Flagged(content, message), given[h])
    BY <2>2, <2>4, <2>5 DEF Content, Flagged, NotFlagged, Alike, Reads
  <2> HIDE DEF message
  <2>7. Result(heap, made, content)
    BY <1>2, <2>3, <2>4, <2>5, MessageCreated
  <2> HIDE DEF content
  <2>8. Result(heap, outcome, Flagged(content, message))
    BY <1>2, <2>3, <2>4, <2>6, <2>7, FlagsSet
  <2>9. Result(heap, outcome, given[h])
    BY <2>6, <2>8, AlikeResult
  <2>10. QED
    BY <1>1, <2>1, <2>9, SoundObtained
<1>4. CASE h \notin messages
  <2>1. lent # NotLent /\ h = lent.handle
    BY <1>1, <1>4 DEF Readable, NotLent
  <2>2. IsLent(heap, lent, given[h]) /\ given[h] \in Content
    BY <2>1, Owners
  <2>3. message.topicName = NULL
    BY <2>1, <2>2 DEF IsLent
  <2>4. \A made \in mqttmessage_create(heap, message.packetId, At(message.topicName),
                                       message.qosInfo, At(message.appPayload)) :
            made = Outcome(NULL, heap)
    BY <2>3 DEF mqttmessage_create, At
  <2>5. outcome = Outcome(NULL, heap)
    <3>1. PICK made \in mqttmessage_create(heap, message.packetId, At(message.topicName),
                                           message.qosInfo, At(message.appPayload)) :
              outcome = WithFlags(made, message)
      BY <1>1 DEF mqttmessage_clone
    <3>2. made = Outcome(NULL, heap)
      BY <2>4, <3>1
    <3>3. QED
      BY <3>1, <3>2 DEF WithFlags, Outcome
  <2>6. Result(heap, outcome, given[h])
    BY <2>5 DEF Result, Outcome
  <2>7. QED
    BY <1>1, <2>2, <2>6, SoundObtained
<1>5. QED
  BY <1>3, <1>4

LEMMA SoundDestroy ==
    ASSUME Sound, Destroy
    PROVE  Sound'
<1>1. PICK h \in messages :
        /\ heap' = mqttmessage_destroy(heap, h)
        /\ messages' = messages \ {h}
        /\ given' = [given EXCEPT ![h] = Free]
        /\ UNCHANGED lent
  BY DEF Destroy
<1>2. /\ h \in Address /\ h \in Blocks(heap, h) /\ Blocks(heap, h) \subseteq Used(heap)
      /\ heap \in Heap /\ given \in [Address -> Content \cup {Free}]
  BY Owners DEF Sound, Whole
<1>3. /\ heap' \in Heap
      /\ \A a \in Address : heap'[a] = IF a \in Blocks(heap, h) THEN Free ELSE heap[a]
  BY <1>1, <1>2, Constants DEF mqttmessage_destroy, free, Blocks, Heap, Cell
<1>4. ASSUME NEW g \in messages, g # h
      PROVE  /\ IsMessage(heap', g, given[g]) /\ Blocks(heap', g) = Blocks(heap, g)
             /\ given'[g] = given[g] /\ given[g] \in Content
  <2>1. /\ IsMessage(heap, g, given[g]) /\ g \in Address /\ given[g] \in Content
        /\ Blocks(heap, g) \subseteq Used(heap)
    BY Owners
  <2>2. \A a \in Blocks(heap, g) : heap'[a] = heap[a]
    BY <1>3, <1>4, <2>1 DEF Sound, Apart, Used
  <2>3. QED
    BY <1>1, <1>2, <1>4, <2>1, <2>2, Untouched
<1>5. \A a \in LentBlocks(lent) : heap'[a] = heap[a]
  BY <1>3, Owners DEF Sound, Apart, Used
<1>6. Whole'
  <2>1. given' \in [Address -> Content \cup {Free}]
    BY <1>1, <1>2
  <2>2. ASSUME lent # NotLent
        PROVE  given'[lent.handle] \in Content /\ IsLent(heap', lent, given'[lent.handle])
    <3>1. /\ IsLent(heap, lent, given[lent.handle]) /\ given[lent.handle] \in Content
          /\ lent.handle \in Address /\ lent.handle \in LentBlocks(lent)
      BY <2>2, Owners
    <3>2. lent.handle # h
      BY <1>2, <3>1 DEF Sound, Apart
    <3>3. given'[lent.handle] = given[lent.handle]
      BY <1>1, <1>2, <3>1, <3>2
    <3>4. QED
      BY <1>5, <3>1, <3>3, LentUntouched
  <2>3. QED
    BY <1>1, <1>3, <1>4, <2>1, <2>2 DEF Sound, Whole
<1>7. Apart'
  BY <1>1, <1>4 DEF Sound, Apart
<1>8. NoneLost'
  <2>1. ASSUME NEW a \in Used(heap') PROVE a \in Used(heap) /\ a \notin Blocks(heap, h)
    BY <1>3 DEF Used
  <2>2. QED
    BY <1>1, <1>4, <2>1 DEF Sound, NoneLost
<1>9. QED
  BY <1>6, <1>7, <1>8 DEF Sound

\* A flag of a message that may be read is set.
LEMMA SoundFlags ==
    ASSUME Sound, NEW h \in Readable, NEW object \in Object, NEW content \in Content,
           Reads(object, content),
           content.topic = given[h].topic, content.payload = given[h].payload,
           object.topicName = heap[h].topicName, object.appPayload = heap[h].appPayload,
           object.const_topic_name = heap[h].const_topic_name,
           object.const_payload = heap[h].const_payload,
           heap' \in Heap, heap'[h] = object, \A a \in Address \ {h} : heap'[a] = heap[a],
           given' \in [Address -> Content \cup {Free}], given'[h] = content,
           \A a \in Address \ {h} : given'[a] = given[a],
           UNCHANGED <<messages, lent>>
    PROVE  Sound'
<1>1. h \in messages \/ (lent # NotLent /\ h = lent.handle)
  BY DEF Readable, NotLent
<1>2. h \in Address /\ heap[h] # Free /\ object # Free
  BY <1>1, Owners, Constants DEF Used
<1>3. /\ heap' \in Heap /\ heap'[h] = object /\ \A a \in Address \ {h} : heap'[a] = heap[a]
      /\ given' \in [Address -> Content \cup {Free}] /\ given'[h] = content
      /\ \A a \in Address \ {h} : given'[a] = given[a]
  OBVIOUS
<1>4. ASSUME NEW g \in messages
      PROVE  /\ IsMessage(heap', g, given'[g]) /\ Blocks(heap', g) = Blocks(heap, g)
             /\ given'[g] \in Content
  <2>1. /\ IsMessage(heap, g, given[g]) /\ g \in Address /\ given[g] \in Content
        /\ g \in Blocks(heap, g)
    BY Owners
  <2>2. CASE g = h
    BY <1>3, <2>1, <2>2 DEF IsMessage, Blocks
  <2>3. CASE g # h
    <3>1. h \notin Blocks(heap, g)
      <4>1. CASE h \in messages
        <5>1. h \in Blocks(heap, h) /\ Blocks(heap, g) \cap Blocks(heap, h) = {}
          BY <2>3, <4>1, Owners DEF Sound, Apart
        <5>2. QED
          BY <5>1
      <4>2. CASE h \notin messages
        <5>1. h \in LentBlocks(lent)
          BY <1>1, <4>2, Owners
        <5>2. Blocks(heap, g) \cap LentBlocks(lent) = {}
          BY DEF Sound, Apart
        <5>3. QED
          BY <5>1, <5>2
      <4>3. QED
        BY <4>1, <4>2
    <3>2. \A a \in Blocks(heap, g) : heap'[a] = heap[a]
      BY <1>3, <2>1, <3>1, BlocksOf
    <3>3. QED
      BY <1>3, <2>1, <2>3, <3>2, Untouched
  <2>4. QED
    BY <2>2, <2>3
<1>5. ASSUME lent # NotLent
      PROVE  given'[lent.handle] \in Content /\ IsLent(heap', lent, given'[lent.handle])
  <2>1. /\ IsLent(heap, lent, given[lent.handle]) /\ lent.handle \in Address
        /\ given[lent.handle] \in Content /\ lent.handle \in LentBlocks(lent)
    BY <1>5, Owners
  <2>2. CASE h = lent.handle
    BY <1>3, <2>1, <2>2 DEF IsLent
  <2>3. CASE h # lent.handle
    <3>1. h \in messages
      BY <1>1, <2>3
    <3>2. h \notin LentBlocks(lent) /\ LentBlocks(lent) \subseteq Address
      <4>1. h \in Blocks(heap, h) /\ LentBlocks(lent) \subseteq Used(heap)
        BY <3>1, Owners
      <4>2. Blocks(heap, h) \cap LentBlocks(lent) = {}
        BY <3>1 DEF Sound, Apart
      <4>3. QED
        BY <4>1, <4>2 DEF Used
    <3>3. \A a \in LentBlocks(lent) : heap'[a] = heap[a]
      BY <1>3, <3>2
    <3>4. QED
      BY <1>3, <2>1, <2>3, <3>3, LentUntouched
  <2>4. QED
    BY <2>2, <2>3
<1>6. Used(heap') = Used(heap)
  BY <1>2, <1>3 DEF Used
<1>7. Whole'
  BY <1>3, <1>4, <1>5 DEF Sound, Whole
<1>8. Apart'
  BY <1>4 DEF Sound, Apart
<1>9. NoneLost'
  BY <1>4, <1>6 DEF Sound, NoneLost
<1>10. QED
  BY <1>7, <1>8, <1>9 DEF Sound

LEMMA ReadableReads ==
    ASSUME Sound, NEW h \in Readable
    PROVE  heap[h] \in Object /\ given[h] \in Content /\ Reads(heap[h], given[h])
<1>1. CASE h \in messages
  BY <1>1, Owners DEF IsMessage
<1>2. CASE h \notin messages
  <2>1. lent # NotLent /\ h = lent.handle
    BY <1>2 DEF Readable, NotLent
  <2>2. QED
    BY <2>1, Owners DEF IsLent
<1>3. QED
  BY <1>1, <1>2

LEMMA SoundSetFlags ==
    ASSUME Sound, mqttmessage_setIsDuplicateMsg \/ mqttmessage_setIsRetained
    PROVE  Sound'
<1>1. CASE mqttmessage_setIsDuplicateMsg
  <2>1. PICK h \in Readable, flag \in BOOLEAN :
            /\ heap' = [heap EXCEPT ![h].isDuplicateMsg = flag]
            /\ given' = [given EXCEPT ![h].isDuplicateMsg = flag]
            /\ UNCHANGED <<messages, lent>>
    BY <1>1 DEF mqttmessage_setIsDuplicateMsg
  <2> DEFINE object == [heap[h] EXCEPT !.isDuplicateMsg = flag]
             content == [given[h] EXCEPT !.isDuplicateMsg = flag]
  <2>2. heap[h] \in Object /\ given[h] \in Content /\ Reads(heap[h], given[h])
    BY <2>1, ReadableReads
  <2>3. /\ object \in Object /\ content \in Content /\ Reads(object, content)
        /\ content.topic = given[h].topic /\ content.payload = given[h].payload
        /\ object.topicName = heap[h].topicName /\ object.appPayload = heap[h].appPayload
        /\ object.const_topic_name = heap[h].const_topic_name
        /\ object.const_payload = heap[h].const_payload
    BY <2>2 DEF Object, Content, Reads
  <2>4. heap' = [heap EXCEPT ![h] = object] /\ given' = [given EXCEPT ![h] = content]
    BY <2>1
  <2> HIDE DEF object, content
  <2>5. /\ heap \in Heap /\ given \in [Address -> Content \cup {Free}] /\ h \in Address
    BY <2>1, Owners DEF Sound, Whole, Readable, NotLent
  <2>6. /\ heap' \in Heap /\ heap'[h] = object /\ \A a \in Address \ {h} : heap'[a] = heap[a]
        /\ given' \in [Address -> Content \cup {Free}] /\ given'[h] = content
        /\ \A a \in Address \ {h} : given'[a] = given[a]
    BY <2>3, <2>4, <2>5 DEF Heap, Cell
  <2>7. h \in Readable /\ UNCHANGED <<messages, lent>>
    BY <2>1
  <2>8. QED
    BY <2>3, <2>6, <2>7, SoundFlags
<1>2. CASE mqttmessage_setIsRetained
  <2>1. PICK h \in Readable, flag \in BOOLEAN :
            /\ heap' = [heap EXCEPT ![h].isMessageRetained = flag]
            /\ given' = [given EXCEPT ![h].isMessageRetained = flag]
            /\ UNCHANGED <<messages, lent>>
    BY <1>2 DEF mqttmessage_setIsRetained
  <2> DEFINE object == [heap[h] EXCEPT !.isMessageRetained = flag]
             content == [given[h] EXCEPT !.isMessageRetained = flag]
  <2>2. heap[h] \in Object /\ given[h] \in Content /\ Reads(heap[h], given[h])
    BY <2>1, ReadableReads
  <2>3. /\ object \in Object /\ content \in Content /\ Reads(object, content)
        /\ content.topic = given[h].topic /\ content.payload = given[h].payload
        /\ object.topicName = heap[h].topicName /\ object.appPayload = heap[h].appPayload
        /\ object.const_topic_name = heap[h].const_topic_name
        /\ object.const_payload = heap[h].const_payload
    BY <2>2 DEF Object, Content, Reads
  <2>4. heap' = [heap EXCEPT ![h] = object] /\ given' = [given EXCEPT ![h] = content]
    BY <2>1
  <2> HIDE DEF object, content
  <2>5. /\ heap \in Heap /\ given \in [Address -> Content \cup {Free}] /\ h \in Address
    BY <2>1, Owners DEF Sound, Whole, Readable, NotLent
  <2>6. /\ heap' \in Heap /\ heap'[h] = object /\ \A a \in Address \ {h} : heap'[a] = heap[a]
        /\ given' \in [Address -> Content \cup {Free}] /\ given'[h] = content
        /\ \A a \in Address \ {h} : given'[a] = given[a]
    BY <2>3, <2>4, <2>5 DEF Heap, Cell
  <2>7. h \in Readable /\ UNCHANGED <<messages, lent>>
    BY <2>1
  <2>8. QED
    BY <2>3, <2>6, <2>7, SoundFlags
<1>3. QED
  BY <1>1, <1>2

InPlaceObject(packetId, qosValue, topicName, appMsg) ==
    [NewObject(packetId, qosValue) EXCEPT !.const_topic_name = topicName, !.const_payload = appMsg]

LEMMA InPlaceCreated ==
    ASSUME NEW memory \in Heap, NEW packetId \in Nat, NEW qosValue \in 0 .. 2,
           NEW topicName \in Pointer, NEW appMsg \in Pointer,
           NEW outcome \in mqttmessage_create_in_place(memory, packetId, topicName, qosValue, appMsg)
    PROVE  /\ outcome.result = NULL => outcome.memory = memory
           /\ outcome.result # NULL =>
                /\ outcome.result \in Address /\ memory[outcome.result] = Free
                /\ outcome.memory \in Heap
                /\ outcome.memory[outcome.result] = InPlaceObject(packetId, qosValue, topicName, appMsg)
                /\ \A a \in Address \ {outcome.result} : outcome.memory[a] = memory[a]
           /\ InPlaceObject(packetId, qosValue, topicName, appMsg) \in Object
<1> DEFINE Finished(made) == [made.memory EXCEPT ![made.result].const_topic_name = topicName,
                                                 ![made.result].const_payload = appMsg]
<1>1. InPlaceObject(packetId, qosValue, topicName, appMsg) \in Object
  BY DEF InPlaceObject, NewObject, Object, Pointer
<1>2. CASE topicName = NULL
  BY <1>1, <1>2 DEF mqttmessage_create_in_place, Outcome
<1>3. CASE topicName # NULL
  <2>1. PICK made \in create_msg_object(memory, packetId, qosValue) :
          outcome = IF made.result = NULL THEN made ELSE Outcome(made.result, Finished(made))
    BY <1>3 DEF mqttmessage_create_in_place
  <2>2. made \in malloc(memory, NewObject(packetId, qosValue)) /\ NewObject(packetId, qosValue) \in Cell
    BY <2>1, ObjectMade DEF create_msg_object, NewObject, Cell
  <2>3. CASE made.result = NULL
    <3>1. made.memory = memory
      BY <2>2, <2>3, Allocated
    <3>2. QED
      BY <1>1, <2>1, <2>3, <3>1
  <2>4. CASE made.result # NULL
    <3> DEFINE r == made.result
               after == Finished(made)
    <3>1. /\ r \in Address /\ memory[r] = Free
          /\ made.memory \in Heap /\ made.memory[r] = NewObject(packetId, qosValue)
          /\ \A a \in Address \ {r} : made.memory[a] = memory[a]
      BY <2>2, <2>4, Allocated
    <3>2. after = [made.memory EXCEPT ![r] = [made.memory[r] EXCEPT !.const_topic_name = topicName,
                                                                    !.const_payload = appMsg]]
      BY <3>1 DEF Heap
    <3>3. after = [made.memory EXCEPT ![r] = InPlaceObject(packetId, qosValue, topicName, appMsg)]
      BY <3>1, <3>2 DEF InPlaceObject
    <3>4. outcome.result = r /\ outcome.memory = after /\ r # NULL
      BY <2>1, <2>4 DEF Outcome
    <3> HIDE DEF after, r
    <3>5. QED
      BY <1>1, <3>1, <3>3, <3>4 DEF Heap, Cell
  <2>5. QED
    BY <2>3, <2>4
<1>4. QED
  BY <1>2, <1>3

\* A message in place, of blocks that were free, is lent.
LEMMA SoundLent ==
    ASSUME Sound, lent = NotLent, NEW content \in Content, heap' \in Heap,
           IsLent(heap', lent', content),
           \A a \in LentBlocks(lent') : heap[a] = Free,
           \A a \in Address \ LentBlocks(lent') : heap'[a] = heap[a],
           given' \in [Address -> Content \cup {Free}], given'[lent'.handle] = content,
           \A a \in Address \ {lent'.handle} : given'[a] = given[a],
           lent' \in [handle : Pointer, topicName : Pointer, buffer : Pointer],
           UNCHANGED messages
    PROVE  Sound'
<1>1. /\ LentBlocks(lent') \subseteq Used(heap') /\ lent'.handle \in LentBlocks(lent')
      /\ lent'.handle \in Address
  BY LentUsed DEF IsLent
<1>2. ASSUME NEW h \in messages
      PROVE  /\ IsMessage(heap', h, given'[h]) /\ Blocks(heap', h) = Blocks(heap, h)
             /\ given'[h] \in Content /\ Blocks(heap, h) \cap LentBlocks(lent') = {}
  <2>1. /\ h \in Address /\ given[h] \in Content /\ IsMessage(heap, h, given[h])
        /\ h \in Blocks(heap, h) /\ Blocks(heap, h) \subseteq Used(heap)
    BY Owners
  <2>2. Blocks(heap, h) \cap LentBlocks(lent') = {}
    BY <2>1 DEF Used
  <2>3. \A a \in Blocks(heap, h) : heap'[a] = heap[a]
    BY <2>1, <2>2 DEF Used
  <2>4. given'[h] = given[h]
    BY <1>1, <2>1, <2>2
  <2>5. QED
    BY <2>1, <2>2, <2>3, <2>4, Untouched
<1>3. Whole'
  BY <1>2 DEF Whole
<1>4. Apart'
  BY <1>2 DEF Sound, Apart
<1>5. NoneLost'
  <2>1. ASSUME NEW a \in Used(heap'), a \notin LentBlocks(lent')
        PROVE  \E h \in messages : a \in Blocks(heap, h)
    <3>1. a \in Used(heap)
      BY <2>1 DEF Used
    <3>2. a \notin LentBlocks(lent)
      BY NotLentBlocks
    <3>3. QED
      BY <3>1, <3>2 DEF Sound, NoneLost
  <2>2. QED
    BY <1>2, <2>1 DEF NoneLost
<1>6. QED
  BY <1>3, <1>4, <1>5 DEF Sound

LEMMA SoundProcess ==
    ASSUME Sound, ProcessPublishMessage
    PROVE  Sound'
<1> DEFINE AppMsg(content, buffer) == IF content.payload = Empty THEN NULL ELSE buffer.result
           Outcomes(content, buffer, topicName) ==
               mqttmessage_create_in_place(topicName.memory, content.packetId, topicName.result,
                                           content.qosInfo, AppMsg(content, buffer))
           After(content, buffer, topicName, message) ==
               IF NULL \in {buffer.result, topicName.result, message.result}
               THEN /\ heap' = free(message.memory, {buffer.result, topicName.result, message.result})
                    /\ UNCHANGED <<lent, given>>
               ELSE /\ heap' = WithFlags(message, content).memory
                    /\ lent' = [handle |-> message.result, topicName |-> topicName.result,
                                buffer |-> buffer.result]
                    /\ given' = [given EXCEPT ![message.result] = content]
<1>1. lent = NotLent /\ UNCHANGED messages
  BY DEF ProcessPublishMessage
<1>2. PICK content \in Made :
        \E buffer \in malloc(heap, content.payload) :
        \E topicName \in malloc(buffer.memory, content.topic) :
        \E message \in Outcomes(content, buffer, topicName) : After(content, buffer, topicName, message)
  BY DEF ProcessPublishMessage
<1>3. PICK buffer \in malloc(heap, content.payload) :
        \E topicName \in malloc(buffer.memory, content.topic) :
        \E message \in Outcomes(content, buffer, topicName) : After(content, buffer, topicName, message)
  BY <1>2
<1>4. PICK topicName \in malloc(buffer.memory, content.topic) :
        \E message \in Outcomes(content, buffer, topicName) : After(content, buffer, topicName, message)
  BY <1>3
<1>5. PICK message \in Outcomes(content, buffer, topicName) :
        After(content, buffer, topicName, message)
  BY <1>4
<1>6. /\ buffer \in malloc(heap, content.payload)
      /\ topicName \in malloc(buffer.memory, content.topic)
      /\ message \in Outcomes(content, buffer, topicName)
  BY <1>3, <1>4, <1>5
<1> DEFINE b == buffer.result
           t == topicName.result
           o == message.result
           app == AppMsg(content, buffer)
           made == InPlaceObject(content.packetId, content.qosInfo, t, app)
<1>7. /\ heap \in Heap /\ given \in [Address -> Content \cup {Free}]
      /\ content \in Content /\ content.packetId \in Nat /\ content.qosInfo \in 0 .. 2
      /\ content.topic \in Topic /\ content.payload \in Payload
      /\ content.isDuplicateMsg \in BOOLEAN /\ content.isMessageRetained \in BOOLEAN
      /\ content.topic \in Cell /\ content.payload \in Cell
  BY <1>2, Constants DEF Sound, Whole, Content, Cell
<1>8. /\ b \in Pointer /\ buffer.memory \in Heap
      /\ b # NULL => heap[b] = Free /\ buffer.memory[b] = content.payload
      /\ \A a \in Address \ {b} : buffer.memory[a] = heap[a]
  BY <1>6, <1>7, Allocated DEF Pointer
<1>9. /\ t \in Pointer /\ topicName.memory \in Heap
      /\ t # NULL => buffer.memory[t] = Free /\ topicName.memory[t] = content.topic
      /\ \A a \in Address \ {t} : topicName.memory[a] = buffer.memory[a]
  BY <1>6, <1>7, <1>8, Allocated DEF Pointer
<1>10. /\ o \in Pointer /\ message.memory \in Heap /\ made \in Object
       /\ o # NULL => topicName.memory[o] = Free /\ message.memory[o] = made
       /\ \A a \in Address \ {o} : message.memory[a] = topicName.memory[a]
  <2>1. app \in Pointer
    BY <1>8 DEF Pointer
  <2>2. message \in mqttmessage_create_in_place(topicName.memory, content.packetId, t,
                                                 content.qosInfo, app)
    BY <1>6
  <2> HIDE DEF app, t
  <2>3. /\ message.result = NULL => message.memory = topicName.memory
        /\ message.result # NULL =>
             /\ message.result \in Address /\ topicName.memory[message.result] = Free
             /\ message.memory \in Heap /\ message.memory[message.result] = made
             /\ \A a \in Address \ {message.result} : message.memory[a] = topicName.memory[a]
        /\ made \in Object
    BY <1>7, <1>9, <2>1, <2>2, InPlaceCreated
  <2> HIDE DEF made
  <2>4. QED
    BY <1>9, <2>3 DEF Pointer
<1>11. CASE NULL \in {b, t, o}
  <2>1. heap' = free(message.memory, {b, t, o}) /\ UNCHANGED <<lent, given>>
    BY <1>5, <1>11
  <2> HIDE DEF b, t, o, made
  <2>2. \A a \in Address : IF a \in {b, t, o} THEN heap[a] = Free ELSE message.memory[a] = heap[a]
    BY <1>8, <1>9, <1>10, Constants DEF Pointer
  <2>3. free(message.memory, {b, t, o}) = heap
    BY <1>7, <2>2 DEF free, Heap
  <2>4. QED
    BY <1>1, <2>1, <2>3 DEF Sound, Whole, Apart, NoneLost
<1>12. CASE NULL \notin {b, t, o}
  <2> DEFINE object == [message.memory[o] EXCEPT !.isDuplicateMsg = content.isDuplicateMsg,
                                                 !.isMessageRetained = content.isMessageRetained]
  <2>1. /\ heap' = WithFlags(message, content).memory
        /\ lent' = [handle |-> o, topicName |-> t, buffer |-> b]
        /\ given' = [given EXCEPT ![o] = content]
    BY <1>5, <1>12
  <2>2. heap' = [message.memory EXCEPT ![o] = object]
    <3>1. o # NULL /\ o \in Address /\ message.memory \in Heap
      BY <1>10, <1>12 DEF Pointer
    <3>2. QED
      BY <2>1, <3>1 DEF WithFlags, Outcome, Heap
  <2>3. /\ object \in Object /\ Reads(object, content)
        /\ object.topicName = NULL /\ object.appPayload = NULL
        /\ object.const_topic_name = t /\ object.const_payload = app
    BY <1>7, <1>8, <1>9, <1>10, <1>12 DEF Reads, InPlaceObject, NewObject, Object, Pointer
  <2>4. app = IF content.payload = Empty THEN NULL ELSE b
    OBVIOUS
  <2> HIDE DEF b, t, o, made, object, app
  <2>5. b \in Address /\ t \in Address /\ o \in Address
    BY <1>8, <1>9, <1>10, <1>12 DEF Pointer
  <2>6. b # t /\ b # o /\ t # o
    BY <1>7, <1>8, <1>9, <1>10, <1>12, <2>5, Constants
  <2>7. heap[b] = Free /\ heap[t] = Free /\ heap[o] = Free
    BY <1>8, <1>9, <1>10, <1>12, <2>5, <2>6
  <2>8. /\ heap' \in Heap /\ heap'[o] = object
        /\ \A a \in Address \ {o} : heap'[a] = message.memory[a]
    BY <1>10, <2>2, <2>3, <2>5 DEF Heap, Cell
  <2>9. /\ heap'[b] = content.payload /\ heap'[t] = content.topic
        /\ \A a \in Address \ {b, t, o} : heap'[a] = heap[a]
    BY <1>8, <1>9, <1>10, <1>12, <2>5, <2>6, <2>8
  <2>10. /\ lent'.handle = o /\ lent'.topicName = t /\ lent'.buffer = b
         /\ lent' \in [handle : Pointer, topicName : Pointer, buffer : Pointer]
    BY <2>1, <2>5 DEF Pointer
  <2>11. IsLent(heap', lent', content)
    BY <2>3, <2>4, <2>5, <2>6, <2>8, <2>9, <2>10 DEF IsLent
  <2>12. LentBlocks(lent') = {b, t, o}
    BY <2>5, <2>10, Constants DEF LentBlocks
  <2>13. /\ given' \in [Address -> Content \cup {Free}] /\ given'[o] = content
         /\ \A a \in Address \ {o} : given'[a] = given[a]
    BY <1>7, <2>1, <2>5
  <2>14. QED
    BY <1>1, <1>7, <2>7, <2>8, <2>9, <2>10, <2>11, <2>12, <2>13, SoundLent
<1>13. QED
  BY <1>11, <1>12

LEMMA SoundReturn ==
    ASSUME Sound, PublishReturn
    PROVE  Sound'
<1>1. /\ lent # NotLent /\ lent' = NotLent /\ UNCHANGED messages
      /\ heap' = free(mqttmessage_destroy(heap, lent.handle), {lent.topicName, lent.buffer})
      /\ given' = [given EXCEPT ![lent.handle] = Free]
  BY DEF PublishReturn
<1>2. /\ lent.handle \in Address /\ IsLent(heap, lent, given[lent.handle])
      /\ lent.handle \in LentBlocks(lent)
      /\ heap \in Heap /\ given \in [Address -> Content \cup {Free}]
  BY <1>1, Owners DEF Sound, Whole
<1>3. /\ heap' \in Heap
      /\ \A a \in Address : heap'[a] = IF a \in LentBlocks(lent) THEN Free ELSE heap[a]
  BY <1>1, <1>2, Constants DEF mqttmessage_destroy, free, LentBlocks, IsLent, Heap, Cell
<1>4. ASSUME NEW h \in messages
      PROVE  /\ IsMessage(heap', h, given'[h]) /\ Blocks(heap', h) = Blocks(heap, h)
             /\ given'[h] \in Content
  <2>1. /\ h \in Address /\ given[h] \in Content /\ IsMessage(heap, h, given[h])
        /\ h \in Blocks(heap, h) /\ Blocks(heap, h) \subseteq Used(heap)
    BY Owners
  <2>2. Blocks(heap, h) \cap LentBlocks(lent) = {}
    BY DEF Sound, Apart
  <2>3. \A a \in Blocks(heap, h) : heap'[a] = heap[a]
    BY <1>3, <2>1, <2>2 DEF Used
  <2>4. given'[h] = given[h]
    BY <1>1, <1>2, <2>1, <2>2
  <2>5. QED
    BY <2>1, <2>3, <2>4, Untouched
<1>5. Whole'
  <2>1. given' \in [Address -> Content \cup {Free}]
    BY <1>1, <1>2
  <2>2. QED
    BY <1>1, <1>3, <1>4, <2>1 DEF Whole
<1>6. Apart'
  BY <1>1, <1>4, NotLentBlocks DEF Sound, Apart
<1>7. NoneLost'
  <2>1. ASSUME NEW a \in Used(heap') PROVE a \in Used(heap) /\ a \notin LentBlocks(lent)
    BY <1>3 DEF Used
  <2>2. QED
    BY <1>1, <1>4, <2>1 DEF Sound, NoneLost
<1>8. QED
  BY <1>5, <1>6, <1>7 DEF Sound
LEMMA SoundStep == Sound /\ [Next]_vars => Sound'
<1> SUFFICES ASSUME Sound, [Next]_vars PROVE Sound'
  OBVIOUS
<1>1. CASE UNCHANGED vars
  BY <1>1 DEF vars, Sound, Whole, Apart, NoneLost
<1>2. CASE Next
  BY <1>2, SoundCreate, SoundClone, SoundDestroy, SoundSetFlags, SoundProcess, SoundReturn DEF Next
<1>3. QED
  BY <1>1, <1>2

-----------------------------------------------------------------------------
(* What the invariant says of the properties.                              *)

LEMMA SoundType == Sound => TypeOK
<1> SUFFICES ASSUME Sound PROVE TypeOK
  OBVIOUS
<1>1. messages \subseteq Address
  BY Owners
<1>2. lent \in [handle : Pointer, topicName : Pointer, buffer : Pointer]
  BY DEF Sound, Whole, NotLent, Pointer
<1>3. ASSUME NEW h \in Readable
      PROVE  /\ heap[h] \in Object /\ given[h] \in Content
             /\ {At(heap[h].topicName), At(heap[h].const_topic_name)} \subseteq Topic \cup {Empty}
             /\ {At(heap[h].appPayload), At(heap[h].const_payload)} \subseteq Payload
  <2>1. heap[h] \in Object /\ given[h] \in Content
    BY ReadableReads
  <2>2. given[h].topic \in Topic /\ given[h].payload \in Payload
    BY <2>1 DEF Content
  <2>3. CASE h \in messages
    BY <2>2, <2>3, Owners, Constants DEF IsMessage, At
  <2>4. CASE h \notin messages
    <3>1. lent # NotLent /\ h = lent.handle
      BY <2>4 DEF Readable, NotLent
    <3>2. QED
      BY <2>2, <3>1, Owners, Constants DEF IsLent, At
  <2>5. QED
    BY <2>1, <2>3, <2>4
<1>4. QED
  BY <1>1, <1>2, <1>3 DEF TypeOK

LEMMA SoundOwned == Sound => EveryBlockOwned
<1> SUFFICES ASSUME Sound PROVE EveryBlockOwned
  OBVIOUS
<1> DEFINE buffers == {lent.topicName, lent.buffer}
<1>1. ASSUME NEW h \in messages
      PROVE  /\ Owned(h) = Blocks(heap, h) /\ Owned(h) \subseteq Used(heap) /\ h \in Owned(h)
             /\ Owned(h) \cap LentBlocks(lent) = {} /\ NULL \notin Owned(h)
  BY Owners DEF Owned, Blocks, Sound, Apart
<1>2. ASSUME lent # NotLent
      PROVE  /\ Owned(lent.handle) = {lent.handle} /\ lent.handle \notin buffers
             /\ LentBlocks(lent) = {lent.handle} \cup buffers /\ NULL \notin buffers
             /\ lent.handle \notin messages
  <2>1. IsLent(heap, lent, given[lent.handle]) /\ given[lent.handle] \in Content
    BY <1>2, Owners
  <2>2. /\ LentBlocks(lent) = {lent.handle, lent.topicName, lent.buffer}
        /\ lent.handle \notin buffers /\ NULL \notin buffers
        /\ Owned(lent.handle) = {lent.handle}
    BY <2>1, LentUsed, Constants DEF IsLent, Owned
  <2>3. lent.handle \notin messages
    BY <1>1, <2>2
  <2>4. QED
    BY <2>2, <2>3
<1>3. CASE lent = NotLent
  <2>1. Readable = messages /\ buffers = {NULL} /\ LentBlocks(lent) = {}
    BY <1>3, NotLentBlocks DEF Readable, NotLent
  <2>2. UNION {Owned(h) : h \in Readable} = Used(heap)
    BY <1>1, <2>1 DEF Sound, NoneLost
  <2>3. QED
    BY <1>1, <2>1, <2>2 DEF EveryBlockOwned, Sound, Apart, Used
<1>4. CASE lent # NotLent
  <2> HIDE DEF buffers
  <2>1. Readable = messages \cup {lent.handle}
    BY <1>4, Owners, Constants DEF Readable
  <2>2. \A g, h \in Readable : g # h => Owned(g) \cap Owned(h) = {}
    BY <1>1, <1>2, <1>4, <2>1 DEF Sound, Apart
  <2>3. \A h \in Readable : Owned(h) \cap buffers = {}
    BY <1>1, <1>2, <1>4, <2>1
  <2>4. (UNION {Owned(h) : h \in Readable}) \cup (buffers \ {NULL}) = Used(heap)
    <3>1. \A a : (\E h \in Readable : a \in Owned(h)) \/ a \in buffers \ {NULL}
                 <=> a \in LentBlocks(lent) \/ \E h \in messages : a \in Blocks(heap, h)
      BY <1>1, <1>2, <1>4, <2>1
    <3>2. \A a : a \in Used(heap)
                 <=> a \in LentBlocks(lent) \/ \E h \in messages : a \in Blocks(heap, h)
      BY Owners DEF Sound, NoneLost
    <3>3. QED
      BY <3>1, <3>2
  <2>5. QED
    BY <2>2, <2>3, <2>4 DEF EveryBlockOwned, Used, buffers
<1>5. QED
  BY <1>3, <1>4

LEMMA SoundReads == Sound => ReadsAsGiven
<1> SUFFICES ASSUME Sound, NEW h \in Readable
             PROVE  /\ Reads(heap[h], given[h])
                    /\ At(mqttmessage_getTopicName(h)) = given[h].topic
                    /\ At(mqttmessage_getApplicationMsg(h)) = given[h].payload
  BY DEF ReadsAsGiven, Reads
<1>1. Reads(heap[h], given[h])
  BY ReadableReads
<1>2. CASE h \in messages
  BY <1>1, <1>2, Owners, Constants
  DEF IsMessage, At, mqttmessage_getTopicName, mqttmessage_getApplicationMsg
<1>3. CASE h \notin messages
  <2>1. lent # NotLent /\ h = lent.handle
    BY <1>3 DEF Readable, NotLent
  <2>2. QED
    BY <1>1, <2>1, Owners, Constants
    DEF IsLent, At, mqttmessage_getTopicName, mqttmessage_getApplicationMsg
<1>4. QED
  BY <1>2, <1>3

-----------------------------------------------------------------------------
\* Each message of the application and the one that ProcessPublishMessage lends is made of
\* blocks of its own, which hold what it was given, and no block is anything else's:
\* whatever mqttmessage_create, mqttmessage_clone and mqttmessage_create_in_place fail to
\* allocate, and in whatever order messages are destroyed.
THEOREM MessagesSound == Spec => []Sound
<1>1. QED
  BY SoundInit, SoundStep, PTL DEF Spec

\* Every pointer of a message that may be read points to a topic or a payload, as the
\* MQTT_MESSAGE of mqtt_message.c declares it.
THEOREM MessageTypes == Spec => []TypeOK
<1>1. QED
  BY MessagesSound, SoundType, PTL

\* No memory is owned twice or leaked, and none that is owned was freed: the error paths
\* of mqttmessage_create free what it made, mqttmessage_destroy frees the object and its
\* two copies, ProcessPublishMessage the topic and the buffer it lent.
THEOREM MessageMemory == Spec => []EveryBlockOwned
<1>1. QED
  BY MessagesSound, SoundOwned, PTL

\* The getters return what the message was created with or cloned from, and the flags last
\* set on it, as long as it is the application's to read.
THEOREM MessageContents == Spec => []ReadsAsGiven
<1>1. QED
  BY MessagesSound, SoundReads, PTL
=============================================================================
