----------------------------- MODULE MqttMessage -----------------------------
(***************************************************************************)
(* The messages of src/src/mqtt_message.c and the memory they are made of: *)
(* those an application creates, clones and destroys, and the one that     *)
(* ProcessPublishMessage creates in place, of storage that is its own and  *)
(* the codec's, and lends to fnMessageRecv.                                *)
(*                                                                         *)
(* The heap is a function from addresses to what is there: an MQTT_MESSAGE,*)
(* a topic, a payload or nothing.  An address is used again once it is     *)
(* free, so that a pointer kept too long points to something else.  A      *)
(* payload of no bytes is the NULL pointer.                                *)
(***************************************************************************)
EXTENDS Naturals, FiniteSets

CONSTANTS
    Address,       \* of memory; 0 is NULL
    Free,          \* what is at an address that is not allocated
    Topic, Payload, Empty,
    Made,          \* what messages are made of
    MaxMessages    \* bound: messages of the application at one time

NULL == 0
Pointer == Address \cup {NULL}

Content ==
    [packetId : Nat, qosInfo : 0 .. 2, topic : Topic, payload : Payload,
     isDuplicateMsg : BOOLEAN, isMessageRetained : BOOLEAN]

Object ==
    [packetId : Nat, qosInfo : 0 .. 2, topicName : Pointer, appPayload : Pointer,
     const_topic_name : Pointer, const_payload : Pointer,
     isDuplicateMsg : BOOLEAN, isMessageRetained : BOOLEAN]

ASSUME MessageAssumption ==
    /\ Address \subseteq Nat \ {NULL} /\ IsFiniteSet(Address)
    /\ Empty \in Payload /\ Topic \cap Payload = {} /\ Free \notin Topic \cup Payload \cup Object
    /\ Made \subseteq Content
    /\ MaxMessages \in Nat

VARIABLES
    heap,
    messages,   \* the handles the application owns
    lent,       \* ProcessPublishMessage in fnMessageRecv: its handle, topicName and buffer
    given       \* history: what each message was made of, and its flags since

vars == <<heap, messages, lent, given>>

NotLent == [handle |-> NULL, topicName |-> NULL, buffer |-> NULL]
Readable == messages \cup ({lent.handle} \ {NULL})
At(pointer) == IF pointer = NULL THEN Empty ELSE heap[pointer]

\* Every pointer of a message points to what it is declared to point to.
TypeOK ==
    /\ messages \subseteq Address
    /\ lent \in [handle : Pointer, topicName : Pointer, buffer : Pointer]
    /\ \A h \in Readable :
        /\ heap[h] \in Object
        /\ {At(heap[h].topicName), At(heap[h].const_topic_name)} \subseteq Topic \cup {Empty}
        /\ {At(heap[h].appPayload), At(heap[h].const_payload)} \subseteq Payload
        /\ given[h] \in Content

Init ==
    /\ heap = [a \in Address |-> Free]
    /\ messages = {}
    /\ lent = NotLent
    /\ given = [a \in Address |-> Free]

-----------------------------------------------------------------------------
\* What a call returns, and the memory it leaves.
Outcome(result, memory) == [result |-> result, memory |-> memory]

Unused(memory) == {a \in Address : memory[a] = Free}

\* malloc, which may fail, and what is then written there.
malloc(memory, what) ==
    {Outcome(NULL, memory)}
    \cup {Outcome(a, [memory EXCEPT ![a] = what]) :
            a \in {b \in Unused(memory) : \A c \in Unused(memory) : b <= c}}

free(memory, pointers) == [a \in Address |-> IF a \in pointers THEN Free ELSE memory[a]]

create_msg_object(memory, packetId, qosValue) ==
    malloc(memory, [packetId |-> packetId, qosInfo |-> qosValue, topicName |-> NULL,
                    appPayload |-> NULL, const_topic_name |-> NULL, const_payload |-> NULL,
                    isDuplicateMsg |-> FALSE, isMessageRetained |-> FALSE])

mqttmessage_create_in_place(memory, packetId, topicName, qosValue, appMsg) ==
    IF topicName = NULL THEN {Outcome(NULL, memory)}
    ELSE {IF made.result = NULL THEN made
          ELSE Outcome(made.result,
                 [made.memory EXCEPT ![made.result].const_topic_name = topicName,
                                     ![made.result].const_payload = appMsg]) :
             made \in create_msg_object(memory, packetId, qosValue)}

CopyPayload_LeaksTopic(handle, memory, appMsg) ==
    {IF copied.result = NULL THEN Outcome(NULL, free(memory, {handle}))
     ELSE Outcome(handle, [copied.memory EXCEPT ![handle].appPayload = copied.result]) :
        copied \in malloc(memory, appMsg)}

\* The last steps of mqttmessage_create: the payload, then the topic, into the new object.
CopyPayload(handle, memory, appMsg) ==
    {IF copied.result = NULL THEN Outcome(NULL, free(memory, {memory[handle].topicName, handle}))
     ELSE Outcome(handle, [copied.memory EXCEPT ![handle].appPayload = copied.result]) :
        copied \in malloc(memory, appMsg)}

CopyTopic(handle, memory, topicName, appMsg) ==
    UNION {LET made == [copied.memory EXCEPT ![handle].topicName = copied.result] IN
           IF copied.result = NULL THEN {Outcome(NULL, free(memory, {handle}))}
           ELSE IF appMsg = Empty THEN {Outcome(handle, made)}
           ELSE CopyPayload(handle, made, appMsg) :
        copied \in malloc(memory, topicName)}

\* Its topicName and appMsg are what the pointers point to; Empty for NULL.
mqttmessage_create(memory, packetId, topicName, qosValue, appMsg) ==
    IF topicName = Empty THEN {Outcome(NULL, memory)}
    ELSE UNION {IF made.result = NULL THEN {made}
                ELSE CopyTopic(made.result, made.memory, topicName, appMsg) :
            made \in create_msg_object(memory, packetId, qosValue)}

mqttmessage_destroy(memory, handle) ==
    free(memory, {memory[handle].topicName, memory[handle].appPayload, handle})

WithFlags(made, message) ==
    IF made.result = NULL THEN made
    ELSE Outcome(made.result,
            [made.memory EXCEPT ![made.result].isDuplicateMsg = message.isDuplicateMsg,
                                ![made.result].isMessageRetained = message.isMessageRetained])

mqttmessage_clone_NoFlags(memory, handle) ==
    LET message == memory[handle] IN
    mqttmessage_create(memory, message.packetId, At(message.topicName), message.qosInfo,
                       At(message.appPayload))

mqttmessage_clone_InPlace(memory, handle) ==
    LET message == memory[handle] IN
    IF message.topicName = NULL THEN malloc(memory, message)
    ELSE {WithFlags(made, message) :
            made \in mqttmessage_create(memory, message.packetId, At(message.topicName),
                                        message.qosInfo, At(message.appPayload))}

\* It copies from topicName and appPayload: there is nothing in those of a message made
\* in place, and then no clone.
mqttmessage_clone(memory, handle) ==
    LET message == memory[handle] IN
    {WithFlags(made, message) :
        made \in mqttmessage_create(memory, message.packetId, At(message.topicName),
                                    message.qosInfo, At(message.appPayload))}

mqttmessage_getTopicName(handle) ==
    IF heap[handle].topicName = NULL THEN heap[handle].const_topic_name
    ELSE heap[handle].topicName

mqttmessage_getApplicationMsg(handle) ==
    IF heap[handle].const_payload # NULL THEN heap[handle].const_payload
    ELSE heap[handle].appPayload

-----------------------------------------------------------------------------
(* The application, also inside fnMessageRecv.                             *)

\* The handle that a call returned is the application's, unless it is NULL.
Obtained(outcome, content) ==
    /\ heap' = outcome.memory
    /\ messages' = messages \cup ({outcome.result} \ {NULL})
    /\ given' = IF outcome.result = NULL THEN given ELSE [given EXCEPT ![outcome.result] = content]
    /\ UNCHANGED lent

Create ==
    /\ Cardinality(messages) < MaxMessages
    /\ \E content \in Made :
        \E outcome \in mqttmessage_create(heap, content.packetId, content.topic,
                                          content.qosInfo, content.payload) :
            Obtained(outcome, [content EXCEPT !.isDuplicateMsg = FALSE, !.isMessageRetained = FALSE])

Clone ==
    /\ Cardinality(messages) < MaxMessages
    /\ \E h \in Readable : \E outcome \in mqttmessage_clone(heap, h) : Obtained(outcome, given[h])

Destroy ==
    \E h \in messages :
        /\ heap' = mqttmessage_destroy(heap, h)
        /\ messages' = messages \ {h}
        /\ given' = [given EXCEPT ![h] = Free]
        /\ UNCHANGED lent

mqttmessage_setIsDuplicateMsg ==
    \E h \in Readable, duplicateMsg \in BOOLEAN :
        /\ heap' = [heap EXCEPT ![h].isDuplicateMsg = duplicateMsg]
        /\ given' = [given EXCEPT ![h].isDuplicateMsg = duplicateMsg]
        /\ UNCHANGED <<messages, lent>>

mqttmessage_setIsRetained ==
    \E h \in Readable, retainMsg \in BOOLEAN :
        /\ heap' = [heap EXCEPT ![h].isMessageRetained = retainMsg]
        /\ given' = [given EXCEPT ![h].isMessageRetained = retainMsg]
        /\ UNCHANGED <<messages, lent>>

-----------------------------------------------------------------------------
(***************************************************************************)
(* The decoder has a body in a buffer; ProcessPublishMessage copies the    *)
(* topic, makes a message of the copy and of the rest of the buffer, sets  *)
(* its flags and calls fnMessageRecv.  If one of them fails, what there is *)
(* is freed.                                                               *)
(***************************************************************************)
ProcessPublishMessage ==
    /\ lent = NotLent
    /\ \E content \in Made :
       \E buffer \in malloc(heap, content.payload) :
       \E topicName \in malloc(buffer.memory, content.topic) :
       \E message \in mqttmessage_create_in_place(topicName.memory, content.packetId,
                            topicName.result, content.qosInfo,
                            IF content.payload = Empty THEN NULL ELSE buffer.result) :
         IF NULL \in {buffer.result, topicName.result, message.result}
         THEN /\ heap' = free(message.memory, {buffer.result, topicName.result, message.result})
              /\ UNCHANGED <<lent, given>>
         ELSE /\ heap' = WithFlags(message, content).memory
              /\ lent' = [handle |-> message.result, topicName |-> topicName.result,
                          buffer |-> buffer.result]
              /\ given' = [given EXCEPT ![message.result] = content]
    /\ UNCHANGED messages

\* fnMessageRecv returns: the message is destroyed, then its topic and the buffer freed.
PublishReturn ==
    /\ lent # NotLent
    /\ heap' = free(mqttmessage_destroy(heap, lent.handle), {lent.topicName, lent.buffer})
    /\ lent' = NotLent
    /\ given' = [given EXCEPT ![lent.handle] = Free]
    /\ UNCHANGED messages

Next ==
    \/ Create \/ Clone \/ Destroy
    \/ mqttmessage_setIsDuplicateMsg \/ mqttmessage_setIsRetained
    \/ ProcessPublishMessage \/ PublishReturn

Spec == Init /\ [][Next]_vars

-----------------------------------------------------------------------------
\* The memory a message owns.
Owned(h) == {h, heap[h].topicName, heap[h].appPayload} \ {NULL}

(***************************************************************************)
(* SRS_MQTTMESSAGE_07_003, 07_006: whatever allocation failed on the way,  *)
(* no memory is owned twice (and so freed twice), none that is owned was   *)
(* freed, and none is allocated that nobody owns.                          *)
(***************************************************************************)
EveryBlockOwned ==
    /\ \A g, h \in Readable : g # h => Owned(g) \cap Owned(h) = {}
    /\ \A h \in Readable : Owned(h) \cap {lent.topicName, lent.buffer} = {}
    /\ (UNION {Owned(h) : h \in Readable}) \cup ({lent.topicName, lent.buffer} \ {NULL})
         = {a \in Address : heap[a] # Free}

(***************************************************************************)
(* SRS_MQTTMESSAGE_07_002, 07_008, 07_011 to 07_025: as long as it is the  *)
(* application's to read, a message reads as what it was made of or cloned *)
(* from, with the flags last set on it and not on its clones; its topic    *)
(* and payload do not change under it when other memory is freed and used  *)
(* again, nor when the callback they came with returns.                    *)
(***************************************************************************)
ReadsAsGiven ==
    \A h \in Readable :
        /\ heap[h].packetId = given[h].packetId /\ heap[h].qosInfo = given[h].qosInfo
        /\ At(mqttmessage_getTopicName(h)) = given[h].topic
        /\ At(mqttmessage_getApplicationMsg(h)) = given[h].payload
        /\ heap[h].isDuplicateMsg = given[h].isDuplicateMsg
        /\ heap[h].isMessageRetained = given[h].isMessageRetained
=============================================================================
