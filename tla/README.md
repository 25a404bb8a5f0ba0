# A TLA+ model of azure-umqtt-c

azure-umqtt-c is a small MQTT 3.1.1 client in C: one library, no threads of its
own, driven by the application that polls `mqtt_client_dowork`. This directory
models the parts of it whose order of events is hard to test, checks them with TLC
on small instances, and proves every safety property and both refinements with TLAPS,
for every value of the constants. The definitions are translated from `src/src/*.c`;
`PROJECT.json` says which lines each one stands for.

## The system

| component | state | operations | interacts with |
|---|---|---|---|
| connection life cycle (`mqtt_client.c`) | `mqtt_status` bits, `xioHandle`, `packetState`, `disconnect_cb`, cloned options | `mqtt_client_connect`, `_disconnect`, `_publish`, `_subscribe`, `_unsubscribe`, `_send_message_response`, `_dowork`, `_clear_xio`; xio callbacks `onOpenComplete`, `onBytesReceived`, `onIoError`, `sendComplete`, `on_connection_closed` | the application, by API calls and by callbacks in which it may call the API again; the xio, by calls and their later completions; the codec |
| keep-alive (`mqtt_client_dowork`) | `keepAliveInterval`, `maxPingRespTime`, `packetSendTimeMs`, `timeSincePing` | the tail of every poll, `sendPacketItem`, PINGRESP | the clock, the peer |
| packet decoder (`mqtt_codec.c`) | `currPacket`, `codecState`, `headerFlags`, `headerData`, `bufferOffset`, `storeRemainLen` | `mqtt_codec_create`, `_bytesReceived`, `_reset`, `_destroy` | `onBytesReceived` feeds it, `recvCompleteCallback` is its callback |
| packet encoders (`mqtt_codec.c`) | none | `mqtt_codec_connect`, `_publish`, ... | called by the API functions |
| packet handlers (`recvCompleteCallback`, `ProcessPublishMessage`) | none | one branch per packet type | application callbacks, `SendMessageAck`, errors |
| sessions | none in the client: which identifier stands for which message is known to the application and the broker only | publish, subscribe, the answers of the handlers, `mqtt_client_send_message_response` | the broker, by packets; the application, by events |
| messages (`mqtt_message.c`) | one message object and the blocks it owns or borrows | create, create in place, clone, destroy, accessors | the application; `ProcessPublishMessage`, which lends one |
| options, logging, tracing, sample, tests | | | |

What is hard here is not concurrency but re-entrancy and lateness. A callback of the
application runs in the middle of a library function and may call the library;
completions come when the xio is polled, for an xio that may not be the client's
any more; an error callback comes *before* the connection is closed; one field,
`packetState`, stands for "the packet whose send is completing"; the codec and most
flags outlive a connection. `PROJECT.json` lists these hazards, each at its line.

What makes each component correct:

* life cycle: no open xio is forgotten; an error closes; CONNECT goes first and
  once; session packets wait for CONNACK; a DISCONNECT goes out before a graceful
  close; the disconnect callback comes once, and after the connection is down;
* keep-alive: no false alarm, no missed alarm, no gap longer than was promised;
* decoder: the packets of the peer, whole, in order, promptly; malformed ones
  refused and nothing else; no write outside a buffer; no buffer leaked;
* encoders and readers: what is read from a packet is what it was made of;
* sessions: nothing is acknowledged that was not delivered or taken, nothing of QoS 2
  is delivered or taken twice, and flows complete while the connection lasts;
* messages: each block has one owner, also after a failure half way; a message reads
  as what it was made of as long as it may be read.

## The modules

| module | models |
|---|---|
| `MqttClient` | the life cycle, of one client over several xio instances |
| `MqttClientProofs` | its theorems: types, and which xio the client holds on to |
| `MqttConnectionProofs` | its theorems: the course of a connection, from CONNECT to the disconnect callback |
| `KeepAlive` | the keep-alive with its clock, of one client over successive connections |
| `KeepAliveProofs` | its theorems |
| `PacketStream` | abstract: what a decoder promises its caller |
| `MqttCodec` | the decoder, byte by byte; implements `PacketStream` |
| `MqttCodecProofs` | its theorems: types, bounds, buffers; that lengths are read as they were written |
| `MqttStreamProofs` | its theorems: that it implements `PacketStream` |
| `FixedHeader` | packet types, first byte, Remaining Length, as written and as read |
| `MqttPackets` | the encoders, and the readers of packet bodies, as operators on bytes |
| `MqttWire` | encoders, decoder and readers together; what a broker reads |
| `MqttWireProofs` | its theorems: what was encoded is understood |
| `Delivery` | abstract: what the three qualities of service promise of a message |
| `MqttSession` | QoS 1 and 2 flows and subscriptions between an application and a broker; implements `Delivery` |
| `MqttSessionProofs` | its theorems, the refinement among them |
| `MqttMessage` | message objects and their memory |
| `MqttMessageProofs` | its theorems |
| `MCMqttClient`, `MCKeepAlive`, `MCMqttCodec`, `MCMqttSession`, `MCMqttMessage` | the instances TLC checks |

`MqttCodec`, `MqttPackets` and `MqttSession` extend `FixedHeader`; `MqttWire` extends
`MqttCodec` and `MqttPackets`. A definition with a suffix after an underscore, next to
the one it is named after, is that definition with a slip: the "mutants" of
`PROJECT.json`, which show that a property notices it.

### MqttClient

The library is one thread, so an interleaving is a matter of who was called from
where. `stack` holds what is still to run, innermost first: the frame `"app"` is an
application callback that has not returned, every other frame the rest of a handler,
named after what it does (`"close"`: the `close_connection` that
`set_error_callback` makes after the error callback, `"pend"`: setting
`PENDING_CLOSE` after a callback, `"accept"`: setting `CLIENT_CONNECTED`, `"PUBACK"`
etc.: the answer after a packet's callback, `"bytes"`: the rest of the codec's loop
over a chunk). Each API function and each xio callback is an action that runs up to
its first application callback, and pushes what is left. The application can act
when the stack is empty or when `"app"` is on top; `MaxDepth` bounds how deep its
calls from callbacks may nest.

An xio goes `created`, `opening`, `open`, `closing`, `closed`, `destroyed`; `wire[x]`
is what `xio_send` accepted on it and `flushed[x]` how much of that has completed.
Packets are their types. Each option field is modelled by the connection that
supplied it, which is all that "the CONNECT has its own options" needs. Whether a
keep-alive deadline has passed is a choice. `AppMay` and `Faults` switch on
what an application does beyond the plain discipline, and what fails; `connack`,
`errors`, `ioerr` and `disc` are history for the properties.

Not in it: the contents of packets (in `MqttSession` and `MqttPackets`; here the
checks of body lengths are a choice between a packet and a malformed one),
`mqtt_client_deinit`, tracing, and the return value of `xio_close`, which the code
ignores. The error callback is taken to be supplied. That sends of an xio complete
in order and that it calls back only from its `xio_dowork` (or, for an immediate
close, from `xio_close`) is assumed of the xio.

### KeepAlive

One `MQTT_CLIENT`, ticks for milliseconds, with `Poll` the longest time between two
calls of `mqtt_client_dowork` and `Lag` what may pass between two readings of the
clock in one call. `mqtt_client_dowork` is two steps: `Pump`, its `xio_dowork`, which
reads what has arrived, and the check, which uses the clock read after it; or it is
`ClosePending`. A poll that sends a PINGREQ reads the clock three times, for the check, for
`packetSendTimeMs` and for `timeSincePing`, with up to `Lag` before each of the last two.
`mqtt_client_connect` takes the interval and clears `timeSincePing`; the clock goes on
until `onOpenComplete` sends the CONNECT, whose allocation, send or clock reading may fail
and then leave the times as they were. The peer answers a PINGREQ at any time or never.
Time starts at 1 because 0 in `timeSincePing` is "no ping".

### MqttCodec

`mqtt_codec_bytesReceived` is one action per byte: `ReadType` for the first byte,
`LengthRefused`, `LengthContinues`, `LengthZero` and `NewBuffer` for the
Remaining Length (`prepareheaderDataInfo`), `ReadBody`, `NoBody` and `BodyRefused`
after it. How the bytes are cut into calls makes no difference to the codec,
except that an error ends a call. A packet on the wire is its first
byte, its length bytes, and a body given by its size and first value, so that bytes
are real, lengths of several bytes are exact and large packets are cheap. With
`Resets` the caller is `onBytesReceived`: reset and close after an error; without it,
a caller that goes on, as the test
`mqtt_codec_bytesReceived_malformed_remaining_length_no_oob_fail` does. `Lose`
ends a connection at a packet boundary, or anywhere with the fault `"drop"`, and
`mqtt_client_connect` leaves the codec as it is.

`MqttCodec` implements `PacketStream` with `sent` mapped to what the packets mean
(`Meaning`: their content, or `Garbage`), `broken` to `failed`, and the bytes, the
buffer and the parser's state hidden. `Wellformed` is the reference: MQTT's first
bytes, and lengths of one to four bytes, as the comment at `mqtt_codec.c:586-588` has them
too. The code reads three (`Readable`) and refuses a fourth byte whatever its value, so
`StreamSpec` is false of a peer that sends a legal packet of 2 MB or more. Such packets
are not in the run: `MCMqttCodec` names one, `FourByteLength` (a short body under four length
bytes, which MQTT 3.1.1 does not forbid, in place of 2 MB), which `codec_stream` does not
send (see its widening below). They are not in the theorems either, where `Framed` asks
that packets be `Readable`. Nothing re-enters the codec from its callback in this module.
`Lost` counts allocated buffers that the codec does not hold; `OnlyResetLoses` says
that only `mqtt_codec_reset` adds to it.

### FixedHeader, MqttPackets, MqttWire

Bytes are numbers, a string is a sequence of them or `NULL`. Each `mqtt_codec_*`
constructor is an operator whose value is the packet: first byte, length bytes, body.
`constructConnPayload` first computes a space and then writes into it;
what it does not write is `Leftover`. A list of topics grows by one item after the other
(`addListItems`). `PublishedMessage` is `ProcessPublishMessage` up to
the message it makes, `AcknowledgedId` the reading of the other bodies. `MqttWire` sends
what the encoders build through `MqttCodec` and compares: what a broker needs
(`IsConnect`, `IsSubscribe`, `IsUnsubscribe`) is written after MQTT 3.1.1 and not after
the encoders; a PUBLISH and its answers are read by the client's own readers, which is
what happens when one client's message is passed on to another. `IsList` reads a list of
strings from the front, each after its two bytes of length, and asks that the last one
ends where the bytes do. `MAX_SEND_SIZE`, 4294967167 in the code, is the greatest number
TLC has in the runs (no payload is near either) and any number in the proofs. `Meaningful` names the requests this is promised of; it is the
hypothesis of the theorems, and `MCMqttCodec` assumes it of what `codec_stream` encodes.

### MqttSession

A connection is up or down (the life cycle is `MqttClient`'s), each direction a
sequence of packets, and both end when it does. `state` is what the application knows of
a message it publishes, `progress` what the broker knows of one it delivers. A handler
is two steps around the application's callback: `handling` holds its packet in between,
and the application may call the client then, as at any time. `chunk` holds the packets
of one `onBytesReceived`, which the codec goes through even after one of them closed the
connection. `sendPacketItem` refuses, or accepts and then fails on the clock, or
succeeds. `set_error_callback` is one step: what an application does in the error callback,
before `close_connection`, is in `MqttClient` only. The broker follows MQTT 3.1.1 (4.3, method B; 4.4) and is not code of this
repository, nor is the application, which does what the library leaves to it: it picks
identifiers that are not in use, publishes again with DUP on the next connection,
remembers the identifiers of QoS 2 it took until the PUBREL, and answers a message
either by `MQTT_CLIENT_ACK_SYNC` or later by `mqtt_client_send_message_response`, on the
same connection. There is no call to send a PUBREL again: such a message stays
"received". Each connection starts with an accepting CONNACK and the session present.

It implements `Delivery`: a message is new, open or settled by its sender (the
application for one it publishes, the broker for one it delivers), and handed over
while it is open, once unless its QoS is 1. Packets, identifiers, connections and the
client itself are hidden. `ExactlyOnce` and `ReleasedWhenTaken` follow from it; they say
the same of single states, and each is proved on its own. `Flows` is the invariant
behind all of them: for each packet identifier, which packets, callbacks and answers may
be under way, and how far the message must have got then.

### MqttMessage

A heap of addresses, where `malloc` takes the lowest that is free or fails; so a block
that is freed is used again at once, and a pointer kept too long points to something
else. An MQTT_MESSAGE, a topic and a payload are one block each.
`ProcessPublishMessage` is the handler as far as memory goes: the buffer of the codec,
the copy of the topic, the message in place, then `fnMessageRecv` with `lent`, in which
the application may read, clone, set flags and create others, then the release.

## The runs

| run | shows | instance |
|---|---|---|
| `one_shot` | TypeOK, ConnectFirst, SessionPacketsAfterConnack, DisconnectedWhenCalledBack | one xio, every fault, API calls from callbacks |
| `reconnect` | OpenIsTracked, IoErrorCloses, Tracking | two xios, one at a time, used at any time and abandoned |
| `options` | ConnectCarriesOwnOptions, GracefulClose | two xios, each with every string, that complete each send at once; API calls from callbacks |
| `liveness` | ConnectSentOrReported, DisconnectCallbackOnce, ErrorLeadsToClose, DisconnectLeadsToClose, DisconnectCallbackCalled | one xio, disciplined application, two disconnects, every fault but allocation |
| `keep_alive` | TypeOK, PingTracked, NoFalseAlarm, SilenceReported, KeepAliveKept | intervals 0, 1, 3, 5 s, two ticks per second, clock, send and allocation failures |
| `codec_stream` | Synchronized, StreamSpec, ReceivedWhenComplete, BrokerUnderstands, PublishUnderstood, OnlyResetLoses | everything `MCMqttCodec` encodes and eight hand-made packets, five of them malformed, two per connection; no legal length of four bytes; failing allocations, empty calls |
| `codec_bytes` | TypeOK, InBounds, OnlyResetLoses | stray bytes, lost connections, a caller that never resets |
| `session` | Flows, TypeOK, AckMeansDelivered, ReleasedWhenTaken, ExactlyOnce, SubackWhole, DeliverySpec, PublishCompletes, DeliveryCompletes | two messages up, three down, one identifier each way, SUBSCRIBE, UNSUBSCRIBE; two connections; every fault |
| `messages` | TypeOK, EveryBlockOwned, ReadsAsGiven | nine addresses, three messages and one lent, two contents, every allocation may fail |

The preconditions of some properties are part of what was learnt. `DisconnectCallbackOnce`
exempts connections with errors, because two packets of one chunk that each cause an
error close the connection twice, and each close calls the callback.
`ConnectCarriesOwnOptions` holds if every string is given each time
(`cloneMqttOptions` keeps the others) and `mqtt_client_connect` is not called from the
callback of a `mqtt_client_disconnect` on an idle client (which frees the options when it
continues).
`GracefulClose` holds until the first error: an error can leave `PENDING_CLOSE` set, and
`mqtt_client_dowork` then closes the next connection as soon as it is up.
`SilenceReported` holds for intervals of 3 seconds and more: with 1 or 2, a second
PINGREQ moves `timeSincePing` before the deadline passes. It and `KeepAliveKept` speak
of a connection without faults (`faulty` is history), but faults of the connections
before it count. `PublishCompletes` and `DeliveryCompletes` end with the connection.
`SubackWhole` allows for a SUBACK that is delivered in part after an error.

Three runs are expected to be violated. Each shows that the program does not do what
a line of its documentation says, which `PROJECT.json` quotes under "findings":

| run | what happens |
|---|---|
| `disconnect_lost` | a queued PUBLISH's completion is taken for the DISCONNECT's, which is then never sent |
| `stale_connected` | `CLIENT_CONNECTED` of an earlier connection: session packets before CONNACK |
| `stale_partial` | bytes of a new connection complete a packet of the lost one |

The passing runs stay inside what the code gets right. Widening one of them shows
more that a reader of the documentation would not expect:

| change | what is violated, and how |
|---|---|
| `one_shot`, AppMay with `"disconnect_opening"` | DisconnectedWhenCalledBack: the callback comes while the xio is still opening, and the connection then opens (`mqtt_client.c:1412`) |
| `reconnect`, AppMay with `"overlap"` | IoErrorCloses: a late completion of the old xio's close clears the new connection's bit, whose errors no longer close it (`mqtt_client.c:126`) |
| `liveness`, Faults with `"alloc"` | ConnectSentOrReported: no memory for the CONNECT leaves an open connection without CONNECT and without error (`mqtt_client.c:464`) |
| `codec_stream`, with the invariant `Lost = 0` | a PINGRESP with a body fails after its buffer was allocated, and the `mqtt_codec_reset` of `onBytesReceived` (`mqtt_client.c:517`) forgets the buffer (`mqtt_codec.c:619`) |
| `codec_stream`, Packets with `FourByteLength` | StreamSpec: a legal packet is refused because its Remaining Length has four bytes (`mqtt_codec.c:541`), although the comment at `mqtt_codec.c:586-588` counts up to 256 MB |
| `codec_stream`, Requests `HeadersOnly` | ReceivedWhenComplete: a complete PINGREQ or DISCONNECT never reaches the callback (`mqtt_codec.c:1162`) |
| `codec_stream`, Requests `EmptyName` | BrokerUnderstands: an empty string takes two bytes of the CONNECT that nothing writes (`mqtt_codec.c:398`) |
| `codec_stream`, Requests `Retained` | PublishUnderstood: a retained message of QoS 0 is read as QoS 2, its first two payload bytes as the identifier (`mqtt_client.c:733`; `mqtt_client_requirements.md:189` says "The msgHandle shall be the message that was sent from the MQTT endpoint to the client") |
| `keep_alive`, Intervals {3}, Poll 1, Lag 4 | SilenceReported: when two readings of the clock in one poll are more than a second apart, a second PINGREQ goes out before the first is overdue and moves `timeSincePing` (`mqtt_client.c:1479`) |
| `liveness`, with a second xio | DisconnectCallbackOnce: `disconnect_cb` is kept when its connection is down, and the close of the next one calls it again (`mqtt_client.c:127`) |
| `options`, AppMay with `"disconnect_idle"` | ConnectCarriesOwnOptions: `mqtt_client_disconnect` on an idle client calls back, the application connects in that callback, and the options just cloned are freed when it returns (`mqtt_client.c:1413`) |
| `options`, AppMay with `"disconnect_early"` | GracefulClose: `mqtt_client_disconnect` in the callback of the CONNACK finds `CLIENT_CONNECTED` not set yet and closes without a DISCONNECT (`mqtt_client.c:873`) |
| `liveness`, MaxDepth 1 and AppMay with `"disconnect_early"` | DisconnectCallbackOnce: after that same call `CLIENT_CONNECTED` is set although the connection is closed; the answer to the next packet of the chunk fails, and the close this causes calls the callback again (`mqtt_client.c:155`) |
| `session`, AppMay with `"retry"` | AckMeansDelivered: publish "fails" on the clock after the packet was accepted and is called again; the second PUBACK acknowledges the message that has the identifier by then (`mqtt_client.c:440`) |

In `MqttMessage` an application that clones the message it is lent gets NULL, always
(`mqtt_message.c:166`): `mqttmessage_clone` copies `topicName` and `appPayload`, which a
message in place does not have.

### Bounds

`MaxSends` (packets on an xio before optional sends stop) is 1 to 3: CONNECT, one
packet and DISCONNECT are enough for every confusion of completions, which need two
packets in flight. Two xios are enough for "an earlier" and "the present" connection;
the code keeps no trace of a third. `MaxDepth` 1 lets the application call the API
from a callback, and the callbacks those calls cause run but call nothing.
`MaxDisconnects` is 1, or 2 where a second callback replaces a first. `MaxTime`
20 ticks are twice the longest interval: a PINGREQ, its deadline, and a connection
after it. Two packets on a connection and any number of connections give
the decoder every pair of neighbours; `MaxBody` and `MaxBuffers` only bound what
bytes read out of place may ask for. 140 is more than the 130 bytes of
the longest body, whose length takes two bytes. In `session` one identifier per
direction makes every second message use one again; two connections are what a message
sent again and a late answer need (with three, the safety properties hold too);
`MaxChannel` stops deliveries that nobody has to make, not answers. `Workloads` names
what a session may contain, to keep publishing and subscribing from multiplying. In
`messages` nine addresses are fewer than three messages of three blocks and a lent one
with two more can fill, so that memory runs out as well. `CHECK_DEADLOCK` is off because an application
may stop, `MaxTime` ends time, and a destroyed codec does nothing.

### Fairness

`liveness` assumes that callbacks return and handlers run to their end (the code has
no loops over its own state), that the owner keeps calling `mqtt_client_dowork`, as
its contract requires, and that the xio completes opens, sends and closes: strong
fairness, because each poll of an xio serves both directions and whatever it
receives in between does not stop it. Nothing is assumed of the application's calls,
the broker or the faults. `session` assumes weak fairness of the handlers (the owner
polls, callbacks return), of the broker's reading, and of the application's deferred
answers; nobody has to publish, deliver, connect or fail. The other runs check safety and
need none.

## The proofs

`tlapm` checks them, for every value of the constants. They assume what each module
says of its constants (`ConstantsAssumption`, `SessionAssumption`,
`MessageAssumption`, `PacketsAssumption`), which is what kind of value each one is, and
where a theorem has hypotheses, they are about the application or the peer: without
them the property is false, by a run that is expected to be violated or by a
"widening" above, unless a bullet says otherwise. The bounds (`MaxSends`, `MaxTime`,
...) are constants like the others, so a theorem holds for each value of them. Every
inductive invariant was model-checked on the bounds of a run before it was proved.

### The life cycle

* `MqttClientProofs`: `TypeCorrect`, for every constant. `NoConnectionLeaks` and
  `IoErrorsClose`, for an application without `"overlap"` (with it, a late close is a
  counterexample). `OpenIsTracked` is not inductive: that an open xio is the client's
  depends on no other xio being in use, on `SOCKET_CONNECTED` not being cleared by
  a late close, and on a `close_connection` that is only half done having closed
  its xio. `Tracking` (`ConnectionsTracked`) adds exactly these, and, for `IoErrorCloses`, that a
  `close_connection` is still on the stack while an xio with an error is open. There is one
  lemma per handler.
* `MqttConnectionProofs` builds on `Tracking`. Its invariants are about few of the
  variables, so most lemmas say once for all steps which of them send a packet
  (`Senders`), move an xio (`XioSteps`) or push something on the stack, and a proof
  goes through these instead of every handler.
  * `ConnectGoesFirst`, `SessionPacketsWait`: for one connection (`OneConnection`) and an
    application that does not send before CONNACK. `Greeted` says which bits may be
    set, and what may be on the stack, before CONNECT and before CONNACK. With a second
    connection the bits are those of the first: the run `stale_connected`.
  * `ConnectOrError`: for any number of connections, no failing allocation, no
    `"overlap"`. `SocketInUse`: `SOCKET_CONNECTED` is set only while an xio is open
    or closing, so that `onOpenComplete` of the next one never finds it set. An application that
    abandons an xio without a close leaves the bit set (`"abandon"`).
  * `CallbackMeansDown`: for any number of connections, errors and callbacks. `CalledOn`:
    a disconnect call was made on an xio that had been opened. That `xioHandle` is one
    (`HandleUsed`) fails when `mqtt_client_connect` runs out of memory and keeps the
    handle; with an idle disconnect then, and a `PENDING_CLOSE` left by an earlier
    connection, TLC finds the callback coming while the xio is opening, hence the
    alternative in `NoCallTooEarly`.
  * `OwnOptionsSent`: for connections that give every string, one after the other. While an
    xio is opening, each string of `mqttOptions` is its own and nothing that would free
    it is on the stack (`OwnOptions`); for an application that connects from its callbacks
    as well, this needs that a disconnect still to finish was called with an xio in use,
    hence no `"disconnect_idle"` then.
  * `ClosesGracefully`: for any number of connections and packets, if each send
    completes at once (`SendsComplete`; with queued sends the DISCONNECT is lost, the run
    `disconnect_lost`). Until an error, a close on the stack, `PENDING_CLOSE`
    and a closed xio each mean that the DISCONNECT went out before (`EndedWhenClosing`,
    `EndedWhenPending`, `EndedWhenClosed`), and the packet that completes is the last one
    sent (`AtMostOneLeft`, `DisconnectOnWire`).
  * `CallbackOnce`: for one connection and an application that keeps to `Disciplined`.
    `Lone`: a `close_connection` to run finds the connection open; `Pumped`: inside the
    `xio_dowork` of a poll none runs on an accepted connection; `Uncalled`: no callback
    came before the xio closed.

  The last two hold for an application that calls the API from any of its callbacks, to any
  depth, but does not disconnect from that of a CONNACK (`Patient`; the widenings with
  `"disconnect_early"` show why). The stack then holds the handlers of several calls at
  once, and what is known of it is where a frame can be: the rest of a chunk and the close
  that a poll carries out are at its bottom (`Chunk`), a `close_connection` that is to
  run on an open connection is at its top, so that nothing comes before it (`Closing`),
  and a connection that was accepted is known to be up, or is about to be (`Known`).
  `QuietSteps` says what a step without an error does to the stack, and each invariant is
  proved through it.

### The keep-alive

* `KeepAliveProofs`: `TimesCorrect`, and `NoFalseAlarms` by `PingTracked`
  (`PingsTracked`):
  `timeSincePing` is never earlier than the first unanswered PINGREQ, and after the
  pump only a PINGRESP that came later can be in the socket. Holds for any intervals,
  poll, lag and faults, failing clocks included.
* `PromiseKept`, with no hypothesis, and `SilenceNoticed`, if the readings of the clock
  in one poll are at most a second apart. A bound on what has passed is not inductive
  while time passes; a bound on the `Deadline` by which the client will take its next
  step is. `Paced` bounds it by the last packet or by the moment the connection was up,
  `Patient` by the PINGREQ that waits, of which there is none while the xio opens. `Patient` needs that there is only one
  (`OnePing`): `maxPingRespTime` is less than the interval by two seconds, so the first is
  overdue before the next is due.

### The decoder

* `MqttCodecProofs`: `DecoderTypes` (with it, `storeRemainLen` never holds more than
  four bytes) and `WritesInBounds`, for every set of packets, every fault and both
  kinds of caller, by the invariant that a buffer being filled has room for one more
  byte and counts as allocated. `BuffersAccountedFor`, for the same, also for the client's
  own `onBytesReceived`, which resets after an error, and over lost connections: whatever
  is allocated and not held by `headerData` was lost by a `mqtt_codec_reset`, one buffer at
  most by each.
* `MqttStreamProofs`: `StaysSynchronized`, `CallbackAtLastByte` and the refinement
  `ImplementsStream`, for a caller that resets after an error, connections that end
  between packets (not so: the run `stale_partial`), any cuts, any failing allocations, and any
  packets that are `Framed`: each is either malformed in a way the code notices, or
  `Readable`, with a body unless it is a PINGRESP. What is left out by that is well formed
  but refused (`FourByteLength`), or what the code does not detect or does not deliver,
  such as PINGREQ (see the widening `HeadersOnly`). `Synchronized` is
  the invariant: `read`, the number of bytes taken, says in which packet and at which
  byte of it the parser is, and with that what each of its fields must be. `EncodersFrame`: what the
  encoders put in front of a body of less than 2 MB is `Readable`.
* `LengthRoundTrip` (`MqttCodecProofs`): for every length below 2 MB, what
  `constructFixedHeader` writes is a Remaining Length that ends where it should, and
  `prepareheaderDataInfo` reads the length from it. A number is the sum of its digits in
  base 128 (`PlacesSum`), and a digit is not changed by the continuation bit
  (`DigitsOfLength`). The run `codec_stream` has lengths of one and two bytes.

### What is in the packets

* `MqttWireProofs`: `UnderstoodByBroker` and `UnderstoodByClient`, for all requests that are
  `Meaningful` (no string of a CONNECT is empty; a PUBLISH of QoS 0 has neither DUP nor
  RETAIN, one of another QoS has an identifier other than 0), strings, payloads and lists of
  any length, and under the three hypotheses of `StaysSynchronized` (`Framed` among them:
  packets of less than 2 MB).
  Without `Meaningful` they are false: the widenings `EmptyName` and `Retained`.
  `EncodedIsFramed` says that the packets of such requests, below 2 MB, are `Readable` and
  have a body, as `Framed` asks of the peer's packets.
  * `ReceivedAsSent`, which is inductive with `Synchronized`, takes the packet from the
    encoder to the callback: what was received is the `Content` of what was sent, and that
    was well formed. The rest is about the bytes of one body, without a state.
  * Where a list of strings ends depends on the bytes before: `IsList` and `addListItems`
    are defined by recursion over them. `Cuts` says without recursion where each string
    begins and ends; `OneMore` adds a string behind a list, `ListItems` and `ConnectPayload`
    put a list together with it, and `CutsAreUnique` shows that the broker cuts where the
    encoder did. The two inductions are `SetInduction`, on a set of numbers instead of a
    predicate, which follows from `WFMin`: a least number that is not in the set has a
    predecessor that is.
  * A CONNECT needs, on top, that its flags have one bit or digit each (`FlagDigits`), that
    a will has both its strings or none (`WrittenInOrder`: otherwise `HasWill` would skip
    one, and the call is refused), and that the space reserved is just what is written.

### Sessions

* `MqttSessionProofs`: any messages, identifiers, connections, faults and length of the channels.
  `OnePacketAtATime` proves `Typed /\ Flows` inductive. `UpFlow` and `DownFlow` say, for each packet
  that may be under way (to the broker, from it, in `chunk`, in a handler or its
  callback, or owed by the application), how far the flow of its message has got, and
  that no two of them belong to one flow; `RequestFlow` is the same for SUBSCRIBE and
  UNSUBSCRIBE. It is what makes it safe to use an identifier again: a late packet for it
  cannot exist. `Acknowledgements`, `Releases`, `OnceExactly`, `QosReturnWhole` and
  `TypeCorrect` follow, and so does the refinement `ImplementsDelivery`: the
  stage of each message is a function of `state` and `progress`, and each handler and
  each step of the broker moves it as `Delivery` allows or not at all.
* What is published needs one hypothesis, `Careful`: an application that publishes again
  on the same connection does so where the clock cannot fail (`"retry" \in AppMay =>
  "clock" \notin Faults`; otherwise an acknowledgement can go to the wrong message, see
  `"retry"`). The invariant has a third part for it, `NotSent`: for a message whose
  `mqtt_client_publish` failed, no packet with its identifier is under way. A failing
  clock breaks it, because `sendPacketItem` then takes what was sent for a failure;
  `FailedMeansNotSent` says that nothing else does, neither a full socket nor a failed
  allocation nor an identifier used again.
* What is received needs no hypothesis: `ReceivingOneAtATime` proves `Typed`, `DownFlow`
  and `RequestFlow` inductive without `UpFlow`, and `TypeCorrect`, `Releases` and
  `QosReturnWhole` follow for any application and any faults.

### Messages

* `MqttMessageProofs`: `MessagesSound` proves `Whole`, `Apart` and `NoneLost` together:
  each message consists of blocks that hold what it was given, no two share one, and
  nothing else is allocated. For any size of memory, any contents and any failing
  allocations. `MessageMemory`, `MessageContents` and `MessageTypes` follow. The lemmas are about what
  an allocation, a release and an assignment through a pointer do to the blocks of
  the other messages.

### Not proved

Only model-checked: the liveness properties (`ErrorLeadsToClose`,
`DisconnectLeadsToClose`, `DisconnectCallbackCalled`, `PublishCompletes`,
`DeliveryCompletes`), because ENABLED and fairness are out of the prover's reach. No
module that is proved about declares a RECURSIVE operator: recursion is in functions
(`IsList`, `addListItems`) or unrolled (`TotalLen` is a sum of three digits, not a loop).

## Plan

Done: the life cycle, the keep-alive, the decoder with its abstract specification,
the packets, the sessions, the messages, and the proof of every safety property, that of
the life cycle also for an application that calls the API from its callbacks. What is
left needs the code of other repositories or a model of bytes in memory: see below.

## Not modelled

* `mqtt_client_deinit`: the end of a history of `MqttClient`; an xio that is still open
  then would call back into freed memory, and belongs to the application.
* `mqttmessage_getTopicLevels`: it calls `StringToken_Split`, which the repository does
  not contain.
* A codec that is entered again from its own callback, by an application that polls
  there: `mqtt_codec_bytesReceived` then runs inside itself, on the state of the packet it
  is just delivering.
* Memory inside a buffer of the encoders, and so a CONNECT without clientId
  (`mqtt_codec.c:447`), or one that is larger than `remainSize` has room for
  (`mqtt_codec.c:354`).
* Logging and tracing, which change nothing else; the sample, which is one application;
  the tests, which were read for what they assert.
