# A TLA+ model of the Aliot SDK's C agents

The repository holds agents for the Datonis IoT platform. Most of its files are
vendored (FreeRTOS, lwIP, vendor SDKs with their headers, Arduino libraries). Its
own core is the C library under `src/c/linux`: an MQTT client, a gateway that
sends JSON over it and waits for the platform's acknowledgements, and the packet,
JSON and compression code they use. Two more agents have state of their own: the
gateway of the Linkit 7681, which lives inside the callbacks of a small TCP stack,
and the Connected Maraca, whose two threads share a variable. This directory
models all three and what they rely on. `PROJECT.json` lists, for every
definition, the lines it stands for, and every run, mutant, hazard, finding and
theorem.

## Inventory

| Component | State it keeps | Operations | Interacts with |
| --- | --- | --- | --- |
| **MQTT client** `Aliot/MQTTClient.c` | next packet id, `isconnected`, ping timer and `ping_outstanding`, 5 handler slots, 20 ids of QoS 2 messages being received, one write and one read buffer, the C stack | connect, subscribe, unsubscribe, publish, disconnect, yield; all but disconnect run `cycle()`, which reads a packet, answers it and calls handlers | network (blocking calls), handlers (callbacks that call the client again), broker |
| **Broker** (not in the repository) | session, subscriptions, messages in flight | what MQTT 3.1 with a clean session asks of a server | client |
| **Linux network and timers** `Implementation/MQTTLinux.c` | a socket, timers | read and write with a timeout, expired, countdown | client |
| **Datonis gateway over MQTT** `Aliot/aliotgateway_mqtt.c` | two globals with the last ack's code and context, the registered things, the client | connect, register_thing, transmit_*, yield; handlers for acks and instructions | client, platform, application |
| **Datonis gateway over HTTP** `Aliot/aliotgateway_http.c` | none between calls | one request per call | libcurl |
| **JSON** `Aliot/aliotutil.c`, `jsonutils.c` | none | building JSON, walking token trees (`ack_handler`, `json_handler`) | gateways |
| **LZF framing** `Aliot/LZFcompress.c` | none | splits the input into blocks and compresses each | gateways |
| **MQTT packet codec** `MQTTPacket/src` | none (the non-blocking reader: a transport record) | serialise, deserialise, lengths | client |
| **Sample applications** | none | register, send in a loop, feedback from the instruction handler | gateways |
| **Datonis SDK for Marvell** | a copy of the library over another port of the network | as the library | as the library |
| **Connected Maraca** `connected_maraca/src/main.c` | `device_state` and `mqtt_client`, shared by the application thread and the Wi-Fi event callbacks | reconnects to the cloud when the link comes back | AWS client, Wi-Fi station |
| **Linkit 7681 gateway** `cust/linux/Aliot/aliotgateway_http.c`, `cust/tcpip/iot_tcp_app.c`, `tcpip_main.c` | a buffer for one request, a flag "ready", the port of the connection, `cli_fd` | `encode_and_send_data` fills the buffer and opens connections, callbacks of uIP empty it and notice closings; start and timers of the stack | uIP, platform, IoT server |
| **uIP TCP connections** `cust/tcpip/uip.c` | the connection table | input, periodic timer, `uip_connect`, `uip_send` | the gateway's callbacks, the network |

What is hard in it, and therefore what the properties are about:

* **Everything re-enters.** A handler called inside `cycle()` may publish and
  yield, which runs `cycle()` again, on the same read buffer, the same handler
  loop and the same globals. Acks are then read by the wrong loop, `topicName`
  points at another packet, and two sends share two globals.
* **Acks are matched loosely.** `waitfor` compares packet types; the gateway
  compares what the last ack left in the globals. Late acks, acks of calls that
  gave up and acks that come twice must not end someone else's call.
* **Exactly-once delivery** rests on a table of packet ids with 20 slots, which
  must survive lost, short and repeated packets and must not leak.
* **Time.** Every call has a timer, and timers go on while handlers run. A call
  must return, whether its answer comes, comes late, or never comes.
* **Partial failure.** `linux_write` may write a part of a packet, and
  `sendPacket` then writes too much; it blocks while the peer does not read; a
  connection may break at any moment.
* **Arrays without a look at their length.** `registered_things`, and those
  `LZFcompress_data` fills.
* **Two views of one connection.** The Linkit gateway's flag and the stack's
  table, or the Maraca's `device_state` and its AWS client, must agree in the end,
  although each learns of the other only by a callback or by polling.
* **Reading with one number.** The JSON walkers remember in one `state` what the
  next value means, in whatever order and nesting the members come.

## The modules

| Module | What it is |
| --- | --- |
| `MqttLink` | packets and the two FIFO directions of one TCP connection |
| `MqttClient` | `MQTTClient.c`: one action per entry point, per branch of `cycle()`, and per way a loop ends |
| `MqttBroker` | the external broker |
| `QosContract` | what the QoS of a message promises the end that receives it |
| `MqttSystem` | client and broker composed, a reconnection (`connect_datonis`), fairness, the properties; it implements `QosContract` |
| `MCMqttSystem` | topics, messages and symmetry for TLC |
| `MqttSystemProofs`, `MqttAckProofs`, `MqttLossProofs` | the theorems about `MqttSystem`, each module over the one before: types, the table of QoS 2 ids and exactly-once; acknowledgements and pings; lost messages, leaked ids and the refinement of `QosContract` |
| `Gateway` | `aliotgateway_mqtt.c` above an abstract MQTT client, with the platform |
| `MCGateway` | symmetry for TLC |
| `GatewayProofs` | the theorems about `Gateway` |
| `PacketPipe` | what one direction of a connection promises: packets come whole, in order, once |
| `Transport` | `sendPacket` and `readPacket` on bytes, which implement it until a read times out inside a packet |
| `MCTransport` | bodies and frames for TLC |
| `TransportProofs` | the theorems about `Transport`: types, `sendPacket`, and that it implements `PacketPipe` |
| `Uip` | a connection of `uip.c` and what `_uip_process()` makes of it, as operators |
| `Linkit` | the Linkit gateway over `Uip`'s table, the network and the platform |
| `MCLinkit` | ports for TLC |
| `LinkitProofs` | the theorems about `Linkit`: types, what the gateway believes, what the platform receives |
| `Maraca` | the Maraca's thread and callbacks over `device_state` |
| `MaracaProofs` | the theorems about `Maraca` |
| `Json` | `parse_http_ack` and `parse_instruction_json` |
| `JsonBuild` | the `get_..._json` functions and the signature |
| `Codec` | remaining lengths, `MQTTPacket_len`, `isTopicMatched` |
| `Lzf` | the frames of `LZFcompress_data` |
| `Wire` | the last two on one input at a time, with their reference definitions |
| `WireProofs` | the theorems about `Wire` |
| `Formats` | `Json` and `JsonBuild` likewise, beside `Wire`'s inputs |
| `MCFormats` | lengths, topics and texts for TLC |

### Client and broker

The client is single-threaded, but its calls nest, so the C call stack is the
variable `stack`. A *wait frame* is a `waitfor()` or `MQTTYield()` that has not
returned: the ack type it returns on (`await`), the packet id of its request,
whether its timer has expired. A *deliver frame* is a `cycle()` inside
`deliverMessage`: its packet, the next handler slot to try, whether a handler is
running. Only the top frame runs; every frame's timer may expire at any time.

| Code | Model |
| --- | --- |
| `MQTTConnect`, `MQTTSubscribe`, `MQTTUnsubscribe`, `MQTTPublish`, `MQTTDisconnect`: checks, packet id, `sendPacket` | the actions of that name, over `Request` |
| `MQTTYield` | pushes a wait frame that awaits no ack |
| the ack of the top call: `waitfor` returns, the rest of the call runs | `CompleteConnect`, `CompleteSubscribe`, `CompleteOther` |
| any other ack | `DropAck` |
| `cycle()`'s branches for PUBREC, PUBREL, PINGRESP | `ReadPubrec`, `ReadPubrel`, `ReadPingresp` |
| PUBLISH: the table, then `deliverMessage` | `ReadPublish`, then `CallHandler` per matching slot, `HandlerReturns`, and `AcknowledgePublish` with the ack |
| `isQoS2msgidFree`, `useQoS2msgid`, `freeQoS2msgid` | the operators of that name on `incoming_qos2_messages` |
| `readPacket` giving up; `expired(timer)` ending a loop | `CycleIdle`, `TimerExpires`, `WaitEnds` |
| `keepalive` at the end of `cycle()` | part of each action that models such a `cycle()` |
| `NewNetwork`, `ConnectNetwork`, `MQTTClient()` of `connect_datonis` | `NewConnection`, in `MqttSystem` together with the broker's new session |

`sendPacket` takes the outcome of the write from `WriteOutcomes`: the packet is
*sent*; *nothing* is written; a *partial* packet is (the broker sees garbage and
closes); or it *overruns*: after a short write the loop passes the length of the
whole packet again, so the packet and then foreign bytes are on the wire while the
call fails. `stalled` is a peer that keeps the connection open and does not read
(`PeerStalls`, `PeerReads`). `linux_write` sets `SO_RCVTIMEO` where `SO_SNDTIMEO` is meant
(`MQTTLinux.c:99`), so a `write()` to such a peer has no time limit, and the timer of
`sendPacket` is looked at only between writes: while `stalled`, a step that writes is not
possible, unless its timer has expired before the first `write()`. `Heard` says that neither a closed connection nor garbage separates
the client from the broker. Two invariants are stated under it, because what the
client writes afterwards reaches no one.

`readbuf` is the message of the last PUBLISH read, and the only thing that
remembers a nested read: `SeenTopic` is what the handler loop's comparison sees
afterwards: the other packet's topic if the lengths agree, nothing otherwise.
A handler's topic is in `ReentrantTopics` if its handler calls the client, which
it does at most `HandlerCalls` times per invocation.

The history variables (`accepted`, `handled`, `overflowed`, `unheard`, `orphaned`,
and the broker's `acked`, `retried` and `reused`) influence no step. `retried` are the
packet ids of this connection under which the broker has sent something twice,
`reused` those of them that it then gave to another message. They mark the limit of
what a client that compares ids only can do: the PUBACK, PUBREC or PUBCOMP for the
second copy may arrive when the id belongs to the next message, and the broker takes
it for that message's. `NoLoss` and `NoSlotLeak` therefore leave the ids of `reused`
out, and only those.

### Gateway

`encode_and_send_data` is `Send` (up to the write of the PUBLISH), `PublishReturns`
or `PublishFails`, and the ack loop `GotAck`/`NoAckYet`; `register_thing` goes on
with `EnterThing` and `SubscribeReturns`. Its MQTT client is abstract: while one of its calls is on
the stack, it may deliver an ack (`HttpAck`, also twice: QoS 1) or an instruction
(`Instruction`). An instruction's handler may send, and so re-enters the loop on
the same two globals. A call of the client may also hang, for a while or for ever
(`Hangs`, `GoesOn`): in a `write()` to a peer that does not read, or in a read after the
peer has closed the connection. The platform answers each JSON it gets with a code or with
`PARSE_ERROR`; messages and acks may be lost.

`disconnect_datonis` ends the session between two calls: what was under way in either
direction is lost, and a later connect starts anew.

`register_thing` writes `registered_things[registered_thing_counter++]` with no look at
the array's length, and `connect_datonis` does not empty the array. What lies behind
it is the build's choice, so `EnterThing` leaves three outcomes: nothing that
matters is overwritten, the counter itself is (by half of a pointer, one of `PointerHalves`), or
the process crashes. From then on `handle_instruction` takes what is there for
pointers: it finds the thing any number of times (`Found`) or crashes (`ReadsWild`).
`process` says whether the program runs, hangs or has crashed.

A JSON is its hash. `answer`, `heard` and `masked` are history: the platform's ack
of a JSON, the sends whose ack came while they were under way, and of these the
ones whose ack the globals no longer hold.

### Transport

`MqttClient` takes two things for granted, which `Transport` examines: what a
`sendPacket` may have written when it fails, and that packets are read whole. A
connection is two sequences of bytes. `sendPacket` starts a write, `linux_write(k)`
is one turn of its loop in which `write()` takes `k` bytes (of the whole length,
also from the middle of the buffer), `SendReturns` ends it, and neither need ever
happen, since a `write()` may block. `readPacket` is
`ReadHeader`, one `ReadLength` per turn of `decodePacket`, and `ReadBody(k)` per
`recv()` of `k` bytes; `LengthTimesOut` and `BodyTimesOut` are `recv()` giving up
inside a packet, after which the reader is out of step with the stream and may
take any byte for a header. The base of the length digits is a constant.

### Linkit

One thread, `wifiTASK_LowPrioTask`, receives segments, runs the timers and calls the
application in turn, so every action is one turn. Input is one action for each way
`_uip_process()` deals with a segment (`ReceiveRst`, `ReceiveOutOfSequence`,
`ReceiveSynAck`, ...), with the callbacks it makes (`iot_tcp_appcall`) as a part of it;
the periodic timer of a connection is `TimedOut`, `Retransmit` or `Poll`, the last with
`SendData`. `Post` is `encode_and_send_data`, `tcpip_init` and `iot_linkdown` the stack's
restart with the Wi-Fi link, `CliTimer` the connection to the IoT server.

Lengths are units: a SYN, a FIN and a message take one sequence number each. A
message is what uIP sends of a request: of one longer than the peer's window or mss
`uip.c:1739` sends, and retransmits, the beginning only, and the rest is gone. Numbers start at 0 in every connection, so that old segments can hit new ones only where a port comes again; ports
do not, for `app_init_connection` takes them from the clock. There are two
environments, chosen once. With the *platform*, the network keeps every segment ever
sent and delivers any of them at any time, any number of times or never, and the
other end is any TCP that accepts, refuses, answers, closes, resets or falls silent.
With *anyone*, three kinds of connections compete for the table and the peers send
any segment at any time.

`sent` and `lost` are history: the requests given to `uip_send`, and how the
connection was lost without `ReadyFlag` being reset.

### Maraca

`pc` is where `connected_maraca` is, `callback` how far the callback that is running
has come. The places are those between two accesses to `device_state` or
`mqtt_client`, so the threads interleave as the code lets them; `Test` and `Assign`
are two steps, and so are a disconnect and the assignment behind it. `renewed` and
`causes` are history.

### Formats and Wire

The one variable, `input`, is an arbitrary input, and the properties compare the
code's function with a reference on it. `Wire` has the functions on numbers and
characters; `Formats` extends it with those on JSON, which are recursive operators and
therefore apart from what is proved. A run of `FormatsSpec` takes the inputs of both.

In `Formats` a text is a sequence of names, primitives and punctuation, a JSON is a
tree, and `TextOf` is what its text should be. `ack_handler` and `json_handler` walk
the tokens of a text with their `state`; the builders append to a buffer as the code
does.

In `Wire` topics are strings of characters, and their reference is a sequence of
levels (`Joined` writes its string, `Matches` compares level by level). `Lzf` has
lengths only: the compressor answers 0 or any length up to the room it was given.
Texts are of any length, as `LZFcompress_data` looks at none; of a text of exactly a
block, whose loop does not end, `LZFcompress_data` stands for the first turn (`Ends`).
A loop is a recursive function of its counter: `Curn` is where the walk over the
topic's name is at each position of the filter, `Added` what `MQTTPacket_decode` adds from
each byte on. `BLOCKSIZE` is a constant because `LZFcompress.h` asks implementers to
choose it.

## The runs

| Run | Shows |
| --- | --- |
| `qos2` | `SlotsDistinct`, `Qos2AtMostOnce`, `NoSlotLeak`, `NoLoss`: the QoS 2 handshake of three messages over three packet ids and a table with room for two, with a retransmission at any point, writes that fail or overrun, broken connections and a reconnection; `KeepsContract`: client and broker implement `QosContract` (here for QoS 2, in the proof for every QoS) |
| `commands` | `TypeOK`, `AckIsOurs`, `OnePing`, `NoLoss`: all requests of the application, a QoS 1 message, refusals, time-outs, short writes, packet ids that wrap after 2, pings |
| `reentrant` | `Qos2AtMostOnce`, `NoSlotLeak`, `NoLoss`, `AckIsOurs` with a handler that publishes and yields, two topics and two handlers, calls nested four deep, a peer that stops reading at any moment; and `CallsReturn`: every call returns while the connection is open, unless the peer stops reading for ever |
| `gateway` | `TypeOK`, `AnswerIsOurs`, `RegisteredWasAccepted`, `TimeoutExplained`: two registrations, of which the second overruns an array of one entry, a send, an instruction, a reconnection |
| `gateway_progress` | `SendReturns`: no send waits for ever, neither the application's nor the one a handler makes inside it, unless a call of the client hangs for ever |
| `transport` | `TypeOK`, `SendOutcome`, `InOrder` (`Transport` implements `PacketPipe` as long as no read has timed out inside a packet), `AllReceived`: every packet is read, unless a read times out inside one or a send never returns |
| `linkit` | `TypeOK`; `ReceivedInOrder`, `DeliveredWasReceived`: what the platform gets is what was sent, once and in order, and what the stack no longer keeps has arrived; `StuckExplained`: the gateway believes in a connection it has not got only after a time-out or with a full table; `CliFdLive`, `SlotsReleased`, `BufferedIsSent` |
| `maraca` | `TypeOK`, `ThreadOnce`, `OfflineExplained` and `CloudComesBack`: while the link is up the cloud connection is or comes up, but for four causes: the thread ended, it was never created, its store overwrote a callback's, or the cloud dropped a connection whose link stayed |
| `formats` | `AckRead`, `InstructionRead`, `RequestIsJson`: the globals an ack leaves, the instruction that is handed on and the request that is built are those a JSON reader or writer would make; `LengthIsEnough`: a packet that passes its serializer's test is not longer than the send buffer, and the length written is the length read; `TopicsMatch`: the walk over two strings decides what a comparison level by level does; `FramesFit`: the frames of a compressed text add up to it, and those of a text shorter than `BLOCKSIZE` fit into the arrays |
| `yield_returns`, `unsuback_id`, `parse_error` | violations, see *Findings* |

Bounds. Two slots and three ids are the least with which ids can come, go and
come again in another order while a slot is taken, and the third message finds the
table full (20 slots in the code). The safety properties are also proved for any sizes.
Two packet ids make the client's ids wrap within five calls. Four frames are
the application's call, the delivery that interrupts it, the handler's call and a
delivery in it: the deepest nesting in which one handler's read overwrites what
another's loop is comparing. One retransmission is enough to come late at every
point of a handshake, and the broker may always reuse an id afterwards. Two
retries in the gateway (5000 in the code) let an ack come before, between and after
the tests; one entry for things (10 in the code) and two registrations, in one connection or two,
overrun the array, and the counter then becomes a negative number or a large one.
`gateway_progress` has one registration, so that the thing has a handler, and two more
sends: the application's, and within it the handler's, or the other way round. In `transport` the base is 2 and a length has at most two digits, so
bodies of 0 to 3 bytes have all lengths there are; two packets let the second be
read out of step with the first, and the longer frame is written in every split.
`reentrant` has two messages of QoS 2, one on each topic, one slot, two of the broker's ids
and one retransmission, and no pings (`commands` has them), for their timers would
double every state. It is the only one with `Stalls`: a peer that
does not read only keeps steps from happening, so the others lose no behaviour without it.
In `linkit` two slots are fewer than the three users of the table, so it gets full; one
retransmission (8 and 5 in the code) separates "again" from "given up"; two ports are a
connection and its successor; two requests fill the buffer while one is under way;
one response is enough for data that comes between, before and after acknowledgements.
`maraca` has no bounds. `formats` takes all orders of the members of a message, nested
twice; up to three events per bulk; lengths within 2 of each boundary of
`MQTTPacket_encode` and of MQTT's limit; three levels of topics, with a word that begins
another; and, with the `BLOCKSIZE` of `LZFcompress.h` (8191), up to three chunks with each of
the compressor's answers "no", least and most, some of them longer than a block.
`SYMMETRY` permutes the messages of `qos2`, which share topic and QoS,
and the registrations of `gateway`; the liveness runs use none.
`CHECK_DEADLOCK FALSE`: with its bounded calls used up the application stops.

Fairness. `MqttSystem!Fairness` is about the steps between two reads (`Delivers`), the
return of a handler, the end of a loop whose timer has expired, and a read giving
up after its timeout: the code between two blocking calls is sequential, and a
blocked read ends by `SO_RCVTIMEO`. A blocked `write()` does not end by itself: it goes
on when the peer reads. So these steps are strongly fair while the peer reads (`Unblocked`): they
are taken if the peer reads again and again, and nothing says that it does; `CallsReturn` has
the exception `<>[]stalled`. `CycleIdle`
is enabled only while the connection is open, or as long as there is something to
read: at the end of the stream `linux_read` tries again without end. Nothing
is assumed of the broker, of acks, or of a handler's willingness to call the client.
In `Gateway` strong fairness of `Returns` stands for `CallsReturn`: a client's call that is not
hanging again and again returns. Nothing says that one that hangs goes on, and
`SendReturns` excepts one that hangs for ever, and a process that the overrun array has ended.
In `Transport` only `Reads` are weakly fair: the application goes on calling `MQTTYield`.
Nothing says that `sendPacket` returns, and `AllReceived` excepts a send that never does.
In `Linkit` the thread's loop runs each connection's timer again and again, and
`tcpip_init` when it is due; nothing is assumed of the network, the peers or the
application. In `Maraca` both threads are scheduled and calls of the AWS client return;
nothing is assumed of the station and the cloud.

Every property of a passing run has a mutant: an operator marked "Slip" beside the
definition it replaces, with which TLC finds the property violated.

## Findings

* `yield_returns`: on a connection closed by the peer `MQTTYield` does not return
  (`MQTTLinux.c:76-86`), while `aliotgateway_mqtt.c:22-24` counts on 50 seconds at most.
* `unsuback_id`: `MQTTUnsubscribe` succeeds on the late UNSUBACK of an earlier call;
  `MQTTClient.c:487` says the id "should be the same as the packetid above".
* `parse_error`: an ack `PARSE_ERROR` ends whatever send is waiting;
  `aliotgateway_mqtt.c:153` calls it "the expected acknowledge for THE MESSAGE WE SENT".

Other behaviours a reader should know of contradict nothing the repository says, and
properties name them instead. A send times out although its ack was
delivered during its `MQTTPublish`, as the code is reset only afterwards
(`TimeoutExplained`). The Linkit gateway is stuck after a connection has timed out,
until the Wi-Fi link goes down (`StuckExplained`), and drops a request that finds the
buffer in use. The Maraca stays off the cloud if its first attempt to associate fails
(`OfflineExplained`). A call of the client lasts as long as its peer keeps the
connection and does not read (`CallsReturn`, `SendReturns`, `AllReceived`). The
eleventh accepted registration, counted over all connections, is written behind
`registered_things` (`RegisteredWasAccepted`). `LZFcompress_data` does not return for a text of
exactly `BLOCKSIZE` bytes, and overruns arrays for longer ones (`FramesFit`).

## What is proved

For all values of the constants that satisfy the assumptions of the modules, which are
the only assumptions there are. In every proof a first part names an inductive invariant,
one lemma per action shows what it keeps, and the theorem puts them together. What
the induction needs beyond the property is said here.

`MqttSystemProofs`:

* `TypeCorrect`: `Spec => []TypeOK`. `TypeOK` is inductive as it stands, for two
  of its clauses say more than types: a wait frame of a subscription carries a
  topic, which goes into `messageHandlers` later, and while a `cycle()` is inside
  `deliverMessage` `readbuf` holds a message, since `CallHandler` looks up its
  topic. What each direction may carry is typed likewise (`UpPacket`,
  `DownPacket`): a SUBSCRIBE names a topic, a PUBLISH for the client a message.
* `SlotsDistinctHolds`. Inductive with `TypeOK`: a slot is filled only with an id
  that is in no slot (`isQoS2msgidFree`) and is not 0, and emptied otherwise.
* `Qos2AtMostOnceHolds`. `OnceInv` looks at the *copies* of a message: those in
  the stream to the client and, at the place after the last, the one the broker may
  still send. All copies carry one id, which is not 0; no PUBREL with that id
  stands between two of them; and once the message has been delivered the id is
  in the table and no PUBREL stands before the copies left. So every copy that is
  read finds its id recorded.

`MqttAckProofs`:

* `OnePingHolds`. `PingInv`: while the broker reads what the client writes (`Heard`), of
  PINGREQs on their way up and PINGRESPs on their way down there is one at most, and
  there is one exactly if `ping_outstanding`.
* `AckIsOursHolds`. `AckInv`, for each type of ack no call has left to come
  (`orphaned`): at most one frame of the stack waits for it, at most one packet that
  leads to it is under way, and that carries the id of the frame.

`MqttLossProofs`:

* `NoSlotLeakHolds` and `NoLossHolds`, both from `LossInv`, which follows a
  message of the broker under an id that it has not, after a retransmission, used for another (`reused`):
  from `inflight` through the stream, the frame of the `cycle()` that holds it, and
  the stream of acks. `PipeOf`: unless the broker has retransmitted there is one packet of the
  handshake under way, and it is the one that belongs to the phase the broker is in; an
  ack stands only behind a message that was taken (`AnsweredDone`). `TableOf`: what
  the table holds follows the phase (`SlotTaken`, `CyclesDone`), provided every
  packet the client was given to send was sent (`Heard`). For `NoLoss` also
  `SubscribeInv`: a topic the broker serves has its handler or will have it before
  the message is read. It speaks of the topics of messages in flight beside those subscribed,
  since the broker may repeat a message after its topic was unsubscribed.
* `KeepsContractHolds`: `Spec => KeepsContract`, that is, `MqttSystem` implements
  `QosContract`, with `unsent`, `accepted`, `overflowed` and `acked` for its variables. Each
  action is one of the contract's or leaves these alone: what is read next is a
  `Deliver`, a `Refuse` or nothing, the answer the broker reads a `Settle`. That their guards hold
  takes `Qos2AtMostOnce`, `LossInv` and `ContractInv`: what the client has recorded, is about to deliver
  or has answered, under an id not in `reused`, was taken (`TakenOf`); nothing exists of a message
  not yet sent (`NotYet`); one of QoS 0 is sent once and not delivered while it is under way
  (`AtMostOnce`); and an open id is for a message that gets an answer (`Graded`).
  The contract lets QoS 1 be delivered again, and promises nothing of when.

`GatewayProofs`:

* `GatewayTypeCorrect`: `Spec => []TypeOK`, inductive with `FramesHaveHash`: a
  frame of `encode_and_send_data` carries the hash it waits for. The type of
  `registered_thing_counter` is `Int`: no bound on it holds in the code.
* `AnswerIsOursHolds`. The loop looks only at the globals, so the property needs to
  know what they hold. `AnswerInv` adds: a JSON is answered
  once, and only after it was sent (`Fresh`); every ack under way is the answer
  to the JSON it names (`AcksTrue`); and so is what the globals hold, as long as
  the code is not 408 (`GlobalsTrue`), however late it came, how often, and inside
  which call.
* `TimeoutExplainedHolds`. `FoundInv`: every send under way has one frame
  (`FramesMatch`), and an ack that was heard and not masked is the one the globals
  hold (`HeardIsHeld`), so the test at the end of a turn of the loop finds it.
* `RegisteredWasAcceptedHolds`. `CounterInv`: `registered_thing_counter` is at most the
  number of registrations whose send ended with success, which `AnswerInv` turns
  into those the platform accepted, and the process has not crashed, unless these
  sends are more than `MaxThings`. Their number never falls, so the exception, once it
  applies, stays.

`TransportProofs`:

* `SendOutcomeHolds`. `SendInv`: what has been written is the beginning of the
  buffer and shorter than twice the packet.
* `TransportTypeCorrect`: `Spec => []TypeOK`. `ReadTypeOK` adds for each phase of `readPacket`
  what its counters may be, which keeps what has been read of a body within the length.
* `InOrderHolds`: `Spec => InOrder`, that is, `Transport` implements `PacketPipe` until a read
  has timed out inside a packet. Until then the reader is `Between` two packets, and the
  stream is the frames of those not received, in order (`Follows`); or it is `Inside`
  one, and what it has taken and what is left in the stream make up that packet: its digits so far and
  the value of those to come add up to the length of the body (`InLength`), then its bytes
  make up the body (`InBody`). That `encode` is what its recursion says, for any base, is
  proved by complete induction on the length. `LengthsFit` limits bodies to the lengths that
  four digits express.

`MaracaProofs`:

* `MaracaTypeCorrect`, `ThreadOnceHolds` (a step property) and `OfflineExplainedHolds`. `Inv`
  says what `device_state` stands for at every point of the two threads: which callbacks
  run with the link up (`LinkOfCallback`), when it is 0 (`ZeroMeansNone`) or
  `AWS_RECONNECTED` (`ReconnectedWhen`), what the loop knows between its test and its
  store (`StoreIsFresh`), that a failed or ended start has its cause (`NotStarted`, `Ended`), and
  that a loop without a connection has been told to reconnect or is about to be (`WillBeTold`).

`LinkitProofs`:

* `LinkitTypeCorrect`: with the types of records of the table, their ports and the
  states each environment allows.
* `StuckExplainedHolds` and `CliFdLiveHolds`. `Live`: unless a connection was lost in one of
  the two ways the code does not notice, an application whose `ReadyFlag` is set has a
  connection on its port; and `cli_fd` names a connection that is up.
  Every change of a record is shown to keep it up or to tell the callback.

* `ReceivedInOrderHolds` and `DeliveredWasReceivedHolds`: uIP's delivery of the requests
  of a connection, against a network that loses, repeats and reorders. `SentOnce`: no
  request is sent twice. `TcpInv`: one record per port (`PortsUsed`), the
  numbers of both ends are apart by what is in flight (`ConnNumbers`, `ServerNumbers`), and every segment
  on the network is one that was sent at its number: its data (`DataIsSent`), its FIN
  (`FinIsLast`), its acknowledgement (`AckIsTaken`).

`WireProofs`, for all inputs that satisfy `WireAssumption`:

* `LengthIsEnoughHolds`: `MQTTPacket_encode` writes as many digits as `Bytes` says
  (`SizeIsEnough`), and `MQTTPacket_decode` adds up to the length that was encoded (`RoundTrip`).
* `FramesFitHolds`, for every `BLOCKSIZE` and every text: `Chunks` cuts a text into `ChunkCount` pieces, all full but the last; headers of
  5 bytes, or of 7 behind a chunk that shrank by 4 at least, then take no more than 5 a chunk and 2
  for a last one that is short. That the sums are right and no frame is empty holds for
  every text; that a chunk fits into `buf1` for one shorter than a block; and with
  `BLOCKSIZE` up to 12001 (`SafeBlock`) such a text has four chunks at most, which fit into the
  caller's array.
* `TopicsMatchHolds`. `Synced` relates the two walks: when the filter's comes to the first character
  of a level, and all levels before match, the name's is at the first of the same level.
  `LevelPassed` takes a matching level to the next one (`+` skips to the separator, a word passes
  with its equal); `LevelFailed` shows that behind a level that does not match, the walk never comes to
  the end of both strings together, although it may go on for a while.

The induction theorems of the library take an operator as a parameter, which no prover here can
instantiate. These proofs use sets instead: a set of numbers that is not empty has a least
element (`LeastOf`), so a set that holds 0 and with each number the next holds all of them
(`NextNumber`). The recursive functions (`MQTTPacket_encode`, `Chunks`, `Curn`, `Sums`, `UpTo`, ...)
are choices of a function that satisfies its equation; that there is one is shown first,
by putting together the functions that satisfy it up to n.

Shared lemmas are about pushing, popping and changing the top of a stack, prefixes and
tails of sequences, `sendPacket`, `keepalive` and the table's operators. Where an argument needs
the least of a set of numbers (the first packet in the stream), it comes from the
well-foundedness of inclusion of finite sets, in `FirstOf` and `MinIsLeast`.

Model-checked only:

* liveness (`CallsReturn`, `SendReturns`, `AllReceived`, `SlotsReleased`, `BufferedIsSent`,
  `CloudComesBack`): out of the prover's reach, as is everything with `ENABLED`;
* `AckRead`, `InstructionRead` and `RequestIsJson` of `Formats`: the JSON walkers are
  recursive operators over trees and token lists, and the prover loses its arithmetic
  in a module that declares one.

## Not modelled

* Vendored code, by far the most of the repository: drivers, operating systems,
  Wi-Fi state machines, DHCP, AT commands and their headers. Of uIP, what
  is not TCP, and the states behind `uip_close()`, which no application of this build calls.
* The HTTP gateway for Linux (no state between calls: one request by libcurl; its
  texts are those of `JsonBuild` and `Lzf`), and the agents in other languages
  (scripts over libraries that are not here).
* The network port of the Marvell SDK, whose read ends with the connection; the rest of
  that SDK's library is a copy of the Linux one.
* Sizes of buffers (`readbuf`, the texts) and the bytes of a request in `Linkit`, so what
  `uip.c:1739` cuts off a request is in no model: the properties are about what is sent. What the layers above make of a reader
  that is out of step: `MqttClient` reads whole packets.
* What a broken connection does to a *write* beyond losing it: `SIGPIPE`.
* `defaultMessageHandler`: nothing sets it. The serializers' fields.
* In `Formats`: texts that jsmn rejects; messages in which a value equals one of the
  keys that are looked for, or one of the keys has a value of another kind (the platform sends
  none); empty objects and arrays, for which the closing overwrites the opening bracket; an
  event with neither data nor waypoint (the sample: "Both cannot be NULL").
* In `Wire`: topics with empty levels, and "x/#" against "x", which MQTT lets match and
  `isTopicMatched` does not. What an overrun of `buf1` or the caller's array does: `FramesFit`
  says when there is room, and only that.
* Contents of HMAC and the compressor.

## Plan

Done: all.

1. `MqttLink`, `MqttClient`, `MqttBroker`, `MqttSystem`: the client against a
   broker; theorems `TypeCorrect`, `SlotsDistinctHolds`.
2. `Gateway`: the ack loop over an abstract client.
3. `Transport` over `PacketPipe`; theorem `SendOutcomeHolds`. `GatewayProofs`.
4. `Json`, `JsonBuild`, `Codec`, `Lzf`, `Formats`, `Wire`: pure functions against reference
   definitions over bounded inputs.
5. `Maraca`.
6. `Uip`, `Linkit`.
7. `QosContract`, which `MqttSystem` implements, and the proof that it does.
8. The theorems of `MqttAckProofs`, `MqttLossProofs`, `MaracaProofs` and `LinkitProofs`;
   `Qos2AtMostOnce`; the rest of `Gateway`.
9. `TypeOK` of `Transport` and its refinement of `PacketPipe`; the theorems of `WireProofs`.
