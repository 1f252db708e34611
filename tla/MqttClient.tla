------------------------------ MODULE MqttClient ------------------------------
(***************************************************************************)
(* The MQTT client of src/c/linux/Aliot/MQTTClient.c.  It is single        *)
(* threaded, and every call blocks: MQTTConnect, MQTTSubscribe,            *)
(* MQTTUnsubscribe, MQTTPublish and MQTTYield all run cycle(), which reads *)
(* one packet, answers it and, for a PUBLISH, calls the application's      *)
(* message handlers.  A handler may call the client again (the instruction *)
(* handler of sample.c publishes an alert and yields), so the C call stack *)
(* is part of the state: the variable stack holds one frame per call of    *)
(* waitfor() or MQTTYield() that has not returned, and one per cycle()     *)
(* that is delivering a PUBLISH.                                           *)
(*                                                                         *)
(* Time is abstract: a frame's timer has expired or not, and it may expire *)
(* at any moment.  The network is the one of MQTTLinux.c: a read returns a *)
(* whole packet or gives up when its timeout is over, but never comes back *)
(* once the peer has closed the connection; a write returns at once, or    *)
(* blocks while the peer does not read.                                    *)
(***************************************************************************)
EXTENDS MqttLink, FiniteSets

CONSTANTS
    MaxMessageHandlers,     \* MAX_MESSAGE_HANDLERS
    MaxIncomingQos2,        \* MAX_INCOMING_QOS2_MESSAGES
    KeepAlive,              \* is keepAliveInterval different from 0?
    TopicLen,               \* length of the topic's name
    ReentrantTopics,        \* topics whose handler calls the client
    AppOps,                 \* calls the application of this instance makes
    AppQos,                 \* QoS levels it publishes and subscribes with
    WriteOutcomes,          \* what may happen to a frame being written
    MaxCalls,               \* bound on the application's calls that send
    HandlerCalls,           \* bound on the calls of one handler invocation
    MaxStack                \* bound on the nesting of calls

Outcomes == {"sent", "nothing", "partial", "overrun"}
Op == {"connect", "subscribe", "unsubscribe", "publish", "yield"}

ASSUME ClientAssumption ==
    /\ MaxMessageHandlers \in Nat \ {0}
    /\ MaxIncomingQos2 \in Nat \ {0}
    /\ KeepAlive \in BOOLEAN
    /\ TopicLen \in [Topics -> Nat]
    /\ ReentrantTopics \subseteq Topics
    /\ AppOps \subseteq Op \cup {"reconnect", "disconnect"}
    /\ AppQos \subseteq 0..2
    /\ {"sent", "nothing"} \subseteq WriteOutcomes
    /\ WriteOutcomes \subseteq Outcomes
    /\ MaxCalls \in Nat /\ HandlerCalls \in Nat /\ MaxStack \in Nat

VARIABLES
    next_packetid, isconnected, ping_outstanding,
    pingExpired,                \* has ping_timer expired?
    messageHandlers,            \* the filters of the occupied slots, in order
    incoming_qos2_messages,     \* packet ids, 0 for a free slot
    readbuf,                    \* the message of the last PUBLISH read
    stack,                      \* the calls that have not returned
    calls,                      \* sending calls made so far (bounded)
    accepted,                   \* history: times deliverMessage ran, per message
    handled,                    \* history: messages given to a handler
    overflowed,                 \* history: QoS 2 messages the full table dropped
    unheard,                    \* history: topics subscribed to without a handler
    orphaned                    \* history: ack types a given up call left behind

callVars == <<next_packetid, isconnected, calls>>
pingVars == <<ping_outstanding, pingExpired>>
tableVars == <<messageHandlers, incoming_qos2_messages>>
historyVars == <<accepted, handled, overflowed, unheard, orphaned>>
clientVars == <<callVars, pingVars, tableVars, readbuf, stack, historyVars>>

Slots == 1..MaxIncomingQos2

\* A waitfor() or MQTTYield() in progress: "await" is the packet type it
\* returns on, "id" the packet id of the request it sent.
WaitFrame ==
    [op : Op, await : AckTypes \cup {"none"}, id : 0..MaxPacketId,
     topic : Topics \cup {None}, expired : BOOLEAN]

\* A cycle() inside deliverMessage(): "slot" is the next handler slot to
\* try, "running" whether a handler has been called and has not returned.
DeliverFrame ==
    [op : {"deliver"}, pkt : DownPacket, slot : Nat \ {0}, running : BOOLEAN,
     left : 0..HandlerCalls]

Frame ==
    {f \in WaitFrame : f.op = "subscribe" => f.topic \in Topics} \cup
    {f \in DeliverFrame : f.pkt.type = "PUBLISH"}

ClientTypeOK ==
    /\ next_packetid \in 0..MaxPacketId
    /\ isconnected \in BOOLEAN
    /\ ping_outstanding \in BOOLEAN
    /\ pingExpired \in BOOLEAN
    /\ messageHandlers \in Seq(Topics)
    /\ Len(messageHandlers) <= MaxMessageHandlers
    /\ incoming_qos2_messages \in [Slots -> 0..MaxPacketId]
    /\ readbuf \in Msgs \cup {None}
    /\ stack \in Seq(Frame)
    /\ readbuf = None => \A k \in DOMAIN stack : stack[k] \notin DeliverFrame
    /\ calls \in Nat
    /\ accepted \in [Msgs -> Nat]
    /\ handled \subseteq Msgs
    /\ overflowed \subseteq Msgs
    /\ unheard \subseteq Topics
    /\ orphaned \subseteq AckTypes

-----------------------------------------------------------------------------
(* The stack *)

Top == stack[Len(stack)]
Below == SubSeq(stack, 1, Len(stack) - 1)

Waiting == stack # <<>> /\ Top \in WaitFrame
Delivering == stack # <<>> /\ Top \in DeliverFrame

\* The application runs when nothing is on the stack, or when one of its
\* handlers was called; a handler publishes and yields, and nothing else.
InHandler == Delivering /\ Top.running
AppMayCall(op) ==
    /\ op \in AppOps
    /\ \/ stack = <<>>
       \/ /\ InHandler
          /\ op \in {"publish", "yield"}
          /\ Top.left > 0
          /\ Len(stack) < MaxStack

CallerStack ==
    IF stack = <<>> THEN <<>>
    ELSE [stack EXCEPT ![Len(stack)].left = @ - 1]

\* A cycle() that fails ends MQTTYield(), not waitfor().
AfterCycle(s, ok) ==
    IF ~ok /\ s[Len(s)].op = "yield" THEN SubSeq(s, 1, Len(s) - 1) ELSE s

-----------------------------------------------------------------------------
(* Sending *)

getNextPacketId == IF next_packetid = MaxPacketId THEN 1 ELSE next_packetid + 1

\* The retry of a short write passes the length of the whole packet, so it
\* writes bytes that lie after it: sendPacket fails although the packet is
\* on the wire.
OnWire(p, outcome) ==
    CASE outcome = "sent" -> <<p>>
      [] outcome = "nothing" -> <<>>
      [] outcome = "partial" -> <<Garbage>>
      [] outcome = "overrun" -> <<p, Garbage>>

\* What is written on a connection the peer has closed is lost, and so is
\* what follows a frame the broker cannot read.
Heard == link = "open" /\ \A k \in DOMAIN up : up[k] # Garbage

\* "late" says whether ping_timer has expired; success re-arms it.  The timer
\* is looked at before each write(), and linux_write sets SO_RCVTIMEO where
\* SO_SNDTIMEO is meant: a write() to a peer that does not read blocks, which is
\* to say that the step does not happen, unless the timer had expired before.
sendPacket(p, outcome, late) ==
    /\ outcome \in WriteOutcomes
    /\ link = "none" \/ stalled => outcome = "nothing"
    /\ up' = IF Heard THEN up \o OnWire(p, outcome) ELSE up
    /\ pingExpired' = (late /\ outcome # "sent")

\* Slip: a ping is sent each time ping_timer expires.
PingWhenExpired(outstanding) == KeepAlive /\ pingExpired
PingDue(outstanding) == KeepAlive /\ pingExpired /\ ~outstanding

\* Called last by every cycle() that did not fail.
keepalive(outstanding, outcome) ==
    IF PingDue(outstanding)
    THEN /\ sendPacket(Bare("PINGREQ"), outcome, TRUE)
         /\ ping_outstanding' = (outcome = "sent")
    ELSE /\ outcome = "nothing"
         /\ ping_outstanding' = outstanding
         /\ UNCHANGED <<up, pingExpired>>

-----------------------------------------------------------------------------
(* Calls of the application.  A call made while isconnected does not allow
   it returns FAILURE and changes nothing: that is the guard. *)

\* NewNetwork(), ConnectNetwork() and MQTTClient() of connect_datonis: the
\* gateway ignores ConnectNetwork's result, and leaks the old socket.
\* next_packetid keeps its value.
NewConnection(result) ==
    /\ "reconnect" \in AppOps
    /\ stack = <<>>
    /\ calls < MaxCalls
    /\ calls' = calls + 1
    /\ link' = result
    /\ up' = <<>>
    /\ down' = <<>>
    /\ messageHandlers' = <<>>
    /\ isconnected' = FALSE
    /\ ping_outstanding' = FALSE
    /\ pingExpired' = TRUE
    /\ incoming_qos2_messages' = [i \in Slots |-> 0]
    /\ unheard' = {}
    /\ orphaned' = {}
    /\ UNCHANGED <<next_packetid, readbuf, stack, accepted, handled,
                   overflowed>>

\* Acks of this type are still to come for calls that will not take them: a
\* call of the same kind is waiting further down the stack, or the packet
\* was written although sendPacket failed.
LeavesOrphan(await, outcome) ==
    /\ await \in AckTypes
    /\ \/ outcome = "overrun"
       \/ \E i \in DOMAIN stack :
             stack[i] \in WaitFrame /\ stack[i].await = await

\* Sends request p; if that succeeds and an acknowledgement is due, waits.
\* MQTTConnect arms ping_timer before it sends.
Request(p, op, await, outcome) ==
    /\ AppMayCall(op)
    /\ calls < MaxCalls
    /\ calls' = calls + 1
    /\ sendPacket(p, outcome, pingExpired /\ op # "connect")
    /\ stack' =
         IF outcome = "sent" /\ await \in AckTypes
         THEN Append(CallerStack,
                [op |-> op, await |-> await, id |-> p.id, expired |-> FALSE,
                 topic |-> IF p.body \in Topics THEN p.body ELSE None])
         ELSE CallerStack
    /\ orphaned' =
         IF LeavesOrphan(await, outcome) THEN orphaned \cup {await} ELSE orphaned
    /\ UNCHANGED <<down, link, ping_outstanding, tableVars, readbuf, accepted,
                   handled, overflowed>>

MQTTConnect(outcome) ==
    /\ ~isconnected
    /\ Request(Bare("CONNECT"), "connect", "CONNACK", outcome)
    /\ UNCHANGED <<next_packetid, isconnected, unheard>>

MQTTSubscribe(t, qos, outcome) ==
    /\ isconnected
    /\ next_packetid' = getNextPacketId
    /\ Request(MkPacket("SUBSCRIBE", getNextPacketId, qos, t),
               "subscribe", "SUBACK", outcome)
    /\ unheard' = IF outcome = "overrun" THEN unheard \cup {t} ELSE unheard
    /\ UNCHANGED isconnected

MQTTUnsubscribe(t, outcome) ==
    /\ isconnected
    /\ next_packetid' = getNextPacketId
    /\ Request(MkPacket("UNSUBSCRIBE", getNextPacketId, 1, t),
               "unsubscribe", "UNSUBACK", outcome)
    /\ UNCHANGED <<isconnected, unheard>>

PublishAwait(qos) ==
    CASE qos = 0 -> "none" [] qos = 1 -> "PUBACK" [] qos = 2 -> "PUBCOMP"

MQTTPublish(qos, outcome) ==
    /\ isconnected
    /\ next_packetid' = IF qos = 0 THEN next_packetid ELSE getNextPacketId
    /\ Request(MkPacket("PUBLISH", IF qos = 0 THEN 0 ELSE getNextPacketId, qos, None),
               "publish", PublishAwait(qos), outcome)
    /\ UNCHANGED <<isconnected, unheard>>

\* isconnected is cleared whether or not the packet could be sent.
MQTTDisconnect(outcome) ==
    /\ stack = <<>>
    /\ isconnected' = FALSE
    /\ Request(Bare("DISCONNECT"), "disconnect", "none", outcome)
    /\ UNCHANGED <<next_packetid, unheard>>

\* Unlike the others it does not look at isconnected, but the samples call it
\* on a connection only.
MQTTYield ==
    /\ AppMayCall("yield")
    /\ link # "none"
    /\ stack' = Append(CallerStack,
         [op |-> "yield", await |-> "none", id |-> 0, topic |-> None,
          expired |-> FALSE])
    /\ UNCHANGED <<linkVars, callVars, pingVars, tableVars, readbuf,
                   historyVars>>

-----------------------------------------------------------------------------
(* cycle(): one packet read by the wait on top of the stack, whose timer had
   not expired when its loop was entered. *)

Reads(types) ==
    /\ Waiting
    /\ ~Top.expired
    /\ down # <<>>
    /\ Head(down).type \in types
    /\ down' = Tail(down)

\* Slip: a wait takes any acknowledgement.
CompletesOnAnyAck(op) == Top.op = op

\* waitfor() compares packet types only: the packet id of the ack is read and
\* then not looked at.
Completes(op) == Top.op = op /\ Head(down).type = Top.await

\* MQTTConnect: the CONNACK's return code is the result.
CompleteConnect(outcome) ==
    /\ Reads(AckTypes) /\ Completes("connect")
    /\ keepalive(ping_outstanding, outcome)
    /\ isconnected' = (isconnected \/ Head(down).val = 0)
    /\ stack' = Below
    /\ UNCHANGED <<link, next_packetid, tableVars, readbuf, calls,
                   historyVars>>

\* Slip: the search for a free slot goes one too far.
FreeHandlerOffByOne == Len(messageHandlers) <= MaxMessageHandlers
FreeHandler == Len(messageHandlers) < MaxMessageHandlers

\* MQTTSubscribe: unless refused, the handler takes the first free slot.  No
\* slot is ever freed, so the occupied ones are a prefix; when all are, the
\* granted QoS is returned and there is no handler.
CompleteSubscribe(outcome) ==
    /\ Reads(AckTypes) /\ Completes("subscribe")
    /\ keepalive(ping_outstanding, outcome)
    /\ IF Head(down).val # Refused /\ FreeHandler
       THEN /\ messageHandlers' = Append(messageHandlers, Top.topic)
            /\ UNCHANGED unheard
       ELSE /\ unheard' = unheard \cup {Top.topic}
            /\ UNCHANGED messageHandlers
    /\ stack' = Below
    /\ UNCHANGED <<link, callVars, incoming_qos2_messages, readbuf, accepted,
                   handled, overflowed, orphaned>>

\* MQTTUnsubscribe leaves the handler in its slot.
CompleteOther(outcome) ==
    /\ Reads(AckTypes) /\ (Completes("unsubscribe") \/ Completes("publish"))
    /\ keepalive(ping_outstanding, outcome)
    /\ stack' = Below
    /\ UNCHANGED <<link, callVars, tableVars, readbuf, historyVars>>

\* An ack the wait on top is not for is dropped, also when an outer call
\* waits for it.
DropAck(outcome) ==
    /\ Reads(AckTypes) /\ Head(down).type # Top.await
    /\ keepalive(ping_outstanding, outcome)
    /\ UNCHANGED <<link, callVars, tableVars, readbuf, stack, historyVars>>

ReadPingresp(outcome) ==
    /\ Reads({"PINGRESP"})
    /\ keepalive(FALSE, outcome)
    /\ UNCHANGED <<link, callVars, tableVars, readbuf, stack, historyVars>>

\* The reply to PUBREC is PUBREL.  When it is sent ping_timer is re-armed,
\* so keepalive has nothing to do; when it is not, cycle skips keepalive.
ReadPubrec(outcome) ==
    /\ Reads({"PUBREC"})
    /\ sendPacket(Ack("PUBREL", Head(down).id), outcome, pingExpired)
    /\ stack' = AfterCycle(stack, outcome = "sent")
    /\ UNCHANGED <<link, callVars, ping_outstanding, tableVars, readbuf,
                   historyVars>>

\* Slip: the last slot is not looked at.
QoS2msgidFreeOffByOne(id) ==
    \A i \in Slots \ {MaxIncomingQos2} : incoming_qos2_messages[i] # id
isQoS2msgidFree(id) == \A i \in Slots : incoming_qos2_messages[i] # id

\* The first slot that holds v; v = 0 stands for a free slot.
FirstSlot(i, v) ==
    /\ incoming_qos2_messages[i] = v
    /\ \A j \in 1..(i - 1) : incoming_qos2_messages[j] # v

\* Slip: the id is not recorded.
UseNoSlot(id) == UNCHANGED incoming_qos2_messages
useQoS2msgid(id) ==
    \E i \in Slots :
        /\ FirstSlot(i, 0)
        /\ incoming_qos2_messages' = [incoming_qos2_messages EXCEPT ![i] = id]

\* Slips: the slot stays taken; the whole table is cleared.
KeepSlot(id) == UNCHANGED incoming_qos2_messages
FreeEverySlot(id) == incoming_qos2_messages' = [i \in Slots |-> 0]
freeQoS2msgid(id) ==
    \/ isQoS2msgidFree(id) /\ UNCHANGED incoming_qos2_messages
    \/ \E i \in Slots :
         /\ FirstSlot(i, id)
         /\ incoming_qos2_messages' = [incoming_qos2_messages EXCEPT ![i] = 0]

\* The id of a QoS 2 message is released once PUBCOMP has been sent.
ReadPubrel(outcome) ==
    /\ Reads({"PUBREL"})
    /\ sendPacket(Ack("PUBCOMP", Head(down).id), outcome, pingExpired)
    /\ IF outcome = "sent" THEN freeQoS2msgid(Head(down).id)
                           ELSE UNCHANGED incoming_qos2_messages
    /\ stack' = AfterCycle(stack, outcome = "sent")
    /\ UNCHANGED <<link, callVars, ping_outstanding, messageHandlers, readbuf,
                   historyVars>>

-----------------------------------------------------------------------------
(* cycle() with a PUBLISH: read and deliver, run the handlers, acknowledge *)

\* Handlers are looked for from slot "first" on.
DeliverFrom(p, first) ==
    [op |-> "deliver", pkt |-> p, slot |-> first, running |-> FALSE,
     left |-> HandlerCalls]

NoHandler == Len(messageHandlers) + 1

\* Slip: nothing is delivered to handlers from within a handler.
AcceptUnlessNested(p) ==
    /\ accepted' = [accepted EXCEPT ![p.body] = @ + 1]
    /\ stack' = Append(stack, DeliverFrom(p, IF Len(stack) > 1 THEN NoHandler ELSE 1))
Accept(p) ==
    /\ accepted' = [accepted EXCEPT ![p.body] = @ + 1]
    /\ stack' = Append(stack, DeliverFrom(p, 1))

Ignore(p) ==
    /\ stack' = Append(stack, DeliverFrom(p, NoHandler))
    /\ UNCHANGED accepted

\* A QoS 0 or 1 message is delivered each time it comes, a QoS 2 message when
\* its id is not in the table yet.  A duplicate, and a message for which the
\* table has no room, is not delivered but acknowledged all the same.
ReadPublish ==
    /\ Reads({"PUBLISH"})
    /\ readbuf' = Head(down).body
    /\ LET p == Head(down) IN
         \/ /\ p.val # 2
            /\ Accept(p)
            /\ UNCHANGED <<incoming_qos2_messages, overflowed>>
         \/ /\ p.val = 2 /\ isQoS2msgidFree(p.id)
            /\ useQoS2msgid(p.id)
            /\ Accept(p)
            /\ UNCHANGED overflowed
         \/ /\ p.val = 2 /\ isQoS2msgidFree(p.id)
            /\ \A i \in Slots : incoming_qos2_messages[i] # 0
            /\ overflowed' = overflowed \cup {p.body}
            /\ Ignore(p)
            /\ UNCHANGED incoming_qos2_messages
         \/ /\ p.val = 2 /\ ~isQoS2msgidFree(p.id)
            /\ Ignore(p)
            /\ UNCHANGED <<incoming_qos2_messages, overflowed>>
    /\ UNCHANGED <<up, link, callVars, pingVars, messageHandlers, handled,
                   unheard, orphaned>>

\* topicName points into readbuf, which a nested cycle() overwrites when it
\* reads another PUBLISH: from then on the comparison is with as many bytes
\* of the other packet, its topic if the lengths agree.
SeenTopic ==
    IF TopicLen[TopicOf[readbuf]] = TopicLen[TopicOf[Top.pkt.body]]
    THEN TopicOf[readbuf] ELSE None

\* Slip: the loop over the handlers starts one slot late.
NextMatchOffByOne(i) ==
    /\ i \in (Top.slot + 1)..Len(messageHandlers)
    /\ messageHandlers[i] = SeenTopic
NextMatch(i) ==
    /\ i \in Top.slot..Len(messageHandlers)
    /\ messageHandlers[i] = SeenTopic
    /\ \A j \in Top.slot..(i - 1) : messageHandlers[j] # SeenTopic

\* Every matching handler is called, with the payload that readbuf holds now.
CallHandler ==
    /\ Delivering /\ ~Top.running
    /\ \E i \in DOMAIN messageHandlers :
         /\ NextMatch(i)
         /\ stack' = [stack EXCEPT ![Len(stack)] =
                        [@ EXCEPT !.slot = i + 1, !.left = HandlerCalls,
                                  !.running = (SeenTopic \in ReentrantTopics)]]
    /\ handled' = handled \cup {readbuf}
    /\ UNCHANGED <<linkVars, callVars, pingVars, tableVars, readbuf, accepted,
                   overflowed, unheard, orphaned>>

HandlerReturns ==
    /\ InHandler
    /\ stack' = [stack EXCEPT ![Len(stack)].running = FALSE]
    /\ UNCHANGED <<linkVars, callVars, pingVars, tableVars, readbuf,
                   historyVars>>

\* The ack is sent under the timer of the wait this cycle() runs in, which the
\* handlers may have used up.
AcknowledgePublish(outcome) ==
    /\ Delivering /\ ~Top.running
    /\ \A i \in DOMAIN messageHandlers : ~NextMatch(i)
    /\ IF Top.pkt.val = 0
       THEN /\ keepalive(ping_outstanding, outcome)
            /\ stack' = Below
       ELSE /\ stack[Len(stack) - 1].expired => outcome = "nothing"
            /\ sendPacket(Ack(IF Top.pkt.val = 1 THEN "PUBACK" ELSE "PUBREC",
                              Top.pkt.id), outcome, pingExpired)
            /\ stack' = AfterCycle(Below, outcome = "sent")
            /\ UNCHANGED ping_outstanding
    /\ UNCHANGED <<down, link, callVars, tableVars, readbuf, historyVars>>

-----------------------------------------------------------------------------
(* Time *)

\* readPacket found nothing until the timer expired.  linux_read takes the end
\* of the stream, ECONNRESET and ENOTCONN for "no byte yet" and tries again
\* for ever: on a connection that is not open there is no such step.
CycleIdle(outcome) ==
    /\ Waiting /\ ~Top.expired
    /\ link = "open" \/ down # <<>>
    /\ keepalive(ping_outstanding, outcome)
    /\ stack' = [stack EXCEPT ![Len(stack)].expired = TRUE]
    /\ UNCHANGED <<down, link, callVars, tableVars, readbuf, historyVars>>

\* Time passes in the calls made by handlers too.
TimerExpires(i) ==
    /\ stack[i] \in WaitFrame /\ ~stack[i].expired
    /\ stack' = [stack EXCEPT ![i].expired = TRUE]
    /\ UNCHANGED <<linkVars, callVars, pingVars, tableVars, readbuf,
                   historyVars>>

PingTimerExpires ==
    /\ KeepAlive /\ ~pingExpired
    /\ pingExpired' = TRUE
    /\ UNCHANGED <<linkVars, callVars, ping_outstanding, tableVars, readbuf,
                   stack, historyVars>>

\* Slip: waitfor() has no time limit.
TimeIsUpForYield == Waiting /\ Top.expired /\ Top.op = "yield"
TimeIsUp == Waiting /\ Top.expired

\* The loops of MQTTYield and waitfor end; for waitfor this is FAILURE, and
\* the ack may still come.
WaitEnds ==
    /\ TimeIsUp
    /\ stack' = Below
    /\ orphaned' = orphaned \cup ({Top.await} \ {"none"})
    /\ unheard' = IF Top.op = "subscribe" THEN unheard \cup {Top.topic} ELSE unheard
    /\ UNCHANGED <<linkVars, callVars, pingVars, tableVars, readbuf, accepted,
                   handled, overflowed>>

-----------------------------------------------------------------------------
ClientInit ==
    /\ next_packetid = 0
    /\ isconnected = FALSE
    /\ ping_outstanding = FALSE
    /\ pingExpired = TRUE
    /\ messageHandlers = <<>>
    /\ incoming_qos2_messages = [i \in Slots |-> 0]
    /\ readbuf = None
    /\ stack = <<>>
    /\ calls = 0
    /\ accepted = [m \in Msgs |-> 0]
    /\ handled = {}
    /\ overflowed = {}
    /\ unheard = {}
    /\ orphaned = {}

\* What the application asks for.
AppCalls ==
    \/ MQTTYield
    \/ \E outcome \in WriteOutcomes :
         \/ MQTTConnect(outcome)
         \/ MQTTDisconnect(outcome)
         \/ \E qos \in AppQos : MQTTPublish(qos, outcome)
         \/ \E t \in Topics : MQTTUnsubscribe(t, outcome)
         \/ \E t \in Topics, qos \in AppQos : MQTTSubscribe(t, qos, outcome)

\* What the client does on a packet that has come.
CycleReads ==
    \/ ReadPublish
    \/ \E outcome \in WriteOutcomes :
         \/ CompleteConnect(outcome) \/ CompleteSubscribe(outcome)
         \/ CompleteOther(outcome) \/ DropAck(outcome)
         \/ ReadPingresp(outcome) \/ ReadPubrec(outcome) \/ ReadPubrel(outcome)

\* What it does of its own once a PUBLISH has been read.
Delivers ==
    \/ CallHandler
    \/ \E outcome \in WriteOutcomes : AcknowledgePublish(outcome)

TimePasses ==
    \/ PingTimerExpires
    \/ \E outcome \in WriteOutcomes : CycleIdle(outcome)
    \/ \E i \in DOMAIN stack : TimerExpires(i)

ClientNext == AppCalls \/ CycleReads \/ Delivers \/ HandlerReturns \/ TimePasses \/ WaitEnds
=============================================================================
