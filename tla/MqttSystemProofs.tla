--------------------------- MODULE MqttSystemProofs ---------------------------
(***************************************************************************)
(* Proofs about MqttSystem: its types, for every choice of the constants,  *)
(* that the table of QoS 2 packet ids holds each id once, and that a QoS 2 *)
(* message is delivered at most once.                                      *)
(***************************************************************************)
EXTENDS MqttSystem, SequenceTheorems, TLAPS

Assumptions == LinkAssumption /\ ClientAssumption /\ BrokerAssumption

-----------------------------------------------------------------------------
(* Sequences *)

\* A prefix of a sequence has its type, and its elements.
LEMMA PrefixType ==
    ASSUME NEW S, NEW s \in Seq(S), NEW n \in Int, n <= Len(s)
    PROVE  /\ SubSeq(s, 1, n) \in Seq(S)
           /\ \A k \in DOMAIN SubSeq(s, 1, n) :
                k \in DOMAIN s /\ SubSeq(s, 1, n)[k] = s[k]
<1>1. \A i \in 1..n : s[i] \in S
  BY ElementOfSeq
<1>2. /\ SubSeq(s, 1, n) \in Seq(S)
      /\ Len(SubSeq(s, 1, n)) = IF 1 <= n THEN n - 1 + 1 ELSE 0
      /\ \A i \in 1..(n - 1 + 1) : SubSeq(s, 1, n)[i] = s[1 + i - 1]
  BY <1>1, SubSeqProperties
<1> QED
  BY <1>2, LenProperties

-----------------------------------------------------------------------------
(* The stack *)

\* The top frame is a frame; calls that return leave a stack of frames.
LEMMA StackTypes ==
    ASSUME ClientTypeOK, stack # <<>>
    PROVE  /\ Top \in Frame
           /\ Below \in Seq(Frame)
           /\ \A k \in DOMAIN Below : k \in DOMAIN stack /\ Below[k] = stack[k]
<1>1. stack \in Seq(Frame) /\ Len(stack) \in Nat \ {0}
  BY EmptySeq DEF ClientTypeOK
<1>2. Top \in Frame
  BY <1>1, ElementOfSeq DEF Top
<1> QED
  BY <1>1, <1>2, PrefixType DEF Below

\* Whether or not a failed cycle ends it, a stack of frames is left.
LEMMA AfterCycleTypes ==
    ASSUME NEW s \in Seq(Frame), NEW ok \in BOOLEAN
    PROVE  /\ AfterCycle(s, ok) \in Seq(Frame)
           /\ \A k \in DOMAIN AfterCycle(s, ok) :
                k \in DOMAIN s /\ AfterCycle(s, ok)[k] = s[k]
<1>1. Len(s) \in Nat
  BY LenProperties
<1> QED
  BY <1>1, PrefixType DEF AfterCycle

-----------------------------------------------------------------------------
(* Sending *)

\* sendPacket keeps the types of what it changes.
LEMMA SendTypes ==
    ASSUME LinkTypeOK, LinkAssumption, NEW p \in UpPacket, NEW outcome,
           NEW late \in BOOLEAN, sendPacket(p, outcome, late), ClientAssumption
    PROVE  up' \in Seq(UpPacket) /\ pingExpired' \in BOOLEAN
<1>1. Garbage \in UpPacket
  BY DEF Garbage, Bare, Ack, MkPacket, UpPacket, Packet, PacketType, LinkAssumption
<1>2. outcome \in Outcomes
  BY DEF sendPacket, ClientAssumption
<1>3. OnWire(p, outcome) \in Seq(UpPacket)
  BY <1>1, <1>2 DEF OnWire, Outcomes
<1> QED
  BY <1>3, ConcatProperties DEF sendPacket, LinkTypeOK

\* So does keepalive.
LEMMA KeepaliveTypes ==
    ASSUME LinkTypeOK, LinkAssumption, ClientTypeOK, ClientAssumption,
           NEW outstanding \in BOOLEAN, NEW outcome, keepalive(outstanding, outcome)
    PROVE  /\ up' \in Seq(UpPacket)
           /\ pingExpired' \in BOOLEAN /\ ping_outstanding' \in BOOLEAN
<1>1. Bare("PINGREQ") \in UpPacket
  BY DEF Bare, Ack, MkPacket, UpPacket, Packet, PacketType, LinkAssumption
<1>2. CASE PingDue(outstanding)
  BY <1>1, <1>2, SendTypes DEF keepalive
<1>3. CASE ~PingDue(outstanding)
  BY <1>3 DEF keepalive, LinkTypeOK, ClientTypeOK
<1> QED
  BY <1>2, <1>3

-----------------------------------------------------------------------------
(* Calls *)

\* A stack of frames that is consistent with the read buffer b.
StackOK(s, b) ==
    /\ s \in Seq(Frame)
    /\ b = None => \A k \in DOMAIN s : s[k] \notin DeliverFrame

\* The frame of a wait is no delivery; one can always be pushed.
LEMMA PushWait ==
    ASSUME NEW s, NEW b, StackOK(s, b), NEW f \in WaitFrame,
           f.op = "subscribe" => f.topic \in Topics
    PROVE  StackOK(Append(s, f), b)
<1>1. f \in Frame /\ f \notin DeliverFrame
  BY DEF Frame, WaitFrame, DeliverFrame, Op
<1>2. /\ Append(s, f) \in Seq(Frame)
      /\ Len(Append(s, f)) = Len(s) + 1
      /\ \A i \in 1..Len(s) : Append(s, f)[i] = s[i]
      /\ Append(s, f)[Len(s) + 1] = f
  BY <1>1, AppendProperties DEF StackOK
<1>3. DOMAIN s = 1..Len(s) /\ Len(s) \in Nat /\ DOMAIN Append(s, f) = 1..(Len(s) + 1)
  BY <1>2, LenProperties DEF StackOK
<1> QED
  BY <1>1, <1>2, <1>3 DEF StackOK

\* Popping, or what is left when a failed cycle has ended MQTTYield.
LEMMA PopOK ==
    ASSUME ClientTypeOK, stack # <<>>, NEW ok \in BOOLEAN
    PROVE  /\ StackOK(stack, readbuf)
           /\ StackOK(Below, readbuf)
           /\ StackOK(AfterCycle(stack, ok), readbuf)
           /\ StackOK(AfterCycle(Below, ok), readbuf)
<1>1. stack \in Seq(Frame) /\ Below \in Seq(Frame)
  BY StackTypes DEF ClientTypeOK
<1>2. \A k \in DOMAIN Below : k \in DOMAIN stack /\ Below[k] = stack[k]
  BY StackTypes
<1>3. /\ AfterCycle(stack, ok) \in Seq(Frame)
      /\ \A k \in DOMAIN AfterCycle(stack, ok) :
           k \in DOMAIN stack /\ AfterCycle(stack, ok)[k] = stack[k]
  BY <1>1, AfterCycleTypes
<1>4. /\ AfterCycle(Below, ok) \in Seq(Frame)
      /\ \A k \in DOMAIN AfterCycle(Below, ok) :
           k \in DOMAIN Below /\ AfterCycle(Below, ok)[k] = Below[k]
  BY <1>1, AfterCycleTypes
<1> QED
  BY <1>1, <1>2, <1>3, <1>4 DEF StackOK, ClientTypeOK

\* A frame may be replaced by one that is a delivery only if it was one.
LEMMA ReplaceOK ==
    ASSUME ClientTypeOK, NEW i \in DOMAIN stack, NEW f \in Frame,
           f \in DeliverFrame => stack[i] \in DeliverFrame
    PROVE  StackOK([stack EXCEPT ![i] = f], readbuf)
<1>1. stack \in Seq(Frame) /\ DOMAIN stack = 1..Len(stack)
  BY LenProperties DEF ClientTypeOK
<1>2. /\ [stack EXCEPT ![i] = f] \in Seq(Frame)
      /\ Len([stack EXCEPT ![i] = f]) = Len(stack)
      /\ \A j \in 1..Len(stack) :
           [stack EXCEPT ![i] = f][j] = IF j = i THEN f ELSE stack[j]
  BY <1>1, ExceptSeq
<1> QED
  BY <1>1, <1>2 DEF StackOK, ClientTypeOK

\* The index of the top frame.
LEMMA TopIndex ==
    ASSUME ClientTypeOK, stack # <<>>
    PROVE  Len(stack) \in DOMAIN stack /\ Top = stack[Len(stack)] /\ Top \in Frame
<1>1. stack \in Seq(Frame) /\ Len(stack) \in Nat \ {0} /\ DOMAIN stack = 1..Len(stack)
  BY EmptySeq, LenProperties DEF ClientTypeOK
<1> QED
  BY <1>1, StackTypes DEF Top

\* The stack of a call made by the application or by a handler.
LEMMA CallerOK ==
    ASSUME ClientTypeOK, ClientAssumption, NEW op, AppMayCall(op)
    PROVE  StackOK(CallerStack, readbuf)
<1>1. CASE stack = <<>>
  BY <1>1 DEF CallerStack, StackOK, ClientTypeOK
<1>2. CASE stack # <<>>
  <2>1. Top \in DeliverFrame /\ Top.left > 0 /\ Top \in Frame
    BY <1>2, TopIndex DEF AppMayCall, InHandler, Delivering
  <2>. DEFINE f == [Top EXCEPT !.left = @ - 1]
  <2>2. f \in DeliverFrame /\ f.pkt = Top.pkt
    BY <2>1, ClientAssumption DEF DeliverFrame, ClientAssumption
  <2>3. Top.pkt.type = "PUBLISH"
    BY <2>1 DEF Frame, WaitFrame, DeliverFrame, Op
  <2>4. f \in Frame
    BY <2>2, <2>3 DEF Frame
  <2>5. CallerStack = [stack EXCEPT ![Len(stack)] = f]
    BY <1>2 DEF CallerStack, Top
  <2> QED
    BY <1>2, <2>1, <2>4, <2>5, TopIndex, ReplaceOK
<1> QED
  BY <1>1, <1>2

\* What a request does to the link, the timer and the stack.
LEMMA RequestTypes ==
    ASSUME LinkTypeOK, ClientTypeOK, LinkAssumption, ClientAssumption,
           NEW p \in UpPacket, NEW op, NEW await, NEW outcome,
           await \in AckTypes => op \in Op,
           op = "subscribe" => p.body \in Topics,
           Request(p, op, await, outcome)
    PROVE  /\ LinkTypeOK'
           /\ pingExpired' \in BOOLEAN
           /\ StackOK(stack', readbuf)
           /\ orphaned' \subseteq AckTypes
           /\ calls' \in Nat
<1>1. LinkTypeOK' /\ pingExpired' \in BOOLEAN
  <2>1. (pingExpired /\ op # "connect") \in BOOLEAN
    OBVIOUS
  <2>2. up' \in Seq(UpPacket) /\ pingExpired' \in BOOLEAN
    BY <2>1, SendTypes DEF Request
  <2> QED
    BY <2>2 DEF Request, LinkTypeOK
<1>2. StackOK(CallerStack, readbuf)
  BY CallerOK DEF Request
<1>3. StackOK(stack', readbuf)
  <2>. DEFINE f == [op |-> op, await |-> await, id |-> p.id, expired |-> FALSE,
                    topic |-> IF p.body \in Topics THEN p.body ELSE None]
  <2>1. CASE outcome = "sent" /\ await \in AckTypes
    <3>1. f \in WaitFrame /\ (f.op = "subscribe" => f.topic \in Topics)
      BY <2>1 DEF WaitFrame, UpPacket, Packet
    <3> QED
      BY <2>1, <3>1, <1>2, PushWait DEF Request
  <2>2. CASE ~(outcome = "sent" /\ await \in AckTypes)
    BY <2>2, <1>2 DEF Request
  <2> QED
    BY <2>1, <2>2
<1>4. orphaned' \subseteq AckTypes
  BY DEF Request, LeavesOrphan, ClientTypeOK
<1>5. calls' \in Nat
  BY DEF Request, ClientTypeOK
<1> QED
  BY <1>1, <1>3, <1>4, <1>5

\* The next packet id is one.
LEMMA PacketIdType ==
    ASSUME ClientTypeOK, LinkAssumption
    PROVE  getNextPacketId \in PacketId
  BY DEF getNextPacketId, ClientTypeOK, LinkAssumption, PacketId

\* The calls of the application keep the types.
LEMMA AppCallsTypes ==
    ASSUME TypeOK, Assumptions, AppCalls, UNCHANGED brokerVars
    PROVE  TypeOK'
<1>. USE DEF TypeOK, Assumptions
<1>. BrokerTypeOK'
  BY DEF BrokerTypeOK, brokerVars, sessionVars, reuseVars
<1>1. ASSUME NEW outcome, MQTTConnect(outcome) PROVE TypeOK'
  <2>. DEFINE p == Bare("CONNECT")
  <2>1. p \in UpPacket
    BY DEF Bare, Ack, MkPacket, UpPacket, Packet, PacketType, LinkAssumption
  <2>2. /\ LinkTypeOK' /\ pingExpired' \in BOOLEAN /\ StackOK(stack', readbuf)
        /\ orphaned' \subseteq AckTypes /\ calls' \in Nat
    BY <1>1, <2>1, RequestTypes DEF MQTTConnect, AckTypes, Op
  <2> QED
    BY <1>1, <2>2 DEF MQTTConnect, Request, ClientTypeOK, StackOK, tableVars
<1>2. ASSUME NEW t \in Topics, NEW qos \in 0..2, NEW outcome,
             MQTTSubscribe(t, qos, outcome)
      PROVE  TypeOK'
  <2>. DEFINE p == MkPacket("SUBSCRIBE", getNextPacketId, qos, t)
  <2>1. p \in UpPacket /\ p.body \in Topics /\ getNextPacketId \in 0..MaxPacketId
    BY PacketIdType DEF MkPacket, UpPacket, Packet, PacketType, PacketId
  <2>2. /\ LinkTypeOK' /\ pingExpired' \in BOOLEAN /\ StackOK(stack', readbuf)
        /\ orphaned' \subseteq AckTypes /\ calls' \in Nat
    BY <1>2, <2>1, RequestTypes DEF MQTTSubscribe, AckTypes, Op
  <2> QED
    BY <1>2, <2>1, <2>2 DEF MQTTSubscribe, Request, ClientTypeOK, StackOK, tableVars
<1>3. ASSUME NEW t \in Topics, NEW outcome, MQTTUnsubscribe(t, outcome)
      PROVE  TypeOK'
  <2>. DEFINE p == MkPacket("UNSUBSCRIBE", getNextPacketId, 1, t)
  <2>1. p \in UpPacket /\ getNextPacketId \in 0..MaxPacketId
    BY PacketIdType DEF MkPacket, UpPacket, Packet, PacketType, PacketId
  <2>2. /\ LinkTypeOK' /\ pingExpired' \in BOOLEAN /\ StackOK(stack', readbuf)
        /\ orphaned' \subseteq AckTypes /\ calls' \in Nat
    BY <1>3, <2>1, RequestTypes DEF MQTTUnsubscribe, AckTypes, Op
  <2> QED
    BY <1>3, <2>1, <2>2 DEF MQTTUnsubscribe, Request, ClientTypeOK, StackOK, tableVars
<1>4. ASSUME NEW qos \in 0..2, NEW outcome, MQTTPublish(qos, outcome)
      PROVE  TypeOK'
  <2>. DEFINE id == IF qos = 0 THEN 0 ELSE getNextPacketId
  <2>. DEFINE p == MkPacket("PUBLISH", id, qos, None)
  <2>1. p \in UpPacket /\ getNextPacketId \in 0..MaxPacketId
    BY PacketIdType DEF MkPacket, UpPacket, Packet, PacketType, PacketId, LinkAssumption
  <2>2. /\ LinkTypeOK' /\ pingExpired' \in BOOLEAN /\ StackOK(stack', readbuf)
        /\ orphaned' \subseteq AckTypes /\ calls' \in Nat
    BY <1>4, <2>1, RequestTypes DEF MQTTPublish, Op
  <2> QED
    BY <1>4, <2>1, <2>2 DEF MQTTPublish, Request, ClientTypeOK, StackOK, tableVars
<1>5. ASSUME NEW outcome, MQTTDisconnect(outcome) PROVE TypeOK'
  <2>. DEFINE p == Bare("DISCONNECT")
  <2>1. p \in UpPacket
    BY DEF Bare, Ack, MkPacket, UpPacket, Packet, PacketType, LinkAssumption
  <2>2. /\ LinkTypeOK' /\ pingExpired' \in BOOLEAN /\ StackOK(stack', readbuf)
        /\ orphaned' \subseteq AckTypes /\ calls' \in Nat
    BY <1>5, <2>1, RequestTypes DEF MQTTDisconnect, AckTypes
  <2> QED
    BY <1>5, <2>2 DEF MQTTDisconnect, Request, ClientTypeOK, StackOK, tableVars
<1>6. ASSUME MQTTYield PROVE TypeOK'
  <2>. DEFINE f == [op |-> "yield", await |-> "none", id |-> 0, topic |-> None,
                    expired |-> FALSE]
  <2>1. f \in WaitFrame /\ f.op # "subscribe"
    BY DEF WaitFrame, Op, LinkAssumption
  <2>2. StackOK(stack', readbuf)
    BY <1>6, <2>1, CallerOK, PushWait DEF MQTTYield
  <2> QED
    BY <1>6, <2>2 DEF MQTTYield, ClientTypeOK, LinkTypeOK, StackOK, linkVars, callVars,
                      pingVars, tableVars, historyVars
<1> QED
  BY <1>1, <1>2, <1>3, <1>4, <1>5, <1>6 DEF AppCalls, ClientAssumption

-----------------------------------------------------------------------------
(* cycle() *)

\* The packet read is one the broker may send, and the rest stays a sequence.
LEMMA ReadTypes ==
    ASSUME LinkTypeOK, ClientTypeOK, NEW types, Reads(types)
    PROVE  /\ Head(down) \in DownPacket /\ Head(down).type \in types
           /\ down' \in Seq(DownPacket)
           /\ stack # <<>> /\ Top \in WaitFrame
  BY HeadTailProperties DEF Reads, LinkTypeOK, Waiting

\* The acknowledgement of what was read is a packet of the client.
LEMMA AckType ==
    ASSUME LinkAssumption, NEW p \in DownPacket, NEW type \in PacketType,
           type # "SUBSCRIBE"
    PROVE  Ack(type, p.id) \in UpPacket
  BY DEF Ack, MkPacket, UpPacket, DownPacket, Packet, LinkAssumption

\* Releasing a packet id keeps the type of the table.
LEMMA FreeType ==
    ASSUME ClientTypeOK, LinkAssumption, NEW id, freeQoS2msgid(id)
    PROVE  incoming_qos2_messages' \in [Slots -> 0..MaxPacketId]
<1>1. 0 \in 0..MaxPacketId
  BY DEF LinkAssumption
<1>2. CASE UNCHANGED incoming_qos2_messages
  BY <1>2 DEF ClientTypeOK
<1>3. ASSUME NEW i \in Slots,
             incoming_qos2_messages' = [incoming_qos2_messages EXCEPT ![i] = 0]
      PROVE  incoming_qos2_messages' \in [Slots -> 0..MaxPacketId]
  BY <1>1, <1>3 DEF ClientTypeOK
<1> QED
  BY <1>2, <1>3 DEF freeQoS2msgid

\* cycle() on anything but a PUBLISH keeps the types.
LEMMA CycleTypes ==
    ASSUME TypeOK, Assumptions, NEW outcome, UNCHANGED brokerVars,
           \/ CompleteConnect(outcome) \/ CompleteSubscribe(outcome)
           \/ CompleteOther(outcome) \/ DropAck(outcome)
           \/ ReadPingresp(outcome) \/ ReadPubrec(outcome) \/ ReadPubrel(outcome)
    PROVE  TypeOK'
<1>. USE DEF TypeOK, Assumptions
<1>. BrokerTypeOK'
  BY DEF BrokerTypeOK, brokerVars, sessionVars, reuseVars
<1>0. ping_outstanding \in BOOLEAN /\ pingExpired \in BOOLEAN
  BY DEF ClientTypeOK
<1>1. CASE CompleteConnect(outcome)
  <2>1. down' \in Seq(DownPacket) /\ stack # <<>>
    BY <1>1, ReadTypes DEF CompleteConnect
  <2>2. up' \in Seq(UpPacket) /\ pingExpired' \in BOOLEAN /\ ping_outstanding' \in BOOLEAN
    BY <1>0, <1>1, KeepaliveTypes DEF CompleteConnect
  <2>3. StackOK(Below, readbuf)
    BY <2>1, PopOK
  <2> QED
    BY <1>1, <2>1, <2>2, <2>3 DEF CompleteConnect, ClientTypeOK, LinkTypeOK, StackOK,
         tableVars, historyVars
<1>2. CASE CompleteSubscribe(outcome)
  <2>1. down' \in Seq(DownPacket) /\ stack # <<>> /\ Top \in WaitFrame
    BY <1>2, ReadTypes DEF CompleteSubscribe
  <2>2. up' \in Seq(UpPacket) /\ pingExpired' \in BOOLEAN /\ ping_outstanding' \in BOOLEAN
    BY <1>0, <1>2, KeepaliveTypes DEF CompleteSubscribe
  <2>3. StackOK(Below, readbuf)
    BY <2>1, PopOK
  <2>4. Top.topic \in Topics
    BY <1>2, <2>1, TopIndex DEF CompleteSubscribe, Completes, Frame, DeliverFrame, WaitFrame, Op
  <2>5. /\ messageHandlers' \in Seq(Topics)
        /\ Len(messageHandlers') <= MaxMessageHandlers
        /\ unheard' \subseteq Topics
    <3>1. messageHandlers \in Seq(Topics) /\ Len(messageHandlers) \in Nat
      BY LenProperties DEF ClientTypeOK
    <3>2. /\ Append(messageHandlers, Top.topic) \in Seq(Topics)
          /\ Len(Append(messageHandlers, Top.topic)) = Len(messageHandlers) + 1
      BY <2>4, <3>1, AppendProperties
    <3>3. CASE messageHandlers' = messageHandlers /\ unheard' = unheard \cup {Top.topic}
      BY <2>4, <3>3 DEF ClientTypeOK
    <3>4. CASE /\ Len(messageHandlers) < MaxMessageHandlers
               /\ messageHandlers' = Append(messageHandlers, Top.topic)
               /\ unheard' = unheard
      <4>1. Len(messageHandlers') <= MaxMessageHandlers
        BY <3>1, <3>2, <3>4 DEF ClientAssumption
      <4> QED
        BY <3>2, <3>4, <4>1 DEF ClientTypeOK
    <3> QED
      BY <1>2, <3>3, <3>4 DEF CompleteSubscribe, FreeHandler
  <2> QED
    BY <1>2, <2>1, <2>2, <2>3, <2>5 DEF CompleteSubscribe, ClientTypeOK, LinkTypeOK,
         StackOK, callVars
<1>3. CASE CompleteOther(outcome)
  <2>1. down' \in Seq(DownPacket) /\ stack # <<>>
    BY <1>3, ReadTypes DEF CompleteOther
  <2>2. up' \in Seq(UpPacket) /\ pingExpired' \in BOOLEAN /\ ping_outstanding' \in BOOLEAN
    BY <1>0, <1>3, KeepaliveTypes DEF CompleteOther
  <2>3. StackOK(Below, readbuf)
    BY <2>1, PopOK
  <2> QED
    BY <1>3, <2>1, <2>2, <2>3 DEF CompleteOther, ClientTypeOK, LinkTypeOK, StackOK,
         callVars, tableVars, historyVars
<1>4. CASE DropAck(outcome)
  <2>1. down' \in Seq(DownPacket)
    BY <1>4, ReadTypes DEF DropAck
  <2>2. up' \in Seq(UpPacket) /\ pingExpired' \in BOOLEAN /\ ping_outstanding' \in BOOLEAN
    BY <1>0, <1>4, KeepaliveTypes DEF DropAck
  <2> QED
    BY <1>4, <2>1, <2>2 DEF DropAck, ClientTypeOK, LinkTypeOK, callVars, tableVars,
         historyVars
<1>5. CASE ReadPingresp(outcome)
  <2>1. down' \in Seq(DownPacket)
    BY <1>5, ReadTypes DEF ReadPingresp
  <2>2. up' \in Seq(UpPacket) /\ pingExpired' \in BOOLEAN /\ ping_outstanding' \in BOOLEAN
    BY <1>5, KeepaliveTypes DEF ReadPingresp
  <2> QED
    BY <1>5, <2>1, <2>2 DEF ReadPingresp, ClientTypeOK, LinkTypeOK, callVars, tableVars,
         historyVars
<1>6. CASE ReadPubrec(outcome)
  <2>1. down' \in Seq(DownPacket) /\ Head(down) \in DownPacket /\ stack # <<>>
    BY <1>6, ReadTypes DEF ReadPubrec
  <2>2. Ack("PUBREL", Head(down).id) \in UpPacket
    BY <2>1, AckType DEF PacketType
  <2>3. up' \in Seq(UpPacket) /\ pingExpired' \in BOOLEAN
    <3>1. PICK q \in UpPacket : sendPacket(q, outcome, pingExpired)
      BY <1>6, <2>2 DEF ReadPubrec
    <3> QED
      BY <1>0, <3>1, SendTypes
  <2>4. StackOK(AfterCycle(stack, outcome = "sent"), readbuf)
    BY <2>1, PopOK
  <2> QED
    BY <1>6, <2>1, <2>3, <2>4 DEF ReadPubrec, ClientTypeOK, LinkTypeOK, StackOK,
         callVars, tableVars, historyVars
<1>7. CASE ReadPubrel(outcome)
  <2>1. down' \in Seq(DownPacket) /\ Head(down) \in DownPacket /\ stack # <<>>
    BY <1>7, ReadTypes DEF ReadPubrel
  <2>2. Ack("PUBCOMP", Head(down).id) \in UpPacket
    BY <2>1, AckType DEF PacketType, AckTypes
  <2>3. up' \in Seq(UpPacket) /\ pingExpired' \in BOOLEAN
    <3>1. PICK q \in UpPacket : sendPacket(q, outcome, pingExpired)
      BY <1>7, <2>2 DEF ReadPubrel
    <3> QED
      BY <1>0, <3>1, SendTypes
  <2>4. StackOK(AfterCycle(stack, outcome = "sent"), readbuf)
    BY <2>1, PopOK
  <2>5. incoming_qos2_messages' \in [Slots -> 0..MaxPacketId]
    <3>1. freeQoS2msgid(Head(down).id) \/ UNCHANGED incoming_qos2_messages
      BY <1>7 DEF ReadPubrel
    <3> QED
      BY <3>1, FreeType DEF ClientTypeOK
  <2> QED
    BY <1>7, <2>1, <2>3, <2>4, <2>5 DEF ReadPubrel, ClientTypeOK, LinkTypeOK, StackOK,
         callVars, historyVars
<1> QED
  BY <1>1, <1>2, <1>3, <1>4, <1>5, <1>6, <1>7

\* A delivery is pushed for a PUBLISH; the read buffer holds its message.
LEMMA PushDelivery ==
    ASSUME ClientTypeOK, LinkAssumption, ClientAssumption, NEW p \in DownPacket,
           p.type = "PUBLISH", NEW slot \in Nat \ {0}
    PROVE  /\ p.body \in Msgs
           /\ StackOK(Append(stack, DeliverFrom(p, slot)), p.body)
<1>1. p.body \in Msgs /\ p.body # None
  BY DEF DownPacket, LinkAssumption
<1>2. DeliverFrom(p, slot) \in Frame
  BY DEF DeliverFrom, Frame, DeliverFrame, ClientAssumption
<1> QED
  BY <1>1, <1>2, AppendProperties DEF StackOK, ClientTypeOK

\* Reading a PUBLISH keeps the types.
LEMMA ReadPublishTypes ==
    ASSUME TypeOK, Assumptions, ReadPublish, UNCHANGED brokerVars
    PROVE  TypeOK'
<1>. USE DEF TypeOK, Assumptions
<1>. BrokerTypeOK'
  BY DEF BrokerTypeOK, brokerVars, sessionVars, reuseVars
<1>. DEFINE p == Head(down)
<1>1. p \in DownPacket /\ p.type = "PUBLISH" /\ down' \in Seq(DownPacket)
  BY ReadTypes DEF ReadPublish
<1>2. NoHandler \in Nat \ {0}
  BY LenProperties DEF NoHandler, ClientTypeOK
<1>3. /\ p.body \in Msgs
      /\ StackOK(Append(stack, DeliverFrom(p, 1)), p.body)
      /\ StackOK(Append(stack, DeliverFrom(p, NoHandler)), p.body)
  BY <1>1, <1>2, PushDelivery
<1>4. StackOK(stack', readbuf') /\ readbuf' \in Msgs
  <2>1. readbuf' = p.body /\ (Accept(p) \/ Ignore(p))
    BY DEF ReadPublish
  <2>2. stack' = Append(stack, DeliverFrom(p, 1)) \/ stack' = Append(stack, DeliverFrom(p, NoHandler))
    BY <2>1 DEF Accept, Ignore
  <2>3. CASE stack' = Append(stack, DeliverFrom(p, 1))
    BY <1>3, <2>1, <2>3
  <2>4. CASE stack' = Append(stack, DeliverFrom(p, NoHandler))
    BY <1>3, <2>1, <2>4
  <2> QED
    BY <2>2, <2>3, <2>4
<1>6. accepted' \in [Msgs -> Nat]
  <2>1. accepted \in [Msgs -> Nat]
    BY DEF ClientTypeOK
  <2>2. accepted' = accepted \/ accepted' = [accepted EXCEPT ![p.body] = @ + 1]
    BY DEF ReadPublish, Accept, Ignore
  <2> QED
    BY <1>3, <2>1, <2>2
<1>5. /\ incoming_qos2_messages' \in [Slots -> 0..MaxPacketId]
      /\ overflowed' \subseteq Msgs
  <2>1. /\ incoming_qos2_messages \in [Slots -> 0..MaxPacketId]
        /\ overflowed \subseteq Msgs /\ p.id \in 0..MaxPacketId
    BY <1>1 DEF ClientTypeOK, DownPacket, Packet
  <2>2. overflowed' = overflowed \/ overflowed' = overflowed \cup {p.body}
    BY DEF ReadPublish, useQoS2msgid
  <2>3. incoming_qos2_messages' = incoming_qos2_messages \/ useQoS2msgid(p.id)
    BY DEF ReadPublish
  <2>4. useQoS2msgid(p.id) => incoming_qos2_messages' \in [Slots -> 0..MaxPacketId]
    BY <2>1 DEF useQoS2msgid
  <2> QED
    BY <1>3, <2>1, <2>2, <2>3, <2>4
<1> QED
  <2>1. LinkTypeOK'
    BY <1>1 DEF ReadPublish, LinkTypeOK
  <2> QED
    BY <1>4, <1>5, <1>6, <2>1 DEF ReadPublish, ClientTypeOK, StackOK, callVars, pingVars

-----------------------------------------------------------------------------
(* Handlers, acknowledgements and time *)

\* While a PUBLISH is delivered, the read buffer holds a message.
LEMMA DeliveringTypes ==
    ASSUME ClientTypeOK, Delivering
    PROVE  /\ Len(stack) \in DOMAIN stack /\ Top = stack[Len(stack)]
           /\ stack # <<>> /\ Top \in Frame
           /\ Top \in DeliverFrame /\ Top.pkt.type = "PUBLISH"
           /\ readbuf \in Msgs
<1>1. Len(stack) \in DOMAIN stack /\ Top = stack[Len(stack)] /\ Top \in Frame
  BY TopIndex DEF Delivering
<1>2. Top \in DeliverFrame /\ stack # <<>>
  BY DEF Delivering
<1>3. Top.pkt.type = "PUBLISH"
  BY <1>1, <1>2 DEF Frame, WaitFrame, DeliverFrame, Op
<1>4. readbuf \in Msgs
  BY <1>1, <1>2 DEF ClientTypeOK
<1> QED
  BY <1>1, <1>2, <1>3, <1>4

\* Setting a wait's timer leaves a wait.
LEMMA ExpiredFrame ==
    ASSUME NEW f \in Frame, f \in WaitFrame
    PROVE  /\ [f EXCEPT !.expired = TRUE] \in Frame
           /\ [f EXCEPT !.expired = TRUE] \notin DeliverFrame
<1>1. f.op # "deliver" /\ (f.op = "subscribe" => f.topic \in Topics)
  BY DEF Frame, WaitFrame, DeliverFrame, Op
<1>2. [f EXCEPT !.expired = TRUE] \in WaitFrame
  BY DEF WaitFrame
<1> QED
  BY <1>1, <1>2 DEF Frame, WaitFrame, DeliverFrame, Op

\* Delivering a PUBLISH, and answering it, keep the types.
LEMMA DeliveryTypes ==
    ASSUME TypeOK, Assumptions, Delivers \/ HandlerReturns, UNCHANGED brokerVars
    PROVE  TypeOK'
<1>. USE DEF TypeOK, Assumptions
<1>. BrokerTypeOK'
  BY DEF BrokerTypeOK, brokerVars, sessionVars, reuseVars
<1>1. CASE CallHandler
  <2>0. Delivering
    BY <1>1 DEF CallHandler
  <2>1. PICK i \in DOMAIN messageHandlers :
           stack' = [stack EXCEPT ![Len(stack)] =
                      [@ EXCEPT !.slot = i + 1, !.left = HandlerCalls,
                                !.running = (SeenTopic \in ReentrantTopics)]]
    BY <1>1 DEF CallHandler
  <2>. DEFINE f == [Top EXCEPT !.slot = i + 1, !.left = HandlerCalls,
                               !.running = (SeenTopic \in ReentrantTopics)]
  <2>2. i \in Nat \ {0}
    <3>1. messageHandlers \in Seq(Topics)
      BY DEF ClientTypeOK
    <3>2. DOMAIN messageHandlers = 1..Len(messageHandlers)
      BY <3>1, LenProperties
    <3> QED
      BY <3>2
  <2>3. f \in DeliverFrame /\ f.pkt = Top.pkt
    <3>0. Top \in DeliverFrame /\ HandlerCalls \in 0..HandlerCalls
      BY <2>0, DeliveringTypes DEF ClientAssumption
    <3>1. ASSUME NEW running \in BOOLEAN, NEW slot \in Nat \ {0}
          PROVE  LET g == [Top EXCEPT !.slot = slot, !.left = HandlerCalls, !.running = running]
                 IN  g \in DeliverFrame /\ g.pkt = Top.pkt
      BY <3>0 DEF DeliverFrame
    <3>2. i + 1 \in Nat \ {0}
      BY <2>2
    <3>3. (SeenTopic \in ReentrantTopics) \in BOOLEAN
      OBVIOUS
    <3> QED
      BY <3>1, <3>2, <3>3
  <2>4. f \in Frame
    BY <2>0, <2>3, DeliveringTypes DEF Frame
  <2>5. stack' = [stack EXCEPT ![Len(stack)] = f]
    BY <2>1 DEF Top
  <2>6. StackOK(stack', readbuf)
    BY <2>0, <2>4, <2>5, DeliveringTypes, ReplaceOK
  <2>7. handled' \subseteq Msgs
    BY <2>0, <1>1, DeliveringTypes DEF CallHandler, ClientTypeOK
  <2> QED
    BY <1>1, <2>6, <2>7 DEF CallHandler, ClientTypeOK, LinkTypeOK, StackOK, linkVars,
         callVars, pingVars, tableVars
<1>2. ASSUME NEW outcome, AcknowledgePublish(outcome) PROVE TypeOK'
  <2>0. Delivering
    BY <1>2 DEF AcknowledgePublish
  <2>1. StackOK(Below, readbuf) /\ StackOK(AfterCycle(Below, outcome = "sent"), readbuf)
    BY <2>0, DeliveringTypes, PopOK
  <2>2. /\ up' \in Seq(UpPacket) /\ pingExpired' \in BOOLEAN
        /\ ping_outstanding' \in BOOLEAN /\ StackOK(stack', readbuf)
    <3>1. ping_outstanding \in BOOLEAN /\ pingExpired \in BOOLEAN
      BY DEF ClientTypeOK
    <3>2. CASE Top.pkt.val = 0
      <4>1. keepalive(ping_outstanding, outcome) /\ stack' = Below
        BY <1>2, <3>2 DEF AcknowledgePublish
      <4> QED
        BY <2>1, <3>1, <4>1, KeepaliveTypes
    <3>3. CASE Top.pkt.val # 0
      <4>. DEFINE type == IF Top.pkt.val = 1 THEN "PUBACK" ELSE "PUBREC"
      <4>1. /\ sendPacket(Ack(type, Top.pkt.id), outcome, pingExpired)
            /\ stack' = AfterCycle(Below, outcome = "sent")
            /\ ping_outstanding' = ping_outstanding
        BY <1>2, <3>3 DEF AcknowledgePublish
      <4>2. Ack(type, Top.pkt.id) \in UpPacket
        BY <2>0, DeliveringTypes, AckType DEF DeliverFrame, PacketType, AckTypes
      <4> QED
        BY <2>1, <3>1, <4>1, <4>2, SendTypes
    <3> QED
      BY <3>2, <3>3
  <2> QED
    BY <1>2, <2>2 DEF AcknowledgePublish, ClientTypeOK, LinkTypeOK, StackOK, callVars,
         tableVars, historyVars
<1>3. CASE HandlerReturns
  <2>0. Delivering
    BY <1>3 DEF HandlerReturns, InHandler
  <2>. DEFINE f == [Top EXCEPT !.running = FALSE]
  <2>1. f \in DeliverFrame /\ f.pkt = Top.pkt
    BY <2>0, DeliveringTypes DEF DeliverFrame
  <2>2. f \in Frame
    BY <2>0, <2>1, DeliveringTypes DEF Frame
  <2>3. stack' = [stack EXCEPT ![Len(stack)] = f]
    BY <1>3 DEF HandlerReturns, Top
  <2>4. StackOK(stack', readbuf)
    BY <2>0, <2>2, <2>3, DeliveringTypes, ReplaceOK
  <2> QED
    BY <1>3, <2>4 DEF HandlerReturns, ClientTypeOK, LinkTypeOK, StackOK, linkVars,
         callVars, pingVars, tableVars, historyVars
<1> QED
  BY <1>1, <1>2, <1>3 DEF Delivers

\* So does time.
LEMMA TimeTypes ==
    ASSUME TypeOK, Assumptions, TimePasses \/ WaitEnds, UNCHANGED brokerVars
    PROVE  TypeOK'
<1>. USE DEF TypeOK, Assumptions
<1>. BrokerTypeOK'
  BY DEF BrokerTypeOK, brokerVars, sessionVars, reuseVars
<1>1. CASE PingTimerExpires
  BY <1>1 DEF PingTimerExpires, ClientTypeOK, LinkTypeOK, linkVars, callVars, tableVars,
       historyVars
<1>2. ASSUME NEW outcome, CycleIdle(outcome) PROVE TypeOK'
  <2>1. stack # <<>> /\ Top \in WaitFrame
    BY <1>2 DEF CycleIdle, Waiting
  <2>2. /\ up' \in Seq(UpPacket) /\ pingExpired' \in BOOLEAN
        /\ ping_outstanding' \in BOOLEAN
    BY <1>2, KeepaliveTypes DEF CycleIdle, ClientTypeOK
  <2>. DEFINE f == [Top EXCEPT !.expired = TRUE]
  <2>3. stack' = [stack EXCEPT ![Len(stack)] = f]
    BY <1>2 DEF CycleIdle, Top
  <2>4. StackOK(stack', readbuf)
    BY <2>1, <2>3, TopIndex, ExpiredFrame, ReplaceOK
  <2> QED
    BY <1>2, <2>2, <2>4 DEF CycleIdle, ClientTypeOK, LinkTypeOK, StackOK, callVars,
         tableVars, historyVars
<1>3. ASSUME NEW i \in DOMAIN stack, TimerExpires(i) PROVE TypeOK'
  <2>1. stack[i] \in Frame /\ stack[i] \in WaitFrame
    BY <1>3, ElementOfSeq, LenProperties DEF TimerExpires, ClientTypeOK
  <2>. DEFINE f == [stack[i] EXCEPT !.expired = TRUE]
  <2>2. stack' = [stack EXCEPT ![i] = f]
    BY <1>3 DEF TimerExpires
  <2>3. StackOK(stack', readbuf)
    BY <2>1, <2>2, ExpiredFrame, ReplaceOK
  <2> QED
    BY <1>3, <2>3 DEF TimerExpires, ClientTypeOK, LinkTypeOK, StackOK, linkVars,
         callVars, pingVars, tableVars, historyVars
<1>4. CASE WaitEnds
  <2>1. stack # <<>> /\ Top \in WaitFrame /\ Top \in Frame
    BY <1>4, TopIndex DEF WaitEnds, TimeIsUp, Waiting
  <2>2. StackOK(stack', readbuf)
    BY <1>4, <2>1, PopOK DEF WaitEnds
  <2>3. orphaned' \subseteq AckTypes
    BY <1>4, <2>1 DEF WaitEnds, WaitFrame, ClientTypeOK
  <2>4. unheard' \subseteq Topics
    BY <1>4, <2>1 DEF WaitEnds, Frame, WaitFrame, DeliverFrame, Op, ClientTypeOK
  <2> QED
    BY <1>4, <2>2, <2>3, <2>4 DEF WaitEnds, ClientTypeOK, LinkTypeOK, StackOK, linkVars,
         callVars, pingVars, tableVars
<1> QED
  BY <1>1, <1>2, <1>3, <1>4 DEF TimePasses

-----------------------------------------------------------------------------
(* The broker and the connection *)

\* What the client says of itself does not depend on the broker's steps.
LEMMA ClientUnchanged ==
    ASSUME ClientTypeOK, UNCHANGED clientVars
    PROVE  ClientTypeOK'
  BY DEF ClientTypeOK, clientVars, callVars, pingVars, tableVars, historyVars

\* The packet the broker takes is one the client may send.
LEMMA TakesTypes ==
    ASSUME LinkTypeOK, NEW types, Takes(types)
    PROVE  /\ Head(up) \in UpPacket /\ Head(up).type \in types
           /\ up' \in Seq(UpPacket)
  BY HeadTailProperties DEF Takes, LinkTypeOK

\* A packet sent keeps the type of the stream it is appended to.
LEMMA SendsTypes ==
    ASSUME LinkTypeOK, NEW p \in DownPacket
    PROVE  Append(down, p) \in Seq(DownPacket)
  BY AppendProperties DEF LinkTypeOK

\* An acknowledgement is a packet of the broker.
LEMMA BrokerAckType ==
    ASSUME LinkAssumption, NEW type \in PacketType \ {"PUBLISH"}, NEW id \in 0..MaxPacketId
    PROVE  Ack(type, id) \in DownPacket
  BY DEF Ack, MkPacket, DownPacket, Packet, LinkAssumption

\* The broker answers with one packet at most.
LEMMA AnswerCases ==
    ASSUME NEW p, p.type \in {"PUBLISH", "PUBREL", "PINGREQ"},
           p.type = "PUBLISH" => p.val \in {0, 1, 2}
    PROVE  \/ Answer(p) = <<>>
           \/ Answer(p) = <<Ack("PUBACK", p.id)>> \/ Answer(p) = <<Ack("PUBREC", p.id)>>
           \/ Answer(p) = <<Ack("PUBCOMP", p.id)>> \/ Answer(p) = <<Bare("PINGRESP")>>
  BY DEF Answer

\* A message in flight is published in a packet of the broker.
LEMMA PublishType ==
    ASSUME LinkAssumption, NEW id \in 0..MaxPacketId, NEW m \in Msgs
    PROVE  MkPacket("PUBLISH", id, QosOf[m], m) \in DownPacket
  BY DEF MkPacket, DownPacket, Packet, PacketType, LinkAssumption

\* Breaking the connection keeps the types.
LEMMA CloseTypes ==
    ASSUME TypeOK, Close
    PROVE  LinkTypeOK' /\ BrokerTypeOK'
<1>. USE DEF TypeOK
<1>1. PICK n \in 0..Len(down) : down' = SubSeq(down, 1, n)
  BY DEF Close
<1>2. down \in Seq(DownPacket) /\ Len(down) \in Nat
  BY LenProperties DEF LinkTypeOK
<1>3. n \in Int /\ n <= Len(down)
  BY <1>1, <1>2
<1>4. down' \in Seq(DownPacket)
  BY <1>1, <1>2, <1>3, PrefixType
<1>5. LinkTypeOK'
  BY <1>4, EmptySeq DEF Close, LinkTypeOK
<1>6. BrokerTypeOK'
  BY DEF Close, BrokerTypeOK, reuseVars
<1> QED
  BY <1>5, <1>6

\* Every step of the broker keeps the types.
LEMMA BrokerTypes ==
    ASSUME TypeOK, Assumptions, BrokerNext, UNCHANGED clientVars
    PROVE  TypeOK'
<1>. USE DEF TypeOK, Assumptions
<1>. ClientTypeOK'
  BY ClientUnchanged
<1>. SUFFICES LinkTypeOK' /\ BrokerTypeOK'
  OBVIOUS
<1>1. CASE BrokerConnack
  <2>1. up' \in Seq(UpPacket)
    BY <1>1, TakesTypes DEF BrokerConnack
  <2>2. PICK rc \in {0, NotAuthorized} :
           /\ down' = Append(down, MkPacket("CONNACK", 0, rc, None))
           /\ session' = (rc = 0)
    BY <1>1 DEF BrokerConnack, Sends
  <2>3. MkPacket("CONNACK", 0, rc, None) \in DownPacket
    BY <2>2 DEF MkPacket, DownPacket, Packet, PacketType, AckTypes, LinkAssumption
  <2> QED
    BY <1>1, <2>1, <2>2, <2>3, SendsTypes DEF BrokerConnack, LinkTypeOK, BrokerTypeOK, reuseVars
<1>2. CASE BrokerSuback
  <2>. DEFINE p == Head(up)
  <2>1. up' \in Seq(UpPacket) /\ p \in UpPacket /\ p.type = "SUBSCRIBE"
    BY <1>2, TakesTypes DEF BrokerSuback
  <2>2. p.body \in Topics /\ p \in Packet
    BY <2>1 DEF UpPacket
  <2>3. /\ MkPacket("SUBACK", p.id, p.val, None) \in DownPacket
        /\ MkPacket("SUBACK", p.id, Refused, None) \in DownPacket
    BY <2>2 DEF MkPacket, DownPacket, Packet, PacketType, AckTypes
  <2>4. down' \in Seq(DownPacket)
    <3>1. /\ Append(down, MkPacket("SUBACK", p.id, p.val, None)) \in Seq(DownPacket)
          /\ Append(down, MkPacket("SUBACK", p.id, Refused, None)) \in Seq(DownPacket)
      BY <2>3, SendsTypes
    <3> QED
      BY <1>2, <3>1 DEF BrokerSuback, Sends
  <2>5. subs' \subseteq Topics
    BY <1>2, <2>2 DEF BrokerSuback, BrokerTypeOK
  <2> QED
    BY <1>2, <2>1, <2>4, <2>5 DEF BrokerSuback, LinkTypeOK, BrokerTypeOK, reuseVars
<1>3. CASE BrokerUnsuback
  <2>1. up' \in Seq(UpPacket) /\ Head(up) \in Packet
    BY <1>3, TakesTypes DEF BrokerUnsuback, UpPacket
  <2>2. Ack("UNSUBACK", Head(up).id) \in DownPacket
    BY <2>1, BrokerAckType DEF Packet, PacketType, AckTypes
  <2> QED
    BY <1>3, <2>1, <2>2, SendsTypes DEF BrokerUnsuback, Sends, LinkTypeOK, BrokerTypeOK, reuseVars
<1>4. CASE BrokerAnswers
  <2>. DEFINE p == Head(up)
  <2>1. /\ up' \in Seq(UpPacket) /\ p \in UpPacket /\ p \in Packet
        /\ p.type \in {"PUBLISH", "PUBREL", "PINGREQ"}
    BY <1>4, TakesTypes DEF BrokerAnswers, UpPacket
  <2>2. \A type \in {"PUBACK", "PUBREC", "PUBCOMP", "PINGRESP"} :
          \A id \in {0, p.id} : Ack(type, id) \in DownPacket
    BY <2>1, BrokerAckType DEF Packet, PacketType, AckTypes, LinkAssumption
  <2>3. Answer(p) = <<>> \/ \E q \in DownPacket : Answer(p) = <<q>>
    <3>1. p.type = "PUBLISH" => p.val \in {0, 1, 2}
      BY <2>1 DEF UpPacket
    <3>2. /\ Bare("PINGRESP") \in DownPacket
          /\ Ack("PUBACK", p.id) \in DownPacket /\ Ack("PUBREC", p.id) \in DownPacket
          /\ Ack("PUBCOMP", p.id) \in DownPacket
      BY <2>2 DEF Bare
    <3>3. \/ Answer(p) = <<>>
          \/ Answer(p) = <<Ack("PUBACK", p.id)>> \/ Answer(p) = <<Ack("PUBREC", p.id)>>
          \/ Answer(p) = <<Ack("PUBCOMP", p.id)>> \/ Answer(p) = <<Bare("PINGRESP")>>
      BY <2>1, <3>1, AnswerCases
    <3> QED
      BY <3>2, <3>3
  <2>4. Answer(p) \in Seq(DownPacket)
    <3>1. ASSUME NEW q \in DownPacket PROVE <<q>> \in Seq(DownPacket)
      OBVIOUS
    <3>2. <<>> \in Seq(DownPacket)
      BY EmptySeq
    <3> QED
      BY <2>3, <3>1, <3>2
  <2>5. down' \in Seq(DownPacket)
    BY <1>4, <2>4, ConcatProperties DEF BrokerAnswers, LinkTypeOK
  <2> QED
    BY <1>4, <2>1, <2>5 DEF BrokerAnswers, LinkTypeOK, BrokerTypeOK, brokerVars, sessionVars, reuseVars
<1>5. CASE BrokerAcked
  <2>. DEFINE p == Head(up)
  <2>1. up' \in Seq(UpPacket) /\ p \in Packet
    BY <1>5, TakesTypes DEF BrokerAcked, UpPacket
  <2>2. Ack("PUBREL", p.id) \in DownPacket
    BY <2>1, BrokerAckType DEF Packet, PacketType
  <2>3. down' = down \/ down' = Append(down, Ack("PUBREL", p.id))
    BY <1>5 DEF BrokerAcked
  <2>4. down' \in Seq(DownPacket)
    <3>1. CASE down' = down
      BY <3>1 DEF LinkTypeOK
    <3>2. CASE Sends(Ack("PUBREL", p.id))
      BY <2>2, <3>2, SendsTypes DEF Sends
    <3> QED
      BY <2>3, <3>1, <3>2 DEF Sends
  <2>5. inflight' \in [BrokerIds -> InFlight] /\ acked' \subseteq Msgs
    <3>1. CASE ~Expected(p)
      BY <1>5, <3>1 DEF BrokerAcked, BrokerTypeOK
    <3>2. CASE Expected(p)
      <4>1. /\ p.id \in BrokerIds
            /\ inflight' = [inflight EXCEPT ![p.id] =
                              IF p.type = "PUBREC" THEN [@ EXCEPT !.phase = "rel"] ELSE Idle]
            /\ acked' = IF p.type = "PUBCOMP" \/ p.id \in reused THEN acked
                        ELSE acked \cup {inflight[p.id].msg}
            /\ p.type \in {"PUBACK", "PUBREC", "PUBCOMP"}
        BY <1>5, <3>2, TakesTypes DEF BrokerAcked, Expected
      <4>2. inflight[p.id] \in InFlight
        BY <4>1 DEF BrokerTypeOK
      <4>3. p.type # "PUBCOMP" => inflight[p.id].phase # "free"
        BY <3>2, <4>1 DEF Expected
      <4>4. p.type # "PUBCOMP" => inflight[p.id] \in [msg : Msgs, phase : {"pub", "rel"}]
        BY <4>2, <4>3 DEF InFlight, Idle
      <4>5. Idle \in InFlight
        BY DEF InFlight
      <4>6. p.type # "PUBCOMP" =>
              /\ [inflight[p.id] EXCEPT !.phase = "rel"] \in InFlight
              /\ inflight[p.id].msg \in Msgs
        BY <4>4 DEF InFlight
      <4> QED
        BY <4>1, <4>5, <4>6 DEF BrokerTypeOK
    <3> QED
      BY <3>1, <3>2
  <2> QED
    BY <1>5, <2>1, <2>4, <2>5 DEF BrokerAcked, LinkTypeOK, BrokerTypeOK, reuseVars
<1>6. CASE BrokerCloses \/ LinkBreaks
  BY <1>6, CloseTypes DEF BrokerCloses, LinkBreaks
<1>7. ASSUME NEW m \in Msgs, BrokerPublishes(m) PROVE LinkTypeOK' /\ BrokerTypeOK'
  <2>1. CASE Sends(MkPacket("PUBLISH", 0, 0, m)) /\ UNCHANGED inflight
    <3>1. MkPacket("PUBLISH", 0, 0, m) \in DownPacket
      BY DEF MkPacket, DownPacket, Packet, PacketType, LinkAssumption
    <3> QED
      BY <1>7, <2>1, <3>1, SendsTypes DEF BrokerPublishes, Sends, LinkTypeOK, BrokerTypeOK
  <2>2. ASSUME NEW id \in BrokerIds,
               inflight' = [inflight EXCEPT ![id] = [msg |-> m, phase |-> "pub"]],
               Sends(Publish(id))
        PROVE  LinkTypeOK' /\ BrokerTypeOK'
    <3>1. inflight' \in [BrokerIds -> InFlight] /\ inflight'[id].msg = m
      BY <2>2 DEF BrokerTypeOK, InFlight
    <3>2. Publish(id) \in DownPacket
      <4>1. id \in 0..MaxPacketId
        BY DEF BrokerAssumption, PacketId
      <4> QED
        BY <3>1, <4>1, PublishType DEF Publish
    <3> QED
      BY <1>7, <2>2, <3>1, <3>2, SendsTypes DEF BrokerPublishes, Sends, LinkTypeOK, BrokerTypeOK
  <2> QED
    BY <1>7, <2>1, <2>2 DEF BrokerPublishes
<1>8. ASSUME NEW id \in BrokerIds, BrokerRetries(id) PROVE LinkTypeOK' /\ BrokerTypeOK'
  <2>1. id \in 0..MaxPacketId
    BY DEF BrokerAssumption, PacketId
  <2>2. Ack("PUBREL", id) \in DownPacket
    BY <2>1, BrokerAckType DEF PacketType
  <2>3. inflight[id].phase = "pub" => Publish(id) \in DownPacket
    <3>1. inflight[id] \in InFlight /\ inflight' = inflight
      BY <1>8 DEF BrokerRetries, BrokerTypeOK
    <3>2. inflight[id].phase = "pub" => inflight[id].msg \in Msgs
      BY <3>1 DEF InFlight, Idle
    <3> QED
      BY <2>1, <3>1, <3>2, PublishType DEF Publish
  <2>4. down' \in Seq(DownPacket)
    <3>1. CASE inflight[id].phase = "pub" /\ Sends(Publish(id))
      BY <2>3, <3>1, SendsTypes DEF Sends
    <3>2. CASE Sends(Ack("PUBREL", id))
      BY <2>2, <3>2, SendsTypes DEF Sends
    <3> QED
      BY <1>8, <3>1, <3>2 DEF BrokerRetries
  <2> QED
    BY <1>8, <2>4 DEF BrokerRetries, LinkTypeOK, BrokerTypeOK
<1>9. CASE PeerStalls \/ PeerReads
  BY <1>9
  DEF PeerStalls, PeerReads, linkVars, sessionVars, reuseVars, LinkTypeOK, BrokerTypeOK
<1> QED
  BY <1>1, <1>2, <1>3, <1>4, <1>5, <1>6, <1>7, <1>8, <1>9 DEF BrokerNext

\* So does a new connection.
LEMMA ReconnectTypes ==
    ASSUME TypeOK, Assumptions, Reconnect
    PROVE  TypeOK'
<1>. USE DEF TypeOK, Assumptions
<1>1. PICK result \in {"open", "none"} : NewConnection(result)
  BY DEF Reconnect
<1>2. LinkTypeOK'
  BY <1>1, EmptySeq DEF NewConnection, LinkTypeOK
<1>3. ClientTypeOK'
  <2>1. messageHandlers' \in Seq(Topics) /\ Len(messageHandlers') <= MaxMessageHandlers
    BY <1>1, EmptySeq DEF NewConnection, ClientAssumption
  <2>2. incoming_qos2_messages' \in [Slots -> 0..MaxPacketId]
    BY <1>1 DEF NewConnection, LinkAssumption
  <2>3. StackOK(stack', readbuf')
    BY <1>1 DEF NewConnection, StackOK, ClientTypeOK
  <2>4. calls' \in Nat
    BY <1>1 DEF NewConnection, ClientTypeOK
  <2> QED
    BY <1>1, <2>1, <2>2, <2>3, <2>4 DEF NewConnection, ClientTypeOK, StackOK
<1>4. BrokerTypeOK'
  BY DEF Reconnect, FreshSession, BrokerTypeOK, InFlight
<1> QED
  BY <1>2, <1>3, <1>4

\* The initial state has the types.
LEMMA InitTypes ==
    ASSUME Assumptions, Init
    PROVE  TypeOK
<1>. USE DEF TypeOK, Assumptions
<1>1. LinkTypeOK
  BY EmptySeq DEF Init, LinkInit, LinkTypeOK
<1>2. ClientTypeOK
  <2>1. messageHandlers \in Seq(Topics) /\ Len(messageHandlers) <= MaxMessageHandlers
    BY EmptySeq DEF Init, ClientInit, ClientAssumption
  <2>2. stack \in Seq(Frame) /\ DOMAIN stack = {}
    BY EmptySeq DEF Init, ClientInit
  <2>3. incoming_qos2_messages \in [Slots -> 0..MaxPacketId]
    BY DEF Init, ClientInit, LinkAssumption
  <2>4. next_packetid \in 0..MaxPacketId /\ accepted \in [Msgs -> Nat]
    BY DEF Init, ClientInit, LinkAssumption
  <2> QED
    BY <2>1, <2>2, <2>3, <2>4 DEF Init, ClientInit, ClientTypeOK
<1>3. BrokerTypeOK
  BY DEF Init, BrokerInit, BrokerTypeOK, InFlight
<1> QED
  BY <1>1, <1>2, <1>3

\* TypeOK is inductive.
LEMMA NextTypes ==
    ASSUME TypeOK, Assumptions, [Next]_vars
    PROVE  TypeOK'
<1>1. CASE Reconnect
  BY <1>1, ReconnectTypes
<1>2. CASE Client
  <2>1. CASE AppCalls
    BY <1>2, <2>1, AppCallsTypes DEF Client
  <2>2. CASE CycleReads
    BY <1>2, <2>2, ReadPublishTypes, CycleTypes DEF Client, CycleReads
  <2>3. CASE Delivers \/ HandlerReturns
    BY <1>2, <2>3, DeliveryTypes DEF Client
  <2>4. CASE TimePasses \/ WaitEnds
    BY <1>2, <2>4, TimeTypes DEF Client
  <2> QED
    BY <1>2, <2>1, <2>2, <2>3, <2>4 DEF Client, ClientNext
<1>3. CASE Broker
  BY <1>3, BrokerTypes DEF Broker
<1>4. CASE UNCHANGED vars
  BY <1>4 DEF vars, linkVars, brokerVars, sessionVars, reuseVars, TypeOK, LinkTypeOK, BrokerTypeOK, ClientTypeOK,
       clientVars, callVars, pingVars, tableVars, historyVars
<1> QED
  BY <1>1, <1>2, <1>3, <1>4 DEF Next

\* The client's variables, the packets on the wire and the broker's session
\* have their types in every state, whatever the broker does: the fixed tables
\* of MQTTClient.h are never overrun, and a PUBLISH is delivered only while
\* readbuf holds one.
THEOREM TypeCorrect == Spec => []TypeOK
<1>. USE LinkAssumption, ClientAssumption, BrokerAssumption DEF Assumptions
<1>1. Init => TypeOK
  BY InitTypes
<1>2. TypeOK /\ [Next]_vars => TypeOK'
  BY NextTypes
<1> QED
  BY <1>1, <1>2, PTL DEF Spec

-----------------------------------------------------------------------------
(* The table of QoS 2 packet ids *)

\* Taking a slot for an id that has none keeps the ids apart.
LEMMA UseDistinct ==
    ASSUME ClientTypeOK, SlotsDistinct, NEW id, isQoS2msgidFree(id), useQoS2msgid(id)
    PROVE  SlotsDistinct'
  BY DEF ClientTypeOK, SlotsDistinct, isQoS2msgidFree, useQoS2msgid

\* Releasing one does too.
LEMMA FreeDistinct ==
    ASSUME ClientTypeOK, SlotsDistinct, NEW id, freeQoS2msgid(id)
    PROVE  SlotsDistinct'
  BY DEF ClientTypeOK, SlotsDistinct, freeQoS2msgid

\* Only a PUBLISH, a PUBREL and a new connection change the table.
LEMMA TableChanges ==
    ASSUME [Next]_vars
    PROVE  \/ UNCHANGED incoming_qos2_messages
           \/ \E id : isQoS2msgidFree(id) /\ useQoS2msgid(id)
           \/ \E id : freeQoS2msgid(id)
           \/ incoming_qos2_messages' = [i \in Slots |-> 0]
<1>. USE DEF tableVars
<1>1. CASE Reconnect
  BY <1>1 DEF Reconnect, NewConnection
<1>2. CASE Client
  <2>1. CASE AppCalls
    <3>1. CASE MQTTYield
      BY <3>1 DEF MQTTYield
    <3>2. ASSUME NEW p, NEW op, NEW await, NEW outcome, Request(p, op, await, outcome)
          PROVE  UNCHANGED incoming_qos2_messages
      BY <3>2 DEF Request
    <3>3. ASSUME NEW outcome, MQTTConnect(outcome) \/ MQTTDisconnect(outcome)
          PROVE  UNCHANGED incoming_qos2_messages
      BY <3>2, <3>3 DEF MQTTConnect, MQTTDisconnect
    <3>4. ASSUME NEW outcome, NEW qos, MQTTPublish(qos, outcome)
          PROVE  UNCHANGED incoming_qos2_messages
      BY <3>2, <3>4 DEF MQTTPublish
    <3>5. ASSUME NEW outcome, NEW t, MQTTUnsubscribe(t, outcome)
          PROVE  UNCHANGED incoming_qos2_messages
      BY <3>2, <3>5 DEF MQTTUnsubscribe
    <3>6. ASSUME NEW outcome, NEW t, NEW qos, MQTTSubscribe(t, qos, outcome)
          PROVE  UNCHANGED incoming_qos2_messages
      BY <3>2, <3>6 DEF MQTTSubscribe
    <3> QED
      BY <2>1, <3>1, <3>3, <3>4, <3>5, <3>6 DEF AppCalls
  <2>2. CASE ReadPublish
    BY <2>2 DEF ReadPublish
  <2>3. ASSUME NEW outcome, ReadPubrel(outcome)
        PROVE  freeQoS2msgid(Head(down).id) \/ UNCHANGED incoming_qos2_messages
    BY <2>3 DEF ReadPubrel
  <2>4. ASSUME NEW outcome,
               \/ CompleteConnect(outcome) \/ CompleteSubscribe(outcome)
               \/ CompleteOther(outcome) \/ DropAck(outcome)
               \/ ReadPingresp(outcome) \/ ReadPubrec(outcome)
        PROVE  UNCHANGED incoming_qos2_messages
    BY <2>4 DEF CompleteConnect, CompleteSubscribe, CompleteOther, DropAck, ReadPingresp,
         ReadPubrec
  <2>5. CASE Delivers \/ HandlerReturns \/ TimePasses \/ WaitEnds
    BY <2>5 DEF Delivers, CallHandler, AcknowledgePublish, HandlerReturns, TimePasses,
         PingTimerExpires, CycleIdle, TimerExpires, WaitEnds
  <2> QED
    BY <1>2, <2>1, <2>2, <2>3, <2>4, <2>5 DEF Client, ClientNext, CycleReads
<1>3. CASE Broker
  BY <1>3 DEF Broker, clientVars
<1>4. CASE UNCHANGED vars
  BY <1>4 DEF vars, clientVars
<1> QED
  BY <1>1, <1>2, <1>3, <1>4 DEF Next

\* isQoS2msgidFree, useQoS2msgid and freeQoS2msgid: in every state a packet id
\* occupies at most one slot of incoming_qos2_messages.
THEOREM SlotsDistinctHolds == Spec => []SlotsDistinct
<1>1. Init => SlotsDistinct
  BY DEF Init, ClientInit, SlotsDistinct
<1>2. TypeOK /\ SlotsDistinct /\ [Next]_vars => SlotsDistinct'
  <2>. SUFFICES ASSUME TypeOK, SlotsDistinct, [Next]_vars PROVE SlotsDistinct'
    OBVIOUS
  <2>1. CASE UNCHANGED incoming_qos2_messages
    BY <2>1 DEF SlotsDistinct
  <2>2. CASE incoming_qos2_messages' = [i \in Slots |-> 0]
    BY <2>2 DEF SlotsDistinct
  <2> QED
    BY <2>1, <2>2, TableChanges, UseDistinct, FreeDistinct DEF TypeOK
<1> QED
  BY <1>1, <1>2, TypeCorrect, PTL DEF Spec

-----------------------------------------------------------------------------
(* A QoS 2 message is delivered once at most *)

\* Position k of the stream to the client holds message m under packet id i;
\* the position after the last one stands for what the broker may still send.
Copy(k, m, i) ==
    \/ /\ k \in DOMAIN down /\ down[k].type = "PUBLISH"
       /\ down[k].body = m /\ down[k].id = i
    \/ /\ k = Len(down) + 1 /\ i \in BrokerIds
       /\ inflight[i] = [msg |-> m, phase |-> "pub"]

\* Position l holds a PUBREL for packet id i.
Release(l, i) == l \in DOMAIN down /\ down[l].type = "PUBREL" /\ down[l].id = i

Recorded(i) == ~isQoS2msgidFree(i)

\* The copies of m carry one id and no PUBREL for it is between them; once m
\* has been accepted, those still to come find their id in the table, and no
\* PUBREL that releases it comes before them.
OnceOf(m) ==
    /\ \A k \in Nat : \A i : Copy(k, m, i) => i # 0
    /\ \A j, k \in Nat : \A h, i : Copy(j, m, h) /\ Copy(k, m, i) => h = i
    /\ \A j, k, l \in Nat : \A i :
         Copy(j, m, i) /\ Copy(k, m, i) /\ j < l /\ l < k => ~Release(l, i)
    /\ accepted[m] # 0 =>
         /\ \A k \in Nat : \A i : Copy(k, m, i) => Recorded(i)
         /\ \A k, l \in Nat : \A i : Copy(k, m, i) /\ l < k => ~Release(l, i)
    /\ m \in unsent => accepted[m] = 0 /\ \A k \in Nat : \A i : ~Copy(k, m, i)
    /\ accepted[m] <= 1

\* A PUBLISH carries the QoS of its message.
QosRight == \A k \in DOMAIN down : down[k].type = "PUBLISH" => down[k].val = QosOf[down[k].body]

OnceInv == QosRight /\ \A m \in Msgs : QosOf[m] = 2 => OnceOf(m)

\* A step after which every copy of m stands, by the map g of positions, where
\* one stood before, and every PUBREL before or between copies too.
LEMMA Embeds ==
    ASSUME NEW m, NEW g, OnceOf(m),
           \A k \in Nat : \A i : Copy(k, m, i)' => g[k] \in Nat /\ Copy(g[k], m, i),
           \A k, l \in Nat : \A i :
             Copy(k, m, i)' /\ Release(l, i)' /\ l < k =>
               g[l] \in Nat /\ Release(g[l], i) /\ g[l] < g[k],
           \A j, l \in Nat : \A i :
             Copy(j, m, i)' /\ Release(l, i)' /\ j < l => g[j] < g[l],
           \A k \in Nat : \A i :
             accepted[m] # 0 /\ Copy(k, m, i)' /\ Recorded(i) => Recorded(i)',
           accepted'[m] = accepted[m], m \in unsent' => m \in unsent
    PROVE  OnceOf(m)'
<1>1. \A k \in Nat : \A i : Copy(k, m, i)' => i # 0
  BY DEF OnceOf
<1>2. \A j, k \in Nat : \A h, i : Copy(j, m, h)' /\ Copy(k, m, i)' => h = i
  BY DEF OnceOf
<1>3. \A j, k, l \in Nat : \A i :
        Copy(j, m, i)' /\ Copy(k, m, i)' /\ j < l /\ l < k => ~Release(l, i)'
  <2>. SUFFICES ASSUME NEW j \in Nat, NEW k \in Nat, NEW l \in Nat, NEW i,
                       Copy(j, m, i)', Copy(k, m, i)', j < l, l < k, Release(l, i)'
                PROVE  FALSE
    OBVIOUS
  <2>1. g[j] \in Nat /\ Copy(g[j], m, i) /\ g[k] \in Nat /\ Copy(g[k], m, i)
    OBVIOUS
  <2>2. g[l] \in Nat /\ Release(g[l], i) /\ g[l] < g[k] /\ g[j] < g[l]
    OBVIOUS
  <2> QED
    BY <2>1, <2>2 DEF OnceOf
<1>4. ASSUME accepted'[m] # 0
      PROVE  /\ \A k \in Nat : \A i : Copy(k, m, i)' => Recorded(i)'
             /\ \A k, l \in Nat : \A i : Copy(k, m, i)' /\ l < k => ~Release(l, i)'
  <2>1. accepted[m] # 0
    BY <1>4
  <2>2. \A k \in Nat : \A i : Copy(k, m, i)' => Recorded(i)'
    BY <2>1 DEF OnceOf
  <2>3. \A k, l \in Nat : \A i : Copy(k, m, i)' /\ l < k => ~Release(l, i)'
    BY <2>1 DEF OnceOf
  <2> QED
    BY <2>2, <2>3
<1>5. ASSUME m \in unsent'
      PROVE  accepted'[m] = 0 /\ \A k \in Nat : \A i : ~Copy(k, m, i)'
  BY <1>5 DEF OnceOf
<1>6. accepted'[m] <= 1
  BY DEF OnceOf
<1> QED
  BY <1>1, <1>2, <1>3, <1>4, <1>5, <1>6 DEF OnceOf

\* What the broker keeps of the messages in flight: none becomes pending.
NoneStarts(m) ==
    \A i \in BrokerIds :
        inflight'[i] = [msg |-> m, phase |-> "pub"] => inflight[i] = [msg |-> m, phase |-> "pub"]

\* A packet is sent to the client: a copy of m only as one pending, and no
\* PUBREL for the id m is pending under.
LEMMA AppendOnce ==
    ASSUME TypeOK, NEW p \in DownPacket, down' = Append(down, p), NEW m, OnceOf(m),
           NoneStarts(m),
           p.type = "PUBLISH" /\ p.body = m =>
             p.id \in BrokerIds /\ inflight[p.id] = [msg |-> m, phase |-> "pub"],
           p.type = "PUBREL" /\ p.id \in BrokerIds =>
             inflight'[p.id] # [msg |-> m, phase |-> "pub"],
           UNCHANGED <<incoming_qos2_messages, accepted>>, m \in unsent' => m \in unsent
    PROVE  OnceOf(m)'
<1>1. PICK n \in Nat : n = Len(down)
  BY LenProperties DEF TypeOK, LinkTypeOK
<1>2. PICK d : d = down'
  OBVIOUS
<1>3. /\ DOMAIN down = 1..n /\ DOMAIN d = 1..(n + 1) /\ Len(d) = n + 1
      /\ \A k \in 1..n : d[k] = down[k]
      /\ d[n + 1] = p
  BY <1>1, <1>2, AppendProperties, LenProperties DEF TypeOK, LinkTypeOK
<1>4. PICK g : g = [k \in Nat |-> IF k <= n THEN k ELSE n + 1]
  OBVIOUS
<1>5. \A k \in Nat : g[k] \in Nat /\ (k <= n => g[k] = k) /\ (k > n => g[k] = n + 1)
  BY <1>4
<1>6. \A k \in Nat : \A i : Copy(k, m, i)' =>
        \/ k \in 1..n /\ Copy(k, m, i)
        \/ k > n /\ Copy(n + 1, m, i)
  <2>. SUFFICES ASSUME NEW k \in Nat, NEW i, Copy(k, m, i)'
                PROVE  \/ k \in 1..n /\ Copy(k, m, i)
                       \/ k > n /\ Copy(n + 1, m, i)
    OBVIOUS
  <2>1. \/ k \in 1..(n + 1) /\ d[k].type = "PUBLISH" /\ d[k].body = m /\ d[k].id = i
        \/ k = n + 2 /\ i \in BrokerIds /\ inflight'[i] = [msg |-> m, phase |-> "pub"]
    BY <1>2, <1>3 DEF Copy
  <2>2. CASE k \in 1..n
    BY <1>3, <2>1, <2>2 DEF Copy
  <2>3. CASE k = n + 1
    BY <1>1, <1>3, <2>1, <2>3 DEF Copy
  <2>4. CASE k = n + 2
    BY <1>1, <1>3, <2>1, <2>4 DEF Copy, NoneStarts
  <2> QED
    BY <2>1, <2>2, <2>3, <2>4
<1>7. \A l \in Nat : \A i : Release(l, i)' =>
        \/ l \in 1..n /\ Release(l, i)
        \/ l = n + 1 /\ p.type = "PUBREL" /\ p.id = i
  BY <1>2, <1>3 DEF Release
<1>8. \A k \in Nat : \A i : Copy(k, m, i)' => g[k] \in Nat /\ Copy(g[k], m, i)
  BY <1>5, <1>6
<1>9. \A k, l \in Nat : \A i :
        Copy(k, m, i)' /\ Release(l, i)' /\ l < k =>
          g[l] \in Nat /\ Release(g[l], i) /\ g[l] < g[k]
  <2>. SUFFICES ASSUME NEW k \in Nat, NEW l \in Nat, NEW i, Copy(k, m, i)',
                       Release(l, i)', l < k
                PROVE  g[l] \in Nat /\ Release(g[l], i) /\ g[l] < g[k]
    OBVIOUS
  <2>1. CASE l \in 1..n /\ Release(l, i)
    BY <1>5, <2>1
  <2>2. CASE l = n + 1 /\ p.type = "PUBREL" /\ p.id = i
    <3>1. k # n + 1 /\ ~(k \in 1..n)
      BY <2>2
    <3>2. k = n + 2 /\ i \in BrokerIds /\ inflight'[i] = [msg |-> m, phase |-> "pub"]
      BY <1>2, <1>3, <2>2, <3>1 DEF Copy
    <3> QED
      BY <2>2, <3>2
  <2> QED
    BY <1>7, <2>1, <2>2
<1>10. \A j, l \in Nat : \A i :
         Copy(j, m, i)' /\ Release(l, i)' /\ j < l => g[j] < g[l]
  <2>1. \A l \in Nat : \A i : Release(l, i)' => l <= n + 1
    <3>. SUFFICES ASSUME NEW l \in Nat, NEW i, Release(l, i)' PROVE l <= n + 1
      OBVIOUS
    <3>1. l \in 1..(n + 1)
      BY <1>2, <1>3 DEF Release
    <3> QED
      BY <3>1
  <2> QED
    BY <1>5, <2>1
<1>11. \A i : Recorded(i) => Recorded(i)'
  BY DEF Recorded, isQoS2msgidFree
<1> QED
  BY <1>8, <1>9, <1>10, <1>11, Embeds

\* The stream stays as it is.
LEMMA SameOnce ==
    ASSUME TypeOK, down' = down, NEW m, OnceOf(m), NoneStarts(m),
           UNCHANGED <<incoming_qos2_messages, accepted>>, m \in unsent' => m \in unsent
    PROVE  OnceOf(m)'
<1>1. PICK g : g = [k \in Nat |-> k]
  OBVIOUS
<1>2. \A k \in Nat : g[k] = k
  BY <1>1
<1>3. \A k \in Nat : \A i : Copy(k, m, i)' => Copy(k, m, i)
  BY DEF Copy, NoneStarts
<1>4. \A l \in Nat : \A i : Release(l, i)' => Release(l, i)
  BY DEF Release
<1>5. \A i : Recorded(i) => Recorded(i)'
  BY DEF Recorded, isQoS2msgidFree
<1>6. \A k \in Nat : \A i : Copy(k, m, i)' => g[k] \in Nat /\ Copy(g[k], m, i)
  BY <1>2, <1>3
<1>7. \A k, l \in Nat : \A i :
        Copy(k, m, i)' /\ Release(l, i)' /\ l < k =>
          g[l] \in Nat /\ Release(g[l], i) /\ g[l] < g[k]
  BY <1>2, <1>4
<1>8. \A j, l \in Nat : \A i :
        Copy(j, m, i)' /\ Release(l, i)' /\ j < l => g[j] < g[l]
  BY <1>2
<1> QED
  BY <1>5, <1>6, <1>7, <1>8, Embeds

\* The connection ends: some of the stream is left.
LEMMA PrefixOnce ==
    ASSUME TypeOK, NEW n \in 0..Len(down), down' = SubSeq(down, 1, n),
           NEW m, OnceOf(m), NoneStarts(m),
           UNCHANGED <<incoming_qos2_messages, accepted>>, m \in unsent' => m \in unsent
    PROVE  OnceOf(m)'
<1>1. PICK N \in Nat : N = Len(down) /\ DOMAIN down = 1..N
  BY LenProperties DEF TypeOK, LinkTypeOK
<1>2. PICK d : d = down'
  OBVIOUS
<1>3. /\ n \in Nat /\ n <= N
      /\ DOMAIN d = 1..n /\ Len(d) = n
      /\ \A k \in 1..n : d[k] = down[k]
  <2>1. n \in Nat /\ n <= N /\ down \in Seq(DownPacket)
    BY <1>1 DEF TypeOK, LinkTypeOK
  <2>2. \A i \in 1..n : down[i] \in DownPacket
    BY <2>1, <1>1, ElementOfSeq
  <2>3. /\ SubSeq(down, 1, n) \in Seq(DownPacket)
        /\ Len(SubSeq(down, 1, n)) = IF 1 <= n THEN n - 1 + 1 ELSE 0
        /\ \A i \in 1..(n - 1 + 1) : SubSeq(down, 1, n)[i] = down[1 + i - 1]
    BY <2>1, <2>2, SubSeqProperties
  <2>4. d \in Seq(DownPacket) /\ Len(d) = n /\ \A i \in 1..n : d[i] = down[i]
    BY <1>2, <2>1, <2>3
  <2> QED
    BY <2>1, <2>4, LenProperties
<1>4. PICK g : g = [k \in Nat |-> IF k <= n THEN k ELSE N + 1]
  OBVIOUS
<1>5. \A k \in Nat : g[k] \in Nat /\ (k <= n => g[k] = k) /\ (k > n => g[k] = N + 1)
  BY <1>1, <1>4
<1>6. \A k \in Nat : \A i : Copy(k, m, i)' =>
        \/ k \in 1..n /\ Copy(k, m, i)
        \/ k = n + 1 /\ Copy(N + 1, m, i)
  <2>. SUFFICES ASSUME NEW k \in Nat, NEW i, Copy(k, m, i)'
                PROVE  \/ k \in 1..n /\ Copy(k, m, i)
                       \/ k = n + 1 /\ Copy(N + 1, m, i)
    OBVIOUS
  <2>1. \/ k \in 1..n /\ d[k].type = "PUBLISH" /\ d[k].body = m /\ d[k].id = i
        \/ k = n + 1 /\ i \in BrokerIds /\ inflight'[i] = [msg |-> m, phase |-> "pub"]
    BY <1>2, <1>3 DEF Copy
  <2>2. CASE k \in 1..n
    BY <1>1, <1>3, <2>1, <2>2 DEF Copy
  <2>3. CASE k = n + 1
    BY <1>1, <1>3, <2>1, <2>3 DEF Copy, NoneStarts
  <2> QED
    BY <2>1, <2>2, <2>3
<1>7. \A l \in Nat : \A i : Release(l, i)' => l \in 1..n /\ Release(l, i)
  BY <1>1, <1>2, <1>3 DEF Release
<1>8. \A k \in Nat : \A i : Copy(k, m, i)' => g[k] \in Nat /\ Copy(g[k], m, i)
  <2>. SUFFICES ASSUME NEW k \in Nat, NEW i, Copy(k, m, i)'
                PROVE  g[k] \in Nat /\ Copy(g[k], m, i)
    OBVIOUS
  <2>1. CASE k \in 1..n /\ Copy(k, m, i)
    <3>1. g[k] = k
      BY <1>5, <2>1
    <3> QED
      BY <2>1, <3>1
  <2>2. CASE k = n + 1 /\ Copy(N + 1, m, i)
    <3>1. k > n
      BY <1>1, <2>2
    <3>2. g[k] = N + 1
      BY <1>5, <3>1
    <3> QED
      BY <1>1, <2>2, <3>2
  <2> QED
    BY <1>6, <2>1, <2>2
<1>9. \A k, l \in Nat : \A i :
        Copy(k, m, i)' /\ Release(l, i)' /\ l < k =>
          g[l] \in Nat /\ Release(g[l], i) /\ g[l] < g[k]
  <2>. SUFFICES ASSUME NEW k \in Nat, NEW l \in Nat, NEW i, Copy(k, m, i)',
                       Release(l, i)', l < k
                PROVE  g[l] \in Nat /\ Release(g[l], i) /\ g[l] < g[k]
    OBVIOUS
  <2>1. l \in 1..n /\ Release(l, i)
    BY <1>7
  <2> QED
    BY <1>1, <1>3, <1>5, <2>1
<1>10. \A j, l \in Nat : \A i :
         Copy(j, m, i)' /\ Release(l, i)' /\ j < l => g[j] < g[l]
  <2>. SUFFICES ASSUME NEW j \in Nat, NEW l \in Nat, NEW i, Release(l, i)', j < l
                PROVE  g[j] < g[l]
    OBVIOUS
  <2>1. l \in 1..n
    BY <1>7
  <2> QED
    BY <1>3, <1>5, <2>1
<1>11. \A i : Recorded(i) => Recorded(i)'
  BY DEF Recorded, isQoS2msgidFree
<1> QED
  BY <1>8, <1>9, <1>10, <1>11, Embeds

\* The first packet of the stream, and where the others were.
LEMMA TailAt ==
    ASSUME TypeOK, down # <<>>, down' = Tail(down), UNCHANGED inflight
    PROVE  /\ 1 \in DOMAIN down /\ down[1] = Head(down)
           /\ \A k \in DOMAIN down' : k + 1 \in DOMAIN down /\ down'[k] = down[k + 1]
           /\ \A k \in Nat : \A m, i : Copy(k, m, i)' => k # 0 /\ Copy(k + 1, m, i)
           /\ \A k \in Nat : \A i : Release(k, i)' => k # 0 /\ Release(k + 1, i)
<1>1. PICK d : d = down'
  OBVIOUS
<1>2. /\ down \in Seq(DownPacket) /\ d \in Seq(DownPacket)
      /\ Len(d) = Len(down) - 1
      /\ \A k \in 1..Len(d) : d[k] = down[k + 1]
      /\ Head(down) = down[1]
  BY <1>1, HeadTailProperties DEF TypeOK, LinkTypeOK
<1>3. PICK n \in Nat : n = Len(d)
  BY <1>2, LenProperties
<1>4. DOMAIN d = 1..n /\ DOMAIN down = 1..(n + 1) /\ Len(down) = n + 1
  BY <1>2, <1>3, EmptySeq, LenProperties
<1>5. \A k \in Nat : \A m, i : Copy(k, m, i)' => k # 0 /\ Copy(k + 1, m, i)
  <2>. SUFFICES ASSUME NEW k \in Nat, NEW m, NEW i, Copy(k, m, i)'
                PROVE  k # 0 /\ Copy(k + 1, m, i)
    OBVIOUS
  <2>1. \/ k \in 1..n /\ d[k].type = "PUBLISH" /\ d[k].body = m /\ d[k].id = i
        \/ k = n + 1 /\ i \in BrokerIds /\ inflight[i] = [msg |-> m, phase |-> "pub"]
    BY <1>1, <1>3, <1>4 DEF Copy
  <2>2. CASE k \in 1..n
    <3>1. d[k] = down[k + 1] /\ k + 1 \in DOMAIN down
      BY <1>2, <1>3, <1>4, <2>2
    <3> QED
      BY <2>1, <2>2, <3>1 DEF Copy
  <2>3. CASE k = n + 1
    BY <1>4, <2>1, <2>3 DEF Copy
  <2> QED
    BY <2>1, <2>2, <2>3
<1>6. \A k \in Nat : \A i : Release(k, i)' => k # 0 /\ Release(k + 1, i)
  <2>. SUFFICES ASSUME NEW k \in Nat, NEW i, Release(k, i)'
                PROVE  k # 0 /\ Release(k + 1, i)
    OBVIOUS
  <2>1. k \in 1..n /\ d[k].type = "PUBREL" /\ d[k].id = i
    BY <1>1, <1>4 DEF Release
  <2>2. d[k] = down[k + 1] /\ k + 1 \in DOMAIN down /\ k # 0
    BY <1>2, <1>3, <1>4, <2>1
  <2> QED
    BY <2>1, <2>2 DEF Release
<1>7. \A k \in DOMAIN d : k + 1 \in DOMAIN down /\ d[k] = down[k + 1]
  BY <1>2, <1>3, <1>4
<1>8. 1 \in DOMAIN down
  BY <1>4
<1> QED
  BY <1>1, <1>2, <1>5, <1>6, <1>7, <1>8

\* The client reads a packet and does not accept m: an id released from the
\* table is that of a PUBREL read.
LEMMA TailOnce ==
    ASSUME TypeOK, down # <<>>, down' = Tail(down), UNCHANGED <<inflight, unsent>>,
           NEW m, OnceOf(m), accepted'[m] = accepted[m],
           \A i : Recorded(i) /\ i # 0 /\ ~Release(1, i) => Recorded(i)'
    PROVE  OnceOf(m)'
<1>1. PICK g : g = [k \in Nat |-> k + 1]
  OBVIOUS
<1>2. \A k \in Nat : g[k] = k + 1
  BY <1>1
<1>3. /\ \A k \in Nat : \A i : Copy(k, m, i)' => k # 0 /\ Copy(k + 1, m, i)
      /\ \A k \in Nat : \A i : Release(k, i)' => k # 0 /\ Release(k + 1, i)
  BY TailAt
<1>4. \A k \in Nat : \A i : Copy(k, m, i)' => g[k] \in Nat /\ Copy(g[k], m, i)
  <2>. SUFFICES ASSUME NEW k \in Nat, NEW i, Copy(k, m, i)'
                PROVE  g[k] \in Nat /\ Copy(g[k], m, i)
    OBVIOUS
  <2>1. g[k] = k + 1 /\ k + 1 \in Nat /\ Copy(k + 1, m, i)
    BY <1>2, <1>3
  <2> QED
    BY <2>1
<1>5. \A k, l \in Nat : \A i :
        Copy(k, m, i)' /\ Release(l, i)' /\ l < k =>
          g[l] \in Nat /\ Release(g[l], i) /\ g[l] < g[k]
  <2>. SUFFICES ASSUME NEW k \in Nat, NEW l \in Nat, NEW i, Release(l, i)', l < k
                PROVE  g[l] \in Nat /\ Release(g[l], i) /\ g[l] < g[k]
    OBVIOUS
  <2>1. g[l] = l + 1 /\ g[k] = k + 1 /\ l + 1 \in Nat /\ Release(l + 1, i)
    BY <1>2, <1>3
  <2> QED
    BY <2>1
<1>6. \A j, l \in Nat : \A i :
        Copy(j, m, i)' /\ Release(l, i)' /\ j < l => g[j] < g[l]
  <2>. SUFFICES ASSUME NEW j \in Nat, NEW l \in Nat, j < l PROVE g[j] < g[l]
    OBVIOUS
  <2> QED
    BY <1>2
<1>7. \A k \in Nat : \A i :
        accepted[m] # 0 /\ Copy(k, m, i)' /\ Recorded(i) => Recorded(i)'
  <2>. SUFFICES ASSUME NEW k \in Nat, NEW i, accepted[m] # 0, Copy(k, m, i)', Recorded(i)
                PROVE  Recorded(i)'
    OBVIOUS
  <2>1. k # 0 /\ Copy(k + 1, m, i)
    BY <1>3
  <2>2. k + 1 \in Nat /\ 1 \in Nat /\ 1 < k + 1
    BY <2>1
  <2>3. i # 0
    BY <2>1, <2>2 DEF OnceOf
  <2>4. ~Release(1, i)
    BY <2>1, <2>2 DEF OnceOf
  <2> QED
    BY <2>3, <2>4
<1> QED
  BY <1>4, <1>5, <1>6, <1>7, Embeds

\* The client accepts the copy of m it reads, whose id was not in the table.
LEMMA AcceptOnce ==
    ASSUME TypeOK, down # <<>>, down' = Tail(down), UNCHANGED <<inflight, unsent>>,
           NEW m, OnceOf(m), accepted'[m] = accepted[m] + 1,
           Head(down).type = "PUBLISH", Head(down).body = m,
           NEW h, Head(down).id = h, ~Recorded(h), Recorded(h)'
    PROVE  OnceOf(m)'
<1>1. /\ \A k \in Nat : \A i : Copy(k, m, i)' => k # 0 /\ Copy(k + 1, m, i)
      /\ \A k \in Nat : \A i : Release(k, i)' => k # 0 /\ Release(k + 1, i)
      /\ Copy(1, m, h)
  BY TailAt DEF Copy
<1>2. accepted[m] = 0 /\ m \notin unsent
  BY <1>1 DEF OnceOf
<1>3. \A k \in Nat : \A i : Copy(k, m, i)' => i = h
  BY <1>1 DEF OnceOf
<1>4. \A k \in Nat : \A i : Copy(k, m, i)' => i # 0
  BY <1>1 DEF OnceOf
<1>5. \A k, l \in Nat : \A i : Copy(k, m, i)' /\ l < k => ~Release(l, i)'
  <2>. SUFFICES ASSUME NEW k \in Nat, NEW l \in Nat, NEW i, Copy(k, m, i)', l < k,
                       Release(l, i)'
                PROVE  FALSE
    OBVIOUS
  <2>1. /\ Copy(k + 1, m, h) /\ i = h /\ l # 0 /\ Release(l + 1, h)
        /\ k + 1 \in Nat /\ l + 1 \in Nat /\ 1 < l + 1 /\ l + 1 < k + 1
    BY <1>1, <1>3
  <2> QED
    BY <1>1, <2>1 DEF OnceOf
<1>6. \A k \in Nat : \A i : Copy(k, m, i)' => Recorded(i)'
  <2>. SUFFICES ASSUME NEW k \in Nat, NEW i, Copy(k, m, i)' PROVE Recorded(i)'
    OBVIOUS
  <2>1. i = h
    BY <1>3
  <2> QED
    BY <2>1
<1>7. accepted'[m] = 1 /\ m \notin unsent'
  BY <1>2
<1> QED
  BY <1>3, <1>4, <1>5, <1>6, <1>7 DEF OnceOf

-----------------------------------------------------------------------------
(* The steps *)

\* useQoS2msgid enters the id and drops none.
LEMMA UseRecords ==
    ASSUME ClientTypeOK, NEW id, useQoS2msgid(id)
    PROVE  Recorded(id)' /\ \A i : i # 0 /\ Recorded(i) => Recorded(i)'
<1>1. PICK s \in Slots :
        /\ incoming_qos2_messages[s] = 0
        /\ incoming_qos2_messages' = [incoming_qos2_messages EXCEPT ![s] = id]
  BY DEF useQoS2msgid, FirstSlot
<1>2. incoming_qos2_messages'[s] = id
      /\ \A t \in Slots : t # s => incoming_qos2_messages'[t] = incoming_qos2_messages[t]
  BY <1>1 DEF ClientTypeOK
<1> QED
  BY <1>1, <1>2 DEF Recorded, isQoS2msgidFree, Slots

\* freeQoS2msgid drops its own id only.
LEMMA FreeRecords ==
    ASSUME ClientTypeOK, NEW id, freeQoS2msgid(id)
    PROVE  \A i : i # id /\ Recorded(i) => Recorded(i)'
<1>1. CASE UNCHANGED incoming_qos2_messages
  BY <1>1 DEF Recorded, isQoS2msgidFree
<1>2. CASE \E s \in Slots :
             /\ FirstSlot(s, id)
             /\ incoming_qos2_messages' = [incoming_qos2_messages EXCEPT ![s] = 0]
  <2>1. PICK s \in Slots :
          /\ incoming_qos2_messages[s] = id
          /\ incoming_qos2_messages' = [incoming_qos2_messages EXCEPT ![s] = 0]
    BY <1>2 DEF FirstSlot
  <2>2. \A t \in Slots : t # s => incoming_qos2_messages'[t] = incoming_qos2_messages[t]
    BY <2>1 DEF ClientTypeOK
  <2> QED
    BY <2>1, <2>2 DEF Recorded, isQoS2msgidFree, Slots
<1> QED
  BY <1>1, <1>2 DEF freeQoS2msgid

\* A client's step that is neither a PUBLISH nor a PUBREL read takes the first
\* packet or none, and leaves the table and what was accepted.
LEMMA ClientStream ==
    ASSUME ClientNext
    PROVE  \/ UNCHANGED <<down, incoming_qos2_messages, accepted>>
           \/ /\ down # <<>> /\ down' = Tail(down)
              /\ UNCHANGED <<incoming_qos2_messages, accepted>>
           \/ ReadPublish
           \/ \E outcome : ReadPubrel(outcome)
<1>. USE DEF tableVars, historyVars
<1>1. CASE AppCalls
  <2>. DEFINE Same == UNCHANGED <<down, incoming_qos2_messages, accepted>>
  <2>1. CASE MQTTYield
    BY <2>1 DEF MQTTYield, linkVars
  <2>2. ASSUME NEW p, NEW op, NEW await, NEW outcome, Request(p, op, await, outcome)
        PROVE  Same
    BY <2>2 DEF Request
  <2>3. ASSUME NEW outcome, MQTTConnect(outcome) \/ MQTTDisconnect(outcome) PROVE Same
    BY <2>2, <2>3 DEF MQTTConnect, MQTTDisconnect
  <2>4. ASSUME NEW outcome, NEW qos, MQTTPublish(qos, outcome) PROVE Same
    BY <2>2, <2>4 DEF MQTTPublish
  <2>5. ASSUME NEW outcome, NEW t, MQTTUnsubscribe(t, outcome) PROVE Same
    BY <2>2, <2>5 DEF MQTTUnsubscribe
  <2>6. ASSUME NEW outcome, NEW t, NEW qos, MQTTSubscribe(t, qos, outcome) PROVE Same
    BY <2>2, <2>6 DEF MQTTSubscribe
  <2> QED
    BY <1>1, <2>1, <2>3, <2>4, <2>5, <2>6 DEF AppCalls
<1>2. ASSUME NEW outcome,
             \/ CompleteConnect(outcome) \/ CompleteSubscribe(outcome)
             \/ CompleteOther(outcome) \/ DropAck(outcome)
             \/ ReadPingresp(outcome) \/ ReadPubrec(outcome)
      PROVE  /\ down # <<>> /\ down' = Tail(down)
             /\ UNCHANGED <<incoming_qos2_messages, accepted>>
  BY <1>2 DEF CompleteConnect, CompleteSubscribe, CompleteOther, DropAck, ReadPingresp,
       ReadPubrec, Reads
<1>3. CASE Delivers \/ HandlerReturns \/ TimePasses \/ WaitEnds
  BY <1>3 DEF Delivers, CallHandler, AcknowledgePublish, HandlerReturns, TimePasses,
       PingTimerExpires, CycleIdle, TimerExpires, WaitEnds, linkVars, keepalive
<1> QED
  BY <1>1, <1>2, <1>3 DEF ClientNext, CycleReads

\* The client's steps keep the invariant.
LEMMA ClientOnce ==
    ASSUME TypeOK, OnceInv, ClientNext, UNCHANGED brokerVars
    PROVE  OnceInv'
<1>. USE DEF brokerVars, sessionVars
<1>1. ASSUME NEW m PROVE NoneStarts(m)
  BY DEF NoneStarts
<1>2. CASE UNCHANGED <<down, incoming_qos2_messages, accepted>>
  <2>1. \A m \in Msgs : QosOf[m] = 2 => OnceOf(m)'
    BY <1>1, <1>2, SameOnce DEF OnceInv
  <2>2. QosRight'
    BY <1>2 DEF OnceInv, QosRight
  <2> QED
    BY <2>1, <2>2 DEF OnceInv
<1>3. ASSUME down # <<>>, down' = Tail(down)
      PROVE  /\ QosRight'
             /\ 1 \in DOMAIN down /\ down[1] = Head(down)
             /\ Head(down) \in DownPacket
  <2>1. /\ 1 \in DOMAIN down /\ down[1] = Head(down)
        /\ \A k \in DOMAIN down' : k + 1 \in DOMAIN down /\ down'[k] = down[k + 1]
    BY <1>3, TailAt
  <2>2. QosRight'
    BY <2>1 DEF OnceInv, QosRight
  <2>3. Head(down) \in DownPacket
    BY <1>3, HeadTailProperties DEF TypeOK, LinkTypeOK
  <2> QED
    BY <2>1, <2>2, <2>3
<1>4. CASE /\ down # <<>> /\ down' = Tail(down)
           /\ UNCHANGED <<incoming_qos2_messages, accepted>>
  <2>1. \A i : Recorded(i) => Recorded(i)'
    BY <1>4 DEF Recorded, isQoS2msgidFree
  <2>2. \A m \in Msgs : QosOf[m] = 2 => OnceOf(m)'
    BY <1>4, <2>1, TailOnce DEF OnceInv
  <2> QED
    BY <1>3, <1>4, <2>2 DEF OnceInv
<1>5. ASSUME NEW outcome, ReadPubrel(outcome)
      PROVE  OnceInv'
  <2>1. PICK h : h = Head(down).id
    OBVIOUS
  <2>2. /\ down # <<>> /\ down' = Tail(down) /\ Head(down).type = "PUBREL"
        /\ UNCHANGED accepted
        /\ freeQoS2msgid(h) \/ UNCHANGED incoming_qos2_messages
    BY <1>5, <2>1 DEF ReadPubrel, Reads, historyVars
  <2>3. Release(1, h)
    BY <1>3, <2>1, <2>2 DEF Release
  <2>4. \A i : Recorded(i) /\ i # 0 /\ ~Release(1, i) => Recorded(i)'
    <3>1. CASE UNCHANGED incoming_qos2_messages
      BY <3>1 DEF Recorded, isQoS2msgidFree
    <3>2. CASE freeQoS2msgid(h)
      BY <2>3, <3>2, FreeRecords DEF TypeOK
    <3> QED
      BY <2>2, <3>1, <3>2
  <2>5. \A m \in Msgs : QosOf[m] = 2 => OnceOf(m)'
    BY <2>2, <2>4, TailOnce DEF OnceInv
  <2> QED
    BY <1>3, <2>2, <2>5 DEF OnceInv
<1>6. CASE ReadPublish
  <2>1. PICK p : p = Head(down)
    OBVIOUS
  <2>2. /\ down # <<>> /\ down' = Tail(down) /\ p.type = "PUBLISH"
        /\ \/ p.val # 2 /\ Accept(p) /\ UNCHANGED incoming_qos2_messages
           \/ p.val = 2 /\ isQoS2msgidFree(p.id) /\ useQoS2msgid(p.id) /\ Accept(p)
           \/ UNCHANGED <<incoming_qos2_messages, accepted>>
    BY <1>6, <2>1 DEF ReadPublish, Reads, Ignore
  <2>3. p.body \in Msgs /\ p.val = QosOf[p.body] /\ QosRight'
    BY <1>3, <2>1, <2>2 DEF OnceInv, QosRight, DownPacket
  <2>4. CASE UNCHANGED <<incoming_qos2_messages, accepted>>
    BY <1>4, <2>2, <2>4
  <2>5. CASE p.val # 2 /\ Accept(p) /\ UNCHANGED incoming_qos2_messages
    <3>1. \A i : Recorded(i) => Recorded(i)'
      BY <2>5 DEF Recorded, isQoS2msgidFree
    <3>2. ASSUME NEW m \in Msgs, QosOf[m] = 2 PROVE accepted'[m] = accepted[m]
      BY <2>3, <2>5, <3>2 DEF Accept, TypeOK, ClientTypeOK
    <3>3. \A m \in Msgs : QosOf[m] = 2 => OnceOf(m)'
      BY <2>2, <3>1, <3>2, TailOnce DEF OnceInv
    <3> QED
      BY <2>3, <3>3 DEF OnceInv
  <2>6. CASE p.val = 2 /\ isQoS2msgidFree(p.id) /\ useQoS2msgid(p.id) /\ Accept(p)
    <3>1. PICK h : h = p.id
      OBVIOUS
    <3>2. /\ ~Recorded(h) /\ Recorded(h)'
          /\ \A i : i # 0 /\ Recorded(i) => Recorded(i)'
      BY <2>6, <3>1, UseRecords DEF Recorded, TypeOK
    <3>3. ASSUME NEW m \in Msgs, QosOf[m] = 2 PROVE OnceOf(m)'
      <4>1. CASE m = p.body
        <5>1. accepted'[m] = accepted[m] + 1
          BY <2>6, <4>1 DEF Accept, TypeOK, ClientTypeOK
        <5> QED
          BY <2>1, <2>2, <3>1, <3>2, <3>3, <4>1, <5>1, AcceptOnce DEF OnceInv
      <4>2. CASE m # p.body
        <5>1. accepted'[m] = accepted[m]
          BY <2>6, <4>2 DEF Accept, TypeOK, ClientTypeOK
        <5> QED
          BY <2>2, <3>2, <3>3, <5>1, TailOnce DEF OnceInv
      <4> QED
        BY <4>1, <4>2
    <3> QED
      BY <2>3, <3>3 DEF OnceInv
  <2> QED
    BY <2>2, <2>4, <2>5, <2>6
<1> QED
  BY <1>2, <1>4, <1>5, <1>6, ClientStream

\* What is appended to the stream carries the QoS of its message.
LEMMA AppendQos ==
    ASSUME TypeOK, QosRight, NEW p \in DownPacket, down' = Append(down, p),
           p.type = "PUBLISH" => p.val = QosOf[p.body]
    PROVE  QosRight'
<1>1. PICK n \in Nat : n = Len(down) /\ DOMAIN down = 1..n
  BY LenProperties DEF TypeOK, LinkTypeOK
<1>2. PICK d : d = down'
  OBVIOUS
<1>3. /\ DOMAIN d = 1..(n + 1) /\ d[n + 1] = p
      /\ \A k \in 1..n : d[k] = down[k]
  BY <1>1, <1>2, AppendProperties, LenProperties DEF TypeOK, LinkTypeOK
<1>4. ASSUME NEW k \in DOMAIN d, d[k].type = "PUBLISH" PROVE d[k].val = QosOf[d[k].body]
  <2>1. CASE k = n + 1
    BY <1>3, <1>4, <2>1
  <2>2. CASE k # n + 1
    BY <1>1, <1>3, <1>4, <2>2 DEF QosRight
  <2> QED
    BY <2>1, <2>2
<1> QED
  BY <1>2, <1>4 DEF QosRight

\* The broker sends something that is neither a PUBLISH nor a PUBREL.
LEMMA OtherOnce ==
    ASSUME TypeOK, OnceInv, NEW p \in DownPacket, p.type \notin {"PUBLISH", "PUBREL"},
           down' = Append(down, p),
           UNCHANGED <<inflight, incoming_qos2_messages, accepted, unsent>>
    PROVE  OnceInv'
<1>1. QosRight'
  BY AppendQos DEF OnceInv
<1>2. \A m \in Msgs : QosOf[m] = 2 => OnceOf(m)'
  BY AppendOnce DEF OnceInv, NoneStarts
<1> QED
  BY <1>1, <1>2 DEF OnceInv

\* A new connection: nothing of the old one is left.
LEMMA ReconnectOnce ==
    ASSUME TypeOK, Assumptions, OnceInv, Reconnect
    PROVE  OnceInv'
<1>1. /\ down' = <<>> /\ UNCHANGED <<accepted, unsent>>
      /\ \A i \in BrokerIds : inflight'[i].phase = "free"
  BY DEF Reconnect, NewConnection, FreshSession, Idle
<1>2. \A k \in Nat : \A m, i : ~Copy(k, m, i)'
  <2>1. \A k : k \notin DOMAIN down'
    BY <1>1
  <2>2. \A m : \A i \in BrokerIds : inflight'[i] # [msg |-> m, phase |-> "pub"]
    BY <1>1
  <2> QED
    BY <2>1, <2>2 DEF Copy
<1>3. QosRight'
  BY <1>1 DEF QosRight
<1>4. \A m \in Msgs : QosOf[m] = 2 => OnceOf(m)'
  BY <1>1, <1>2 DEF OnceOf, OnceInv
<1> QED
  BY <1>3, <1>4 DEF OnceInv

\* A message is published for the first time.
LEMMA PublishOnce ==
    ASSUME TypeOK, Assumptions, OnceInv, NEW m \in Msgs, BrokerPublishes(m),
           UNCHANGED clientVars
    PROVE  OnceInv'
<1>1. UNCHANGED <<incoming_qos2_messages, accepted>> /\ m \in unsent /\ unsent' = unsent \ {m}
  BY DEF clientVars, tableVars, historyVars, BrokerPublishes
<1>2. CASE /\ QosOf[m] = 0
           /\ Sends(MkPacket("PUBLISH", 0, 0, m))
           /\ UNCHANGED inflight
  <2>1. PICK p \in DownPacket : p = MkPacket("PUBLISH", 0, QosOf[m], m)
    BY PublishType DEF Assumptions, LinkAssumption
  <2>2. /\ down' = Append(down, p) /\ p.type = "PUBLISH" /\ p.body = m /\ p.val = QosOf[m]
    BY <1>2, <2>1 DEF Sends, MkPacket
  <2>3. QosRight'
    BY <2>2, AppendQos DEF OnceInv
  <2>4. ASSUME NEW n \in Msgs, QosOf[n] = 2 PROVE OnceOf(n)'
    <3>1. NoneStarts(n) /\ n # m
      BY <1>2, <2>4 DEF NoneStarts
    <3> QED
      BY <1>1, <2>2, <2>4, <3>1, AppendOnce DEF OnceInv
  <2> QED
    BY <2>3, <2>4 DEF OnceInv
<1>3. ASSUME NEW id \in BrokerIds,
             inflight[id].phase = "free",
             inflight' = [inflight EXCEPT ![id] = [msg |-> m, phase |-> "pub"]],
             Sends(Publish(id))
      PROVE  OnceInv'
  <2>1. id \in 1..MaxPacketId
    BY DEF Assumptions, BrokerAssumption, PacketId
  <2>2. /\ inflight'[id] = [msg |-> m, phase |-> "pub"]
        /\ \A i \in BrokerIds : i # id => inflight'[i] = inflight[i]
    BY <1>3 DEF TypeOK, BrokerTypeOK
  <2>3. PICK p \in DownPacket : p = MkPacket("PUBLISH", id, QosOf[m], m)
    BY <2>1, PublishType DEF Assumptions, LinkAssumption
  <2>4. /\ down' = Append(down, p) /\ p.type = "PUBLISH" /\ p.id = id
        /\ p.body = m /\ p.val = QosOf[m]
    BY <1>3, <2>2, <2>3 DEF Sends, Publish, MkPacket
  <2>5. QosRight'
    BY <2>4, AppendQos DEF OnceInv
  <2>6. ASSUME NEW n \in Msgs, QosOf[n] = 2, n # m PROVE OnceOf(n)'
    <3>1. NoneStarts(n)
      BY <2>2, <2>6 DEF NoneStarts
    <3> QED
      BY <1>1, <2>4, <2>6, <3>1, AppendOnce DEF OnceInv
  <2>7. ASSUME QosOf[m] = 2 PROVE OnceOf(m)'
    <3>1. accepted[m] = 0 /\ \A k \in Nat : \A i : ~Copy(k, m, i)
      BY <1>1, <2>7 DEF OnceInv, OnceOf
    <3>2. PICK n \in Nat : n = Len(down) /\ DOMAIN down = 1..n
      BY LenProperties DEF TypeOK, LinkTypeOK
    <3>3. PICK d : d = down'
      OBVIOUS
    <3>4. /\ DOMAIN d = 1..(n + 1) /\ Len(d) = n + 1
          /\ \A k \in 1..n : d[k] = down[k]
      BY <2>4, <3>2, <3>3, AppendProperties, LenProperties DEF TypeOK, LinkTypeOK
    <3>5. \A k \in Nat : \A i : Copy(k, m, i)' => i = id /\ (k = n + 1 \/ k = n + 2)
      <4>. SUFFICES ASSUME NEW k \in Nat, NEW i, Copy(k, m, i)'
                    PROVE  i = id /\ (k = n + 1 \/ k = n + 2)
        OBVIOUS
      <4>1. CASE k \in 1..n
        <5>1. down[k].type = "PUBLISH" /\ down[k].body = m /\ down[k].id = i
          BY <3>3, <3>4, <4>1 DEF Copy
        <5> QED
          BY <3>1, <3>2, <4>1, <5>1 DEF Copy
      <4>2. CASE k = n + 1
        <5>1. d[k] = p
          BY <2>4, <3>2, <3>3, <4>2, AppendProperties DEF TypeOK, LinkTypeOK
        <5>2. p.id = i
          BY <3>3, <3>4, <4>2, <5>1 DEF Copy
        <5> QED
          BY <2>4, <4>2, <5>2
      <4>3. CASE k \notin 1..(n + 1)
        <5>1. k = n + 2 /\ i \in BrokerIds /\ inflight'[i] = [msg |-> m, phase |-> "pub"]
          BY <3>3, <3>4, <4>3 DEF Copy
        <5>2. i # id => inflight[i] = [msg |-> m, phase |-> "pub"]
          BY <2>2, <5>1
        <5>3. i # id => Copy(n + 1, m, i)
          BY <3>2, <5>1, <5>2 DEF Copy
        <5> QED
          BY <3>1, <5>1, <5>3
      <4> QED
        BY <4>1, <4>2, <4>3
    <3>6. \A j, k, l \in Nat : \A h, i :
            Copy(j, m, h)' /\ Copy(k, m, i)' => h = i /\ i # 0 /\ ~(j < l /\ l < k)
      BY <2>1, <3>5
    <3>7. accepted'[m] = 0 /\ m \notin unsent'
      BY <1>1, <3>1
    <3> QED
      BY <3>6, <3>7 DEF OnceOf
  <2> QED
    BY <2>5, <2>6, <2>7 DEF OnceInv
<1> QED
  BY <1>2, <1>3 DEF BrokerPublishes

\* A message or its PUBREL is sent again.
LEMMA RetryOnce ==
    ASSUME TypeOK, Assumptions, OnceInv, NEW id \in BrokerIds, BrokerRetries(id),
           UNCHANGED clientVars
    PROVE  OnceInv'
<1>1. UNCHANGED <<incoming_qos2_messages, accepted, inflight, unsent>>
  BY DEF clientVars, tableVars, historyVars, BrokerRetries
<1>2. id \in 0..MaxPacketId /\ inflight[id] \in InFlight
  BY DEF Assumptions, BrokerAssumption, PacketId, LinkAssumption, TypeOK, BrokerTypeOK
<1>3. ASSUME NEW m PROVE NoneStarts(m)
  BY <1>1 DEF NoneStarts
<1>4. CASE inflight[id].phase = "pub" /\ Sends(Publish(id))
  <2>1. PICK m \in Msgs : inflight[id] = [msg |-> m, phase |-> "pub"]
    BY <1>2, <1>4 DEF InFlight, Idle
  <2>2. PICK p \in DownPacket : p = MkPacket("PUBLISH", id, QosOf[m], m)
    BY <1>2, PublishType DEF Assumptions, LinkAssumption
  <2>3. /\ down' = Append(down, p) /\ p.type = "PUBLISH" /\ p.id = id
        /\ p.body = m /\ p.val = QosOf[m]
    BY <1>1, <1>4, <2>1, <2>2 DEF Sends, Publish, MkPacket
  <2>4. QosRight'
    BY <2>3, AppendQos DEF OnceInv
  <2>5. \A n \in Msgs : QosOf[n] = 2 => OnceOf(n)'
    BY <1>1, <1>3, <2>1, <2>3, AppendOnce DEF OnceInv
  <2> QED
    BY <2>4, <2>5 DEF OnceInv
<1>5. CASE inflight[id].phase = "rel" /\ Sends(Ack("PUBREL", id))
  <2>1. PICK p \in DownPacket : p = Ack("PUBREL", id)
    BY <1>2, BrokerAckType DEF Assumptions, LinkAssumption, PacketType
  <2>2. down' = Append(down, p) /\ p.type = "PUBREL" /\ p.id = id
    BY <1>5, <2>1 DEF Sends, Ack, MkPacket
  <2>3. \A n : inflight'[id] # [msg |-> n, phase |-> "pub"]
    BY <1>1, <1>5
  <2>4. QosRight'
    BY <2>2, AppendQos DEF OnceInv
  <2>5. \A n \in Msgs : QosOf[n] = 2 => OnceOf(n)'
    BY <1>1, <1>3, <2>2, <2>3, AppendOnce DEF OnceInv
  <2> QED
    BY <2>4, <2>5 DEF OnceInv
<1> QED
  BY <1>4, <1>5 DEF BrokerRetries

\* The broker takes an acknowledgement.
LEMMA AckedOnce ==
    ASSUME TypeOK, Assumptions, OnceInv, BrokerAcked, UNCHANGED clientVars
    PROVE  OnceInv'
<1>1. UNCHANGED <<incoming_qos2_messages, accepted, unsent>>
  BY DEF clientVars, tableVars, historyVars, BrokerAcked
<1>2. PICK p \in UpPacket : p = Head(up)
  BY TakesTypes DEF BrokerAcked, TypeOK
<1>3. ASSUME down' = down, \A m : NoneStarts(m) PROVE OnceInv'
  <2>1. \A m \in Msgs : QosOf[m] = 2 => OnceOf(m)'
    BY <1>1, <1>3, SameOnce DEF OnceInv
  <2>2. QosRight'
    BY <1>3 DEF OnceInv, QosRight
  <2> QED
    BY <2>1, <2>2 DEF OnceInv
<1>4. CASE ~Expected(p) /\ UNCHANGED <<inflight, acked, down>>
  BY <1>3, <1>4 DEF NoneStarts
<1>5. CASE /\ Expected(p)
           /\ inflight' = [inflight EXCEPT ![p.id] =
                             IF p.type = "PUBREC" THEN [@ EXCEPT !.phase = "rel"] ELSE Idle]
           /\ down' = IF p.type = "PUBREC" THEN Append(down, Ack("PUBREL", p.id)) ELSE down
  <2>1. p.id \in BrokerIds /\ p.id \in 0..MaxPacketId /\ inflight[p.id] \in InFlight
    BY <1>5 DEF Expected, TypeOK, BrokerTypeOK, UpPacket, Packet
  <2>2. PICK f : f = IF p.type = "PUBREC" THEN [inflight[p.id] EXCEPT !.phase = "rel"] ELSE Idle
    OBVIOUS
  <2>3. f.phase # "pub"
    BY <2>1, <2>2 DEF InFlight, Idle
  <2>4. /\ inflight'[p.id] = f
        /\ \A i \in BrokerIds : i # p.id => inflight'[i] = inflight[i]
    BY <1>5, <2>1, <2>2 DEF TypeOK, BrokerTypeOK
  <2>5. \A m : inflight'[p.id] # [msg |-> m, phase |-> "pub"]
    BY <2>3, <2>4
  <2>6. \A m : NoneStarts(m)
    BY <2>4, <2>5 DEF NoneStarts
  <2>7. CASE p.type # "PUBREC"
    BY <1>3, <1>5, <2>6, <2>7
  <2>8. CASE p.type = "PUBREC"
    <3>1. PICK q \in DownPacket : q = Ack("PUBREL", p.id)
      BY <2>1, BrokerAckType DEF Assumptions, LinkAssumption, PacketType
    <3>2. down' = Append(down, q) /\ q.type = "PUBREL" /\ q.id = p.id
      BY <1>5, <2>8, <3>1 DEF Ack, MkPacket
    <3>3. QosRight'
      BY <3>2, AppendQos DEF OnceInv
    <3>4. \A m \in Msgs : QosOf[m] = 2 => OnceOf(m)'
      BY <1>1, <2>5, <2>6, <3>2, AppendOnce DEF OnceInv
    <3> QED
      BY <3>3, <3>4 DEF OnceInv
  <2> QED
    BY <2>7, <2>8
<1> QED
  BY <1>2, <1>4, <1>5 DEF BrokerAcked

\* The connection ends.
LEMMA CloseOnce ==
    ASSUME TypeOK, OnceInv, Close, UNCHANGED clientVars
    PROVE  OnceInv'
<1>1. UNCHANGED <<incoming_qos2_messages, accepted, inflight, unsent>>
  BY DEF clientVars, tableVars, historyVars, Close
<1>2. PICK n \in 0..Len(down) : down' = SubSeq(down, 1, n)
  BY DEF Close
<1>3. QosRight'
  <2>1. n \in Int /\ n <= Len(down) /\ down \in Seq(DownPacket)
    BY LenProperties DEF TypeOK, LinkTypeOK
  <2>2. \A k \in DOMAIN SubSeq(down, 1, n) :
          k \in DOMAIN down /\ SubSeq(down, 1, n)[k] = down[k]
    BY <2>1, PrefixType
  <2>3. \A k \in DOMAIN down' : k \in DOMAIN down /\ down'[k] = down[k]
    BY <1>2, <2>2
  <2> QED
    BY <2>3 DEF OnceInv, QosRight
<1>4. ASSUME NEW m \in Msgs, QosOf[m] = 2 PROVE OnceOf(m)'
  <2>1. NoneStarts(m) /\ OnceOf(m)
    BY <1>1, <1>4 DEF NoneStarts, OnceInv
  <2> QED
    BY <1>1, <1>2, <2>1, PrefixOnce
<1> QED
  BY <1>3, <1>4 DEF OnceInv

\* The broker answers a packet that is not an acknowledgement.
LEMMA AnswerOnce ==
    ASSUME TypeOK, Assumptions, OnceInv, UNCHANGED clientVars,
           BrokerConnack \/ BrokerSuback \/ BrokerUnsuback \/ BrokerAnswers
    PROVE  OnceInv'
<1>1. UNCHANGED <<inflight, incoming_qos2_messages, accepted, unsent>>
  BY DEF clientVars, tableVars, historyVars, BrokerConnack, BrokerSuback, BrokerUnsuback,
       BrokerAnswers, brokerVars, sessionVars
<1>2. ASSUME NEW p \in DownPacket, p.type \notin {"PUBLISH", "PUBREL"}, Sends(p)
      PROVE  OnceInv'
  BY <1>1, <1>2, OtherOnce DEF Sends
<1>3. PICK q : q = Head(up)
  OBVIOUS
<1>4. q \in UpPacket /\ q.id \in 0..MaxPacketId
  BY <1>3, TakesTypes DEF BrokerConnack, BrokerSuback, BrokerUnsuback, BrokerAnswers, TypeOK,
       UpPacket, Packet
<1>5. CASE BrokerConnack
  <2>1. PICK rc \in {0, NotAuthorized} : Sends(MkPacket("CONNACK", 0, rc, None))
    BY <1>5 DEF BrokerConnack
  <2>2. MkPacket("CONNACK", 0, rc, None) \in DownPacket
    BY DEF MkPacket, DownPacket, Packet, PacketType, AckTypes, Assumptions, LinkAssumption
  <2> QED
    BY <1>2, <2>1, <2>2 DEF MkPacket
<1>6. CASE BrokerSuback
  <2>1. q.val \in 0..2 \cup {NotAuthorized, Refused}
    BY <1>4 DEF UpPacket, Packet
  <2>2. PICK v \in {q.val, Refused} : Sends(MkPacket("SUBACK", q.id, v, None))
    BY <1>3, <1>6 DEF BrokerSuback
  <2>3. MkPacket("SUBACK", q.id, v, None) \in DownPacket
    BY <1>4, <2>1 DEF MkPacket, DownPacket, Packet, PacketType, AckTypes
  <2> QED
    BY <1>2, <2>2, <2>3 DEF MkPacket
<1>7. CASE BrokerUnsuback
  <2>1. Ack("UNSUBACK", q.id) \in DownPacket
    BY <1>4, BrokerAckType DEF PacketType, AckTypes, Assumptions
  <2> QED
    BY <1>2, <1>3, <1>7, <2>1 DEF BrokerUnsuback, Ack, MkPacket
<1>8. CASE BrokerAnswers
  <2>1. down' = down \o Answer(q) /\ down \in Seq(DownPacket)
    BY <1>3, <1>8 DEF BrokerAnswers, TypeOK, LinkTypeOK
  <2>2. CASE Answer(q) = <<>>
    <3>1. down' = down
      BY <2>1, <2>2, ConcatEmptySeq
    <3>2. \A m \in Msgs : QosOf[m] = 2 => OnceOf(m)'
      BY <1>1, <3>1, SameOnce DEF OnceInv, NoneStarts
    <3> QED
      BY <3>1, <3>2 DEF OnceInv, QosRight
  <2>3. ASSUME NEW type \in {"PUBACK", "PUBREC", "PUBCOMP", "PINGRESP"},
               NEW id \in 0..MaxPacketId, Answer(q) = <<Ack(type, id)>>
        PROVE  OnceInv'
    <3>1. Ack(type, id) \in DownPacket /\ Ack(type, id).type = type
      <4>1. type \in PacketType \ {"PUBLISH"}
        BY DEF PacketType, AckTypes
      <4> QED
        BY <4>1, BrokerAckType DEF Assumptions, Ack, MkPacket
    <3>2. PICK a \in DownPacket : a = Ack(type, id)
      BY <3>1
    <3>3. Sends(a)
      BY <2>1, <2>3, <3>2, AppendIsConcat DEF Sends
    <3> QED
      BY <1>2, <3>1, <3>2, <3>3
  <2>4. \/ Answer(q) = <<>>
        \/ \E type \in {"PUBACK", "PUBREC", "PUBCOMP", "PINGRESP"} :
             \E id \in 0..MaxPacketId : Answer(q) = <<Ack(type, id)>>
    <3>1. q.type \in {"PUBLISH", "PUBREL", "PINGREQ"} /\ (q.type = "PUBLISH" => q.val \in {0, 1, 2})
      <4>1. q.type \in {"PUBLISH", "PUBREL", "PINGREQ"}
        BY <1>3, <1>8, TakesTypes DEF BrokerAnswers, TypeOK
      <4>2. q.type = "PUBLISH" => q.val \in 0..2
        BY <1>4 DEF UpPacket
      <4> QED
        BY <4>1, <4>2
    <3>2. 0 \in 0..MaxPacketId
      BY DEF Assumptions, LinkAssumption
    <3> QED
      BY <1>4, <3>1, <3>2, AnswerCases DEF Bare
  <2> QED
    BY <2>2, <2>3, <2>4
<1> QED
  BY <1>5, <1>6, <1>7, <1>8

\* Steps that change nothing of this.
LEMMA QuietOnce ==
    ASSUME TypeOK, OnceInv,
           UNCHANGED <<down, inflight, incoming_qos2_messages, accepted, unsent>>
    PROVE  OnceInv'
<1>1. \A m \in Msgs : QosOf[m] = 2 => OnceOf(m)'
  BY SameOnce DEF OnceInv, NoneStarts
<1> QED
  BY <1>1 DEF OnceInv, QosRight

\* Every step keeps the invariant.
LEMMA NextOnce ==
    ASSUME TypeOK, Assumptions, OnceInv, [Next]_vars
    PROVE  OnceInv'
<1>1. CASE Reconnect
  BY <1>1, ReconnectOnce
<1>2. CASE Client
  BY <1>2, ClientOnce DEF Client
<1>3. CASE Broker
  <2>1. UNCHANGED clientVars /\ BrokerNext
    BY <1>3 DEF Broker
  <2>2. CASE BrokerCloses \/ LinkBreaks
    BY <2>1, <2>2, CloseOnce DEF BrokerCloses, LinkBreaks
  <2>3. CASE PeerStalls \/ PeerReads
    <3>1. UNCHANGED <<down, inflight, incoming_qos2_messages, accepted, unsent>>
      BY <2>1, <2>3
      DEF PeerStalls, PeerReads, linkVars, sessionVars, clientVars, tableVars, historyVars
    <3> QED
      BY <3>1, QuietOnce
  <2> QED
    BY <2>1, <2>2, <2>3, AnswerOnce, AckedOnce, PublishOnce, RetryOnce DEF BrokerNext
<1>4. CASE UNCHANGED vars
  <2>1. UNCHANGED <<down, inflight, incoming_qos2_messages, accepted, unsent>>
    BY <1>4 DEF vars, linkVars, brokerVars, sessionVars, clientVars, tableVars, historyVars
  <2> QED
    BY <2>1, QuietOnce
<1> QED
  BY <1>1, <1>2, <1>3, <1>4 DEF Next

\* isQoS2msgidFree, useQoS2msgid and freeQoS2msgid in cycle(): a message sent
\* with QoS 2 is handed to deliverMessage at most once, however often its
\* PUBLISH and PUBREL are repeated, whatever the client fails to send, whatever
\* its handlers call, and over every number of connections.
THEOREM Qos2AtMostOnceHolds == Spec => []Qos2AtMostOnce
<1>. USE LinkAssumption, ClientAssumption, BrokerAssumption DEF Assumptions
<1>1. Init => OnceInv
  <2>. SUFFICES ASSUME Init PROVE OnceInv
    OBVIOUS
  <2>1. /\ down = <<>> /\ \A m \in Msgs : accepted[m] = 0
        /\ \A i \in BrokerIds : inflight[i].phase = "free"
    BY DEF Init, LinkInit, ClientInit, BrokerInit, Idle
  <2>2. \A k \in Nat : \A m, i : ~Copy(k, m, i)
    <3>. SUFFICES ASSUME NEW k \in Nat, NEW m, NEW i, Copy(k, m, i)
                 PROVE  FALSE
      OBVIOUS
    <3>1. k \notin DOMAIN down
      BY <2>1
    <3>2. i \in BrokerIds /\ inflight[i] = [msg |-> m, phase |-> "pub"]
      BY <3>1 DEF Copy
    <3>3. inflight[i].phase = "pub"
      BY <3>2
    <3> QED
      BY <2>1, <3>2, <3>3
  <2>3. ASSUME NEW m \in Msgs PROVE OnceOf(m)
    <3>1. accepted[m] = 0
      BY <2>1
    <3> QED
      BY <2>2, <3>1 DEF OnceOf
  <2>4. QosRight
    BY <2>1 DEF QosRight
  <2> QED
    BY <2>3, <2>4 DEF OnceInv
<1>2. TypeOK /\ OnceInv /\ [Next]_vars => OnceInv'
  BY NextOnce
<1>3. OnceInv => Qos2AtMostOnce
  BY DEF OnceInv, OnceOf, Qos2AtMostOnce
<1> QED
  BY <1>1, <1>2, <1>3, TypeCorrect, PTL DEF Spec
=============================================================================
